-------------------------------- MODULE Voices --------------------------------
(****************************************************************************)
(* Cloned voices and generated speech of one organization.  A voice lives   *)
(* in three places: its recording in the file storage, the voice at the     *)
(* provider and the row of the database; a speech lives in the storage and  *)
(* in the database, and a streamed one is also told chunk by chunk.  No     *)
(* index decides between two clones of one id.                              *)
(****************************************************************************)
EXTENDS Naturals, Sequences, FiniteSets

CONSTANTS
    VoiceIds,       \* ids of cloned voices
    SystemVoices,   \* ids the provider always speaks with
    Users,
    Admins,         \* users that may use what others made
    Requests,       \* requests in progress at once
    None,
    MaxChunks,      \* bound on the chunks of a speech
    MaxRequests,    \* bound on requests
    MaxFaults       \* bound on failed calls and crashes

VARIABLES
    rows,           \* voices and audio_files, in insertion order
    assets,         \* recordings and speeches in the storage
    cloned,         \* per id: the recording of the provider's voice, or 0
    request,        \* requests in progress
    received,       \* requests received; a request's number names its upload
    told,           \* per request: the events of its stream
    faults,         \* failures so far
    leaked,         \* history: assets whose request failed
    cut             \* history: streams whose last event was lost

voiceVars == <<rows, assets, cloned, request, received, told, faults, leaked, cut>>

Idle == [pc |-> "idle", kind |-> "clone", number |-> 0, user |-> None, voice |-> None,
         row |-> 0, chunks |-> 0, raced |-> FALSE]

At(r, step) == request[r].pc = step
Goto(r, step) == request' = [request EXCEPT ![r].pc = step]
Done(r) == request' = [request EXCEPT ![r] = Idle]
Fault == faults < MaxFaults /\ faults' = faults + 1

Init ==
    /\ rows = <<>>
    /\ assets = {}
    /\ cloned = [v \in VoiceIds |-> 0]
    /\ request = [r \in Requests |-> Idle]
    /\ received = 0
    /\ told = <<>>
    /\ faults = 0
    /\ leaked = {}
    /\ cut = {}

-----------------------------------------------------------------------------
(* What is read.                                                            *)

CanAccess(u, owner) == u \in Admins \/ u = owner

\* find_by_minimax_voice_id: any live row of the id.
Found(v) == {i \in DOMAIN rows : rows[i].kind = "voice" /\ rows[i].voice = v /\ rows[i].live}

\* list_voices, list_audio: everything for an admin, one's own otherwise.
Listed(u, kind) ==
    {i \in DOMAIN rows : rows[i].kind = kind /\ rows[i].live /\ CanAccess(u, rows[i].owner)}

\* synthesize: the provider knows its own voices and those cloned.
Speaks(v) == v \in SystemVoices \/ (v \in VoiceIds /\ cloned[v] # 0)

-----------------------------------------------------------------------------
(* Requests.                                                                *)

Receive(r, call) ==
    /\ At(r, "idle")
    /\ received < MaxRequests /\ received' = received + 1
    /\ request' = [request EXCEPT ![r] = [call EXCEPT !.number = received + 1]]
    /\ told' = Append(told, <<>>)
    /\ UNCHANGED <<rows, assets, cloned, faults, leaked, cut>>

\* clone_voice: the id must be free in the database.  A clone is raced if
\* another clone of its id is in progress, or a deletion that is yet to ask the
\* provider.
BeginClone(r) ==
    \E u \in Users, v \in {v \in VoiceIds : Found(v) = {}} :
        LET others == {q \in Requests : request[q].voice = v
                                        /\ (request[q].kind = "clone" \/ At(q, "unclone"))}
        IN  /\ At(r, "idle")
            /\ received < MaxRequests /\ received' = received + 1
            /\ request' = [q \in Requests |->
                IF q = r
                THEN [Idle EXCEPT !.pc = "upload", !.number = received + 1, !.user = u,
                                  !.voice = v, !.raced = others # {}]
                ELSE [request[q] EXCEPT !.raced = @ \/ q \in others]]
            /\ told' = Append(told, <<>>)
            /\ UNCHANGED <<rows, assets, cloned, faults, leaked, cut>>

\* delete_voice and delete_audio, of a row the caller finds and may use.
BeginDelete(r) ==
    \E u \in Users : \E i \in Listed(u, "voice") \cup Listed(u, "audio") :
        Receive(r, [Idle EXCEPT !.pc = "soft", !.kind = "delete", !.user = u, !.row = i,
                    !.voice = IF rows[i].kind = "voice" THEN rows[i].voice ELSE None])

\* generate_audio, or a stream, which starts with an event.
BeginSpeech(r) ==
    \E u \in Users, v \in VoiceIds \cup SystemVoices, kind \in {"generate", "stream"} :
        Receive(r, [Idle EXCEPT !.pc = IF kind = "stream" THEN "start" ELSE "access",
                    !.kind = kind, !.user = u, !.voice = v])

\* Events of a stream, by its number.
Tell(r, event) == told' = [told EXCEPT ![request[r].number] = Append(@, event)]

\* An exception ends the request; a stream tells it.
Raise(r) ==
    IF request[r].kind = "stream" THEN Done(r) /\ Tell(r, [event |-> "error", arg |-> 0])
    ELSE Done(r) /\ UNCHANGED told

-----------------------------------------------------------------------------
(* Clones.                                                                  *)

\* The upload of a recording or of a finished speech.
Upload(r) ==
    /\ At(r, "upload")
    /\ assets' = assets \cup {request[r].number}
    /\ Goto(r, IF request[r].kind = "clone" THEN "provide" ELSE "insert")
    /\ UNCHANGED <<rows, cloned, received, told, faults, leaked, cut>>

\* upload_file and clone_voice.  The provider accepts an id it has, or not; an
\* answer that is lost leaves the voice behind.
Provide(r) ==
    /\ At(r, "provide")
    /\ \/ /\ cloned' = [cloned EXCEPT ![request[r].voice] = request[r].number]
          /\ \/ Goto(r, "insert") /\ UNCHANGED faults
             \/ Goto(r, "cleanup") /\ Fault
       \/ /\ \/ cloned[request[r].voice] # 0 /\ UNCHANGED faults
             \/ Fault
          /\ Goto(r, "cleanup") /\ UNCHANGED cloned
    /\ UNCHANGED <<rows, assets, received, told, leaked, cut>>

\* _safe_cleanup_source_audio, after a MiniMaxAPIError only.
Cleanup(r) ==
    /\ At(r, "cleanup")
    /\ \/ assets' = assets \ {request[r].number} /\ UNCHANGED <<faults, leaked>>
       \/ Fault /\ leaked' = leaked \cup {request[r].number} /\ UNCHANGED assets
    /\ Done(r)
    /\ UNCHANGED <<rows, cloned, received, told, cut>>

\* The row of a voice or of a speech.
Insert(r) ==
    /\ At(r, "insert")
    /\ rows' = Append(rows, [kind |-> IF request[r].kind = "clone" THEN "voice" ELSE "audio",
                             voice |-> request[r].voice, owner |-> request[r].user,
                             asset |-> request[r].number, chunks |-> request[r].chunks,
                             live |-> TRUE, raced |-> request[r].raced])
    /\ IF request[r].kind = "stream"
       THEN request' = [request EXCEPT ![r].pc = "complete", ![r].row = Len(rows) + 1]
       ELSE Done(r)
    /\ UNCHANGED <<assets, cloned, received, told, faults, leaked, cut>>

-----------------------------------------------------------------------------
(* Deletions: the row first, then the provider's voice, then the file.      *)

SoftDelete(r) ==
    /\ At(r, "soft")
    /\ rows' = [rows EXCEPT ![request[r].row].live = FALSE]
    /\ IF ~rows[request[r].row].live THEN Done(r)
       ELSE Goto(r, IF rows[request[r].row].kind = "voice" THEN "unclone" ELSE "remove")
    /\ UNCHANGED <<assets, cloned, received, told, faults, leaked, cut>>

\* The provider refuses an id it does not have.
Unclone(r) ==
    /\ At(r, "unclone")
    /\ cloned' = [cloned EXCEPT ![request[r].voice] = 0]
    /\ IF Speaks(request[r].voice) THEN Goto(r, "remove") /\ UNCHANGED leaked
       ELSE Done(r) /\ leaked' = leaked \cup {rows[request[r].row].asset}
    /\ UNCHANGED <<rows, assets, received, told, faults, cut>>

\* A file that is gone already is as good.
RemoveAsset(r) ==
    /\ At(r, "remove")
    /\ assets' = assets \ {rows[request[r].row].asset}
    /\ Done(r)
    /\ UNCHANGED <<rows, cloned, received, told, faults, leaked, cut>>

-----------------------------------------------------------------------------
(* Speech.                                                                  *)

EmitStarted(r) ==
    /\ At(r, "start")
    /\ Tell(r, [event |-> "started", arg |-> 0])
    /\ Goto(r, "access")
    /\ UNCHANGED <<rows, assets, cloned, received, faults, leaked, cut>>

\* _validate_voice_access: a cloned voice of the organization the user may
\* use, or else a system voice.
ValidateVoiceAccess(r) ==
    /\ At(r, "access")
    /\ \/ /\ \E i \in Found(request[r].voice) : CanAccess(request[r].user, rows[i].owner)
          /\ Goto(r, "speak") /\ UNCHANGED told
       \/ /\ \E i \in Found(request[r].voice) : ~CanAccess(request[r].user, rows[i].owner)
          /\ Raise(r)
       \/ /\ Found(request[r].voice) = {}
          /\ IF request[r].voice \in SystemVoices
             THEN Goto(r, "speak") /\ UNCHANGED told
             ELSE Raise(r)
    /\ UNCHANGED <<rows, assets, cloned, received, faults, leaked, cut>>

\* synthesize_stream: a chunk that is not empty is kept and told with its
\* sequence number.
SpeakChunk(r) ==
    /\ At(r, "speak") /\ request[r].kind = "stream" /\ request[r].chunks < MaxChunks
    /\ Speaks(request[r].voice)
    /\ request' = [request EXCEPT ![r].chunks = @ + 1]
    /\ Tell(r, [event |-> "chunk", arg |-> request[r].chunks + 1])
    /\ UNCHANGED <<rows, assets, cloned, received, faults, leaked, cut>>

\* The end of the stream, or the answer of synthesize_sync.  Nothing spoken, or
\* a voice that is gone, is an error.
EndSpeech(r) ==
    /\ At(r, "speak")
    /\ IF Speaks(request[r].voice) /\ (request[r].kind = "stream" => request[r].chunks > 0)
       THEN Goto(r, "upload") /\ UNCHANGED told
       ELSE Raise(r)
    /\ UNCHANGED <<rows, assets, cloned, received, faults, leaked, cut>>

\* After the row is stored.
EmitCompleted(r) ==
    /\ At(r, "complete")
    /\ Tell(r, [event |-> "completed", arg |-> request[r].row])
    /\ Done(r)
    /\ UNCHANGED <<rows, assets, cloned, received, faults, leaked, cut>>

\* A call raises, or the process dies and a stream's end is not told.  What was
\* uploaded or not yet removed stays, an upload whose answer is unusable too; a
\* signed URL that is not made leaves the row.
RequestFails(r) ==
    /\ request[r].pc \notin {"idle", "provide", "cleanup"} /\ Fault
    /\ assets' \in {assets, assets \cup {n \in {request[r].number} : At(r, "upload")}}
    /\ leaked' = leaked \cup
        CASE At(r, "upload") \/ At(r, "insert") -> {request[r].number}
          [] At(r, "unclone") \/ At(r, "remove") -> {rows[request[r].row].asset}
          [] OTHER -> {}
    /\ \/ Raise(r) /\ UNCHANGED cut
       \/ /\ Done(r) /\ UNCHANGED told
          /\ cut' = cut \cup {n \in {request[r].number} : request[r].kind = "stream"}
    /\ UNCHANGED <<rows, cloned, received>>

Next ==
    \E r \in Requests :
        \/ BeginClone(r) \/ BeginDelete(r) \/ BeginSpeech(r)
        \/ Upload(r) \/ Provide(r) \/ Cleanup(r) \/ Insert(r)
        \/ SoftDelete(r) \/ Unclone(r) \/ RemoveAsset(r)
        \/ EmitStarted(r) \/ ValidateVoiceAccess(r) \/ SpeakChunk(r) \/ EndSpeech(r)
        \/ EmitCompleted(r) \/ RequestFails(r)
Spec == Init /\ [][Next]_voiceVars

-----------------------------------------------------------------------------
Steps == {"idle", "upload", "provide", "cleanup", "insert", "soft", "unclone", "remove",
          "start", "access", "speak", "complete"}

\* Type invariant.
TypeOK ==
    /\ \A i \in DOMAIN rows :
        /\ rows[i].kind \in {"voice", "audio"} /\ rows[i].owner \in Users
        /\ rows[i].voice \in VoiceIds \cup SystemVoices
        /\ rows[i].asset \in 1 .. received /\ rows[i].chunks \in 0 .. MaxChunks
    /\ assets \subseteq 1 .. received /\ leaked \subseteq 1 .. received
    /\ cloned \in [VoiceIds -> 0 .. received]
    /\ \A r \in Requests :
        request[r].pc \in Steps /\ request[r].number \in 0 .. received
    /\ Len(told) = received

\* A listed voice or speech has its file, and a listed voice its voice at the
\* provider, made from its own recording; unless its clone was raced.
RowsHaveTheirFiles ==
    \A i \in DOMAIN rows : rows[i].live =>
        /\ rows[i].asset \in assets
        /\ rows[i].kind = "voice" /\ ~rows[i].raced => cloned[rows[i].voice] = rows[i].asset

\* A file nobody can list belongs to a request in progress, or to one that
\* failed, or whose voice the provider did not have: cleanup and deletion forget
\* no other.
NoFileForgotten ==
    \A a \in assets \ leaked :
        \/ \E i \in DOMAIN rows : rows[i].asset = a /\
            (rows[i].live \/ \E r \in Requests : request[r].kind = "delete" /\ request[r].row = i)
        \/ \E r \in Requests : request[r].number = a

\* A stream tells its start, its chunks in order and then one outcome; the
\* speech it calls completed is stored, with every chunk told and at least one.
StreamsTellTheirOutcome ==
    \A n \in 1 .. received :
        LET s == told[n]
            last == s[Len(s)]
            over == s # <<>> /\ last.event \in {"completed", "error"}
        IN  /\ \A k \in 1 .. Len(s) - 1 :
                s[k] = IF k = 1 THEN [event |-> "started", arg |-> 0]
                       ELSE [event |-> "chunk", arg |-> k - 1]
            /\ s # <<>> /\ last.event = "completed" =>
                rows[last.arg].asset = n /\ rows[last.arg].chunks = Len(s) - 2 /\ Len(s) > 2
            /\ s # <<>> => over \/ n \in cut \/ \E r \in Requests : request[r].number = n
=============================================================================
