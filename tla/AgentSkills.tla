----------------------------- MODULE AgentSkills -----------------------------
(****************************************************************************)
(* The skills of one user in one organization, as the stock agent keeps     *)
(* them: the skill documents, the access record that lists the enabled ids, *)
(* the requests that change both, and an agent thread that loads skills.    *)
(* The two documents are written one after the other and the access record  *)
(* is read, changed in memory and written back whole, so every request is   *)
(* cut where it awaits MongoDB.                                             *)
(*                                                                          *)
(* Every created skill bears the same name, the worst case for its id: the  *)
(* candidates "name", "name-2", ... are the numbers 1, 2, ...               *)
(****************************************************************************)
EXTENDS Naturals, Sequences, FiniteSets, SequencesExt

CONSTANTS
    MaxSkills,      \* bound on the ids
    Requests,       \* requests in flight
    ToolSets,       \* tool sets a skill may be given
    None,
    MaxRequests,    \* bound on the requests ever made
    MaxTurns,       \* bound on the turns of the thread
    MaxFaults       \* bound on requests that die half-way

Ids == 1 .. MaxSkills

VARIABLES
    skill,          \* per id: its document or None
    access,         \* enabled_skill_ids of the access record, None without record
    request,        \* per request: operation, next call and locals
    thread,         \* the agent's state: enabled ids, active skill and its grant
    asked, turns, faults,
    wanted,         \* history: ids whose last enablement write enabled them
    raced,          \* history: ids whose enablement two requests wrote at once
    contents,       \* history: every content a skill has had
    collided        \* history: skills two requests updated at once

skillVars == <<skill, access, request, thread, asked, turns, faults, wanted, raced,
               contents, collided>>

Ops == {"create", "update", "delete", "enable", "disable"}
NoRequest == [op |-> None, pc |-> "idle", id |-> 1, ids |-> None, base |-> 0]
NoThread == [enabled |-> <<>>, active |-> None, loading |-> None, loaded |-> <<>>,
             allowed |-> {}, version |-> 0]
Enabled == IF access = None THEN <<>> ELSE access
Without(ids, id) == SelectSeq(ids, LAMBDA i : i # id)

Goto(r, pc) == request' = [request EXCEPT ![r].pc = pc]
Done(r) == request' = [request EXCEPT ![r] = NoRequest]

Init ==
    /\ skill = [i \in Ids |-> None]
    /\ access = None
    /\ request = [r \in Requests |-> NoRequest]
    /\ thread = NoThread
    /\ asked = 0 /\ turns = 0 /\ faults = 0
    /\ wanted = {} /\ raced = {} /\ contents = {} /\ collided = {}

historyVars == <<wanted, raced, contents, collided>>
boundVars == <<asked, turns, faults>>

-----------------------------------------------------------------------------
(* StockAgentSkillService.                                                  *)

Begin(r) ==
    /\ request[r].pc = "idle" /\ asked < MaxRequests
    /\ asked' = asked + 1
    /\ \E op \in Ops, id \in Ids :
        /\ op = "create" => id = 1
        /\ request' = [request EXCEPT ![r] =
                [NoRequest EXCEPT !.op = op, !.id = id,
                                  !.pc = IF op = "create" THEN "probe" ELSE "require"]]
    /\ UNCHANGED <<skill, access, thread, turns, faults, historyVars>>

\* _generate_skill_id: one query for each candidate.
ProbeId(r) ==
    /\ request[r].pc = "probe"
    /\ IF skill[request[r].id] = None
       THEN Goto(r, "insert")
       ELSE /\ request[r].id < MaxSkills
            /\ request' = [request EXCEPT ![r].id = @ + 1]
    /\ UNCHANGED <<skill, access, thread, boundVars, historyVars>>

Content(id, d) == [id |-> id, born |-> d.born, version |-> d.version, tools |-> d.tools]

\* The unique index refuses an id that was taken since it was probed.
InsertSkill(r) ==
    LET id == request[r].id IN
    /\ request[r].pc = "insert"
    /\ \/ /\ skill[id] = None
          /\ \E tools \in ToolSets :
                LET d == [born |-> Cardinality({c.born : c \in contents}), version |-> 0,
                           tools |-> tools] IN
                /\ skill' = [skill EXCEPT ![id] = d]
                /\ contents' = contents \cup {Content(id, d)}
          /\ wanted' = wanted \ {id}
       \/ skill[id] # None /\ UNCHANGED <<skill, contents, wanted>>
    /\ Done(r)
    /\ UNCHANGED <<access, thread, boundVars, raced, collided>>

\* _require_owned_skill: a missing skill ends the request.
RequireSkill(r) ==
    LET id == request[r].id IN
    /\ request[r].pc = "require"
    /\ IF skill[id] = None THEN Done(r)
       ELSE request' = [request EXCEPT ![r].base = skill[id].version,
                ![r].pc = CASE request[r].op = "update" -> "write_skill"
                            [] request[r].op = "delete" -> "remove"
                            [] OTHER -> "read"]
    /\ UNCHANGED <<skill, access, thread, boundVars, historyVars>>

\* Variant: the version stays.
UpdateSkillSameVersion(r) ==
    LET id == request[r].id IN
    /\ request[r].pc = "write_skill" /\ skill[id] # None
    /\ \E tools \in ToolSets :
            LET d == [skill[id] EXCEPT !.tools = tools] IN
            /\ skill' = [skill EXCEPT ![id] = d]
            /\ contents' = contents \cup {Content(id, d)}
    /\ Done(r)
    /\ UNCHANGED <<access, thread, boundVars, wanted, raced, collided>>

\* The new version follows the one that was read, not the one it replaces.
UpdateSkill(r) ==
    LET id == request[r].id IN
    /\ request[r].pc = "write_skill"
    /\ \/ /\ skill[id] # None
          /\ \E tools \in ToolSets :
                LET d == [skill[id] EXCEPT !.version = request[r].base + 1, !.tools = tools] IN
                /\ skill' = [skill EXCEPT ![id] = d]
                /\ contents' = contents \cup {Content(id, d)}
                /\ collided' = IF skill[id].version = request[r].base THEN collided
                               ELSE collided \cup {d.born}
       \/ skill[id] = None /\ UNCHANGED <<skill, contents, collided>>
    /\ Done(r)
    /\ UNCHANGED <<access, thread, boundVars, wanted, raced>>

RemoveSkill(r) ==
    LET id == request[r].id IN
    /\ request[r].pc = "remove"
    /\ IF skill[id] = None THEN Done(r) /\ UNCHANGED <<skill, wanted>>
       ELSE /\ skill' = [skill EXCEPT ![id] = None]
            /\ wanted' = wanted \ {id}
            /\ Goto(r, "read")
    /\ UNCHANGED <<access, thread, boundVars, raced, contents, collided>>

\* get_by_scope; disable and delete have nothing to do without a record.
ReadAccess(r) ==
    LET req == request[r] IN
    /\ req.pc = "read"
    /\ IF access = None /\ req.op # "enable" THEN Done(r) /\ UNCHANGED wanted
       ELSE IF req.op = "enable" /\ Contains(Enabled, req.id)
       THEN Done(r) /\ wanted' = wanted \cup {req.id}
       ELSE /\ request' = [request EXCEPT ![r].pc = "write", ![r].ids = Enabled]
            /\ UNCHANGED wanted
    /\ UNCHANGED <<skill, access, thread, boundVars, raced, contents, collided>>

\* Variant: deleting a skill leaves the access record alone.
WriteAccessUnpruned(r) ==
    LET req == request[r] IN
    /\ req.pc = "write"
    /\ access' = CASE req.op = "enable" -> Append(req.ids, req.id)
                   [] req.op = "disable" -> Without(req.ids, req.id)
                   [] OTHER -> req.ids
    /\ wanted' = CASE req.op = "enable" -> wanted \cup {req.id}
                   [] req.op = "disable" -> wanted \ {req.id}
                   [] OTHER -> wanted
    /\ Done(r)
    /\ UNCHANGED <<skill, thread, boundVars, raced, contents, collided>>

\* upsert_enabled_skills with the list read before: what another request
\* wrote in between is undone.
WriteAccess(r) ==
    LET req == request[r]
        undone == {i \in Ids : Contains(Enabled, i) # Contains(req.ids, i)}
        late == \/ req.op = "enable" /\ skill[req.id] = None
                \/ req.op = "delete" /\ skill[req.id] # None
    IN
    /\ req.pc = "write"
    /\ access' = IF req.op = "enable" THEN Append(req.ids, req.id)
                                      ELSE Without(req.ids, req.id)
    /\ wanted' = CASE req.op = "enable" -> wanted \cup {req.id}
                   [] req.op = "disable" -> wanted \ {req.id}
                   [] OTHER -> wanted
    /\ raced' = raced \cup undone \cup (IF late THEN {req.id} ELSE {})
    /\ Done(r)
    /\ UNCHANGED <<skill, thread, boundVars, contents, collided>>

\* The request dies; a deletion may have removed the skill and not pruned its id.
RequestDies(r) ==
    /\ request[r].pc # "idle" /\ faults < MaxFaults
    /\ faults' = faults + 1
    /\ raced' = IF request[r].op = "delete" /\ request[r].pc \in {"read", "write"}
                THEN raced \cup {request[r].id} ELSE raced
    /\ Done(r)
    /\ UNCHANGED <<skill, access, thread, asked, turns, wanted, contents, collided>>

\* list_skills with its filter: an enabled id without a document is not listed.
ListSkills(filter) ==
    LET owned == {i \in Ids : skill[i] # None}
    IN  CASE filter = "enabled"  -> owned \cap ToSet(Enabled)
          [] filter = "disabled" -> owned \ ToSet(Enabled)
          [] OTHER               -> owned

-----------------------------------------------------------------------------
(* The agent thread.                                                        *)

\* StockAgentSkillAccessResolver: the known ids, in the record's order.  An
\* empty list does not filter the query, and nothing remains of it either.
KnownIds(ids) == SelectSeq(ids, LAMBDA i : skill[i] # None)

\* The payload of a new turn: the enabled skills, and none loaded.
BeginTurn ==
    /\ turns < MaxTurns
    /\ turns' = turns + 1
    /\ thread' = [NoThread EXCEPT !.enabled = KnownIds(Enabled)]
    /\ UNCHANGED <<skill, access, request, asked, faults, historyVars>>

\* load_skill checks the thread, then the access record, then fetches the
\* skill.
LoadSkill ==
    /\ turns > 0 /\ thread.loading = None
    /\ \E id \in ToSet(thread.enabled) :
        /\ Contains(Enabled, id)
        /\ thread' = [thread EXCEPT !.loading = id]
    /\ UNCHANGED <<skill, access, request, boundVars, historyVars>>

\* Variant: a second skill is granted on top of the first.
FetchSkillOnTop ==
    LET id == thread.loading IN
    /\ id # None /\ skill[id] # None
    /\ thread' = [thread EXCEPT !.loading = None, !.active = id,
                    !.allowed = @ \cup skill[id].tools, !.version = skill[id].version]
    /\ UNCHANGED <<skill, access, request, boundVars, historyVars>>

FetchSkill ==
    LET id == thread.loading IN
    /\ id # None
    /\ thread' = IF skill[id] = None THEN [thread EXCEPT !.loading = None]
                 ELSE [thread EXCEPT !.loading = None, !.active = id,
                    !.loaded = IF Contains(@, id) THEN @ ELSE Append(@, id),
                    !.allowed = skill[id].tools, !.version = skill[id].version]
    /\ UNCHANGED <<skill, access, request, boundVars, historyVars>>

Handle(r) ==
    \/ Begin(r) \/ ProbeId(r) \/ InsertSkill(r) \/ RequireSkill(r) \/ UpdateSkill(r)
    \/ RemoveSkill(r) \/ ReadAccess(r) \/ WriteAccess(r) \/ RequestDies(r)

Next ==
    \/ \E r \in Requests : Handle(r)
    \/ BeginTurn \/ LoadSkill \/ FetchSkill

Spec == Init /\ [][Next]_skillVars

-----------------------------------------------------------------------------
TypeOK ==
    /\ \A i \in Ids : skill[i] = None \/ (skill[i].born \in Nat /\ skill[i].version \in Nat
                                          /\ skill[i].tools \in ToolSets)
    /\ access = None \/ access \in Seq(Ids)
    /\ \A r \in Requests : request[r].op \in Ops \cup {None} /\ request[r].id \in Ids
    /\ ToSet(thread.enabled) \cup ToSet(thread.loaded) \subseteq Ids
    /\ thread.active \in Ids \cup {None}
    /\ wanted \cup raced \subseteq Ids

\* A skill is enabled exactly when the last request about its enablement
\* enabled it, and a skill created under the id of a deleted one starts
\* disabled, as create_skill answers.  Excepted are ids whose requests raced on
\* the access record, and a deletion between its two writes.
EnablementFollowsRequests ==
    \A id \in {i \in Ids : skill[i] # None} \ raced :
        \/ Contains(Enabled, id) <=> id \in wanted
        \/ \E r \in Requests : request[r].op = "delete" /\ request[r].id = id
                               /\ request[r].pc \in {"read", "write"}

\* Two contents of one skill never bear the same version, unless two updates
\* of it overlapped.
VersionTellsContent ==
    \A c, d \in contents :
        c.born = d.born /\ c.version = d.version /\ c.born \notin collided => c.tools = d.tools

\* What the model may use is what one stored version of the active skill
\* grants, and the active skill was offered to this turn; whatever was updated,
\* disabled or deleted between the reads of load_skill.
GrantIsOneSkills ==
    IF thread.active = None THEN thread.allowed = {}
    ELSE /\ Contains(thread.enabled, thread.active)
         /\ \E c \in contents : c.id = thread.active /\ c.version = thread.version
                                /\ c.tools = thread.allowed
=============================================================================
