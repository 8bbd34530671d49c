-------------------------- MODULE MeetingNoteLedger --------------------------
(****************************************************************************)
(* What the incremental notes of one meeting promise: its utterances are    *)
(* consumed in order, in batches of BatchSize that start right after the    *)
(* last one, with one shorter batch once the meeting has ended; a note      *)
(* chunk covers exactly one such batch, and no batch beyond the next one    *)
(* has a chunk.                                                             *)
(****************************************************************************)
EXTENDS Naturals

CONSTANT BatchSize   \* a positive number

VARIABLES
    spoken,   \* number of utterances closed so far
    ended,
    done,     \* number of utterances consumed
    chunks    \* note chunks, as pairs of first and last sequence

vars == <<spoken, ended, done, chunks>>

\* from .. to is a full batch, or the tail of a meeting that has ended.
IsBatch(from, to) ==
    /\ \E k \in 0 .. spoken : from = BatchSize * k + 1
    /\ to <= spoken
    /\ \/ to = from + BatchSize - 1
       \/ ended /\ to = spoken /\ from <= to /\ to < from + BatchSize

Init ==
    /\ spoken = 0
    /\ ended = FALSE
    /\ done = 0
    /\ chunks = {}

Speak ==
    /\ ~ended
    /\ spoken' = spoken + 1
    /\ UNCHANGED <<ended, done, chunks>>

End ==
    /\ ~ended
    /\ ended' = TRUE
    /\ UNCHANGED <<spoken, done, chunks>>

\* The notes of a batch whose predecessors are consumed.
Write ==
    /\ \E from, to \in 1 .. spoken :
        /\ from <= done + 1
        /\ IsBatch(from, to)
        /\ chunks' = chunks \cup {<<from, to>>}
    /\ UNCHANGED <<spoken, ended, done>>

Consume ==
    /\ \E to \in 1 .. spoken : IsBatch(done + 1, to) /\ done' = to
    /\ UNCHANGED <<spoken, ended, chunks>>

Next == Speak \/ End \/ Write \/ Consume

Spec == Init /\ [][Next]_vars
==============================================================================
