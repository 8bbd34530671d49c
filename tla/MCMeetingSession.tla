-------------------------- MODULE MCMeetingSession --------------------------
(****************************************************************************)
(* MeetingSession with interchangeable sessions and handlers.               *)
(****************************************************************************)
EXTENDS MeetingSession, TLC

Symmetry == Permutations(Meetings) \cup Permutations(Handlers)
=============================================================================
