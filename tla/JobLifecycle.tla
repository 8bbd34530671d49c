---------------------------- MODULE JobLifecycle ----------------------------
(****************************************************************************)
(* What a text-to-image job promises to its user: it is claimed at most     *)
(* once, ends once, never leaves a terminal status, carries an output only  *)
(* when it succeeded, and every socket event names a status the job has     *)
(* really reached and is sent at most once.                                 *)
(****************************************************************************)
EXTENDS FiniteSets

CONSTANTS Jobs, Outputs

VARIABLES
    status,      \* status of each job
    output,      \* at most one output per job
    announced    \* statuses announced to the user so far

vars == <<status, output, announced>>

Terminal == {"succeeded", "failed", "cancelled"}

\* The statuses a job went through to reach s.
Reached(s) ==
    {"pending", s} \cup (IF s \in {"succeeded", "failed"} THEN {"processing"} ELSE {})

Init ==
    /\ status = [j \in Jobs |-> "absent"]
    /\ output = [j \in Jobs |-> {}]
    /\ announced = [j \in Jobs |-> {}]

Move(j, from, to) ==
    /\ status[j] = from
    /\ status' = [status EXCEPT ![j] = to]
    /\ UNCHANGED announced

Submit(j) == Move(j, "absent", "pending") /\ UNCHANGED output
Claim(j) == Move(j, "pending", "processing") /\ UNCHANGED output
Cancel(j) == Move(j, "pending", "cancelled") /\ UNCHANGED output
Fail(j) == Move(j, "processing", "failed") /\ UNCHANGED output

Succeed(j) ==
    /\ Move(j, "processing", "succeeded")
    /\ \E o \in Outputs : output' = [output EXCEPT ![j] = {o}]

Announce(j) ==
    /\ status[j] # "absent"
    /\ \E s \in Reached(status[j]) \ announced[j] :
        announced' = [announced EXCEPT ![j] = @ \cup {s}]
    /\ UNCHANGED <<status, output>>

Next ==
    \E j \in Jobs :
        Submit(j) \/ Claim(j) \/ Cancel(j) \/ Fail(j) \/ Succeed(j) \/ Announce(j)

Spec == Init /\ [][Next]_vars
=============================================================================
