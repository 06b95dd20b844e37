------------------------------- MODULE UwsJobs -------------------------------
(***************************************************************************)
(* What the job resource promises a client, without saying how: a job      *)
(* moves through the phases of UWS in their order and never back, a result *)
(* can be collected from the moment the job says COMPLETED until it is     *)
(* destroyed and at no other time, and a job that was committed comes to   *)
(* an end.                                                                 *)
(***************************************************************************)
EXTENDS JobPhases

CONSTANT Jobs

VARIABLES
  phase,        \* each job's phase; "ABSENT" before it, "DESTROYED" after it
  collectable   \* the jobs whose result the service would serve

vars == <<phase, collectable>>

Moves(j, from, to) ==
  /\ phase[j] \in from
  /\ phase' = [phase EXCEPT ![j] = to]

Accept(j) == Moves(j, {"ABSENT"}, "PENDING") /\ UNCHANGED collectable
Commit(j) == Moves(j, TakenIn.queue, LeadsTo.queue) /\ UNCHANGED collectable

Begin(j) == Moves(j, TakenIn.start, LeadsTo.start) /\ UNCHANGED collectable

\* Nothing but an executing job succeeds or fails, and the result is there at once.
Succeed(j) ==
  /\ Moves(j, {"EXECUTING"}, LeadsTo.complete)
  /\ collectable' = collectable \cup {j}

GiveUp(j) == Moves(j, {"EXECUTING"}, LeadsTo.fail) /\ UNCHANGED collectable
Cancel(j) == Moves(j, TakenIn.abort, LeadsTo.abort) /\ UNCHANGED collectable

\* Several jobs may go together, in whatever phase they are, and their results with them.
Destroy(S) ==
  /\ \A j \in S : phase[j] \in Phases
  /\ phase' = [j \in Jobs |-> IF j \in S THEN "DESTROYED" ELSE phase[j]]
  /\ collectable' = collectable \ S

Init ==
  /\ phase = [j \in Jobs |-> "ABSENT"]
  /\ collectable = {}

Next ==
  \/ \E j \in Jobs : \/ Accept(j) \/ Commit(j) \/ Begin(j)
                     \/ Succeed(j) \/ GiveUp(j) \/ Cancel(j)
  \/ \E S \in SUBSET Jobs : Destroy(S)

Spec == Init /\ [][Next]_vars

\* A committed job ends, or is destroyed first.
Settles ==
  \A j \in Jobs :
    phase[j] \in {"QUEUED", "EXECUTING"} ~> phase[j] \in Terminal \cup {"DESTROYED"}
=============================================================================
