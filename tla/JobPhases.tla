------------------------------ MODULE JobPhases ------------------------------
(***************************************************************************)
(* The phases of a UWS job and the table of the changes Job::apply takes.  *)
(* A change is refused (a 403 to whoever asked) unless the job's phase is  *)
(* among those the change is listed with; a job that is not in the store   *)
(* has the phase NONE, which no change is listed with (a 404).             *)
(***************************************************************************)

Phases == {"PENDING", "QUEUED", "EXECUTING", "COMPLETED", "ERROR", "ABORTED"}

\* A terminal phase is never left; the others are the ones a WAIT may block in.
Terminal == {"COMPLETED", "ERROR", "ABORTED"}
Active == Phases \ Terminal

\* Mutant of TakenIn: an aborted job may still complete.
TakenInAborted ==
  [ queue       |-> {"PENDING"},
    start       |-> {"QUEUED"},
    complete    |-> {"QUEUED", "EXECUTING", "ABORTED"},
    fail        |-> {"QUEUED", "EXECUTING"},
    abort       |-> {"PENDING", "QUEUED", "EXECUTING"},
    destruction |-> Phases ]

\* The phases each change is taken in.
TakenIn ==
  [ queue       |-> {"PENDING"},
    start       |-> {"QUEUED"},
    complete    |-> {"QUEUED", "EXECUTING"},
    fail        |-> {"QUEUED", "EXECUTING"},
    abort       |-> {"PENDING", "QUEUED", "EXECUTING"},
    destruction |-> Phases ]

\* The phase each change that moves the job leaves it in.
LeadsTo ==
  [ queue |-> "QUEUED", start |-> "EXECUTING", complete |-> "COMPLETED",
    fail |-> "ERROR", abort |-> "ABORTED" ]
=============================================================================
