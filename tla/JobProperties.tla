---------------------------- MODULE JobProperties ----------------------------
(***************************************************************************)
(* What is claimed of the jobs of one process, and the mapping under which *)
(* the runner implements the promise of UwsJobs.                           *)
(***************************************************************************)
EXTENDS JobRunner

\* Every variable holds what it should, for every reachable state of Spec.
TypeOK ==
  /\ record \in [Jobs -> Record]
  /\ creation \in [Jobs -> {"unused", "created", "holding", "held", "issued", "failed"}]
  /\ owes \in [Jobs -> SUBSET {"stop", "delete", "remove"}]
  /\ holding \in [Jobs -> SUBSET (SUBSET Items)]
  /\ held \in [Jobs -> SUBSET Items]
  /\ uploads \subseteq Jobs \X Tables
  /\ task \in [Jobs -> TaskStates]
  /\ ending \in [Jobs -> {"none", "done", "failed", "cancelled", "clock"}]
  /\ work \in [Jobs -> Live \cup {"none", "done", "failed", "cancelled"}]
  /\ given \in [Jobs -> SUBSET Items]
  /\ running \subseteq Jobs
  /\ partial \in [Jobs -> {"none", "creating", "written", "orphaned", "stray"}]
  /\ files \subseteq Jobs
  /\ doomed \in [Sweepers -> SUBSET (Jobs \X BOOLEAN)]

\* A job that says COMPLETED has a whole answer under its own name: nobody removes the
\* file of a job while its record still names it, whoever destroys, sheds or expires what
\* (Runner::finish, Runner::reclaim, Runner::expire, destroyed).
ResultIsThere == Completed \subseteq files

\* Somebody has taken the job's record out and is about to remove its answer: the request
\* that destroyed it, or a sweep.
Clearing(j) ==
  \/ "remove" \in owes[j]
  \/ \E s \in Sweepers : <<j, TRUE>> \in doomed[s]

\* An answer on disk belongs to somebody: to the record that names it, to the task that has
\* yet to record it or was just refused, or to whoever is clearing it.  None is left behind
\* by a job destroyed, shed or expired while its task was finishing (Runner::finish,
\* Runner::reclaim, Runner::expire, destroyed).
AnswerHasAnOwner ==
  \A j \in files : j \in Completed \/ task[j] \in {"kept", "refused"} \/ Clearing(j)

\* A run that is over leaves no half-written answer, however it ended and whoever
\* interrupted it, unless its creation was still to land (Runner::finish, Results::abandon).
NothingHalfWritten ==
  \A j \in Jobs : task[j] = "over" => partial[j] # "written"

\* Work never runs without a slot, abort and clock included: a slot is given back only once
\* the work it was taken for is really over (Runner::execute waits for what it aborts).
WorkWithinSlots == Cardinality(Working) <= MaxRunning

\* While a job executes and nobody is destroying it, the tables it was started with are on
\* disk for it to read (Runner::stop removes them, and who calls it when decides this).
TablesStayForTheRun ==
  \A j \in Jobs :
    /\ record[j].phase = "EXECUTING"
    /\ "delete" \notin owes[j]
    /\ work[j] = "running"
    => {j} \X (given[j] \cap Tables) \subseteq uploads

\* The results held fit the quota, but for a completion whose sweep is still to come.
QuotaHolds ==
  (\A j \in Jobs : task[j] # "reclaiming") => Bytes(Completed) <= Quota

\* A sweep for the quota takes the oldest results, leaves everything newer, and takes no
\* more than it must (MemoryJobStore::shed).
ShedsOldestOnly ==
  [][\A s \in Jobs :
       (task[s] = "reclaiming" /\ task'[s] = "sweeping")
       => LET shed == Completed \ Completed' IN
          /\ \A gone \in shed, left \in Completed' : gone \in record[left].older
          /\ shed # {} => \E last \in shed : Bytes(Completed' \cup {last}) > Quota]_vars

\* A job that ended stays as it ended until it is destroyed, and one that is destroyed does
\* not come back, whatever a task that was still finishing asks of the store (Job::apply).
EndsOnce ==
  [][\A j \in Jobs :
       /\ record[j].phase \in Terminal => record'[j].phase \in {record[j].phase, "NONE"}
       /\ creation[j] # "unused" /\ j \notin Stored => j \notin Stored']_vars

\* A run that took a slot gives it back (Runner::execute).
SlotsComeBack == \A j \in Jobs : task[j] \in Executing ~> task[j] = "over"

\* An answer put in place is named by a record or removed in the end: no file is left over
\* by a destroyed, shed or refused job (Runner::finish, Runner::reclaim, destroyed).
OrphansGo ==
  \A j \in Jobs : (j \in files \ Completed) ~> (j \notin files \ Completed)

\* A job past its destruction time goes, unless the time is moved (the timer in main).
OverdueGoes == \A j \in Jobs : record[j].due ~> ~record[j].due

-----------------------------------------------------------------------------
(* The promise to clients.                                                 *)

UwsPhase(j) ==
  IF creation[j] = "unused" THEN "ABSENT"
  ELSE IF record[j].phase = "NONE" THEN "DESTROYED" ELSE record[j].phase

Uws == INSTANCE UwsJobs WITH
         phase <- [j \in Jobs |-> UwsPhase(j)],
         collectable <- Completed \cap files

\* The runner implements UwsJobs: every step of a handler, a task or a sweep is one a client
\* was promised, or none that a client can see (Job::apply and the order in which finish,
\* destroyed and the sweeps touch the store and the files).
ImplementsUws == Uws!Spec

\* Under the executor's fairness a job that was committed comes to an end or is destroyed,
\* whatever becomes of its task, of its work and of the job it waits behind for the slot
\* (Runner::execute).
CommittedSettles == Uws!Settles

-----------------------------------------------------------------------------
(* Why they hold: an inductive invariant that ties a job's record to where its *)
(* execute task is and to what others still owe it.                            *)

\* The work is spawned and not yet seen to be over.
AtWork == {"launched", "watching", "expiring"}

\* The task's answer is in place and recorded, or there never will be one.
Settled == {"reclaiming", "sweeping", "stopping", "over"}

\* There is no job and no task before the job is created.
NothingBeforeCreation ==
  \A j \in Jobs : creation[j] = "unused" => record[j].phase = "NONE" /\ task[j] = "none"

\* A job waits with its task: neither has moved without the other.
WaitsWithItsTask ==
  \A j \in Jobs :
    /\ record[j].phase = "PENDING" => task[j] = "none"
    /\ record[j].phase = "QUEUED" => task[j] = "queued"

\* The answer is in place from before it is recorded, and its record from then on.
AnswerBeforeRecord ==
  \A j \in Jobs :
    /\ task[j] = "kept" => j \in files
    /\ record[j].phase = "COMPLETED" => j \in files /\ task[j] \in Settled

\* Whoever is to remove a recorded answer has taken the record out first, and the task that
\* recorded it is past everything but its own stop.
Cleared(j) ==
  /\ record[j].phase = "NONE"
  /\ creation[j] # "unused"
  /\ task[j] \in Settled

RecordBeforeAnswer ==
  /\ \A j \in Jobs : "remove" \in owes[j] => Cleared(j)
  /\ \A s \in Sweepers, j \in Jobs : <<j, TRUE>> \in doomed[s] => Cleared(j)

\* A task that still has records to clear is at it.
SweepsInItsTurn == \A j \in Jobs : doomed[j] # {} => task[j] = "sweeping"

\* The work runs, and writes, only between its spawn and its end being seen.
WorkInItsTask ==
  \A j \in Jobs :
    /\ work[j] \in Live => task[j] \in AtWork
    /\ partial[j] = "creating" => work[j] \in Live
    /\ partial[j] = "written" => task[j] \in AtWork \cup {"ended"}

SlotsNotExceeded == Cardinality(SlotHolders) <= MaxRunning

\* The completed jobs stand in one order, the one they ended in, and a job that ended before
\* one of them is completed still or gone.
EndedInOrder ==
  /\ \A j \in Completed : \A k \in record[j].older :
       creation[k] # "unused" /\ record[k].phase \in {"COMPLETED", "NONE"}
  /\ \A j \in Completed : j \notin record[j].older
  /\ \A j, k \in Completed : j = k \/ j \in record[k].older \/ k \in record[j].older
  /\ \A j, k, l \in Completed :
       j \in record[k].older /\ k \in record[l].older => j \in record[l].older

\* There was such a job, and there is no record of it any more.
Gone(j) == record[j].phase = "NONE" /\ creation[j] # "unused"

\* Whoever has still to stop a job has ended it or taken its record out first.
StoppedForGood ==
  /\ \A j \in Jobs : "stop" \in owes[j] => Gone(j) \/ record[j].phase \in Terminal
  /\ \A s \in Sweepers, j \in Jobs, product \in BOOLEAN :
       <<j, product>> \in doomed[s] => Gone(j)

\* What is held for a job and what is about to be are different items, and the tables among
\* them are on disk.
KeptOnDisk ==
  \A j \in Jobs :
    /\ \A S \in holding[j] : S \cap held[j] = {}
    /\ \A S, T \in holding[j] : S = T \/ S \cap T = {}
    /\ \A i \in held[j] \cap Tables : <<j, i>> \in uploads
    /\ \A S \in holding[j] : \A i \in S \cap Tables : <<j, i>> \in uploads

\* What a run was given is held for as long as it may need it.
GivenIsHeld ==
  \A j \in Jobs :
    /\ record[j].phase = "EXECUTING"
    /\ "delete" \notin owes[j]
    /\ work[j] = "running"
    => given[j] \subseteq held[j]

\* Together: a record's phase says where its task can be, a task's place says which files
\* there are, and whoever is to remove a file has the record that named it; the completed
\* jobs are in order, which is what the quota goes by; and what a run was given is held and
\* on disk until somebody who may do so stops it (what Runner::execute, Runner::finish,
\* Runner::hold and the sweeps keep between any two of their steps).
IInv ==
  /\ TypeOK
  /\ NothingBeforeCreation
  /\ WaitsWithItsTask
  /\ AnswerBeforeRecord
  /\ RecordBeforeAnswer
  /\ AnswerHasAnOwner
  /\ SweepsInItsTurn
  /\ WorkInItsTask
  /\ SlotsNotExceeded
  /\ EndedInOrder
  /\ QuotaHolds
  /\ StoppedForGood
  /\ KeptOnDisk
  /\ GivenIsHeld
=============================================================================
