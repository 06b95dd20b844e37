------------------------------ MODULE JobRunner ------------------------------
(***************************************************************************)
(* The asynchronous TAP jobs of one process: the in-memory store, the      *)
(* runner with its slots and its two process-local tables (`running`, the  *)
(* abort handles, and `held`, what a job was sent beside its parameters),  *)
(* the files of the results directory, and the request handlers and the    *)
(* destruction timer that drive them.                                      *)
(*                                                                         *)
(* Everything here runs on a multi-threaded executor.  A store call, a     *)
(* table access and a file operation are each atomic (a mutex or one       *)
(* system call), and whatever a handler or a task does between two of      *)
(* them may be interleaved with everybody else: each action below is one   *)
(* such section, and a handler's remaining work is kept in `owes`,         *)
(* `holding`, `creation` or `doomed` until it is done.                     *)
(*                                                                         *)
(* Left out: the parameters themselves, the execution duration (a clock    *)
(* that may fire at any moment while work runs), wall-clock times (only    *)
(* whether a destruction time has passed, and which of two jobs ended      *)
(* first), and the spool beside an answer, which lives and dies with the   *)
(* work that wrote it.                                                     *)
(***************************************************************************)
EXTENDS Naturals, FiniteSets, Functions, JobPhases

CONSTANTS
  Jobs,        \* job ids that may be drawn; each is drawn once, being 128 random bits
  Items,       \* what a request sends beside parameters: credentials and inline tables
  Tables,      \* the items that are inline tables, kept as files
  Sizes,       \* the sizes an answer may have
  MaxRunning,  \* [tap.async] max_running: the slots
  MaxJobs,     \* [tap.async] max_jobs: the records the store holds
  Quota,       \* [tap.async] max_result_bytes_total
  Timer        \* the destruction timer, beside the tasks that sweep for the quota

ASSUME SlotsAssumption == MaxRunning \in Nat \ {0}
ASSUME JobsAssumption == IsFiniteSet(Jobs) /\ Timer \notin Jobs
ASSUME SizesAssumption == Sizes \subseteq Nat /\ Quota \in Nat /\ MaxJobs \in Nat
ASSUME ItemsAssumption == Tables \subseteq Items

VARIABLES
  record,    \* the store: a job's record, or NoJob
  creation,  \* how far the POST /async that drew this id has come
  owes,      \* what requests that already acted on the job have still to do for it
  holding,   \* posts whose tables are on disk and whose items are not yet in `held`
  held,      \* Runner::held: the items kept for the job
  uploads,   \* the upload files on disk, each of one table of one job
  task,      \* where the job's execute task is
  ending,    \* how its run ended, which decides the phase
  work,      \* the task that runs the query and writes the answer
  given,     \* the items that task was started with
  running,   \* Runner::running: the jobs whose abort handle is in the table
  partial,   \* the half-written answer
  files,     \* the answers under their own names
  doomed     \* what each sweeper still has to clear of the records it took out

storeVars == <<record, creation>>
heldVars == <<holding, held, uploads>>
taskVars == <<task, ending>>
workVars == <<work, given, running>>
diskVars == <<partial, files>>
vars == <<storeVars, owes, heldVars, taskVars, workVars, diskVars, doomed>>

-----------------------------------------------------------------------------
(* The store.                                                              *)

\* What a job that is not in the store looks like.
NoJob == [phase |-> "NONE", due |-> FALSE, bytes |-> 0, older |-> {}]

\* `due`: the destruction time has passed.  `bytes`: the product's size, 0 without one.
\* `older`: the completed jobs that ended before this one did.
Record == [phase : Phases \cup {"NONE"}, due : BOOLEAN, bytes : Nat, older : SUBSET Jobs]

Stored == {j \in Jobs : record[j].phase # "NONE"}
Completed == {j \in Jobs : record[j].phase = "COMPLETED"}
Takes(j, change) == record[j].phase \in TakenIn[change]
Move(j, change) == record' = [record EXCEPT ![j].phase = LeadsTo[change]]

Bytes(S) == SumFunctionOnSet([j \in Jobs |-> record[j].bytes], S)

\* Mutants of Shed: one that does not count the job itself, one that begins with the newest.
ShedOneShort == {j \in Completed : Bytes({k \in Completed : j \in record[k].older}) > Quota}
ShedNewest ==
  {j \in Completed : Bytes({k \in Completed : k = j \/ k \in record[j].older}) > Quota}

\* MemoryJobStore::shed: oldest first until what is left fits, so that a job goes exactly
\* when it and everything that ended after it are more than the quota.
Shed == {j \in Completed :
           Bytes({k \in Completed : k = j \/ j \in record[k].older}) > Quota}

Forget(S) == record' = [j \in Jobs |-> IF j \in S THEN NoJob ELSE record[j]]

\* The records a sweep took, as what its loop needs of them: the job, and whether there is
\* a product whose file has to go.
Taken(S) == {<<j, record[j].phase = "COMPLETED">> : j \in S}

-----------------------------------------------------------------------------
(* The runner's tables.                                                    *)

Executing == {"started", "launched", "watching", "expiring", "ended", "kept",
              "abandoned", "refused", "reclaiming", "sweeping", "stopping"}
TaskStates == {"none", "queued", "over"} \cup Executing
Live == {"running", "cancelling"}
Sweepers == Jobs \cup {Timer}
SlotHolders == {j \in Jobs : task[j] \in Executing}
Working == {j \in Jobs : work[j] \in Live}

\* Runner::stop: the handle is taken out and aborted, and what was held is forgotten,
\* files included.  Work that is aborted goes on until it next awaits.
ForgetHeld(j) ==
  /\ held' = [held EXCEPT ![j] = {}]
  /\ uploads' = uploads \ ({j} \X held[j])

Stop(j) ==
  /\ running' = running \ {j}
  /\ work' = [work EXCEPT ![j] = IF j \in running /\ @ = "running"
                                   THEN "cancelling" ELSE @]
  /\ ForgetHeld(j)

Promise(j, step) == owes' = [owes EXCEPT ![j] = @ \cup {step}]
Fulfil(j, step) ==
  /\ step \in owes[j]
  /\ owes' = [owes EXCEPT ![j] = @ \ {step}]

Goto(j, from, to) ==
  /\ task[j] = from
  /\ task' = [task EXCEPT ![j] = to]

-----------------------------------------------------------------------------
(* POST /async: create the record, hold what came with it, perhaps run it. *)

\* MemoryJobStore::create, refused where the store is full.
Create(j) ==
  /\ creation[j] = "unused"
  /\ Cardinality(Stored) < MaxJobs
  /\ record' = [record EXCEPT ![j].phase = "PENDING"]
  /\ creation' = [creation EXCEPT ![j] = "created"]
  /\ UNCHANGED <<owes, heldVars, taskVars, workVars, diskVars, doomed>>

\* The first half of Runner::hold: the tables are written, one file each.  A write that
\* fails returns at once, and a request that is cut off (its deadline, its caller hanging
\* up) is dropped at one: either leaves the files so far where they are, with no entry.
Keep(j, S) ==
  /\ S \cap (held[j] \cup UNION holding[j]) = {}
  /\ uploads \cap ({j} \X S) = {}
  /\ \/ /\ uploads' = uploads \cup ({j} \X (S \cap Tables))
        /\ holding' = [holding EXCEPT ![j] = @ \cup {S}]
     \/ /\ S \cap Tables # {}
        /\ \E T \in SUBSET (S \cap Tables) : uploads' = uploads \cup ({j} \X T)
        /\ UNCHANGED holding

\* The creating request holds what it was sent, which may be nothing.
HoldForCreate(j, S) ==
  /\ creation[j] = "created"
  /\ \/ /\ S = {}
        /\ creation' = [creation EXCEPT ![j] = "held"]
        /\ UNCHANGED <<holding, uploads>>
     \/ /\ S # {}
        /\ Keep(j, S)
        /\ creation' = [creation EXCEPT
                          ![j] = IF holding'[j] = {} THEN "failed" ELSE "holding"]
  /\ UNCHANGED <<record, owes, held, taskVars, workVars, diskVars, doomed>>

\* The second half of Runner::hold: the items join the job's entry, whatever has become
\* of the job in between.
Extend(j, S) ==
  /\ S \in holding[j]
  /\ holding' = [holding EXCEPT ![j] = @ \ {S}]
  /\ held' = [held EXCEPT ![j] = @ \cup S]
  /\ creation' = [creation EXCEPT ![j] = IF @ = "holding" THEN "held" ELSE @]
  /\ UNCHANGED <<record, owes, uploads, taskVars, workVars, diskVars, doomed>>

\* Runner::start: the record is committed and the execute task spawned.
Start(j) ==
  /\ Takes(j, "queue")
  /\ Move(j, "queue")
  /\ task' = [task EXCEPT ![j] = "queued"]

\* A PHASE=RUN among the creating request's parameters; refused, the id is never answered.
RunOnCreate(j) ==
  /\ creation[j] = "held"
  /\ \/ /\ Start(j)
        /\ creation' = [creation EXCEPT ![j] = "issued"]
     \/ /\ ~Takes(j, "queue")
        /\ creation' = [creation EXCEPT ![j] = "failed"]
        /\ UNCHANGED <<record, task>>
  /\ UNCHANGED <<owes, heldVars, ending, workVars, diskVars, doomed>>

\* The 303 that tells the caller the id, without which nobody can name the job.
Issue(j) ==
  /\ creation[j] = "held"
  /\ creation' = [creation EXCEPT ![j] = "issued"]
  /\ UNCHANGED <<record, owes, heldVars, taskVars, workVars, diskVars, doomed>>

-----------------------------------------------------------------------------
(* Requests about a job whose id somebody has been told.                   *)

\* POST /async/{id}/phase, PHASE=RUN.
Run(j) ==
  /\ creation[j] = "issued"
  /\ Start(j)
  /\ UNCHANGED <<creation, owes, heldVars, ending, workVars, diskVars, doomed>>

\* PHASE=ABORT, first the record.
Abort(j) ==
  /\ creation[j] = "issued"
  /\ Takes(j, "abort")
  /\ Move(j, "abort")
  /\ Promise(j, "stop")
  /\ UNCHANGED <<creation, heldVars, taskVars, workVars, diskVars, doomed>>

\* ... and then the task.
AbortStops(j) ==
  /\ Fulfil(j, "stop")
  /\ Stop(j)
  /\ UNCHANGED <<storeVars, holding, taskVars, given, diskVars, doomed>>

\* Mutant of Destroy: the file goes first.
DestroyFileFirst(j) ==
  /\ creation[j] = "issued"
  /\ Stop(j)
  /\ Promise(j, "delete")
  /\ files' = files \ {j}
  /\ UNCHANGED <<storeVars, holding, taskVars, given, partial, doomed>>

\* DELETE /async/{id}: the task is stopped, whether there is a record or not ...
Destroy(j) ==
  /\ creation[j] = "issued"
  /\ Stop(j)
  /\ Promise(j, "delete")
  /\ UNCHANGED <<storeVars, holding, taskVars, given, diskVars, doomed>>

\* Mutant of DestroyDeletes: the product is forgotten with the record.
DestroyDeletesRecordOnly(j) ==
  /\ Fulfil(j, "delete")
  /\ Forget({j})
  /\ UNCHANGED <<creation, heldVars, taskVars, workVars, diskVars, doomed>>

\* ... then the record goes, and if it had a product ...
DestroyDeletes(j) ==
  /\ "delete" \in owes[j]
  /\ owes' = [owes EXCEPT ![j] = (@ \ {"delete"})
                \cup IF record[j].phase = "COMPLETED" THEN {"remove"} ELSE {}]
  /\ Forget({j})
  /\ UNCHANGED <<creation, heldVars, taskVars, workVars, diskVars, doomed>>

\* ... so does the file.
DestroyRemoves(j) ==
  /\ Fulfil(j, "remove")
  /\ files' = files \ {j}
  /\ UNCHANGED <<storeVars, heldVars, taskVars, workVars, partial, doomed>>

\* POST /async/{id}/parameters with items.  A parameter among them is refused unless the
\* job is PENDING; the items are not, and a post may carry nothing else.
PostParameters(j, S) ==
  /\ creation[j] = "issued"
  /\ S # {}
  /\ Keep(j, S)
  /\ UNCHANGED <<storeVars, owes, held, taskVars, workVars, diskVars, doomed>>

\* POST /async/{id}/destruction: any instant up to the ceiling, past ones included.
SetDestruction(j, past) ==
  /\ creation[j] = "issued"
  /\ Takes(j, "destruction")
  /\ record' = [record EXCEPT ![j].due = past]
  /\ UNCHANGED <<creation, owes, heldVars, taskVars, workVars, diskVars, doomed>>

-----------------------------------------------------------------------------
(* Destruction by the clock.                                               *)

TimePasses(j) ==
  /\ j \in Stored
  /\ ~record[j].due
  /\ record' = [record EXCEPT ![j].due = TRUE]
  /\ UNCHANGED <<creation, owes, heldVars, taskVars, workVars, diskVars, doomed>>

\* Mutant of Expire: only jobs that ended are swept.
ExpireEnded ==
  LET expired == {j \in Stored : record[j].due /\ record[j].phase \in Terminal} IN
  /\ doomed[Timer] = {}
  /\ expired # {}
  /\ Forget(expired)
  /\ doomed' = [doomed EXCEPT ![Timer] = Taken(expired)]
  /\ UNCHANGED <<creation, owes, heldVars, taskVars, workVars, diskVars>>

\* The timer's MemoryJobStore::expire: every record whose time has come, at once.
Expire ==
  LET expired == {j \in Stored : record[j].due} IN
  /\ doomed[Timer] = {}
  /\ expired # {}
  /\ Forget(expired)
  /\ doomed' = [doomed EXCEPT ![Timer] = Taken(expired)]
  /\ UNCHANGED <<creation, owes, heldVars, taskVars, workVars, diskVars>>

\* One turn of the loop in Runner::expire and in Runner::reclaim: the product of a job
\* whose record the sweep took goes, and what is kept for it is stopped and forgotten.  A
\* job with a product has no task left to stop, so that the two come in one step.
Sweep(s, j, product) ==
  /\ <<j, product>> \in doomed[s]
  /\ doomed' = [doomed EXCEPT ![s] = @ \ {<<j, product>>}]
  /\ files' = IF product THEN files \ {j} ELSE files
  /\ Stop(j)
  /\ UNCHANGED <<storeVars, owes, holding, taskVars, given, partial>>

-----------------------------------------------------------------------------
(* Runner::execute, one task per committed job.                            *)

\* Mutant of Admit: the job takes the slot without its record saying so.
AdmitUnannounced(j) ==
  /\ Cardinality(SlotHolders) < MaxRunning
  /\ Goto(j, "queued", IF Takes(j, "start") THEN "started" ELSE "over")
  /\ UNCHANGED <<storeVars, owes, heldVars, ending, workVars, diskVars, doomed>>

\* A slot is free and the job takes it: it starts, or it is no longer QUEUED and the task
\* returns, handing the slot back.
Admit(j) ==
  /\ Cardinality(SlotHolders) < MaxRunning
  /\ \/ /\ Takes(j, "start")
        /\ Move(j, "start")
        /\ Goto(j, "queued", "started")
     \/ /\ ~Takes(j, "start")
        /\ Goto(j, "queued", "over")
        /\ UNCHANGED record
  /\ UNCHANGED <<creation, owes, heldVars, ending, workVars, diskVars, doomed>>

\* Mutant of Launch: what is held is taken out rather than copied.
LaunchTakes(j) ==
  /\ Goto(j, "started", "launched")
  /\ work' = [work EXCEPT ![j] = "running"]
  /\ given' = [given EXCEPT ![j] = held[j]]
  /\ ForgetHeld(j)
  /\ UNCHANGED <<storeVars, owes, holding, ending, running, diskVars, doomed>>

\* What is held is copied and the work spawned with it ...
Launch(j) ==
  /\ Goto(j, "started", "launched")
  /\ work' = [work EXCEPT ![j] = "running"]
  /\ given' = [given EXCEPT ![j] = held[j]]
  /\ UNCHANGED <<storeVars, owes, heldVars, ending, running, diskVars, doomed>>

\* ... and only then is there a handle to stop it by.
Watch(j) ==
  /\ Goto(j, "launched", "watching")
  /\ running' = running \cup {j}
  /\ UNCHANGED <<storeVars, owes, heldVars, ending, work, given, diskVars, doomed>>

\* Mutants of ClockRunsOut: one does not wait for the work it aborts, one waits for work it
\* does not abort.
ClockDoesNotWait(j) ==
  /\ work[j] \in Live
  /\ Goto(j, "watching", "ended")
  /\ ending' = [ending EXCEPT ![j] = "clock"]
  /\ work' = [work EXCEPT ![j] = "cancelling"]
  /\ UNCHANGED <<storeVars, owes, heldVars, given, running, diskVars, doomed>>
ClockDoesNotAbort(j) ==
  /\ work[j] \in Live
  /\ Goto(j, "watching", "expiring")
  /\ UNCHANGED <<storeVars, owes, heldVars, ending, workVars, diskVars, doomed>>

\* The execution duration is over: the work is aborted and waited for.
ClockRunsOut(j) ==
  /\ work[j] \in Live
  /\ Goto(j, "watching", "expiring")
  /\ work' = [work EXCEPT ![j] = "cancelling"]
  /\ UNCHANGED <<storeVars, owes, heldVars, ending, given, running, diskVars, doomed>>

\* The work is over, and how decides the phase.  A panic ends as an error does.
Observe(j) ==
  /\ work[j] \notin Live
  /\ \/ /\ Goto(j, "watching", "ended")
        /\ ending' = [ending EXCEPT ![j] = work[j]]
     \/ /\ Goto(j, "expiring", "ended")
        /\ ending' = [ending EXCEPT ![j] = "clock"]
  /\ UNCHANGED <<storeVars, owes, heldVars, workVars, diskVars, doomed>>

\* Runner::keep: the answer is renamed into place, or that fails and the job with it.
KeepAnswer(j) ==
  /\ ending[j] = "done"
  /\ \/ /\ Goto(j, "ended", "kept")
        /\ files' = files \cup {j}
        /\ partial' = [partial EXCEPT ![j] = "none"]
        /\ UNCHANGED ending
     \/ /\ task[j] = "ended"
        /\ ending' = [ending EXCEPT ![j] = "failed"]
        /\ \E left \in {partial[j], "written"} :
             partial' = [partial EXCEPT ![j] = left]
        /\ UNCHANGED <<task, files>>
  /\ UNCHANGED <<storeVars, owes, heldVars, workVars, doomed>>

\* Mutant of Abandon: a cancelled run returns before it sweeps.
AbandonUnlessCancelled(j) ==
  /\ ending[j] # "done"
  /\ Goto(j, "ended", IF ending[j] = "cancelled" THEN "stopping" ELSE "abandoned")
  /\ partial' = [partial EXCEPT ![j] = IF @ = "orphaned" \/ ending[j] = "cancelled"
                                         THEN @ ELSE "none"]
  /\ UNCHANGED <<storeVars, owes, heldVars, ending, workVars, files, doomed>>

\* Results::abandon, after every ending but a kept answer.  Work that was cancelled has
\* its record's phase already, and there is nothing more to say.
Abandon(j) ==
  /\ ending[j] # "done"
  /\ Goto(j, "ended", IF ending[j] = "cancelled" THEN "stopping" ELSE "abandoned")
  /\ partial' = [partial EXCEPT ![j] = IF @ = "orphaned" THEN @ ELSE "none"]
  /\ UNCHANGED <<storeVars, owes, heldVars, ending, workVars, files, doomed>>

\* Mutant of RecordFailure: only the clock's abort is recorded.
RecordClockOnly(j) ==
  /\ Goto(j, "abandoned", "stopping")
  /\ IF ending[j] = "clock" /\ Takes(j, "abort") THEN Move(j, "abort") ELSE UNCHANGED record
  /\ UNCHANGED <<creation, owes, heldVars, ending, workVars, diskVars, doomed>>

\* The failure or the clock's abort is recorded, or refused by a record that moved or went.
RecordFailure(j) ==
  LET change == IF ending[j] = "clock" THEN "abort" ELSE "fail" IN
  /\ Goto(j, "abandoned", "stopping")
  /\ IF Takes(j, change) THEN Move(j, change) ELSE UNCHANGED record
  /\ UNCHANGED <<creation, owes, heldVars, ending, workVars, diskVars, doomed>>

\* Mutant of RecordSuccess: the answer of a job that is gone stays.
RecordSuccessOrLeave(j) ==
  /\ IF Takes(j, "complete")
       THEN /\ \E n \in Sizes :
                 record' = [record EXCEPT ![j] = [@ EXCEPT !.phase = LeadsTo["complete"],
                                                           !.bytes = n,
                                                           !.older = Completed]]
            /\ Goto(j, "kept", "reclaiming")
       ELSE Goto(j, "kept", "stopping") /\ UNCHANGED record
  /\ UNCHANGED <<creation, owes, heldVars, ending, workVars, diskVars, doomed>>

\* The success is recorded, with the product.
RecordSuccess(j) ==
  /\ \/ /\ Takes(j, "complete")
        /\ \E n \in Sizes :
             record' = [record EXCEPT ![j] = [@ EXCEPT !.phase = LeadsTo["complete"],
                                                       !.bytes = n,
                                                       !.older = Completed]]
        /\ Goto(j, "kept", "reclaiming")
     \/ /\ ~Takes(j, "complete")
        /\ Goto(j, "kept", "refused")
        /\ UNCHANGED record
  /\ UNCHANGED <<creation, owes, heldVars, ending, workVars, diskVars, doomed>>

\* A kept answer whose record refused it is a file nothing points at.
RemoveRefused(j) ==
  /\ Goto(j, "refused", "stopping")
  /\ files' = files \ {j}
  /\ UNCHANGED <<storeVars, owes, heldVars, ending, workVars, partial, doomed>>

\* Runner::reclaim: what the quota no longer has room for leaves the store.
Reclaim(j) ==
  /\ Goto(j, "reclaiming", "sweeping")
  /\ Forget(Shed)
  /\ doomed' = [doomed EXCEPT ![j] = Taken(Shed)]
  /\ UNCHANGED <<creation, owes, heldVars, ending, workVars, diskVars>>

ReclaimDone(j) ==
  /\ doomed[j] = {}
  /\ Goto(j, "sweeping", "stopping")
  /\ UNCHANGED <<storeVars, owes, heldVars, ending, workVars, diskVars, doomed>>

\* The task's own Runner::stop, after which the slot is free and what the task knew is gone.
Finish(j) ==
  /\ Goto(j, "stopping", "over")
  /\ running' = running \ {j}
  /\ ForgetHeld(j)
  /\ work' = [work EXCEPT ![j] = IF @ \in Live THEN @ ELSE "none"]
  /\ ending' = [ending EXCEPT ![j] = "none"]
  /\ given' = [given EXCEPT ![j] = {}]
  /\ UNCHANGED <<storeVars, owes, holding, diskVars, doomed>>

-----------------------------------------------------------------------------
(* The work, and the file it writes.                                       *)

\* The first piece of the answer: the file's creation goes to a blocking thread.
WorkOpens(j) ==
  /\ work[j] \in Live
  /\ partial[j] = "none"
  /\ partial' = [partial EXCEPT ![j] = "creating"]
  /\ UNCHANGED <<storeVars, owes, heldVars, taskVars, workVars, files, doomed>>

\* The blocking thread creates it, whether or not anybody still awaits that.
CreationLands(j) ==
  /\ partial[j] \in {"creating", "orphaned"}
  /\ partial' = [partial EXCEPT ![j] = IF @ = "creating" THEN "written" ELSE "stray"]
  /\ UNCHANGED <<storeVars, owes, heldVars, taskVars, workVars, files, doomed>>

\* The answer is made, or something on the way refused.
WorkEnds(j, how) ==
  /\ work[j] \in Live
  /\ partial[j] # "creating"
  /\ work' = [work EXCEPT ![j] = how]
  /\ UNCHANGED <<storeVars, owes, heldVars, taskVars, given, running, diskVars, doomed>>

\* Aborted work is dropped where it awaits, a creation under way going on without it.
WorkDropped(j) ==
  /\ work[j] = "cancelling"
  /\ work' = [work EXCEPT ![j] = "cancelled"]
  /\ partial' = [partial EXCEPT ![j] = IF @ = "creating" THEN "orphaned" ELSE @]
  /\ UNCHANGED <<storeVars, owes, heldVars, taskVars, given, running, files, doomed>>

-----------------------------------------------------------------------------
Init ==
  /\ record = [j \in Jobs |-> NoJob]
  /\ creation = [j \in Jobs |-> "unused"]
  /\ owes = [j \in Jobs |-> {}]
  /\ holding = [j \in Jobs |-> {}]
  /\ held = [j \in Jobs |-> {}]
  /\ uploads = {}
  /\ task = [j \in Jobs |-> "none"]
  /\ ending = [j \in Jobs |-> "none"]
  /\ work = [j \in Jobs |-> "none"]
  /\ given = [j \in Jobs |-> {}]
  /\ running = {}
  /\ partial = [j \in Jobs |-> "none"]
  /\ files = {}
  /\ doomed = [s \in Sweepers |-> {}]

Request(j) ==
  \/ Create(j) \/ Run(j) \/ Abort(j) \/ Destroy(j)
  \/ \E S \in SUBSET Items : PostParameters(j, S)
  \/ \E past \in BOOLEAN : SetDestruction(j, past)

\* The creating request goes on to its next step.
Creating(j) ==
  \/ \E S \in SUBSET Items : HoldForCreate(j, S)
  \/ RunOnCreate(j) \/ Issue(j)

Task(j) ==
  \/ Admit(j) \/ Launch(j) \/ Watch(j) \/ Observe(j) \/ KeepAnswer(j) \/ Abandon(j)
  \/ RecordFailure(j) \/ RecordSuccess(j) \/ RemoveRefused(j)
  \/ Reclaim(j) \/ ReclaimDone(j) \/ Finish(j)

Work(j) ==
  \/ WorkOpens(j) \/ CreationLands(j) \/ WorkDropped(j)
  \/ \E how \in {"done", "failed"} : WorkEnds(j, how)

Next ==
  \/ \E j \in Jobs :
       \/ Request(j) \/ Creating(j) \/ \E S \in SUBSET Items : Extend(j, S)
       \/ AbortStops(j) \/ DestroyDeletes(j) \/ DestroyRemoves(j)
       \/ Task(j) \/ ClockRunsOut(j) \/ Work(j)
       \/ TimePasses(j)
       \/ \E s \in Sweepers, product \in BOOLEAN : Sweep(s, j, product)
  \/ Expire

Spec == Init /\ [][Next]_vars

\* What the process does for a job without being asked again.  Each of these happens at
\* most once for a job (Sweep at most once for each record), so that weak fairness of their
\* disjunction is weak fairness of each.
Progress(j) ==
  \/ Creating(j) \/ AbortStops(j) \/ DestroyRemoves(j)
  \/ Task(j) \/ ClockRunsOut(j) \/ CreationLands(j) \/ WorkDropped(j)
  \/ \E s \in Sweepers, product \in BOOLEAN : Sweep(s, j, product)

\* The executor polls every task and handler that can go on, the blocking pool runs what it
\* was given, the clock over a run fires, the timer ticks.  Nobody has to send a request,
\* and work may run until its clock stops it.
Fairness ==
  /\ \A j \in Jobs :
       /\ WF_vars(Progress(j))
       /\ WF_vars(DestroyDeletes(j))
       /\ \A S \in SUBSET Items : WF_vars(Extend(j, S))
  /\ WF_vars(Expire)

FairSpec == Spec /\ Fairness
=============================================================================
