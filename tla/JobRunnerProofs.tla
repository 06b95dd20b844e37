---------------------------- MODULE JobRunnerProofs ----------------------------
(***************************************************************************)
(* The safety of the jobs of one process, for every number of jobs, slots  *)
(* and uploads: the invariant IInv holds initially and is kept by every    *)
(* step; the other safety properties of JobProperties follow from it, and  *)
(* so does that the runner implements UwsJobs.  At the end, the safety of  *)
(* the directory that the processes of a machine keep results in.          *)
(*                                                                         *)
(* The lemmas first read the records' EXCEPTs out once, then keep each     *)
(* conjunct of IInv in turn; in each of them the first steps are the       *)
(* actions that do not touch what the conjunct speaks of.                  *)
(***************************************************************************)
EXTENDS JobProperties, ResultsDirProperties, DataLemmas

-----------------------------------------------------------------------------
(* What the steps do to the records.                                       *)

LEMMA NoJobTyped == NoJob \in Record
  BY DEF NoJob, Record

LEMMA LeadsToPhases == \A change \in DOMAIN LeadsTo : LeadsTo[change] \in Phases
  BY DEF LeadsTo, Phases

\* The two tables of Job::apply, read out.
LEMMA LeadsToValues ==
  /\ DOMAIN LeadsTo = {"queue", "start", "complete", "fail", "abort"}
  /\ LeadsTo["queue"] = "QUEUED"
  /\ LeadsTo["start"] = "EXECUTING"
  /\ LeadsTo["complete"] = "COMPLETED"
  /\ LeadsTo["fail"] = "ERROR"
  /\ LeadsTo["abort"] = "ABORTED"
  BY DEF LeadsTo

LEMMA TakesValues ==
  ASSUME NEW j \in Jobs
  PROVE  /\ Takes(j, "queue") <=> record[j].phase = "PENDING"
         /\ Takes(j, "start") <=> record[j].phase = "QUEUED"
         /\ Takes(j, "complete") <=> record[j].phase \in {"QUEUED", "EXECUTING"}
         /\ Takes(j, "fail") <=> record[j].phase \in {"QUEUED", "EXECUTING"}
         /\ Takes(j, "abort") <=> record[j].phase \in {"PENDING", "QUEUED", "EXECUTING"}
         /\ Takes(j, "destruction") <=> record[j].phase \in Phases
  BY DEF Takes, TakenIn, Phases

Records == [Jobs -> Record]
OthersSame(j) == \A k \in Jobs \ {j} : record'[k] = record[k]

LEMMA MoveEffect ==
  ASSUME record \in Records, NEW j \in Jobs, NEW change \in DOMAIN LeadsTo, Move(j, change)
  PROVE  record' \in Records /\ record'[j].phase = LeadsTo[change] /\ OthersSame(j)
<1>1. \A r \in Record, p \in Phases : [r EXCEPT !.phase = p] \in Record
  BY DEF Record
<1>2. record' = [record EXCEPT ![j] = [record[j] EXCEPT !.phase = LeadsTo[change]]]
  BY DEF Move
<1>3. [record[j] EXCEPT !.phase = LeadsTo[change]].phase = LeadsTo[change]
  BY DEF Records, Record
<1> QED
  BY <1>1, <1>2, <1>3, LeadsToPhases DEF Records, OthersSame

LEMMA ForgetEffect ==
  ASSUME record \in Records, NEW S, Forget(S)
  PROVE  /\ record' \in Records
         /\ \A k \in Jobs : record'[k].phase = IF k \in S THEN "NONE" ELSE record[k].phase
         /\ \A k \in Jobs \ S : record'[k] = record[k]
<1>1. NoJob.phase = "NONE"
  BY DEF NoJob
<1> QED
  BY <1>1, NoJobTyped DEF Forget, Records

LEMMA DueEffect ==
  ASSUME record \in Records, NEW j \in Jobs, NEW due \in BOOLEAN,
         record' = [record EXCEPT ![j].due = due]
  PROVE  /\ record' \in Records
         /\ \A k \in Jobs : /\ record'[k].phase = record[k].phase
                            /\ record'[k].bytes = record[k].bytes
                            /\ record'[k].older = record[k].older
<1>1. \A r \in Record : /\ [r EXCEPT !.due = due] \in Record
                        /\ [r EXCEPT !.due = due].phase = r.phase
                        /\ [r EXCEPT !.due = due].bytes = r.bytes
                        /\ [r EXCEPT !.due = due].older = r.older
  BY DEF Record
<1>2. record' = [record EXCEPT ![j] = [record[j] EXCEPT !.due = due]]
  OBVIOUS
<1> QED
  BY <1>1, <1>2 DEF Records

LEMMA CreateEffect ==
  ASSUME record \in Records, NEW j \in Jobs, Create(j)
  PROVE  record' \in Records /\ record'[j].phase = "PENDING" /\ OthersSame(j)
<1>1. \A r \in Record : /\ [r EXCEPT !.phase = "PENDING"] \in Record
                        /\ [r EXCEPT !.phase = "PENDING"].phase = "PENDING"
  BY DEF Record, Phases
<1>2. record' = [record EXCEPT ![j] = [record[j] EXCEPT !.phase = "PENDING"]]
  BY DEF Create
<1> QED
  BY <1>1, <1>2 DEF Records, OthersSame

LEMMA StartEffect ==
  ASSUME record \in Records, NEW j \in Jobs, Start(j)
  PROVE  /\ record[j].phase = "PENDING"
         /\ record' \in Records /\ record'[j].phase = "QUEUED" /\ OthersSame(j)
         /\ task' = [task EXCEPT ![j] = "queued"]
  BY MoveEffect, LeadsToValues, TakesValues DEF Start

LEMMA AbortEffect ==
  ASSUME record \in Records, NEW j \in Jobs, Abort(j)
  PROVE  /\ record[j].phase \in {"PENDING", "QUEUED", "EXECUTING"}
         /\ record' \in Records /\ record'[j].phase = "ABORTED" /\ OthersSame(j)
  BY MoveEffect, LeadsToValues, TakesValues DEF Abort

LEMMA AdmitEffect ==
  ASSUME record \in Records, NEW j \in Jobs, Admit(j)
  PROVE  \/ /\ record[j].phase = "QUEUED"
            /\ record' \in Records /\ record'[j].phase = "EXECUTING" /\ OthersSame(j)
            /\ Goto(j, "queued", "started")
         \/ /\ record[j].phase # "QUEUED"
            /\ record' = record
            /\ Goto(j, "queued", "over")
  BY MoveEffect, LeadsToValues, TakesValues DEF Admit

LEMMA FailureEffect ==
  ASSUME record \in Records, NEW j \in Jobs, RecordFailure(j)
  PROVE  /\ Goto(j, "abandoned", "stopping")
         /\ \/ /\ record[j].phase \in {"PENDING", "QUEUED", "EXECUTING"}
               /\ ending[j] # "clock" => record[j].phase # "PENDING"
               /\ record' \in Records /\ OthersSame(j)
               /\ record'[j].phase \in {"ERROR", "ABORTED"}
               /\ record'[j].phase = "ERROR" => ending[j] # "clock"
            \/ record' = record
  BY MoveEffect, LeadsToValues, TakesValues DEF RecordFailure

LEMMA SuccessEffect ==
  ASSUME record \in Records, NEW j \in Jobs, RecordSuccess(j)
  PROVE  \/ /\ record[j].phase \in {"QUEUED", "EXECUTING"}
            /\ record' \in Records /\ record'[j].phase = "COMPLETED" /\ OthersSame(j)
            /\ record'[j].older = Completed
            /\ Goto(j, "kept", "reclaiming")
         \/ /\ record[j].phase \notin {"QUEUED", "EXECUTING"}
            /\ record' = record
            /\ Goto(j, "kept", "refused")
<1>1. CASE Takes(j, "complete")
  <2>1. PICK n \in Sizes :
          record' = [record EXCEPT ![j] = [record[j] EXCEPT !.phase = "COMPLETED",
                                                            !.bytes = n,
                                                            !.older = Completed]]
    BY <1>1, LeadsToValues DEF RecordSuccess
  <2> DEFINE new == [record[j] EXCEPT !.phase = "COMPLETED", !.bytes = n, !.older = Completed]
  <2>2. new \in Record /\ new.phase = "COMPLETED" /\ new.older = Completed
    <3>1. n \in Nat /\ Completed \in SUBSET Jobs
      BY SizesAssumption DEF Completed
    <3>2. record[j] \in Record
      BY DEF Records
    <3> QED
      BY <3>1, <3>2 DEF Record, Phases
  <2>3. record' = [record EXCEPT ![j] = new]
    BY <2>1
  <2>4. /\ record' \in Records /\ record'[j].phase = "COMPLETED" /\ OthersSame(j)
        /\ record'[j].older = Completed
    <3> HIDE DEF new
    <3> QED  BY <2>2, <2>3 DEF Records, OthersSame
  <2>5. Goto(j, "kept", "reclaiming")
    BY <1>1 DEF RecordSuccess
  <2> QED
    BY <1>1, <2>4, <2>5, TakesValues
<1>2. CASE ~Takes(j, "complete")
  BY <1>2, TakesValues DEF RecordSuccess
<1> QED
  BY <1>1, <1>2

LEMMA TakenTyped ==
  ASSUME NEW S \in SUBSET Jobs
  PROVE  Taken(S) \subseteq Jobs \X BOOLEAN
<1>1. \A j \in S : (record[j].phase = "COMPLETED") \in BOOLEAN
  OBVIOUS
<1>2. \A j \in S : <<j, record[j].phase = "COMPLETED">> \in Jobs \X BOOLEAN
  BY <1>1
<1> QED
  BY <1>2 DEF Taken

-----------------------------------------------------------------------------
(* Each conjunct of the invariant is kept.                                 *)

\* Each variable keeps to its type.
LEMMA TypeKept ==
  ASSUME TypeOK, Next
  PROVE  TypeOK'
<1> USE DEF storeVars, heldVars, taskVars, workVars, diskVars
<1>records. record \in Records
  BY DEF TypeOK, Records
<1>1. ASSUME NEW j \in Jobs, Create(j)
      PROVE  TypeOK'
  BY <1>1, <1>records, CreateEffect DEF Create, TypeOK, Records
<1>2. ASSUME NEW j \in Jobs, NEW S \in SUBSET Items, HoldForCreate(j, S)
      PROVE  TypeOK'
  BY <1>2 DEF HoldForCreate, Keep, TypeOK
<1>3. ASSUME NEW j \in Jobs, NEW S \in SUBSET Items, Extend(j, S)
      PROVE  TypeOK'
  BY <1>3 DEF Extend, TypeOK
<1>4. ASSUME NEW j \in Jobs, RunOnCreate(j)
      PROVE  TypeOK'
  BY <1>4, <1>records, StartEffect DEF RunOnCreate, TaskStates, TypeOK, Records
<1>5. ASSUME NEW j \in Jobs, Issue(j)
      PROVE  TypeOK'
  BY <1>5 DEF Issue, TypeOK
<1>6. ASSUME NEW j \in Jobs, Run(j)
      PROVE  TypeOK'
  BY <1>6, <1>records, StartEffect DEF Run, TaskStates, TypeOK, Records
<1>7. ASSUME NEW j \in Jobs, Abort(j)
      PROVE  TypeOK'
  BY <1>7, <1>records, AbortEffect DEF Abort, Promise, TypeOK, Records
<1>8. ASSUME NEW j \in Jobs, AbortStops(j)
      PROVE  TypeOK'
  BY <1>8 DEF AbortStops, Fulfil, Stop, ForgetHeld, Live, TypeOK
<1>9. ASSUME NEW j \in Jobs, Destroy(j)
      PROVE  TypeOK'
  BY <1>9 DEF Destroy, Stop, ForgetHeld, Promise, Live, TypeOK
<1>10. ASSUME NEW j \in Jobs, DestroyDeletes(j)
       PROVE  TypeOK'
  BY <1>10, <1>records, ForgetEffect DEF DestroyDeletes, TypeOK, Records
<1>11. ASSUME NEW j \in Jobs, DestroyRemoves(j)
       PROVE  TypeOK'
  BY <1>11 DEF DestroyRemoves, Fulfil, TypeOK
<1>12. ASSUME NEW j \in Jobs, NEW S \in SUBSET Items, PostParameters(j, S)
       PROVE  TypeOK'
  BY <1>12 DEF PostParameters, Keep, TypeOK
<1>13. ASSUME NEW j \in Jobs, NEW past \in BOOLEAN, SetDestruction(j, past)
       PROVE  TypeOK'
  BY <1>13, <1>records, DueEffect DEF SetDestruction, TypeOK, Records
<1>14. ASSUME NEW j \in Jobs, TimePasses(j)
       PROVE  TypeOK'
  BY <1>14, <1>records, DueEffect DEF TimePasses, TypeOK, Records
<1>15. ASSUME Expire
       PROVE  TypeOK'
  <2>1. Taken({j \in Stored : record[j].due}) \subseteq Jobs \X BOOLEAN
    BY TakenTyped DEF Stored
  <2>2. record' \in Records
    BY <1>15, <1>records, ForgetEffect DEF Expire
  <2> QED
    BY <1>15, <2>1, <2>2 DEF Expire, TypeOK, Records
<1>16. ASSUME NEW s \in Sweepers, NEW j \in Jobs, NEW product \in BOOLEAN,
              Sweep(s, j, product)
       PROVE  TypeOK'
  BY <1>16 DEF Sweep, Stop, ForgetHeld, Live, Sweepers, TypeOK
<1>17. ASSUME NEW j \in Jobs, Admit(j)
       PROVE  TypeOK'
  BY <1>17, <1>records, AdmitEffect DEF Admit, Goto, TaskStates, Executing, TypeOK, Records
<1>18. ASSUME NEW j \in Jobs, Launch(j)
       PROVE  TypeOK'
  BY <1>18 DEF Launch, Goto, TaskStates, Executing, Live, TypeOK
<1>19. ASSUME NEW j \in Jobs, Watch(j)
       PROVE  TypeOK'
  BY <1>19 DEF Watch, Goto, TaskStates, Executing, TypeOK
<1>20. ASSUME NEW j \in Jobs, ClockRunsOut(j)
       PROVE  TypeOK'
  BY <1>20 DEF ClockRunsOut, Goto, TaskStates, Executing, Live, TypeOK
<1>21. ASSUME NEW j \in Jobs, Observe(j)
       PROVE  TypeOK'
  BY <1>21 DEF Observe, Goto, TaskStates, Executing, Live, TypeOK
<1>22. ASSUME NEW j \in Jobs, KeepAnswer(j)
       PROVE  TypeOK'
  BY <1>22 DEF KeepAnswer, Goto, TaskStates, Executing, TypeOK
<1>23. ASSUME NEW j \in Jobs, Abandon(j)
       PROVE  TypeOK'
  BY <1>23 DEF Abandon, Goto, TaskStates, Executing, TypeOK
<1>24. ASSUME NEW j \in Jobs, RecordFailure(j)
       PROVE  TypeOK'
  BY <1>24, <1>records, FailureEffect DEF RecordFailure, Goto, TaskStates, Executing,
     TypeOK, Records
<1>25. ASSUME NEW j \in Jobs, RecordSuccess(j)
       PROVE  TypeOK'
  BY <1>25, <1>records, SuccessEffect DEF RecordSuccess, Goto, TaskStates, Executing,
     Completed, TypeOK, Records
<1>26. ASSUME NEW j \in Jobs, RemoveRefused(j)
       PROVE  TypeOK'
  BY <1>26 DEF RemoveRefused, Goto, TaskStates, Executing, TypeOK
<1>27. ASSUME NEW j \in Jobs, Reclaim(j)
       PROVE  TypeOK'
  <2>1. Taken(Shed) \subseteq Jobs \X BOOLEAN
    BY TakenTyped DEF Shed, Completed
  <2>2. record' \in Records
    BY <1>27, <1>records, ForgetEffect DEF Reclaim
  <2> QED
    BY <1>27, <2>1, <2>2 DEF Reclaim, Goto, TaskStates, Executing, TypeOK, Records
<1>28. ASSUME NEW j \in Jobs, ReclaimDone(j)
       PROVE  TypeOK'
  BY <1>28 DEF ReclaimDone, Goto, TaskStates, Executing, TypeOK
<1>29. ASSUME NEW j \in Jobs, Finish(j)
       PROVE  TypeOK'
  BY <1>29 DEF Finish, Goto, TaskStates, Executing, ForgetHeld, Live, TypeOK
<1>30. ASSUME NEW j \in Jobs, WorkOpens(j)
       PROVE  TypeOK'
  BY <1>30 DEF WorkOpens, TypeOK
<1>31. ASSUME NEW j \in Jobs, CreationLands(j)
       PROVE  TypeOK'
  BY <1>31 DEF CreationLands, TypeOK
<1>32. ASSUME NEW j \in Jobs, NEW how \in {"done", "failed"}, WorkEnds(j, how)
       PROVE  TypeOK'
  BY <1>32 DEF WorkEnds, Live, TypeOK
<1>33. ASSUME NEW j \in Jobs, WorkDropped(j)
       PROVE  TypeOK'
  BY <1>33 DEF WorkDropped, Live, TypeOK
<1> QED
  BY <1>1, <1>2, <1>3, <1>4, <1>5, <1>6, <1>7, <1>8, <1>9, <1>10, <1>11, <1>12, <1>13,
     <1>14, <1>15, <1>16, <1>17, <1>18, <1>19, <1>20, <1>21, <1>22, <1>23, <1>24, <1>25,
     <1>26, <1>27, <1>28, <1>29, <1>30, <1>31, <1>32, <1>33
     DEF Next, Request, Creating, Task, Work


\* Only its creation brings a job, and only its commit a task.
LEMMA NothingBeforeCreationKept ==
  ASSUME TypeOK, NothingBeforeCreation, Next
  PROVE  NothingBeforeCreation'
<1>types. /\ record \in Records
          /\ creation \in [Jobs -> {"unused", "created", "holding", "held", "issued", "failed"}]
          /\ task \in [Jobs -> TaskStates]
  BY DEF TypeOK, Records
<1>1. ASSUME NEW j \in Jobs, AbortStops(j) \/ Destroy(j) \/ DestroyRemoves(j)
             \/ WorkOpens(j) \/ CreationLands(j) \/ WorkDropped(j)
      PROVE  NothingBeforeCreation'
  BY <1>1 DEF AbortStops, Destroy, DestroyRemoves, WorkOpens, CreationLands, WorkDropped,
     Fulfil, storeVars, taskVars, NothingBeforeCreation
<1>2. ASSUME NEW j \in Jobs, NEW S \in SUBSET Items, PostParameters(j, S)
      PROVE  NothingBeforeCreation'
  BY <1>2 DEF PostParameters, storeVars, taskVars, NothingBeforeCreation
<1>3. ASSUME NEW s \in Sweepers, NEW j \in Jobs, NEW product \in BOOLEAN,
             Sweep(s, j, product)
      PROVE  NothingBeforeCreation'
  BY <1>3 DEF Sweep, storeVars, taskVars, NothingBeforeCreation
<1>4. ASSUME NEW j \in Jobs, NEW how \in {"done", "failed"}, WorkEnds(j, how)
      PROVE  NothingBeforeCreation'
  BY <1>4 DEF WorkEnds, storeVars, taskVars, NothingBeforeCreation
<1>5. ASSUME NEW j \in Jobs, Create(j)
      PROVE  NothingBeforeCreation'
  BY <1>5, <1>types, CreateEffect DEF Create, storeVars, taskVars, NothingBeforeCreation,
     OthersSame
<1>6. ASSUME NEW j \in Jobs, NEW S \in SUBSET Items, HoldForCreate(j, S) \/ Extend(j, S)
      PROVE  NothingBeforeCreation'
  BY <1>6, <1>types DEF HoldForCreate, Extend, storeVars, taskVars, NothingBeforeCreation
<1>7. ASSUME NEW j \in Jobs, RunOnCreate(j)
      PROVE  NothingBeforeCreation'
  BY <1>7, <1>types, StartEffect DEF RunOnCreate, storeVars, taskVars,
     NothingBeforeCreation, OthersSame
<1>8. ASSUME NEW j \in Jobs, Issue(j)
      PROVE  NothingBeforeCreation'
  BY <1>8, <1>types DEF Issue, storeVars, taskVars, NothingBeforeCreation
<1>9. ASSUME NEW j \in Jobs, Run(j)
      PROVE  NothingBeforeCreation'
  BY <1>9, <1>types, StartEffect DEF Run, storeVars, taskVars, NothingBeforeCreation,
     OthersSame
<1>10. ASSUME NEW j \in Jobs, Abort(j)
       PROVE  NothingBeforeCreation'
  BY <1>10, <1>types, AbortEffect DEF Abort, storeVars, taskVars, NothingBeforeCreation,
     OthersSame
<1>11. ASSUME NEW j \in Jobs, DestroyDeletes(j)
       PROVE  NothingBeforeCreation'
  BY <1>11, <1>types, ForgetEffect DEF DestroyDeletes, storeVars, taskVars,
     NothingBeforeCreation
<1>12. ASSUME NEW j \in Jobs, NEW past \in BOOLEAN, SetDestruction(j, past)
       PROVE  NothingBeforeCreation'
  BY <1>12, <1>types, DueEffect DEF SetDestruction, storeVars, taskVars,
     NothingBeforeCreation
<1>13. ASSUME NEW j \in Jobs, TimePasses(j)
       PROVE  NothingBeforeCreation'
  BY <1>13, <1>types, DueEffect DEF TimePasses, storeVars, taskVars, NothingBeforeCreation
<1>14. ASSUME Expire
       PROVE  NothingBeforeCreation'
  BY <1>14, <1>types, ForgetEffect DEF Expire, storeVars, taskVars, NothingBeforeCreation
<1>15. ASSUME NEW j \in Jobs, Admit(j)
       PROVE  NothingBeforeCreation'
  BY <1>15, <1>types, AdmitEffect DEF Admit, Goto, storeVars, taskVars,
     NothingBeforeCreation, OthersSame
<1>16. ASSUME NEW j \in Jobs, Launch(j) \/ Watch(j) \/ ClockRunsOut(j) \/ Observe(j)
              \/ KeepAnswer(j) \/ Abandon(j) \/ RemoveRefused(j) \/ ReclaimDone(j)
              \/ Finish(j)
       PROVE  NothingBeforeCreation'
  BY <1>16, <1>types DEF Launch, Watch, ClockRunsOut, Observe, KeepAnswer, Abandon,
     RemoveRefused, ReclaimDone, Finish, Goto, storeVars, taskVars, NothingBeforeCreation
<1>17. ASSUME NEW j \in Jobs, RecordFailure(j)
       PROVE  NothingBeforeCreation'
  BY <1>17, <1>types, FailureEffect DEF RecordFailure, Goto, storeVars, taskVars,
     NothingBeforeCreation, OthersSame
<1>18. ASSUME NEW j \in Jobs, RecordSuccess(j)
       PROVE  NothingBeforeCreation'
  BY <1>18, <1>types, SuccessEffect DEF RecordSuccess, Goto, storeVars, taskVars,
     NothingBeforeCreation, OthersSame
<1>19. ASSUME NEW j \in Jobs, Reclaim(j)
       PROVE  NothingBeforeCreation'
  BY <1>19, <1>types, ForgetEffect DEF Reclaim, Goto, storeVars, taskVars,
     NothingBeforeCreation
<1> QED
  BY <1>1, <1>2, <1>3, <1>4, <1>5, <1>6, <1>7, <1>8, <1>9, <1>10, <1>11, <1>12, <1>13,
     <1>14, <1>15, <1>16, <1>17, <1>18, <1>19
     DEF Next, Request, Creating, Task, Work

\* Committing and admitting a job move its record and its task together.
LEMMA WaitsWithItsTaskKept ==
  ASSUME TypeOK, WaitsWithItsTask, NothingBeforeCreation, Next
  PROVE  WaitsWithItsTask'
<1>types. /\ record \in Records
          /\ task \in [Jobs -> TaskStates]
  BY DEF TypeOK, Records
<1>1. ASSUME NEW j \in Jobs, NEW S \in SUBSET Items, HoldForCreate(j, S) \/ Extend(j, S)
             \/ PostParameters(j, S)
      PROVE  WaitsWithItsTask'
  BY <1>1 DEF HoldForCreate, Extend, PostParameters, storeVars, taskVars, WaitsWithItsTask
<1>2. ASSUME NEW j \in Jobs, Issue(j) \/ AbortStops(j) \/ Destroy(j) \/ DestroyRemoves(j)
             \/ WorkOpens(j) \/ CreationLands(j) \/ WorkDropped(j)
      PROVE  WaitsWithItsTask'
  BY <1>2 DEF Issue, AbortStops, Destroy, DestroyRemoves, WorkOpens, CreationLands,
     WorkDropped, Fulfil, storeVars, taskVars, WaitsWithItsTask
<1>3. ASSUME NEW s \in Sweepers, NEW j \in Jobs, NEW product \in BOOLEAN,
             Sweep(s, j, product)
      PROVE  WaitsWithItsTask'
  BY <1>3 DEF Sweep, storeVars, taskVars, WaitsWithItsTask
<1>4. ASSUME NEW j \in Jobs, NEW how \in {"done", "failed"}, WorkEnds(j, how)
      PROVE  WaitsWithItsTask'
  BY <1>4 DEF WorkEnds, storeVars, taskVars, WaitsWithItsTask
<1>5. ASSUME NEW j \in Jobs, Create(j)
      PROVE  WaitsWithItsTask'
  BY <1>5, <1>types, CreateEffect DEF Create, storeVars, taskVars, WaitsWithItsTask,
     NothingBeforeCreation, OthersSame
<1>6. ASSUME NEW j \in Jobs, RunOnCreate(j) \/ Run(j)
      PROVE  WaitsWithItsTask'
  BY <1>6, <1>types, StartEffect DEF RunOnCreate, Run, storeVars, taskVars,
     WaitsWithItsTask, OthersSame
<1>7. ASSUME NEW j \in Jobs, Abort(j)
      PROVE  WaitsWithItsTask'
  BY <1>7, <1>types, AbortEffect DEF Abort, storeVars, taskVars, WaitsWithItsTask,
     OthersSame
<1>8. ASSUME NEW j \in Jobs, DestroyDeletes(j)
      PROVE  WaitsWithItsTask'
  BY <1>8, <1>types, ForgetEffect DEF DestroyDeletes, storeVars, taskVars, WaitsWithItsTask
<1>9. ASSUME NEW j \in Jobs, NEW past \in BOOLEAN, SetDestruction(j, past)
      PROVE  WaitsWithItsTask'
  BY <1>9, <1>types, DueEffect DEF SetDestruction, storeVars, taskVars, WaitsWithItsTask
<1>10. ASSUME NEW j \in Jobs, TimePasses(j)
       PROVE  WaitsWithItsTask'
  BY <1>10, <1>types, DueEffect DEF TimePasses, storeVars, taskVars, WaitsWithItsTask
<1>11. ASSUME Expire
       PROVE  WaitsWithItsTask'
  BY <1>11, <1>types, ForgetEffect DEF Expire, storeVars, taskVars, WaitsWithItsTask
<1>12. ASSUME NEW j \in Jobs, Admit(j)
       PROVE  WaitsWithItsTask'
  BY <1>12, <1>types, AdmitEffect DEF Goto, storeVars, taskVars, WaitsWithItsTask,
     OthersSame
<1>13. ASSUME NEW j \in Jobs, Launch(j) \/ Watch(j) \/ ClockRunsOut(j) \/ Observe(j)
              \/ KeepAnswer(j) \/ Abandon(j) \/ RemoveRefused(j) \/ ReclaimDone(j)
              \/ Finish(j)
       PROVE  WaitsWithItsTask'
  BY <1>13, <1>types DEF Launch, Watch, ClockRunsOut, Observe, KeepAnswer, Abandon,
     RemoveRefused, ReclaimDone, Finish, Goto, storeVars, taskVars, WaitsWithItsTask
<1>14. ASSUME NEW j \in Jobs, RecordFailure(j)
       PROVE  WaitsWithItsTask'
  BY <1>14, <1>types, FailureEffect DEF Goto, storeVars, taskVars, WaitsWithItsTask,
     OthersSame
<1>15. ASSUME NEW j \in Jobs, RecordSuccess(j)
       PROVE  WaitsWithItsTask'
  BY <1>15, <1>types, SuccessEffect DEF Goto, storeVars, taskVars, WaitsWithItsTask,
     OthersSame
<1>16. ASSUME NEW j \in Jobs, Reclaim(j)
       PROVE  WaitsWithItsTask'
  BY <1>16, <1>types, ForgetEffect DEF Reclaim, Goto, storeVars, taskVars, WaitsWithItsTask
<1> QED
  BY <1>1, <1>2, <1>3, <1>4, <1>5, <1>6, <1>7, <1>8, <1>9, <1>10, <1>11, <1>12, <1>13,
     <1>14, <1>15, <1>16
     DEF Next, Request, Creating, Task, Work

\* An answer is renamed into place before it is recorded, and nobody removes it while a
\* record names it, RecordBeforeAnswer keeping those who remove files away from it.
LEMMA AnswerBeforeRecordKept ==
  ASSUME TypeOK, AnswerBeforeRecord, WaitsWithItsTask, RecordBeforeAnswer, Next
  PROVE  AnswerBeforeRecord'
<1>types. /\ record \in Records
          /\ task \in [Jobs -> TaskStates]
          /\ files \subseteq Jobs
  BY DEF TypeOK, Records
<1>1. ASSUME NEW j \in Jobs, NEW S \in SUBSET Items, HoldForCreate(j, S) \/ Extend(j, S)
             \/ PostParameters(j, S)
      PROVE  AnswerBeforeRecord'
  BY <1>1 DEF HoldForCreate, Extend, PostParameters, storeVars, taskVars, diskVars,
     AnswerBeforeRecord, Settled
<1>2. ASSUME NEW j \in Jobs, Issue(j) \/ AbortStops(j) \/ Destroy(j) \/ WorkOpens(j)
             \/ CreationLands(j) \/ WorkDropped(j)
      PROVE  AnswerBeforeRecord'
  BY <1>2 DEF Issue, AbortStops, Destroy, WorkOpens, CreationLands, WorkDropped, storeVars,
     taskVars, diskVars, AnswerBeforeRecord, Settled
<1>3. ASSUME NEW j \in Jobs, NEW how \in {"done", "failed"}, WorkEnds(j, how)
      PROVE  AnswerBeforeRecord'
  BY <1>3 DEF WorkEnds, storeVars, taskVars, diskVars, AnswerBeforeRecord, Settled
<1>4. ASSUME NEW j \in Jobs, Create(j)
      PROVE  AnswerBeforeRecord'
  BY <1>4, <1>types, CreateEffect DEF Create, storeVars, taskVars, diskVars,
     AnswerBeforeRecord, Settled, OthersSame
<1>5. ASSUME NEW j \in Jobs, RunOnCreate(j) \/ Run(j)
      PROVE  AnswerBeforeRecord'
  BY <1>5, <1>types, StartEffect DEF RunOnCreate, Run, storeVars, taskVars, diskVars,
     AnswerBeforeRecord, WaitsWithItsTask, Settled, OthersSame
<1>6. ASSUME NEW j \in Jobs, Abort(j)
      PROVE  AnswerBeforeRecord'
  BY <1>6, <1>types, AbortEffect DEF Abort, storeVars, taskVars, diskVars,
     AnswerBeforeRecord, Settled, OthersSame
<1>7. ASSUME NEW j \in Jobs, DestroyDeletes(j)
      PROVE  AnswerBeforeRecord'
  BY <1>7, <1>types, ForgetEffect DEF DestroyDeletes, storeVars, taskVars, diskVars,
     AnswerBeforeRecord, Settled
<1>8. ASSUME NEW j \in Jobs, DestroyRemoves(j)
      PROVE  AnswerBeforeRecord'
  BY <1>8, <1>types DEF DestroyRemoves, Fulfil, storeVars, taskVars, diskVars,
     AnswerBeforeRecord, RecordBeforeAnswer, Settled, Cleared
<1>9. ASSUME NEW j \in Jobs, NEW past \in BOOLEAN, SetDestruction(j, past)
      PROVE  AnswerBeforeRecord'
  BY <1>9, <1>types, DueEffect DEF SetDestruction, storeVars, taskVars, diskVars,
     AnswerBeforeRecord, Settled
<1>10. ASSUME NEW j \in Jobs, TimePasses(j)
       PROVE  AnswerBeforeRecord'
  BY <1>10, <1>types, DueEffect DEF TimePasses, storeVars, taskVars, diskVars,
     AnswerBeforeRecord, Settled
<1>11. ASSUME Expire
       PROVE  AnswerBeforeRecord'
  BY <1>11, <1>types, ForgetEffect DEF Expire, storeVars, taskVars, diskVars,
     AnswerBeforeRecord, Settled
<1>12. ASSUME NEW s \in Sweepers, NEW j \in Jobs, NEW product \in BOOLEAN,
              Sweep(s, j, product)
       PROVE  AnswerBeforeRecord'
  BY <1>12, <1>types DEF Sweep, storeVars, taskVars, diskVars, AnswerBeforeRecord,
     RecordBeforeAnswer, Settled, Cleared
<1>13. ASSUME NEW j \in Jobs, Admit(j)
       PROVE  AnswerBeforeRecord'
  BY <1>13, <1>types, AdmitEffect DEF Admit, Goto, storeVars, taskVars, diskVars,
     AnswerBeforeRecord, WaitsWithItsTask, Settled, OthersSame
<1>14. ASSUME NEW j \in Jobs, Launch(j) \/ Watch(j) \/ ClockRunsOut(j) \/ Observe(j)
              \/ Abandon(j) \/ ReclaimDone(j) \/ Finish(j)
       PROVE  AnswerBeforeRecord'
  BY <1>14, <1>types DEF Launch, Watch, ClockRunsOut, Observe, Abandon, ReclaimDone, Finish,
     Goto, storeVars, taskVars, diskVars, AnswerBeforeRecord, Settled
<1>15. ASSUME NEW j \in Jobs, KeepAnswer(j) \/ RemoveRefused(j)
       PROVE  AnswerBeforeRecord'
  BY <1>15, <1>types DEF KeepAnswer, RemoveRefused, Goto, storeVars, taskVars, diskVars,
     AnswerBeforeRecord, Settled
<1>16. ASSUME NEW j \in Jobs, RecordFailure(j)
       PROVE  AnswerBeforeRecord'
  BY <1>16, <1>types, FailureEffect DEF RecordFailure, Goto, storeVars, taskVars, diskVars,
     AnswerBeforeRecord, Settled, OthersSame
<1>17. ASSUME NEW j \in Jobs, RecordSuccess(j)
       PROVE  AnswerBeforeRecord'
  BY <1>17, <1>types, SuccessEffect DEF RecordSuccess, Goto, storeVars, taskVars, diskVars,
     AnswerBeforeRecord, Settled, OthersSame
<1>18. ASSUME NEW j \in Jobs, Reclaim(j)
       PROVE  AnswerBeforeRecord'
  BY <1>18, <1>types, ForgetEffect DEF Reclaim, Goto, storeVars, taskVars, diskVars,
     AnswerBeforeRecord, Settled
<1> QED
  BY <1>1, <1>2, <1>3, <1>4, <1>5, <1>6, <1>7, <1>8, <1>9, <1>10, <1>11, <1>12, <1>13,
     <1>14, <1>15, <1>16, <1>17, <1>18
     DEF Next, Request, Creating, Task, Work

\* Only the reclaiming task fills its list, and it does not go on before it is empty.
LEMMA SweepsInItsTurnKept ==
  ASSUME TypeOK, SweepsInItsTurn, WaitsWithItsTask, Next
  PROVE  SweepsInItsTurn'
<1>types. /\ doomed \in [Sweepers -> SUBSET (Jobs \X BOOLEAN)]
          /\ task \in [Jobs -> TaskStates]
          /\ record \in Records
  BY DEF TypeOK, Records
<1>1. ASSUME NEW j \in Jobs, Create(j) \/ Issue(j) \/ Abort(j) \/ AbortStops(j)
             \/ Destroy(j) \/ DestroyDeletes(j) \/ DestroyRemoves(j) \/ TimePasses(j)
             \/ WorkOpens(j) \/ CreationLands(j) \/ WorkDropped(j)
      PROVE  SweepsInItsTurn'
  BY <1>1 DEF Create, Issue, Abort, AbortStops, Destroy, DestroyDeletes, DestroyRemoves,
     TimePasses, WorkOpens, CreationLands, WorkDropped, Fulfil, taskVars, SweepsInItsTurn
<1>2. ASSUME NEW j \in Jobs, NEW S \in SUBSET Items, HoldForCreate(j, S) \/ Extend(j, S)
             \/ PostParameters(j, S)
      PROVE  SweepsInItsTurn'
  BY <1>2 DEF HoldForCreate, Extend, PostParameters, taskVars, SweepsInItsTurn
<1>3. ASSUME NEW j \in Jobs, NEW past \in BOOLEAN, SetDestruction(j, past)
      PROVE  SweepsInItsTurn'
  BY <1>3 DEF SetDestruction, taskVars, SweepsInItsTurn
<1>4. ASSUME NEW j \in Jobs, NEW how \in {"done", "failed"}, WorkEnds(j, how)
      PROVE  SweepsInItsTurn'
  BY <1>4 DEF WorkEnds, taskVars, SweepsInItsTurn
<1>5. ASSUME NEW j \in Jobs, RunOnCreate(j) \/ Run(j)
      PROVE  SweepsInItsTurn'
  BY <1>5, <1>types, StartEffect DEF RunOnCreate, Run, taskVars, SweepsInItsTurn,
     WaitsWithItsTask
<1>6. ASSUME Expire
      PROVE  SweepsInItsTurn'
  BY <1>6, <1>types, JobsAssumption DEF Expire, Taken, Stored, Completed, taskVars,
     SweepsInItsTurn, Sweepers
<1>7. ASSUME NEW s \in Sweepers, NEW j \in Jobs, NEW product \in BOOLEAN,
             Sweep(s, j, product)
      PROVE  SweepsInItsTurn'
  BY <1>7, <1>types DEF Sweep, taskVars, SweepsInItsTurn
<1>8. ASSUME NEW j \in Jobs, Admit(j) \/ Launch(j) \/ Watch(j) \/ ClockRunsOut(j)
             \/ Observe(j) \/ KeepAnswer(j) \/ Abandon(j) \/ RecordFailure(j)
             \/ RecordSuccess(j) \/ RemoveRefused(j) \/ ReclaimDone(j) \/ Finish(j)
      PROVE  SweepsInItsTurn'
  BY <1>8, <1>types DEF Admit, Launch, Watch, ClockRunsOut, Observe, KeepAnswer, Abandon,
     RecordFailure, RecordSuccess, RemoveRefused, ReclaimDone, Finish, Goto, taskVars,
     SweepsInItsTurn
<1>9. ASSUME NEW j \in Jobs, Reclaim(j)
      PROVE  SweepsInItsTurn'
  BY <1>9, <1>types, JobsAssumption DEF Reclaim, Goto, Taken, Shed, Completed, taskVars,
     SweepsInItsTurn, Sweepers
<1> QED
  BY <1>1, <1>2, <1>3, <1>4, <1>5, <1>6, <1>7, <1>8, <1>9
     DEF Next, Request, Creating, Task, Work

\* The work does not outlast the watching of it, nor the half-written answer the sweep of it.
LEMMA WorkInItsTaskKept ==
  ASSUME TypeOK, WorkInItsTask, WaitsWithItsTask, Next
  PROVE  WorkInItsTask'
<1>types. /\ work \in [Jobs -> Live \cup {"none", "done", "failed", "cancelled"}]
          /\ partial \in [Jobs -> {"none", "creating", "written", "orphaned", "stray"}]
          /\ task \in [Jobs -> TaskStates]
          /\ record \in Records
  BY DEF TypeOK, Records
<1>1. ASSUME NEW j \in Jobs, Create(j) \/ Issue(j) \/ Abort(j) \/ DestroyDeletes(j)
             \/ DestroyRemoves(j) \/ TimePasses(j)
      PROVE  WorkInItsTask'
  BY <1>1 DEF Create, Issue, Abort, DestroyDeletes, DestroyRemoves, TimePasses, Fulfil,
     taskVars, workVars, diskVars, WorkInItsTask, AtWork, Live
<1>2. ASSUME NEW j \in Jobs, NEW S \in SUBSET Items, HoldForCreate(j, S) \/ Extend(j, S)
             \/ PostParameters(j, S)
      PROVE  WorkInItsTask'
  BY <1>2 DEF HoldForCreate, Extend, PostParameters, taskVars, workVars, diskVars,
     WorkInItsTask, AtWork, Live
<1>3. ASSUME NEW j \in Jobs, NEW past \in BOOLEAN, SetDestruction(j, past)
      PROVE  WorkInItsTask'
  BY <1>3 DEF SetDestruction, taskVars, workVars, diskVars, WorkInItsTask, AtWork, Live
<1>4. ASSUME Expire
      PROVE  WorkInItsTask'
  BY <1>4 DEF Expire, taskVars, workVars, diskVars, WorkInItsTask, AtWork, Live
<1>5. ASSUME NEW j \in Jobs, RunOnCreate(j) \/ Run(j)
      PROVE  WorkInItsTask'
  BY <1>5, <1>types, StartEffect DEF RunOnCreate, Run, taskVars, workVars, diskVars,
     WorkInItsTask, WaitsWithItsTask, AtWork, Live
<1>6. ASSUME NEW j \in Jobs, AbortStops(j) \/ Destroy(j)
      PROVE  WorkInItsTask'
  BY <1>6, <1>types DEF AbortStops, Destroy, Stop, taskVars, workVars, diskVars,
     WorkInItsTask, AtWork, Live
<1>7. ASSUME NEW s \in Sweepers, NEW j \in Jobs, NEW product \in BOOLEAN,
             Sweep(s, j, product)
      PROVE  WorkInItsTask'
  BY <1>7, <1>types DEF Sweep, Stop, taskVars, workVars, diskVars, WorkInItsTask, AtWork,
     Live
<1>8. ASSUME NEW j \in Jobs, Admit(j) \/ Watch(j) \/ Observe(j) \/ RecordFailure(j)
             \/ RecordSuccess(j) \/ RemoveRefused(j) \/ Reclaim(j) \/ ReclaimDone(j)
      PROVE  WorkInItsTask'
  BY <1>8, <1>types DEF Admit, Watch, Observe, RecordFailure, RecordSuccess, RemoveRefused,
     Reclaim, ReclaimDone, Goto, taskVars, workVars, diskVars, WorkInItsTask, AtWork, Live
<1>9. ASSUME NEW j \in Jobs, Launch(j) \/ ClockRunsOut(j) \/ Finish(j)
      PROVE  WorkInItsTask'
  BY <1>9, <1>types DEF Launch, ClockRunsOut, Finish, Goto, taskVars, workVars, diskVars,
     WorkInItsTask, AtWork, Live
<1>10. ASSUME NEW j \in Jobs, KeepAnswer(j) \/ Abandon(j)
       PROVE  WorkInItsTask'
  BY <1>10, <1>types DEF KeepAnswer, Abandon, Goto, taskVars, workVars, diskVars,
     WorkInItsTask, AtWork, Live
<1>11. ASSUME NEW j \in Jobs, WorkOpens(j) \/ CreationLands(j)
       PROVE  WorkInItsTask'
  BY <1>11, <1>types DEF WorkOpens, CreationLands, taskVars, workVars, diskVars,
     WorkInItsTask, AtWork, Live
<1>12. ASSUME NEW j \in Jobs, NEW how \in {"done", "failed"}, WorkEnds(j, how)
       PROVE  WorkInItsTask'
  BY <1>12, <1>types DEF WorkEnds, taskVars, workVars, diskVars, WorkInItsTask, AtWork, Live
<1>13. ASSUME NEW j \in Jobs, WorkDropped(j)
       PROVE  WorkInItsTask'
  BY <1>13, <1>types DEF WorkDropped, taskVars, workVars, diskVars, WorkInItsTask, AtWork,
     Live
<1> QED
  BY <1>1, <1>2, <1>3, <1>4, <1>5, <1>6, <1>7, <1>8, <1>9, <1>10, <1>11, <1>12, <1>13
     DEF Next, Request, Creating, Task, Work

\* A job whose record was taken out and whose answer is done with stays so.
LEMMA ClearedStaysKept ==
  ASSUME TypeOK, Next
  PROVE  \A k \in Jobs : Cleared(k) => Cleared(k)'
<1>types. /\ record \in Records
          /\ creation \in [Jobs -> {"unused", "created", "holding", "held", "issued", "failed"}]
          /\ task \in [Jobs -> TaskStates]
  BY DEF TypeOK, Records
<1>1. ASSUME NEW j \in Jobs, AbortStops(j) \/ Destroy(j) \/ DestroyRemoves(j)
             \/ WorkOpens(j) \/ CreationLands(j) \/ WorkDropped(j)
      PROVE  \A k \in Jobs : Cleared(k) => Cleared(k)'
  BY <1>1 DEF AbortStops, Destroy, DestroyRemoves, WorkOpens, CreationLands, WorkDropped,
     Fulfil, storeVars, taskVars, Cleared, Settled
<1>2. ASSUME NEW j \in Jobs, NEW S \in SUBSET Items, PostParameters(j, S)
      PROVE  \A k \in Jobs : Cleared(k) => Cleared(k)'
  BY <1>2 DEF PostParameters, storeVars, taskVars, Cleared, Settled
<1>3. ASSUME NEW s \in Sweepers, NEW j \in Jobs, NEW product \in BOOLEAN,
             Sweep(s, j, product)
      PROVE  \A k \in Jobs : Cleared(k) => Cleared(k)'
  BY <1>3 DEF Sweep, storeVars, taskVars, Cleared, Settled
<1>4. ASSUME NEW j \in Jobs, NEW how \in {"done", "failed"}, WorkEnds(j, how)
      PROVE  \A k \in Jobs : Cleared(k) => Cleared(k)'
  BY <1>4 DEF WorkEnds, storeVars, taskVars, Cleared, Settled
<1>5. ASSUME NEW j \in Jobs, Create(j)
      PROVE  \A k \in Jobs : Cleared(k) => Cleared(k)'
  BY <1>5, <1>types, CreateEffect DEF Create, storeVars, taskVars, Cleared, Settled,
     OthersSame
<1>6. ASSUME NEW j \in Jobs, NEW S \in SUBSET Items, HoldForCreate(j, S) \/ Extend(j, S)
      PROVE  \A k \in Jobs : Cleared(k) => Cleared(k)'
  BY <1>6, <1>types DEF HoldForCreate, Extend, storeVars, taskVars, Cleared, Settled
<1>7. ASSUME NEW j \in Jobs, RunOnCreate(j)
      PROVE  \A k \in Jobs : Cleared(k) => Cleared(k)'
  BY <1>7, <1>types, StartEffect DEF RunOnCreate, storeVars, taskVars, Cleared, Settled,
     OthersSame
<1>8. ASSUME NEW j \in Jobs, Issue(j)
      PROVE  \A k \in Jobs : Cleared(k) => Cleared(k)'
  BY <1>8, <1>types DEF Issue, storeVars, taskVars, Cleared, Settled
<1>9. ASSUME NEW j \in Jobs, Run(j)
      PROVE  \A k \in Jobs : Cleared(k) => Cleared(k)'
  BY <1>9, <1>types, StartEffect DEF Run, storeVars, taskVars, Cleared, Settled, OthersSame
<1>10. ASSUME NEW j \in Jobs, Abort(j)
       PROVE  \A k \in Jobs : Cleared(k) => Cleared(k)'
  BY <1>10, <1>types, AbortEffect DEF Abort, storeVars, taskVars, Cleared, Settled,
     OthersSame
<1>11. ASSUME NEW j \in Jobs, DestroyDeletes(j)
       PROVE  \A k \in Jobs : Cleared(k) => Cleared(k)'
  BY <1>11, <1>types, ForgetEffect DEF DestroyDeletes, storeVars, taskVars, Cleared, Settled
<1>12. ASSUME NEW j \in Jobs, NEW past \in BOOLEAN, SetDestruction(j, past)
       PROVE  \A k \in Jobs : Cleared(k) => Cleared(k)'
  BY <1>12, <1>types, DueEffect DEF SetDestruction, storeVars, taskVars, Cleared, Settled
<1>13. ASSUME NEW j \in Jobs, TimePasses(j)
       PROVE  \A k \in Jobs : Cleared(k) => Cleared(k)'
  BY <1>13, <1>types, DueEffect DEF TimePasses, storeVars, taskVars, Cleared, Settled
<1>14. ASSUME Expire
       PROVE  \A k \in Jobs : Cleared(k) => Cleared(k)'
  BY <1>14, <1>types, ForgetEffect DEF Expire, storeVars, taskVars, Cleared, Settled
<1>15. ASSUME NEW j \in Jobs, Admit(j)
       PROVE  \A k \in Jobs : Cleared(k) => Cleared(k)'
  BY <1>15, <1>types, AdmitEffect DEF Admit, Goto, storeVars, taskVars, Cleared, Settled,
     OthersSame
<1>16. ASSUME NEW j \in Jobs, Launch(j) \/ Watch(j) \/ ClockRunsOut(j) \/ Observe(j)
              \/ KeepAnswer(j) \/ Abandon(j) \/ RemoveRefused(j) \/ ReclaimDone(j)
              \/ Finish(j)
       PROVE  \A k \in Jobs : Cleared(k) => Cleared(k)'
  BY <1>16, <1>types DEF Launch, Watch, ClockRunsOut, Observe, KeepAnswer, Abandon,
     RemoveRefused, ReclaimDone, Finish, Goto, storeVars, taskVars, Cleared, Settled
<1>17. ASSUME NEW j \in Jobs, RecordFailure(j)
       PROVE  \A k \in Jobs : Cleared(k) => Cleared(k)'
  BY <1>17, <1>types, FailureEffect DEF RecordFailure, Goto, storeVars, taskVars, Cleared,
     Settled, OthersSame
<1>18. ASSUME NEW j \in Jobs, RecordSuccess(j)
       PROVE  \A k \in Jobs : Cleared(k) => Cleared(k)'
  BY <1>18, <1>types, SuccessEffect DEF RecordSuccess, Goto, storeVars, taskVars, Cleared,
     Settled, OthersSame
<1>19. ASSUME NEW j \in Jobs, Reclaim(j)
       PROVE  \A k \in Jobs : Cleared(k) => Cleared(k)'
  BY <1>19, <1>types, ForgetEffect DEF Reclaim, Goto, storeVars, taskVars, Cleared, Settled
<1> QED
  BY <1>1, <1>2, <1>3, <1>4, <1>5, <1>6, <1>7, <1>8, <1>9, <1>10, <1>11, <1>12, <1>13,
     <1>14, <1>15, <1>16, <1>17, <1>18, <1>19
     DEF Next, Request, Creating, Task, Work

\* Only these take a record out and leave its answer to be removed.
LEMMA RecordBeforeAnswerKept ==
  ASSUME TypeOK, RecordBeforeAnswer, NothingBeforeCreation, AnswerBeforeRecord, Next
  PROVE  RecordBeforeAnswer'
<1>types. /\ record \in Records
          /\ owes \in [Jobs -> SUBSET {"stop", "delete", "remove"}]
          /\ doomed \in [Sweepers -> SUBSET (Jobs \X BOOLEAN)]
  BY DEF TypeOK, Records
<1>stays. \A k \in Jobs : Cleared(k) => Cleared(k)'
  BY ClearedStaysKept
<1>taken. ASSUME NEW k \in Jobs, record[k].phase = "COMPLETED", record'[k].phase = "NONE",
                 creation' = creation, task'[k] \in Settled
          PROVE  Cleared(k)'
  BY <1>taken DEF Cleared, NothingBeforeCreation
<1>same. ASSUME \A k \in Jobs : "remove" \in owes'[k] => "remove" \in owes[k],
                \A s \in Sweepers : doomed'[s] \subseteq doomed[s]
         PROVE  RecordBeforeAnswer'
  BY <1>same, <1>stays DEF RecordBeforeAnswer
<1>1. ASSUME NEW j \in Jobs,
             \/ Create(j) \/ RunOnCreate(j) \/ Issue(j) \/ Run(j) \/ SetDestruction(j, TRUE)
             \/ SetDestruction(j, FALSE) \/ TimePasses(j)
             \/ Admit(j) \/ Launch(j) \/ Watch(j) \/ ClockRunsOut(j) \/ Observe(j)
             \/ KeepAnswer(j) \/ Abandon(j) \/ RecordFailure(j) \/ RecordSuccess(j)
             \/ RemoveRefused(j) \/ ReclaimDone(j) \/ Finish(j)
             \/ WorkOpens(j) \/ CreationLands(j) \/ WorkDropped(j)
             \/ WorkEnds(j, "done") \/ WorkEnds(j, "failed")
      PROVE  RecordBeforeAnswer'
  <2>1. UNCHANGED <<owes, doomed>>
    BY <1>1 DEF Create, RunOnCreate, Issue, Run, SetDestruction, TimePasses, Admit, Launch,
       Watch, ClockRunsOut, Observe, KeepAnswer, Abandon, RecordFailure, RecordSuccess,
       RemoveRefused, ReclaimDone, Finish, WorkOpens, CreationLands, WorkDropped, WorkEnds
  <2> QED
    BY <2>1, <1>same
<1>2. ASSUME NEW j \in Jobs, NEW S \in SUBSET Items,
             HoldForCreate(j, S) \/ Extend(j, S) \/ PostParameters(j, S)
      PROVE  RecordBeforeAnswer'
  BY <1>2, <1>same DEF HoldForCreate, Extend, PostParameters
<1>3. ASSUME NEW j \in Jobs,
             Abort(j) \/ AbortStops(j) \/ Destroy(j) \/ DestroyRemoves(j)
      PROVE  RecordBeforeAnswer'
  <2>1. doomed' = doomed /\ \A k \in Jobs : "remove" \in owes'[k] => "remove" \in owes[k]
    BY <1>3, <1>types DEF Abort, AbortStops, Destroy, DestroyRemoves, Promise, Fulfil
  <2> QED
    BY <2>1, <1>same
<1>4. ASSUME NEW s \in Sweepers, NEW j \in Jobs, NEW product \in BOOLEAN,
             Sweep(s, j, product)
      PROVE  RecordBeforeAnswer'
  <2>1. owes' = owes /\ \A t \in Sweepers : doomed'[t] \subseteq doomed[t]
    BY <1>4, <1>types DEF Sweep
  <2> QED
    BY <2>1, <1>same
<1>5. ASSUME NEW j \in Jobs, DestroyDeletes(j)
      PROVE  RecordBeforeAnswer'
  <2>1. UNCHANGED <<creation, task, doomed>>
    BY <1>5 DEF DestroyDeletes, taskVars
  <2>2. /\ \A k \in Jobs \ {j} : owes'[k] = owes[k]
        /\ "remove" \in owes'[j] => "remove" \in owes[j] \/ record[j].phase = "COMPLETED"
    BY <1>5, <1>types DEF DestroyDeletes
  <2>3. record'[j].phase = "NONE"
    BY <1>5, <1>types, ForgetEffect DEF DestroyDeletes
  <2>4. record[j].phase = "COMPLETED" => task'[j] \in Settled
    BY <2>1 DEF AnswerBeforeRecord
  <2>5. record[j].phase = "COMPLETED" => Cleared(j)'
    BY <2>1, <2>3, <2>4, <1>taken
  <2> QED
    BY <2>1, <2>2, <2>5, <1>stays DEF RecordBeforeAnswer
<1>6. ASSUME Expire
      PROVE  RecordBeforeAnswer'
  <2> DEFINE expired == {j \in Stored : record[j].due}
  <2>1. /\ UNCHANGED <<creation, task, owes>>
        /\ Forget(expired)
        /\ doomed' = [doomed EXCEPT ![Timer] = Taken(expired)]
    BY <1>6 DEF Expire, taskVars
  <2>2. \A s \in Sweepers, k \in Jobs :
          <<k, TRUE>> \in doomed'[s] =>
            \/ <<k, TRUE>> \in doomed[s]
            \/ k \in expired /\ record[k].phase = "COMPLETED"
    BY <2>1, <1>types DEF Taken
  <2>3. \A k \in Jobs : k \in expired => record'[k].phase = "NONE"
    BY <2>1, <1>types, ForgetEffect
  <2>4. \A k \in Jobs : record[k].phase = "COMPLETED" => task'[k] \in Settled
    BY <2>1 DEF AnswerBeforeRecord
  <2>5. \A k \in Jobs : k \in expired /\ record[k].phase = "COMPLETED" => Cleared(k)'
    <3> HIDE DEF expired
    <3> QED  BY <2>1, <2>3, <2>4, <1>taken
  <2> QED
    BY <2>1, <2>2, <2>5, <1>stays DEF RecordBeforeAnswer
<1>7. ASSUME NEW j \in Jobs, Reclaim(j)
      PROVE  RecordBeforeAnswer'
  <2>1. /\ UNCHANGED <<creation, owes>>
        /\ Goto(j, "reclaiming", "sweeping")
        /\ Forget(Shed)
        /\ doomed' = [doomed EXCEPT ![j] = Taken(Shed)]
    BY <1>7 DEF Reclaim
  <2>2. \A s \in Sweepers, k \in Jobs :
          <<k, TRUE>> \in doomed'[s] =>
            \/ <<k, TRUE>> \in doomed[s]
            \/ k \in Shed /\ record[k].phase = "COMPLETED"
    BY <2>1, <1>types DEF Taken
  <2>3. \A k \in Jobs : k \in Shed => record'[k].phase = "NONE"
    BY <2>1, <1>types, ForgetEffect
  <2>4. \A k \in Jobs : record[k].phase = "COMPLETED" => task'[k] \in Settled
    <3>1. task \in [Jobs -> TaskStates]
      BY DEF TypeOK
    <3> QED
      BY <2>1, <3>1 DEF Goto, AnswerBeforeRecord, Settled
  <2>5. \A k \in Jobs : k \in Shed /\ record[k].phase = "COMPLETED" => Cleared(k)'
    BY <2>1, <2>3, <2>4, <1>taken
  <2> QED
    BY <2>1, <2>2, <2>5, <1>stays DEF RecordBeforeAnswer
<1> QED
  BY <1>1, <1>2, <1>3, <1>4, <1>5, <1>6, <1>7 DEF Next, Request, Creating, Task, Work

\* A file's owner hands it on: the task to the record, the record to whoever takes it out,
\* and that one removes it.
LEMMA AnswerHasAnOwnerKept ==
  ASSUME TypeOK, AnswerHasAnOwner, WaitsWithItsTask, NothingBeforeCreation, SweepsInItsTurn,
         Next
  PROVE  AnswerHasAnOwner'
<1>types. /\ files \subseteq Jobs
          /\ record \in Records
          /\ task \in [Jobs -> TaskStates]
          /\ owes \in [Jobs -> SUBSET {"stop", "delete", "remove"}]
          /\ doomed \in [Sweepers -> SUBSET (Jobs \X BOOLEAN)]
  BY DEF TypeOK, Records
<1>1. ASSUME NEW j \in Jobs, NEW S \in SUBSET Items, HoldForCreate(j, S) \/ Extend(j, S)
             \/ PostParameters(j, S)
      PROVE  AnswerHasAnOwner'
  BY <1>1 DEF HoldForCreate, Extend, PostParameters, storeVars, taskVars, diskVars,
     AnswerHasAnOwner, Completed, Clearing
<1>2. ASSUME NEW j \in Jobs, Issue(j) \/ WorkOpens(j) \/ CreationLands(j) \/ WorkDropped(j)
      PROVE  AnswerHasAnOwner'
  BY <1>2 DEF Issue, WorkOpens, CreationLands, WorkDropped, storeVars, taskVars, diskVars,
     AnswerHasAnOwner, Completed, Clearing
<1>3. ASSUME NEW j \in Jobs, NEW how \in {"done", "failed"}, WorkEnds(j, how)
      PROVE  AnswerHasAnOwner'
  BY <1>3 DEF WorkEnds, storeVars, taskVars, diskVars, AnswerHasAnOwner, Completed, Clearing
<1>4. ASSUME NEW j \in Jobs, Create(j)
      PROVE  AnswerHasAnOwner'
  BY <1>4, <1>types, CreateEffect DEF Create, storeVars, taskVars, diskVars,
     AnswerHasAnOwner, NothingBeforeCreation, Completed, Clearing, OthersSame
<1>5. ASSUME NEW j \in Jobs, RunOnCreate(j) \/ Run(j)
      PROVE  AnswerHasAnOwner'
  BY <1>5, <1>types, StartEffect DEF RunOnCreate, Run, storeVars, taskVars, diskVars,
     AnswerHasAnOwner, WaitsWithItsTask, Completed, Clearing, OthersSame
<1>6. ASSUME NEW j \in Jobs, Abort(j)
      PROVE  AnswerHasAnOwner'
  BY <1>6, <1>types, AbortEffect DEF Abort, Promise, storeVars, taskVars, diskVars,
     AnswerHasAnOwner, Completed, Clearing, OthersSame
<1>7. ASSUME NEW j \in Jobs, AbortStops(j)
      PROVE  AnswerHasAnOwner'
  BY <1>7, <1>types DEF AbortStops, Fulfil, storeVars, taskVars, diskVars, AnswerHasAnOwner,
     Completed, Clearing
<1>8. ASSUME NEW j \in Jobs, Destroy(j)
      PROVE  AnswerHasAnOwner'
  BY <1>8, <1>types DEF Destroy, Promise, storeVars, taskVars, diskVars, AnswerHasAnOwner,
     Completed, Clearing
<1>9. ASSUME NEW j \in Jobs, DestroyDeletes(j)
       PROVE  AnswerHasAnOwner'
  <2>1. UNCHANGED <<task, doomed, files>>
    BY <1>9 DEF DestroyDeletes, taskVars, diskVars
  <2>2. /\ \A k \in Jobs \ {j} : owes'[k] = owes[k]
        /\ "remove" \in owes[j] \/ record[j].phase = "COMPLETED" => "remove" \in owes'[j]
    BY <1>9, <1>types DEF DestroyDeletes
  <2>3. \A k \in Jobs \ {j} : record'[k].phase = record[k].phase
    BY <1>9, <1>types, ForgetEffect DEF DestroyDeletes
  <2> QED
    BY <2>1, <2>2, <2>3, <1>types DEF AnswerHasAnOwner, Completed, Clearing
<1>10. ASSUME NEW j \in Jobs, DestroyRemoves(j)
       PROVE  AnswerHasAnOwner'
  BY <1>10, <1>types DEF DestroyRemoves, Fulfil, storeVars, taskVars, diskVars,
     AnswerHasAnOwner, Completed, Clearing
<1>11. ASSUME NEW j \in Jobs, NEW past \in BOOLEAN, SetDestruction(j, past)
       PROVE  AnswerHasAnOwner'
  BY <1>11, <1>types, DueEffect DEF SetDestruction, storeVars, taskVars, diskVars,
     AnswerHasAnOwner, Completed, Clearing
<1>12. ASSUME NEW j \in Jobs, TimePasses(j)
       PROVE  AnswerHasAnOwner'
  BY <1>12, <1>types, DueEffect DEF TimePasses, storeVars, taskVars, diskVars,
     AnswerHasAnOwner, Completed, Clearing
<1>13. ASSUME Expire
       PROVE  AnswerHasAnOwner'
  <2> DEFINE expired == {j \in Stored : record[j].due}
  <2>1. /\ UNCHANGED <<task, owes, files>>
        /\ Forget(expired)
        /\ doomed[Timer] = {}
        /\ doomed' = [doomed EXCEPT ![Timer] = Taken(expired)]
    BY <1>13 DEF Expire, taskVars, diskVars
  <2>2. \A s \in Sweepers : doomed[s] \subseteq doomed'[s]
    BY <2>1, <1>types
  <2>3. \A k \in Jobs :
          k \in expired /\ record[k].phase = "COMPLETED" => <<k, TRUE>> \in doomed'[Timer]
    BY <2>1, <1>types DEF Taken, Sweepers
  <2>4. \A k \in Jobs : k \notin expired => record'[k].phase = record[k].phase
    BY <2>1, <1>types, ForgetEffect
  <2>5. Timer \in Sweepers
    BY DEF Sweepers
  <2> HIDE DEF expired
  <2> QED
    BY <2>1, <2>2, <2>3, <2>4, <2>5, <1>types DEF AnswerHasAnOwner, Completed, Clearing
<1>14. ASSUME NEW s \in Sweepers, NEW j \in Jobs, NEW product \in BOOLEAN,
              Sweep(s, j, product)
       PROVE  AnswerHasAnOwner'
  BY <1>14, <1>types DEF Sweep, storeVars, taskVars, diskVars, AnswerHasAnOwner, Completed,
     Clearing
<1>15. ASSUME NEW j \in Jobs, Admit(j)
       PROVE  AnswerHasAnOwner'
  BY <1>15, <1>types, AdmitEffect DEF Admit, Goto, storeVars, taskVars, diskVars,
     AnswerHasAnOwner, WaitsWithItsTask, Completed, Clearing, OthersSame
<1>16. ASSUME NEW j \in Jobs, Launch(j) \/ Watch(j) \/ ClockRunsOut(j) \/ Observe(j)
              \/ Abandon(j) \/ ReclaimDone(j) \/ Finish(j)
       PROVE  AnswerHasAnOwner'
  BY <1>16, <1>types DEF Launch, Watch, ClockRunsOut, Observe, Abandon, ReclaimDone, Finish,
     Goto, storeVars, taskVars, diskVars, AnswerHasAnOwner, Completed, Clearing
<1>17. ASSUME NEW j \in Jobs, KeepAnswer(j) \/ RemoveRefused(j)
       PROVE  AnswerHasAnOwner'
  <2>1. /\ UNCHANGED <<record, owes, doomed>>
        /\ \A k \in Jobs \ {j} : k \in files' => k \in files /\ task'[k] = task[k]
        /\ j \in files' => (j \in files /\ task'[j] = task[j]) \/ task'[j] = "kept"
    BY <1>17, <1>types DEF KeepAnswer, RemoveRefused, Goto, storeVars, diskVars
  <2>2. \A k \in Jobs : Clearing(k)' = Clearing(k)
    BY <2>1 DEF Clearing
  <2>3. files' \subseteq Jobs
    BY <1>17, <1>types DEF KeepAnswer, RemoveRefused
  <2> QED
    BY <2>1, <2>2, <2>3, <1>types DEF AnswerHasAnOwner, Completed
<1>18. ASSUME NEW j \in Jobs, RecordFailure(j)
       PROVE  AnswerHasAnOwner'
  BY <1>18, <1>types, FailureEffect DEF RecordFailure, Goto, storeVars, taskVars, diskVars,
     AnswerHasAnOwner, Completed, Clearing, OthersSame
<1>19. ASSUME NEW j \in Jobs, RecordSuccess(j)
       PROVE  AnswerHasAnOwner'
  BY <1>19, <1>types, SuccessEffect DEF RecordSuccess, Goto, storeVars, taskVars, diskVars,
     AnswerHasAnOwner, Completed, Clearing, OthersSame
<1>20. ASSUME NEW j \in Jobs, Reclaim(j)
       PROVE  AnswerHasAnOwner'
  <2>1. /\ UNCHANGED <<owes, files>>
        /\ Goto(j, "reclaiming", "sweeping")
        /\ Forget(Shed)
        /\ doomed' = [doomed EXCEPT ![j] = Taken(Shed)]
    BY <1>20 DEF Reclaim, diskVars
  <2>2. j \in Sweepers /\ doomed[j] = {}
    BY <2>1 DEF Sweepers, Goto, SweepsInItsTurn
  <2>3. \A s \in Sweepers : doomed[s] \subseteq doomed'[s]
    BY <2>1, <2>2, <1>types
  <2>4. \A k \in Jobs :
          k \in Shed /\ record[k].phase = "COMPLETED" => <<k, TRUE>> \in doomed'[j]
    BY <2>1, <2>2, <1>types DEF Taken
  <2>5. \A k \in Jobs : k \notin Shed => record'[k].phase = record[k].phase
    BY <2>1, <1>types, ForgetEffect
  <2>6. \A k \in Jobs : task[k] \in {"kept", "refused"} => task'[k] = task[k]
    BY <2>1, <1>types DEF Goto
  <2> QED
    BY <2>1, <2>2, <2>3, <2>4, <2>5, <2>6, <1>types
    DEF AnswerHasAnOwner, Completed, Clearing
<1> QED
  BY <1>1, <1>2, <1>3, <1>4, <1>5, <1>6, <1>7, <1>8, <1>9, <1>10, <1>11, <1>12, <1>13,
     <1>14, <1>15, <1>16, <1>17, <1>18, <1>19, <1>20
     DEF Next, Request, Creating, Task, Work

\* A slot is taken by Admit alone, which counts the holders first.
LEMMA SlotsNotExceededKept ==
  ASSUME TypeOK, SlotsNotExceeded, WaitsWithItsTask, Next
  PROVE  SlotsNotExceeded'
<1>types. task \in [Jobs -> TaskStates] /\ record \in Records
  BY DEF TypeOK, Records
<1>finite. IsFiniteSet(SlotHolders) /\ Cardinality(SlotHolders) \in Nat
  BY JobsAssumption, FS_Subset, FS_CardinalityType DEF SlotHolders
<1>fewer. ASSUME SlotHolders' \subseteq SlotHolders
          PROVE  SlotsNotExceeded'
  <2>1. Cardinality(SlotHolders') \in Nat /\ Cardinality(SlotHolders') <= Cardinality(SlotHolders)
    BY <1>fewer, <1>finite, FS_Subset, FS_CardinalityType
  <2> QED
    BY <2>1, <1>finite, SlotsAssumption DEF SlotsNotExceeded
<1>1. ASSUME NEW j \in Jobs,
             \/ Create(j) \/ Issue(j) \/ Abort(j) \/ AbortStops(j) \/ Destroy(j)
             \/ DestroyDeletes(j) \/ DestroyRemoves(j) \/ TimePasses(j)
             \/ SetDestruction(j, TRUE) \/ SetDestruction(j, FALSE)
             \/ WorkOpens(j) \/ CreationLands(j) \/ WorkDropped(j)
             \/ WorkEnds(j, "done") \/ WorkEnds(j, "failed")
      PROVE  SlotsNotExceeded'
  <2>1. task' = task
    BY <1>1 DEF Create, Issue, Abort, AbortStops, Destroy, DestroyDeletes, DestroyRemoves,
       TimePasses, SetDestruction, WorkOpens, CreationLands, WorkDropped, WorkEnds, taskVars
  <2> QED
    BY <2>1, <1>fewer DEF SlotHolders
<1>2. ASSUME NEW j \in Jobs, NEW S \in SUBSET Items,
             HoldForCreate(j, S) \/ Extend(j, S) \/ PostParameters(j, S)
      PROVE  SlotsNotExceeded'
  BY <1>2, <1>fewer DEF HoldForCreate, Extend, PostParameters, taskVars, SlotHolders
<1>3. ASSUME NEW s \in Sweepers, NEW j \in Jobs, NEW product \in BOOLEAN,
             Sweep(s, j, product)
      PROVE  SlotsNotExceeded'
  BY <1>3, <1>fewer DEF Sweep, taskVars, SlotHolders
<1>4. ASSUME Expire
      PROVE  SlotsNotExceeded'
  BY <1>4, <1>fewer DEF Expire, taskVars, SlotHolders
<1>5. ASSUME NEW j \in Jobs, RunOnCreate(j) \/ Run(j)
      PROVE  SlotsNotExceeded'
  <2>1. task' = task \/ task' = [task EXCEPT ![j] = "queued"]
    BY <1>5, <1>types, StartEffect DEF RunOnCreate, Run
  <2>2. SlotHolders' \subseteq SlotHolders
    BY <2>1, <1>types DEF SlotHolders, Executing
  <2> QED
    BY <2>2, <1>fewer
<1>6. ASSUME NEW j \in Jobs,
             \/ Launch(j) \/ Watch(j) \/ ClockRunsOut(j) \/ Observe(j) \/ KeepAnswer(j)
             \/ Abandon(j) \/ RecordFailure(j) \/ RecordSuccess(j) \/ RemoveRefused(j)
             \/ Reclaim(j) \/ ReclaimDone(j) \/ Finish(j)
      PROVE  SlotsNotExceeded'
  <2>1. task[j] \in Executing /\ \A k \in Jobs \ {j} : task'[k] = task[k]
    BY <1>6, <1>types DEF Launch, Watch, ClockRunsOut, Observe, KeepAnswer, Abandon,
       RecordFailure, RecordSuccess, RemoveRefused, Reclaim, ReclaimDone, Finish, Goto,
       Executing
  <2>2. SlotHolders' \subseteq SlotHolders
    BY <2>1 DEF SlotHolders
  <2> QED
    BY <2>2, <1>fewer
<1>7. ASSUME NEW j \in Jobs, Admit(j)
      PROVE  SlotsNotExceeded'
  <2>1. Cardinality(SlotHolders) < MaxRunning
    BY <1>7 DEF Admit
  <2>2. SlotHolders' \subseteq SlotHolders \cup {j}
    BY <1>7, <1>types DEF Admit, Goto, SlotHolders
  <2>3. /\ IsFiniteSet(SlotHolders \cup {j})
        /\ \/ Cardinality(SlotHolders \cup {j}) = Cardinality(SlotHolders)
           \/ Cardinality(SlotHolders \cup {j}) = Cardinality(SlotHolders) + 1
    BY <1>finite, FS_AddElement
  <2>4. /\ Cardinality(SlotHolders \cup {j}) \in Nat
        /\ Cardinality(SlotHolders') \in Nat
        /\ Cardinality(SlotHolders') <= Cardinality(SlotHolders \cup {j})
    BY <2>2, <2>3, FS_Subset, FS_CardinalityType
  <2> QED
    BY <2>1, <2>3, <2>4, <1>finite, SlotsAssumption DEF SlotsNotExceeded
<1> QED
  BY <1>1, <1>2, <1>3, <1>4, <1>5, <1>6, <1>7 DEF Next, Request, Creating, Task, Work

-----------------------------------------------------------------------------
(* What the quota goes by.                                                 *)

\* A job's creation, begun, is never forgotten.
LEMMA CreationStays ==
  ASSUME TypeOK, Next
  PROVE  \A k \in Jobs : creation[k] # "unused" => creation'[k] # "unused"
<1>types. creation \in [Jobs -> {"unused", "created", "holding", "held", "issued", "failed"}]
  BY DEF TypeOK
<1>1. ASSUME NEW j \in Jobs,
             \/ Run(j) \/ Abort(j) \/ AbortStops(j) \/ Destroy(j) \/ DestroyDeletes(j)
             \/ DestroyRemoves(j) \/ SetDestruction(j, TRUE) \/ SetDestruction(j, FALSE)
             \/ TimePasses(j) \/ Admit(j) \/ Launch(j) \/ Watch(j) \/ ClockRunsOut(j)
             \/ Observe(j) \/ KeepAnswer(j) \/ Abandon(j) \/ RecordFailure(j)
             \/ RecordSuccess(j) \/ RemoveRefused(j) \/ Reclaim(j) \/ ReclaimDone(j)
             \/ Finish(j) \/ WorkOpens(j) \/ CreationLands(j) \/ WorkDropped(j)
             \/ WorkEnds(j, "done") \/ WorkEnds(j, "failed")
      PROVE  creation' = creation
  BY <1>1 DEF Run, Abort, AbortStops, Destroy, DestroyDeletes, DestroyRemoves, SetDestruction,
     TimePasses, Admit, Launch, Watch, ClockRunsOut, Observe, KeepAnswer, Abandon,
     RecordFailure, RecordSuccess, RemoveRefused, Reclaim, ReclaimDone, Finish, WorkOpens,
     CreationLands, WorkDropped, WorkEnds, storeVars
<1>2. ASSUME NEW s \in Sweepers, NEW j \in Jobs, NEW product \in BOOLEAN,
             Sweep(s, j, product)
      PROVE  creation' = creation
  BY <1>2 DEF Sweep, storeVars
<1>3. ASSUME NEW j \in Jobs, NEW S \in SUBSET Items, PostParameters(j, S)
      PROVE  creation' = creation
  BY <1>3 DEF PostParameters, storeVars
<1>4. ASSUME Expire
      PROVE  creation' = creation
  BY <1>4 DEF Expire
<1>5. ASSUME NEW j \in Jobs, Create(j) \/ RunOnCreate(j) \/ Issue(j)
      PROVE  \A k \in Jobs : creation[k] # "unused" => creation'[k] # "unused"
  BY <1>5, <1>types DEF Create, RunOnCreate, Issue
<1>6. ASSUME NEW j \in Jobs, NEW S \in SUBSET Items, HoldForCreate(j, S) \/ Extend(j, S)
      PROVE  \A k \in Jobs : creation[k] # "unused" => creation'[k] # "unused"
  BY <1>6, <1>types DEF HoldForCreate, Extend
<1> QED
  BY <1>1, <1>2, <1>3, <1>4, <1>5, <1>6 DEF Next, Request, Creating, Task, Work

EndStays(j) ==
  /\ record[j].phase \in Terminal => record'[j].phase \in {record[j].phase, "NONE"}
  /\ creation[j] # "unused" /\ j \notin Stored => j \notin Stored'

\* A terminal phase is left only by the record going, and a record that went stays gone.
LEMMA EndsStay ==
  ASSUME TypeOK, NothingBeforeCreation, Next
  PROVE  \A k \in Jobs : EndStays(k)
<1>records. record \in Records
  BY DEF TypeOK, Records
<1>same. ASSUME \A k \in Jobs : record'[k].phase = record[k].phase
         PROVE  \A k \in Jobs : EndStays(k)
  BY <1>same DEF EndStays, Stored
<1>gone. ASSUME NEW S, Forget(S)
         PROVE  \A k \in Jobs : EndStays(k)
  BY <1>gone, <1>records, ForgetEffect DEF EndStays, Stored
<1>moved. ASSUME NEW j \in Jobs, OthersSame(j), record[j].phase \notin Terminal,
                 record[j].phase # "NONE" \/ creation[j] = "unused"
          PROVE  \A k \in Jobs : EndStays(k)
  BY <1>moved DEF EndStays, Stored, OthersSame
<1>1. ASSUME NEW j \in Jobs,
             \/ Issue(j) \/ AbortStops(j) \/ Destroy(j) \/ DestroyRemoves(j) \/ Launch(j)
             \/ Watch(j) \/ ClockRunsOut(j) \/ Observe(j) \/ KeepAnswer(j) \/ Abandon(j)
             \/ RemoveRefused(j) \/ ReclaimDone(j) \/ Finish(j) \/ WorkOpens(j)
             \/ CreationLands(j) \/ WorkDropped(j)
             \/ WorkEnds(j, "done") \/ WorkEnds(j, "failed")
      PROVE  \A k \in Jobs : EndStays(k)
  <2>1. record' = record
    BY <1>1 DEF Issue, AbortStops, Destroy, DestroyRemoves, Launch, Watch, ClockRunsOut,
       Observe, KeepAnswer, Abandon, RemoveRefused, ReclaimDone, Finish, WorkOpens,
       CreationLands, WorkDropped, WorkEnds, storeVars
  <2> QED
    BY <2>1, <1>same
<1>2. ASSUME NEW j \in Jobs, NEW S \in SUBSET Items,
             HoldForCreate(j, S) \/ Extend(j, S) \/ PostParameters(j, S)
      PROVE  \A k \in Jobs : EndStays(k)
  BY <1>2, <1>same DEF HoldForCreate, Extend, PostParameters, storeVars
<1>3. ASSUME NEW s \in Sweepers, NEW j \in Jobs, NEW product \in BOOLEAN,
             Sweep(s, j, product)
      PROVE  \A k \in Jobs : EndStays(k)
  BY <1>3, <1>same DEF Sweep, storeVars
<1>4. ASSUME NEW j \in Jobs, SetDestruction(j, TRUE) \/ SetDestruction(j, FALSE) \/ TimePasses(j)
      PROVE  \A k \in Jobs : EndStays(k)
  BY <1>4, <1>same, <1>records, DueEffect DEF SetDestruction, TimePasses
<1>5. ASSUME NEW j \in Jobs, Create(j)
      PROVE  \A k \in Jobs : EndStays(k)
  <2>1. creation[j] = "unused" /\ record[j].phase = "NONE"
    BY <1>5 DEF Create, NothingBeforeCreation
  <2> QED
    BY <2>1, <1>5, <1>moved, <1>records, CreateEffect DEF Terminal
<1>6. ASSUME NEW j \in Jobs, RunOnCreate(j) \/ Run(j)
      PROVE  \A k \in Jobs : EndStays(k)
  BY <1>6, <1>moved, <1>same, <1>records, StartEffect DEF RunOnCreate, Run, Terminal
<1>7. ASSUME NEW j \in Jobs, Abort(j)
      PROVE  \A k \in Jobs : EndStays(k)
  BY <1>7, <1>moved, <1>records, AbortEffect DEF Terminal
<1>8. ASSUME NEW j \in Jobs, Admit(j) \/ RecordFailure(j) \/ RecordSuccess(j)
      PROVE  \A k \in Jobs : EndStays(k)
  BY <1>8, <1>moved, <1>same, <1>records, AdmitEffect, FailureEffect, SuccessEffect DEF Terminal
<1>9. ASSUME NEW j \in Jobs, DestroyDeletes(j) \/ Reclaim(j)
      PROVE  \A k \in Jobs : EndStays(k)
  BY <1>9, <1>gone DEF DestroyDeletes, Reclaim
<1>10. ASSUME Expire
       PROVE  \A k \in Jobs : EndStays(k)
  BY <1>10, <1>gone DEF Expire
<1> QED
  BY <1>1, <1>2, <1>3, <1>4, <1>5, <1>6, <1>7, <1>8, <1>9, <1>10
  DEF Next, Request, Creating, Task, Work

\* No step but the record of a success makes a job completed or moves one that is.
Steady ==
  \A k \in Jobs :
    record'[k].phase = "COMPLETED" =>
      /\ record[k].phase = "COMPLETED"
      /\ record'[k].bytes = record[k].bytes
      /\ record'[k].older = record[k].older

Completes(j) ==
  /\ record[j].phase \in {"QUEUED", "EXECUTING"}
  /\ record'[j].phase = "COMPLETED"
  /\ record'[j].older = Completed
  /\ OthersSame(j)
  /\ task'[j] = "reclaiming"

LEMMA RecordsAreSteady ==
  ASSUME TypeOK, Next
  PROVE  Steady \/ \E j \in Jobs : Completes(j)
<1>records. record \in Records
  BY DEF TypeOK, Records
<1>same. ASSUME record' = record
         PROVE  Steady
  BY <1>same DEF Steady
<1>gone. ASSUME NEW S, Forget(S)
         PROVE  Steady
  BY <1>gone, <1>records, ForgetEffect DEF Steady
<1>moved. ASSUME NEW j \in Jobs, OthersSame(j), record'[j].phase # "COMPLETED"
          PROVE  Steady
  BY <1>moved DEF Steady, OthersSame
<1>1. ASSUME NEW j \in Jobs,
             \/ Issue(j) \/ AbortStops(j) \/ Destroy(j) \/ DestroyRemoves(j) \/ Launch(j)
             \/ Watch(j) \/ ClockRunsOut(j) \/ Observe(j) \/ KeepAnswer(j) \/ Abandon(j)
             \/ RemoveRefused(j) \/ ReclaimDone(j) \/ Finish(j) \/ WorkOpens(j)
             \/ CreationLands(j) \/ WorkDropped(j)
             \/ WorkEnds(j, "done") \/ WorkEnds(j, "failed")
      PROVE  Steady
  <2>1. record' = record
    BY <1>1 DEF Issue, AbortStops, Destroy, DestroyRemoves, Launch, Watch, ClockRunsOut,
       Observe, KeepAnswer, Abandon, RemoveRefused, ReclaimDone, Finish, WorkOpens,
       CreationLands, WorkDropped, WorkEnds, storeVars
  <2> QED
    BY <2>1, <1>same
<1>2. ASSUME NEW j \in Jobs, NEW S \in SUBSET Items,
             HoldForCreate(j, S) \/ Extend(j, S) \/ PostParameters(j, S)
      PROVE  Steady
  BY <1>2, <1>same DEF HoldForCreate, Extend, PostParameters, storeVars
<1>3. ASSUME NEW s \in Sweepers, NEW j \in Jobs, NEW product \in BOOLEAN,
             Sweep(s, j, product)
      PROVE  Steady
  BY <1>3, <1>same DEF Sweep, storeVars
<1>4. ASSUME NEW j \in Jobs, SetDestruction(j, TRUE) \/ SetDestruction(j, FALSE) \/ TimePasses(j)
      PROVE  Steady
  BY <1>4, <1>records, DueEffect DEF SetDestruction, TimePasses, Steady
<1>5. ASSUME NEW j \in Jobs, Create(j)
      PROVE  Steady
  BY <1>5, <1>moved, <1>records, CreateEffect
<1>6. ASSUME NEW j \in Jobs, RunOnCreate(j) \/ Run(j)
      PROVE  Steady
  BY <1>6, <1>moved, <1>same, <1>records, StartEffect DEF RunOnCreate, Run
<1>7. ASSUME NEW j \in Jobs, Abort(j)
      PROVE  Steady
  BY <1>7, <1>moved, <1>records, AbortEffect
<1>8. ASSUME NEW j \in Jobs, Admit(j) \/ RecordFailure(j)
      PROVE  Steady
  BY <1>8, <1>moved, <1>same, <1>records, AdmitEffect, FailureEffect
<1>9. ASSUME NEW j \in Jobs, RecordSuccess(j)
      PROVE  Steady \/ Completes(j)
  <2>1. task \in [Jobs -> TaskStates]
    BY DEF TypeOK
  <2> QED
    BY <2>1, <1>9, <1>same, <1>records, SuccessEffect DEF Goto, Completes
<1>10. ASSUME NEW j \in Jobs, DestroyDeletes(j) \/ Reclaim(j)
       PROVE  Steady
  BY <1>10, <1>gone DEF DestroyDeletes, Reclaim
<1>11. ASSUME Expire
       PROVE  Steady
  BY <1>11, <1>gone DEF Expire
<1> QED
  BY <1>1, <1>2, <1>3, <1>4, <1>5, <1>6, <1>7, <1>8, <1>9, <1>10, <1>11
  DEF Next, Request, Creating, Task, Work

\* A job that completes comes after all that have, and those that go leave the rest as they
\* stood.
LEMMA EndedInOrderKept ==
  ASSUME TypeOK, NothingBeforeCreation, EndedInOrder, Next
  PROVE  EndedInOrder'
<1> DEFINE Past(k) == creation[k] # "unused" /\ record[k].phase \in {"COMPLETED", "NONE"}
<1>types. record \in Records
  BY DEF TypeOK, Records
<1>older. \A j \in Jobs : record[j].older \subseteq Jobs
  BY <1>types DEF Records, Record
<1>1. ASSUME NEW k \in Jobs, Past(k)
      PROVE  Past(k)'
  <2>1. creation'[k] # "unused"
    BY <1>1, CreationStays
  <2>2. EndStays(k)
    BY EndsStay
  <2>3. CASE record[k].phase = "COMPLETED"
    BY <2>1, <2>2, <2>3 DEF EndStays, Terminal
  <2>4. CASE record[k].phase = "NONE"
    BY <1>1, <2>1, <2>2, <2>4 DEF EndStays, Stored
  <2> QED
    BY <1>1, <2>3, <2>4
<1>2. CASE Steady
  <2>1. \A j \in Completed' : j \in Completed /\ record'[j].older = record[j].older
    BY <1>2 DEF Steady, Completed
  <2>2. \A j \in Completed' : \A k \in record'[j].older : Past(k)'
    <3>1. \A j \in Completed' : \A k \in record'[j].older : k \in Jobs /\ Past(k)
      BY <2>1, <1>older DEF EndedInOrder, Completed
    <3> HIDE DEF Past
    <3> QED
      BY <3>1, <1>1
  <2> QED
    BY <2>1, <2>2 DEF EndedInOrder
<1>3. ASSUME NEW x \in Jobs, Completes(x)
      PROVE  EndedInOrder'
  <2>1. /\ x \notin Completed
        /\ Completed' = Completed \cup {x}
        /\ record'[x].older = Completed
        /\ \A j \in Completed : record'[j].older = record[j].older
    BY <1>3 DEF Completes, OthersSame, Completed
  <2>2. \A j \in Completed : x \notin record[j].older
    BY <1>3 DEF EndedInOrder, Completes
  <2>3. \A j \in Completed' : \A k \in record'[j].older : Past(k)'
    <3>1. \A k \in Completed : Past(k)
      BY DEF Completed, NothingBeforeCreation, EndedInOrder
    <3>2. \A j \in Completed' : \A k \in record'[j].older : k \in Jobs /\ Past(k)
      BY <3>1, <2>1, <1>older DEF EndedInOrder, Completed
    <3> HIDE DEF Past
    <3> QED
      BY <3>2, <1>1
  <2>4. \A j \in Completed' : j \notin record'[j].older
    BY <2>1 DEF EndedInOrder
  <2>5. \A j, k \in Completed' : j = k \/ j \in record'[k].older \/ k \in record'[j].older
    BY <2>1 DEF EndedInOrder
  <2>6. \A j, k, l \in Completed' :
          j \in record'[k].older /\ k \in record'[l].older => j \in record'[l].older
    BY <2>1, <2>2 DEF EndedInOrder
  <2> QED
    BY <2>3, <2>4, <2>5, <2>6 DEF EndedInOrder
<1> QED
  BY <1>2, <1>3, RecordsAreSteady

\* More jobs are at least as many bytes.
LEMMA BytesGrow ==
  ASSUME TypeOK, NEW S \in SUBSET Jobs, NEW T \in SUBSET S
  PROVE  Bytes(T) \in Nat /\ Bytes(S) \in Nat /\ Bytes(T) <= Bytes(S)
<1> DEFINE size == [j \in Jobs |-> record[j].bytes]
<1>1. \A j \in Jobs : size[j] \in Nat
  BY DEF TypeOK, Record
<1>2. IsFiniteSet(S) /\ IsFiniteSet(T)
  BY JobsAssumption, FS_Subset
<1>3. Bytes(T) = SumFunctionOnSet(size, T) /\ Bytes(S) = SumFunctionOnSet(size, S)
  BY DEF Bytes
<1> HIDE DEF size
<1>4. SumFunctionOnSet(size, T) \in Nat /\ SumFunctionOnSet(size, S) \in Nat
  BY <1>1, <1>2, SumNat
<1>5. SumFunctionOnSet(size, T) <= SumFunctionOnSet(size, S)
  <2>1. \A j \in S : size[j] \in Nat
    BY <1>1
  <2>2. \A j \in T : size[j] \in Nat /\ size[j] <= size[j]
    BY <1>1
  <2> QED
    BY <1>2, <2>1, <2>2, SumGrows
<1> QED
  BY <1>3, <1>4, <1>5

\* A job and what ended after it: what the quota has to have room for if the job is to stay.
From(j) == {k \in Completed : k = j \/ j \in record[k].older}

LEMMA ShedIs == Shed = {j \in Completed : Bytes(From(j)) > Quota}
  BY DEF Shed, From

\* Among completed jobs there is one that ended first.
LEMMA FirstExists ==
  ASSUME EndedInOrder, NEW S \in SUBSET Completed, S # {}
  PROVE  \E first \in S : \A k \in S \ {first} : first \in record[k].older
<1> DEFINE Before(j) == {k \in S : k \in record[j].older}
<1>1. PICK first \in S : \A j \in S : Before(j) \subseteq Before(first) => Before(j) = Before(first)
  <2> DEFINE all == {Before(j) : j \in S}
  <2>1. IsFiniteSet(S)
    <3>1. S \subseteq Jobs
      BY DEF Completed
    <3> QED
      BY <3>1, JobsAssumption, FS_Subset
  <2>2. all # {} /\ all \in SUBSET (SUBSET S)
    OBVIOUS
  <2>3. PICK least \in all : \A b \in all : b \subseteq least => b = least
    <3> HIDE DEF all
    <3> QED  BY <2>1, <2>2, LeastSubset
  <2>4. PICK j \in S : least = Before(j)
    OBVIOUS
  <2> HIDE DEF Before
  <2> QED
    BY <2>3, <2>4
<1>2. ASSUME NEW k \in S \ {first}, first \notin record[k].older
      PROVE  FALSE
  <2>1. k \in record[first].older
    BY <1>2 DEF EndedInOrder
  <2>2. Before(k) \subseteq Before(first)
    BY <2>1 DEF EndedInOrder
  <2>3. k \in Before(first) /\ k \notin Before(k)
    BY <2>1 DEF EndedInOrder
  <2> QED
    BY <1>1, <2>2, <2>3
<1> QED
  BY <1>2

\* ... and one that ended last.
LEMMA LastExists ==
  ASSUME EndedInOrder, NEW S \in SUBSET Completed, S # {}
  PROVE  \E last \in S : \A k \in S \ {last} : k \in record[last].older
<1> DEFINE After(j) == {k \in S : j \in record[k].older}
<1>1. PICK last \in S : \A j \in S : After(j) \subseteq After(last) => After(j) = After(last)
  <2> DEFINE all == {After(j) : j \in S}
  <2>1. IsFiniteSet(S)
    <3>1. S \subseteq Jobs
      BY DEF Completed
    <3> QED
      BY <3>1, JobsAssumption, FS_Subset
  <2>2. all # {} /\ all \in SUBSET (SUBSET S)
    OBVIOUS
  <2>3. PICK least \in all : \A b \in all : b \subseteq least => b = least
    <3> HIDE DEF all
    <3> QED  BY <2>1, <2>2, LeastSubset
  <2>4. PICK j \in S : least = After(j)
    OBVIOUS
  <2> HIDE DEF After
  <2> QED
    BY <2>3, <2>4
<1>2. ASSUME NEW k \in S \ {last}, k \notin record[last].older
      PROVE  FALSE
  <2>1. last \in record[k].older
    BY <1>2 DEF EndedInOrder
  <2>2. After(k) \subseteq After(last)
    BY <2>1 DEF EndedInOrder
  <2>3. k \in After(last) /\ k \notin After(k)
    BY <2>1 DEF EndedInOrder
  <2> QED
    BY <1>1, <2>2, <2>3
<1> QED
  BY <1>2

\* Whatever goes ended before whatever stays: a job that ended after one that goes has less
\* beside it to make room for, not more.
LEMMA ShedsOlder ==
  ASSUME TypeOK, EndedInOrder, NEW gone \in Shed, NEW left \in Completed \ Shed
  PROVE  gone \in record[left].older
<1>1. SUFFICES ASSUME left \in record[gone].older
               PROVE  FALSE
  BY ShedIs DEF EndedInOrder
<1>2. From(gone) \subseteq From(left)
  BY <1>1, ShedIs DEF From, EndedInOrder
<1>3. From(left) \in SUBSET Jobs
  BY DEF From, Completed
<1>4. Bytes(From(gone)) > Quota /\ ~ Bytes(From(left)) > Quota
  BY ShedIs
<1> QED
  BY <1>2, <1>3, <1>4, BytesGrow, SizesAssumption

\* With the last of what goes, what stays would not fit.
LEMMA ShedsNoMore ==
  ASSUME TypeOK, EndedInOrder, Shed # {}
  PROVE  \E last \in Shed : Bytes((Completed \ Shed) \cup {last}) > Quota
<1>1. Shed \in SUBSET Completed
  BY ShedIs
<1>2. PICK last \in Shed : \A k \in Shed \ {last} : k \in record[last].older
  BY <1>1, LastExists
<1>3. From(last) \subseteq (Completed \ Shed) \cup {last}
  BY <1>1, <1>2 DEF From, EndedInOrder
<1>4. (Completed \ Shed) \cup {last} \in SUBSET Jobs
  BY <1>1 DEF Completed
<1>5. Bytes(From(last)) > Quota
  BY ShedIs
<1> QED
  BY <1>3, <1>4, <1>5, BytesGrow, SizesAssumption

\* What stays fits: the first of it does, with all that ended after it.
LEMMA LeftFits ==
  ASSUME TypeOK, EndedInOrder
  PROVE  Bytes(Completed \ Shed) <= Quota
<1>1. CASE Completed \ Shed = {}
  <2>1. Bytes({}) = 0
    BY SumUnfolds, FS_EmptySet DEF Bytes
  <2> QED
    BY <1>1, <2>1, SizesAssumption
<1>2. CASE Completed \ Shed # {}
  <2>1. Completed \ Shed \in SUBSET Completed
    OBVIOUS
  <2>2. PICK first \in Completed \ Shed :
               \A k \in (Completed \ Shed) \ {first} : first \in record[k].older
    BY <1>2, <2>1, FirstExists
  <2>3. Completed \ Shed \subseteq From(first)
    BY <2>2 DEF From
  <2>4. From(first) \in SUBSET Jobs
    BY DEF From, Completed
  <2>5. ~ Bytes(From(first)) > Quota
    BY ShedIs
  <2> QED
    BY <2>3, <2>4, <2>5, BytesGrow, SizesAssumption
<1> QED
  BY <1>1, <1>2

\* Only its own sweep takes a task past its completion.
LEMMA ReclaimingStays ==
  ASSUME TypeOK, WaitsWithItsTask, Next
  PROVE  \/ \E j \in Jobs : Reclaim(j)
         \/ \A k \in Jobs : task[k] = "reclaiming" => task'[k] = "reclaiming"
<1> DEFINE Stays == \A k \in Jobs : task[k] = "reclaiming" => task'[k] = "reclaiming"
<1>types. record \in Records /\ task \in [Jobs -> TaskStates]
  BY DEF TypeOK, Records
<1>1. ASSUME NEW j \in Jobs,
             \/ Create(j) \/ Issue(j) \/ Abort(j) \/ AbortStops(j) \/ Destroy(j)
             \/ DestroyDeletes(j) \/ DestroyRemoves(j) \/ SetDestruction(j, TRUE)
             \/ SetDestruction(j, FALSE) \/ TimePasses(j) \/ WorkOpens(j)
             \/ CreationLands(j) \/ WorkDropped(j)
             \/ WorkEnds(j, "done") \/ WorkEnds(j, "failed")
      PROVE  Stays
  BY <1>1 DEF Create, Issue, Abort, AbortStops, Destroy, DestroyDeletes, DestroyRemoves,
     SetDestruction, TimePasses, WorkOpens, CreationLands, WorkDropped, WorkEnds, taskVars
<1>2. ASSUME NEW j \in Jobs, NEW S \in SUBSET Items,
             HoldForCreate(j, S) \/ Extend(j, S) \/ PostParameters(j, S)
      PROVE  Stays
  BY <1>2 DEF HoldForCreate, Extend, PostParameters, taskVars
<1>3. ASSUME NEW s \in Sweepers, NEW j \in Jobs, NEW product \in BOOLEAN,
             Sweep(s, j, product)
      PROVE  Stays
  BY <1>3 DEF Sweep, taskVars
<1>4. ASSUME Expire
      PROVE  Stays
  BY <1>4 DEF Expire, taskVars
<1>5. ASSUME NEW j \in Jobs, RunOnCreate(j) \/ Run(j)
      PROVE  Stays
  BY <1>5, <1>types, StartEffect DEF RunOnCreate, Run, WaitsWithItsTask
<1>6. ASSUME NEW j \in Jobs, NEW from \in TaskStates \ {"reclaiming"}, NEW to,
             Goto(j, from, to)
      PROVE  Stays
  BY <1>6, <1>types DEF Goto
<1>7. ASSUME NEW j \in Jobs,
             \/ Admit(j) \/ Launch(j) \/ Watch(j) \/ ClockRunsOut(j) \/ Observe(j)
             \/ KeepAnswer(j) \/ Abandon(j) \/ RecordFailure(j) \/ RecordSuccess(j)
             \/ RemoveRefused(j) \/ ReclaimDone(j) \/ Finish(j)
      PROVE  Stays
  <2>1. CASE task' = task
    BY <2>1
  <2>2. \/ task' = task
        \/ \E from \in TaskStates \ {"reclaiming"} : \E to : Goto(j, from, to)
    BY <1>7 DEF Admit, Launch, Watch, ClockRunsOut, Observe, KeepAnswer, Abandon,
       RecordFailure, RecordSuccess, RemoveRefused, ReclaimDone, Finish, TaskStates, Executing
  <2> HIDE DEF Stays
  <2> QED
    BY <2>1, <2>2, <1>6
<1>8. Stays \/ \E j \in Jobs : Reclaim(j)
  <2> HIDE DEF Stays
  <2> QED
    BY <1>1, <1>2, <1>3, <1>4, <1>5, <1>7 DEF Next, Request, Creating, Task, Work
<1> QED
  BY <1>8

\* A sweep leaves exactly what is not shed.
LEMMA ReclaimEffect ==
  ASSUME TypeOK, NEW j \in Jobs, Reclaim(j)
  PROVE  /\ Completed' = Completed \ Shed
         /\ \A k \in Completed' : record'[k] = record[k]
         /\ task[j] = "reclaiming"
         /\ \A k \in Jobs \ {j} : task'[k] = task[k]
<1>1. record \in Records /\ task \in [Jobs -> TaskStates]
  BY DEF TypeOK, Records
<1>2. Forget(Shed) /\ Goto(j, "reclaiming", "sweeping")
  BY DEF Reclaim
<1>3. \A k \in Jobs : record'[k].phase = IF k \in Shed THEN "NONE" ELSE record[k].phase
  BY <1>1, <1>2, ForgetEffect
<1>4. \A k \in Jobs \ Shed : record'[k] = record[k]
  BY <1>1, <1>2, ForgetEffect
<1> QED
  BY <1>1, <1>2, <1>3, <1>4 DEF Completed, Goto

\* The sum the quota bounds grows only with a completion, which owes a sweep, and a sweep
\* brings it down.
LEMMA QuotaHoldsKept ==
  ASSUME TypeOK, TypeOK', WaitsWithItsTask, EndedInOrder, QuotaHolds, Next
  PROVE  QuotaHolds'
<1>smaller. ASSUME NEW S \in SUBSET Jobs, Bytes(S) <= Quota, Completed' \subseteq S,
                   \A k \in Completed' : record'[k].bytes = record[k].bytes
            PROVE  Bytes(Completed)' <= Quota
  <2> DEFINE size == [j \in Jobs |-> record[j].bytes]
             now == [j \in Jobs |-> record'[j].bytes]
  <2>1. Bytes(Completed)' = SumFunctionOnSet(now, Completed')
    BY DEF Bytes
  <2>2. Bytes(Completed') = SumFunctionOnSet(size, Completed')
    BY DEF Bytes
  <2>3. \A k \in Completed' : now[k] = size[k]
    BY <1>smaller
  <2>4. IsFiniteSet(Completed')
    BY <1>smaller, JobsAssumption, FS_Subset
  <2>5. SumFunctionOnSet(now, Completed') = SumFunctionOnSet(size, Completed')
    <3> HIDE DEF size, now
    <3> QED  BY <2>3, <2>4, SumSame
  <2>6. Bytes(Completed') \in Nat /\ Bytes(S) \in Nat /\ Bytes(Completed') <= Bytes(S)
    BY <1>smaller, BytesGrow
  <2> HIDE DEF size, now
  <2> QED
    BY <1>smaller, <2>1, <2>2, <2>5, <2>6, SizesAssumption
<1>1. ASSUME NEW j \in Jobs, Completes(j)
      PROVE  QuotaHolds'
  BY <1>1 DEF Completes, QuotaHolds
<1>2. ASSUME NEW j \in Jobs, Reclaim(j)
      PROVE  QuotaHolds'
  <2>1. Completed \ Shed \in SUBSET Jobs /\ Bytes(Completed \ Shed) <= Quota
    BY LeftFits DEF Completed
  <2>2. /\ Completed' \subseteq Completed \ Shed
        /\ \A k \in Completed' : record'[k].bytes = record[k].bytes
    BY <1>2, ReclaimEffect
  <2> QED
    BY <2>1, <2>2, <1>smaller DEF QuotaHolds
<1>3. CASE Steady /\ \A k \in Jobs : task[k] = "reclaiming" => task'[k] = "reclaiming"
  <2> SUFFICES ASSUME \A k \in Jobs : task'[k] # "reclaiming"
               PROVE  Bytes(Completed)' <= Quota
    BY DEF QuotaHolds
  <2>1. Bytes(Completed) <= Quota
    BY <1>3 DEF QuotaHolds
  <2>2. /\ Completed \in SUBSET Jobs /\ Completed' \subseteq Completed
        /\ \A k \in Completed' : record'[k].bytes = record[k].bytes
    BY <1>3 DEF Completed, Steady
  <2> QED
    BY <2>1, <2>2, <1>smaller
<1> QED
  BY <1>1, <1>2, <1>3, RecordsAreSteady, ReclaimingStays

-----------------------------------------------------------------------------
(* What a run reads.                                                       *)

\* Whoever goes to stop a job has ended it or taken its record out before.
LEMMA StoppedForGoodKept ==
  ASSUME TypeOK, NothingBeforeCreation, StoppedForGood, Next
  PROVE  StoppedForGood'
<1> DEFINE Over(k) == Gone(k) \/ record[k].phase \in Terminal
<1>types. /\ record \in Records
          /\ owes \in [Jobs -> SUBSET {"stop", "delete", "remove"}]
          /\ doomed \in [Sweepers -> SUBSET (Jobs \X BOOLEAN)]
  BY DEF TypeOK, Records
<1>gone. \A k \in Jobs : Gone(k) => Gone(k)'
  BY EndsStay, CreationStays DEF Gone, EndStays, Stored
<1>over. ASSUME NEW k \in Jobs, Over(k)
         PROVE  Over(k)'
  <2>1. CASE record[k].phase \in Terminal
    <3>1. creation'[k] # "unused"
      BY <2>1, CreationStays DEF NothingBeforeCreation, Terminal
    <3>2. record'[k].phase \in {record[k].phase, "NONE"}
      BY <2>1, EndsStay DEF EndStays
    <3> QED
      BY <2>1, <3>1, <3>2 DEF Gone
  <2> QED
    BY <2>1, <1>over, <1>gone
<1>taken. ASSUME NEW k \in Jobs, k \in Stored, record'[k].phase = "NONE"
          PROVE  Gone(k)'
  BY <1>taken, CreationStays DEF Gone, NothingBeforeCreation, Stored
<1>same. ASSUME \A k \in Jobs : "stop" \in owes'[k] => "stop" \in owes[k] \/ Over(k)',
                \A s \in Sweepers, k \in Jobs, product \in BOOLEAN :
                  <<k, product>> \in doomed'[s] => <<k, product>> \in doomed[s] \/ Gone(k)'
         PROVE  StoppedForGood'
  <2>1. \A k \in Jobs : "stop" \in owes'[k] => Over(k)'
    <3>1. \A k \in Jobs : "stop" \in owes[k] => Over(k)
      BY DEF StoppedForGood
    <3> HIDE DEF Over
    <3> QED
      BY <3>1, <1>same, <1>over
  <2>2. \A s \in Sweepers, k \in Jobs, product \in BOOLEAN :
          <<k, product>> \in doomed'[s] => Gone(k)'
    BY <1>same, <1>gone DEF StoppedForGood
  <2> QED
    BY <2>1, <2>2 DEF StoppedForGood
<1>1. ASSUME NEW j \in Jobs,
             \/ Create(j) \/ RunOnCreate(j) \/ Issue(j) \/ Run(j) \/ SetDestruction(j, TRUE)
             \/ SetDestruction(j, FALSE) \/ TimePasses(j)
             \/ Admit(j) \/ Launch(j) \/ Watch(j) \/ ClockRunsOut(j) \/ Observe(j)
             \/ KeepAnswer(j) \/ Abandon(j) \/ RecordFailure(j) \/ RecordSuccess(j)
             \/ RemoveRefused(j) \/ ReclaimDone(j) \/ Finish(j)
             \/ WorkOpens(j) \/ CreationLands(j) \/ WorkDropped(j)
             \/ WorkEnds(j, "done") \/ WorkEnds(j, "failed")
      PROVE  StoppedForGood'
  <2>1. UNCHANGED <<owes, doomed>>
    BY <1>1 DEF Create, RunOnCreate, Issue, Run, SetDestruction, TimePasses, Admit, Launch,
       Watch, ClockRunsOut, Observe, KeepAnswer, Abandon, RecordFailure, RecordSuccess,
       RemoveRefused, ReclaimDone, Finish, WorkOpens, CreationLands, WorkDropped, WorkEnds
  <2> QED
    BY <2>1, <1>same
<1>2. ASSUME NEW j \in Jobs, NEW S \in SUBSET Items,
             HoldForCreate(j, S) \/ Extend(j, S) \/ PostParameters(j, S)
      PROVE  StoppedForGood'
  BY <1>2, <1>same DEF HoldForCreate, Extend, PostParameters
<1>3. ASSUME NEW j \in Jobs,
             AbortStops(j) \/ Destroy(j) \/ DestroyDeletes(j) \/ DestroyRemoves(j)
      PROVE  StoppedForGood'
  <2>1. doomed' = doomed /\ \A k \in Jobs : "stop" \in owes'[k] => "stop" \in owes[k]
    BY <1>3, <1>types DEF AbortStops, Destroy, DestroyDeletes, DestroyRemoves, Promise, Fulfil
  <2> QED
    BY <2>1, <1>same
<1>4. ASSUME NEW j \in Jobs, Abort(j)
      PROVE  StoppedForGood'
  <2>1. doomed' = doomed /\ \A k \in Jobs \ {j} : owes'[k] = owes[k]
    BY <1>4, <1>types DEF Abort, Promise
  <2>2. Over(j)'
    BY <1>4, <1>types, AbortEffect DEF Terminal
  <2> HIDE DEF Over
  <2> QED
    BY <2>1, <2>2, <1>same
<1>5. ASSUME NEW s \in Sweepers, NEW j \in Jobs, NEW product \in BOOLEAN,
             Sweep(s, j, product)
      PROVE  StoppedForGood'
  <2>1. owes' = owes /\ \A t \in Sweepers : doomed'[t] \subseteq doomed[t]
    BY <1>5, <1>types DEF Sweep
  <2> QED
    BY <2>1, <1>same
<1>6. ASSUME NEW S \in SUBSET Stored, NEW s \in Sweepers, Forget(S), owes' = owes,
             doomed' = [doomed EXCEPT ![s] = Taken(S)]
      PROVE  StoppedForGood'
  <2>1. \A k \in Jobs : k \in S => Gone(k)'
    BY <1>6, <1>types, <1>taken, ForgetEffect
  <2>2. \A t \in Sweepers, k \in Jobs, product \in BOOLEAN :
          <<k, product>> \in doomed'[t] => <<k, product>> \in doomed[t] \/ k \in S
    BY <1>6, <1>types DEF Taken
  <2> QED
    BY <2>1, <2>2, <1>6, <1>same
<1>7. ASSUME Expire
      PROVE  StoppedForGood'
  BY <1>7, <1>6 DEF Expire, Sweepers
<1>8. ASSUME NEW j \in Jobs, Reclaim(j)
      PROVE  StoppedForGood'
  <2>1. Shed \in SUBSET Stored
    BY DEF Shed, Completed, Stored
  <2> QED
    BY <2>1, <1>8, <1>6 DEF Reclaim, Sweepers
<1> QED
  BY <1>1, <1>2, <1>3, <1>4, <1>5, <1>7, <1>8 DEF Next, Request, Creating, Task, Work

\* Files come before the entry they are held by and go with it.
LEMMA KeptOnDiskKept ==
  ASSUME TypeOK, KeptOnDisk, Next
  PROVE  KeptOnDisk'
<1>types. /\ holding \in [Jobs -> SUBSET (SUBSET Items)]
          /\ held \in [Jobs -> SUBSET Items]
  BY DEF TypeOK
<1>1. ASSUME NEW j \in Jobs,
             \/ Create(j) \/ RunOnCreate(j) \/ Issue(j) \/ Run(j) \/ Abort(j)
             \/ DestroyDeletes(j) \/ DestroyRemoves(j)
             \/ SetDestruction(j, TRUE) \/ SetDestruction(j, FALSE) \/ TimePasses(j)
             \/ Admit(j) \/ Launch(j) \/ Watch(j) \/ ClockRunsOut(j) \/ Observe(j)
             \/ KeepAnswer(j) \/ Abandon(j) \/ RecordFailure(j) \/ RecordSuccess(j)
             \/ RemoveRefused(j) \/ Reclaim(j) \/ ReclaimDone(j)
             \/ WorkOpens(j) \/ CreationLands(j) \/ WorkDropped(j)
             \/ WorkEnds(j, "done") \/ WorkEnds(j, "failed")
      PROVE  KeptOnDisk'
  <2>1. UNCHANGED heldVars
    BY <1>1 DEF Create, RunOnCreate, Issue, Run, Abort, DestroyDeletes, DestroyRemoves,
       SetDestruction, TimePasses, Admit, Launch, Watch, ClockRunsOut, Observe, KeepAnswer,
       Abandon, RecordFailure, RecordSuccess, RemoveRefused, Reclaim, ReclaimDone, WorkOpens,
       CreationLands, WorkDropped, WorkEnds
  <2> QED
    BY <2>1 DEF heldVars, KeptOnDisk
<1>2. ASSUME Expire
      PROVE  KeptOnDisk'
  BY <1>2 DEF Expire, heldVars, KeptOnDisk
<1>3. ASSUME NEW j \in Jobs, NEW S \in SUBSET Items, Keep(j, S), held' = held
      PROVE  KeptOnDisk'
  <2>1. uploads \subseteq uploads'
    BY <1>3 DEF Keep
  <2>2. CASE holding' = holding
    BY <1>3, <2>1, <2>2 DEF KeptOnDisk
  <2>3. CASE /\ uploads' = uploads \cup ({j} \X (S \cap Tables))
             /\ holding' = [holding EXCEPT ![j] = @ \cup {S}]
    <3>1. S \cap held[j] = {} /\ \A T \in holding[j] : S \cap T = {}
      BY <1>3 DEF Keep
    <3>2. \A k \in Jobs : holding'[k] = IF k = j THEN holding[j] \cup {S} ELSE holding[k]
      BY <2>3, <1>types
    <3>3. \A i \in S \cap Tables : <<j, i>> \in uploads'
      BY <2>3
    <3> QED
      BY <1>3, <2>1, <3>1, <3>2, <3>3 DEF KeptOnDisk
  <2> QED
    BY <1>3, <2>2, <2>3 DEF Keep
<1>4. ASSUME NEW j \in Jobs, NEW S \in SUBSET Items, HoldForCreate(j, S)
      PROVE  KeptOnDisk'
  BY <1>4, <1>3 DEF HoldForCreate, KeptOnDisk
<1>5. ASSUME NEW j \in Jobs, NEW S \in SUBSET Items, PostParameters(j, S)
      PROVE  KeptOnDisk'
  BY <1>5, <1>3 DEF PostParameters
<1>6. ASSUME NEW j \in Jobs, NEW S \in SUBSET Items, Extend(j, S)
      PROVE  KeptOnDisk'
  <2>1. /\ S \in holding[j] /\ uploads' = uploads
        /\ \A k \in Jobs : holding'[k] = IF k = j THEN holding[j] \ {S} ELSE holding[k]
        /\ \A k \in Jobs : held'[k] = IF k = j THEN held[j] \cup S ELSE held[k]
    BY <1>6, <1>types DEF Extend
  <2> QED
    BY <2>1 DEF KeptOnDisk
<1>7. ASSUME NEW j \in Jobs, ForgetHeld(j), holding' = holding
      PROVE  KeptOnDisk'
  <2>1. /\ uploads' = uploads \ ({j} \X held[j])
        /\ \A k \in Jobs : held'[k] = IF k = j THEN {} ELSE held[k]
    BY <1>7, <1>types DEF ForgetHeld
  <2> QED
    BY <1>7, <2>1 DEF KeptOnDisk
<1>8. ASSUME NEW j \in Jobs, AbortStops(j) \/ Destroy(j) \/ Finish(j)
      PROVE  KeptOnDisk'
  BY <1>8, <1>7 DEF AbortStops, Destroy, Finish, Stop
<1>9. ASSUME NEW s \in Sweepers, NEW j \in Jobs, NEW product \in BOOLEAN,
             Sweep(s, j, product)
      PROVE  KeptOnDisk'
  BY <1>9, <1>7 DEF Sweep, Stop
<1> QED
  BY <1>1, <1>2, <1>4, <1>5, <1>6, <1>8, <1>9 DEF Next, Request, Creating, Task, Work

\* Only the end of a run, the end of its job and a request that destroys it take from a run
\* what it was given.
LEMMA GivenIsHeldKept ==
  ASSUME TypeOK, WaitsWithItsTask, WorkInItsTask, StoppedForGood, GivenIsHeld, Next
  PROVE  GivenIsHeld'
<1>types. /\ record \in Records
          /\ owes \in [Jobs -> SUBSET {"stop", "delete", "remove"}]
          /\ held \in [Jobs -> SUBSET Items]
          /\ task \in [Jobs -> TaskStates]
          /\ work \in [Jobs -> Live \cup {"none", "done", "failed", "cancelled"}]
          /\ given \in [Jobs -> SUBSET Items]
  BY DEF TypeOK, Records
<1> DEFINE Runs(k) == /\ record[k].phase = "EXECUTING"
                      /\ "delete" \notin owes[k]
                      /\ work[k] = "running"
<1>same. ASSUME \A k \in Jobs :
                  Runs(k)' => Runs(k) /\ given'[k] = given[k] /\ held[k] \subseteq held'[k]
         PROVE  GivenIsHeld'
  BY <1>same DEF GivenIsHeld
<1>1. ASSUME NEW j \in Jobs,
             \/ Issue(j) \/ DestroyRemoves(j) \/ Watch(j) \/ ClockRunsOut(j)
             \/ Observe(j) \/ KeepAnswer(j) \/ Abandon(j) \/ RemoveRefused(j)
             \/ ReclaimDone(j) \/ WorkOpens(j) \/ CreationLands(j) \/ WorkDropped(j)
             \/ WorkEnds(j, "done") \/ WorkEnds(j, "failed")
      PROVE  GivenIsHeld'
  <2>1. UNCHANGED <<record, held, given>>
    BY <1>1 DEF Issue, DestroyRemoves, Watch, ClockRunsOut, Observe, KeepAnswer, Abandon,
       RemoveRefused, ReclaimDone, WorkOpens, CreationLands, WorkDropped, WorkEnds, storeVars,
       heldVars, workVars
  <2>2. \A k \in Jobs : /\ "delete" \notin owes'[k] => "delete" \notin owes[k]
                        /\ work'[k] = "running" => work[k] = "running"
    BY <1>1, <1>types DEF Issue, DestroyRemoves, Fulfil, Watch, ClockRunsOut, Observe,
       KeepAnswer, Abandon, RemoveRefused, ReclaimDone, WorkOpens, CreationLands, WorkDropped,
       WorkEnds, workVars
  <2> QED
    BY <2>1, <2>2, <1>same
<1>2. ASSUME NEW j \in Jobs, NEW S \in SUBSET Items,
             HoldForCreate(j, S) \/ Extend(j, S) \/ PostParameters(j, S)
      PROVE  GivenIsHeld'
  <2>1. UNCHANGED <<record, owes, work, given>> /\ \A k \in Jobs : held[k] \subseteq held'[k]
    BY <1>2, <1>types DEF HoldForCreate, Extend, PostParameters, storeVars, workVars
  <2> QED
    BY <2>1, <1>same
<1>3. ASSUME UNCHANGED <<held, work, given>>,
             \A k \in Jobs : "delete" \notin owes'[k] /\ record'[k].phase = "EXECUTING"
                             => "delete" \notin owes[k],
             \A k \in Jobs : record'[k].phase = "EXECUTING" => record[k].phase = "EXECUTING"
      PROVE  GivenIsHeld'
  BY <1>3, <1>same
<1>4. ASSUME NEW j \in Jobs, SetDestruction(j, TRUE) \/ SetDestruction(j, FALSE) \/ TimePasses(j)
      PROVE  GivenIsHeld'
  BY <1>4, <1>3, <1>types, DueEffect DEF SetDestruction, TimePasses, heldVars, workVars
<1>5. ASSUME NEW j \in Jobs, Create(j)
      PROVE  GivenIsHeld'
  <2>1. UNCHANGED <<owes, held, work, given>>
    BY <1>5 DEF Create, heldVars, workVars
  <2>2. \A k \in Jobs : record'[k].phase = "EXECUTING" => record[k].phase = "EXECUTING"
    BY <1>5, <1>types, CreateEffect DEF OthersSame
  <2> QED
    BY <2>1, <2>2, <1>3
<1>6. ASSUME NEW j \in Jobs, RunOnCreate(j) \/ Run(j)
      PROVE  GivenIsHeld'
  <2>1. UNCHANGED <<owes, held, work, given>>
    BY <1>6 DEF RunOnCreate, Run, heldVars, workVars
  <2>2. \A k \in Jobs : record'[k].phase = "EXECUTING" => record[k].phase = "EXECUTING"
    BY <1>6, <1>types, StartEffect DEF OthersSame, RunOnCreate, Run
  <2> QED
    BY <2>1, <2>2, <1>3
<1>7. ASSUME NEW j \in Jobs, RecordFailure(j) \/ RecordSuccess(j)
      PROVE  GivenIsHeld'
  <2>1. UNCHANGED <<owes, held, work, given>>
    BY <1>7 DEF RecordFailure, RecordSuccess, heldVars, workVars
  <2>2. \A k \in Jobs : record'[k].phase = "EXECUTING" => record[k].phase = "EXECUTING"
    BY <1>7, <1>types, FailureEffect, SuccessEffect DEF OthersSame
  <2> QED
    BY <2>1, <2>2, <1>3
<1>8. ASSUME NEW j \in Jobs, Abort(j)
      PROVE  GivenIsHeld'
  <2>1. UNCHANGED <<held, work, given>>
    BY <1>8 DEF Abort, heldVars, workVars
  <2>2. \A k \in Jobs : record'[k].phase = "EXECUTING" => record[k].phase = "EXECUTING"
    BY <1>8, <1>types, AbortEffect DEF OthersSame
  <2>3. \A k \in Jobs : "delete" \notin owes'[k] => "delete" \notin owes[k]
    BY <1>8, <1>types DEF Abort, Promise
  <2> QED
    BY <2>1, <2>2, <2>3, <1>3
<1>9. ASSUME NEW S, Forget(S), UNCHANGED <<owes, held, work, given>>
      PROVE  GivenIsHeld'
  <2>1. \A k \in Jobs : record'[k].phase = "EXECUTING" => record[k].phase = "EXECUTING"
    BY <1>9, <1>types, ForgetEffect
  <2> QED
    BY <2>1, <1>9, <1>3
<1>10. ASSUME Expire
       PROVE  GivenIsHeld'
  BY <1>10, <1>9 DEF Expire, heldVars, workVars
<1>11. ASSUME NEW j \in Jobs, Reclaim(j)
       PROVE  GivenIsHeld'
  BY <1>11, <1>9 DEF Reclaim, heldVars, workVars
<1>12. ASSUME NEW j \in Jobs, DestroyDeletes(j)
       PROVE  GivenIsHeld'
  <2>1. UNCHANGED <<held, work, given>> /\ \A k \in Jobs \ {j} : owes'[k] = owes[k]
    BY <1>12, <1>types DEF DestroyDeletes, heldVars, workVars
  <2>2. /\ record'[j].phase = "NONE"
        /\ \A k \in Jobs : record'[k].phase = "EXECUTING" => record[k].phase = "EXECUTING"
    BY <1>12, <1>types, ForgetEffect DEF DestroyDeletes
  <2> QED
    BY <2>1, <2>2, <1>3
<1>13. ASSUME NEW j \in Jobs, Admit(j)
       PROVE  GivenIsHeld'
  <2>1. UNCHANGED <<owes, held, work, given>>
    BY <1>13 DEF Admit, heldVars, workVars
  <2>2. \A k \in Jobs \ {j} : record'[k] = record[k]
    BY <1>13, <1>types, AdmitEffect DEF OthersSame
  <2>3. work[j] # "running"
    BY <1>13, <1>types, AdmitEffect DEF Goto, WorkInItsTask, AtWork, Live
  <2> QED
    BY <2>1, <2>2, <2>3, <1>same
<1>14. ASSUME NEW j \in Jobs, Launch(j)
       PROVE  GivenIsHeld'
  <2>1. /\ UNCHANGED <<record, owes, held>>
        /\ given'[j] = held[j]
        /\ \A k \in Jobs \ {j} : given'[k] = given[k] /\ work'[k] = work[k]
    BY <1>14, <1>types DEF Launch, storeVars, heldVars
  <2> QED
    BY <2>1 DEF GivenIsHeld
<1>15. ASSUME NEW j \in Jobs, ~ Runs(j)', \A k \in Jobs \ {j} : held'[k] = held[k],
              \A k \in Jobs \ {j} : "delete" \notin owes'[k] => "delete" \notin owes[k],
              \A k \in Jobs \ {j} : given'[k] = given[k] /\ work'[k] = work[k],
              record' = record
       PROVE  GivenIsHeld'
  BY <1>15, <1>same
<1>16. ASSUME NEW j \in Jobs, AbortStops(j)
       PROVE  GivenIsHeld'
  <2>1. record' = record /\ record[j].phase # "EXECUTING"
    BY <1>16 DEF AbortStops, Fulfil, StoppedForGood, Gone, Terminal, storeVars
  <2>2. \A k \in Jobs \ {j} : held'[k] = held[k] /\ given'[k] = given[k] /\ work'[k] = work[k]
    BY <1>16, <1>types DEF AbortStops, Stop, ForgetHeld
  <2>3. \A k \in Jobs \ {j} : "delete" \notin owes'[k] => "delete" \notin owes[k]
    BY <1>16, <1>types DEF AbortStops, Fulfil
  <2> QED
    BY <2>1, <2>2, <2>3, <1>15
<1>17. ASSUME NEW j \in Jobs, Destroy(j)
       PROVE  GivenIsHeld'
  <2>1. record' = record
    BY <1>17 DEF Destroy, storeVars
  <2>2. \A k \in Jobs \ {j} : held'[k] = held[k] /\ given'[k] = given[k] /\ work'[k] = work[k]
    BY <1>17, <1>types DEF Destroy, Stop, ForgetHeld
  <2>3. /\ "delete" \in owes'[j]
        /\ \A k \in Jobs \ {j} : "delete" \notin owes'[k] => "delete" \notin owes[k]
    BY <1>17, <1>types DEF Destroy, Promise
  <2> QED
    BY <2>1, <2>2, <2>3, <1>15
<1>18. ASSUME NEW s \in Sweepers, NEW j \in Jobs, NEW product \in BOOLEAN,
              Sweep(s, j, product)
       PROVE  GivenIsHeld'
  <2>1. UNCHANGED <<record, owes>> /\ record[j].phase # "EXECUTING"
    BY <1>18 DEF Sweep, StoppedForGood, Gone, storeVars
  <2>2. \A k \in Jobs \ {j} : held'[k] = held[k] /\ given'[k] = given[k] /\ work'[k] = work[k]
    BY <1>18, <1>types DEF Sweep, Stop, ForgetHeld
  <2> QED
    BY <2>1, <2>2, <1>15
<1>19. ASSUME NEW j \in Jobs, Finish(j)
       PROVE  GivenIsHeld'
  <2>1. UNCHANGED <<record, owes>>
    BY <1>19 DEF Finish, storeVars
  <2>2. \A k \in Jobs \ {j} : held'[k] = held[k] /\ given'[k] = given[k] /\ work'[k] = work[k]
    BY <1>19, <1>types DEF Finish, ForgetHeld
  <2>3. work'[j] # "running"
    <3>1. work[j] \notin Live
      BY <1>19, <1>types DEF Finish, Goto, WorkInItsTask, AtWork
    <3> QED
      BY <3>1, <1>19, <1>types DEF Finish
  <2> QED
    BY <2>1, <2>2, <2>3, <1>15
<1> QED
  BY <1>1, <1>2, <1>4, <1>5, <1>6, <1>7, <1>8, <1>10, <1>11, <1>12, <1>13, <1>14, <1>16,
     <1>17, <1>18, <1>19 DEF Next, Request, Creating, Task, Work

-----------------------------------------------------------------------------
(* The invariant, and what follows from it.                                *)

LEMMA InitIInv == Init => IInv
<1> SUFFICES ASSUME Init
             PROVE  IInv
  OBVIOUS
<1>1. TypeOK
  BY NoJobTyped DEF Init, TypeOK, TaskStates
<1>2. \A j \in Jobs : record[j].phase = "NONE" /\ task[j] = "none"
  BY DEF Init, NoJob
<1>3. NothingBeforeCreation /\ WaitsWithItsTask /\ SweepsInItsTurn
  BY <1>2 DEF Init, NothingBeforeCreation, WaitsWithItsTask, SweepsInItsTurn, Sweepers
<1>4. AnswerBeforeRecord /\ AnswerHasAnOwner /\ RecordBeforeAnswer
  BY <1>2 DEF Init, AnswerBeforeRecord, AnswerHasAnOwner, RecordBeforeAnswer
<1>5. WorkInItsTask
  BY DEF Init, WorkInItsTask, Live
<1>6. SlotsNotExceeded
  <2>1. SlotHolders = {}
    BY <1>2 DEF SlotHolders, Executing
  <2> QED
    BY <2>1, FS_EmptySet, SlotsAssumption DEF SlotsNotExceeded
<1>7. EndedInOrder /\ QuotaHolds
  <2>1. Completed = {}
    BY <1>2 DEF Completed
  <2>2. Bytes({}) = 0
    BY SumUnfolds, FS_EmptySet DEF Bytes
  <2> QED
    BY <2>1, <2>2, SizesAssumption DEF EndedInOrder, QuotaHolds
<1>8. StoppedForGood /\ KeptOnDisk /\ GivenIsHeld
  BY <1>2 DEF Init, StoppedForGood, KeptOnDisk, GivenIsHeld
<1> QED
  BY <1>1, <1>3, <1>4, <1>5, <1>6, <1>7, <1>8 DEF IInv

LEMMA NextIInv == IInv /\ [Next]_vars => IInv'
<1> SUFFICES ASSUME IInv, [Next]_vars
             PROVE  IInv'
  OBVIOUS
<1>1. CASE Next
  <2>1. TypeOK' /\ NothingBeforeCreation' /\ WaitsWithItsTask' /\ AnswerBeforeRecord'
    BY <1>1, TypeKept, NothingBeforeCreationKept, WaitsWithItsTaskKept, AnswerBeforeRecordKept
    DEF IInv
  <2>2. RecordBeforeAnswer' /\ AnswerHasAnOwner' /\ SweepsInItsTurn'
    BY <1>1, RecordBeforeAnswerKept, AnswerHasAnOwnerKept, SweepsInItsTurnKept DEF IInv
  <2>3. WorkInItsTask' /\ SlotsNotExceeded'
    BY <1>1, WorkInItsTaskKept, SlotsNotExceededKept DEF IInv
  <2>4. EndedInOrder' /\ QuotaHolds'
    BY <1>1, <2>1, EndedInOrderKept, QuotaHoldsKept DEF IInv
  <2>5. StoppedForGood' /\ KeptOnDisk' /\ GivenIsHeld'
    BY <1>1, StoppedForGoodKept, KeptOnDiskKept, GivenIsHeldKept DEF IInv
  <2> QED
    BY <2>1, <2>2, <2>3, <2>4, <2>5 DEF IInv
<1>2. CASE UNCHANGED vars
  <2> USE <1>2 DEF vars, storeVars, heldVars, taskVars, workVars, diskVars
  <2>1. TypeOK'
    BY DEF IInv, TypeOK
  <2>2. NothingBeforeCreation' /\ WaitsWithItsTask' /\ AnswerBeforeRecord'
    BY DEF IInv, NothingBeforeCreation, WaitsWithItsTask, AnswerBeforeRecord
  <2>3. RecordBeforeAnswer' /\ AnswerHasAnOwner' /\ SweepsInItsTurn'
    BY DEF IInv, RecordBeforeAnswer, Cleared, AnswerHasAnOwner, Clearing, Completed,
       SweepsInItsTurn
  <2>4. WorkInItsTask' /\ SlotsNotExceeded'
    BY DEF IInv, WorkInItsTask, SlotsNotExceeded, SlotHolders
  <2>5. EndedInOrder' /\ QuotaHolds'
    BY DEF IInv, EndedInOrder, QuotaHolds, Completed, Bytes
  <2>6. StoppedForGood' /\ KeptOnDisk' /\ GivenIsHeld'
    BY DEF IInv, StoppedForGood, Gone, KeptOnDisk, GivenIsHeld
  <2> QED
    BY <2>1, <2>2, <2>3, <2>4, <2>5, <2>6 DEF IInv
<1> QED
  BY <1>1, <1>2 DEF vars

\* The invariant holds throughout: record, task and files of a job stay in step whatever
\* requests, timers and tasks do in between (Runner, MemoryJobStore, Results).
THEOREM Invariance == Spec => []IInv
  BY InitIInv, NextIInv, PTL DEF Spec

\* Every variable keeps to its type, for any jobs, items and slots (the state Runner,
\* MemoryJobStore and Results keep).
THEOREM TypeCorrect == Spec => []TypeOK
<1>1. IInv => TypeOK
  BY DEF IInv
<1> QED
  BY <1>1, Invariance, PTL

\* A COMPLETED job's answer is in place until the job is destroyed, shed or expired
\* (Runner::finish, Runner::reclaim, Runner::expire, destroyed).
THEOREM ResultsAreThere == Spec => []ResultIsThere
<1>1. IInv => ResultIsThere
  BY DEF IInv, AnswerBeforeRecord, ResultIsThere, Completed
<1> QED
  BY <1>1, Invariance, PTL

\* No answer is left on disk that nobody names or is about to remove (Runner::finish and
\* everything that takes a record out of the store).
THEOREM AnswersHaveOwners == Spec => []AnswerHasAnOwner
<1>1. IInv => AnswerHasAnOwner
  BY DEF IInv
<1> QED
  BY <1>1, Invariance, PTL

\* However a run ended, what it had half-written is swept (Results::abandon).
THEOREM NothingStaysHalfWritten == Spec => []NothingHalfWritten
<1>1. IInv => NothingHalfWritten
  BY DEF IInv, WorkInItsTask, AtWork, NothingHalfWritten
<1> QED
  BY <1>1, Invariance, PTL

\* For any number of jobs and slots, no more work runs than there are slots, aborted work
\* and work the clock stopped included (Runner::execute).
THEOREM WorkStaysWithinSlots == Spec => []WorkWithinSlots
<1>1. ASSUME IInv PROVE WorkWithinSlots
  <2>1. Working \subseteq SlotHolders
    BY <1>1 DEF IInv, WorkInItsTask, AtWork, Working, SlotHolders, Executing
  <2>2. IsFiniteSet(SlotHolders)
    BY JobsAssumption, FS_Subset DEF SlotHolders
  <2>3. /\ Cardinality(Working) \in Nat /\ Cardinality(SlotHolders) \in Nat
        /\ Cardinality(Working) <= Cardinality(SlotHolders)
    BY <2>1, <2>2, FS_Subset, FS_CardinalityType
  <2> QED
    BY <1>1, <2>3, SlotsAssumption DEF IInv, SlotsNotExceeded, WorkWithinSlots
<1> QED
  BY <1>1, Invariance, PTL

\* For any quota and any sizes, what the completed jobs hold fits the quota whenever no
\* completion has its sweep still to come (MemoryJobStore::shed, Runner::reclaim).
THEOREM QuotaIsKept == Spec => []QuotaHolds
<1>1. IInv => QuotaHolds
  BY DEF IInv
<1> QED
  BY <1>1, Invariance, PTL

\* The tables a job was started with are on disk for as long as it executes and nobody is
\* destroying it, whatever is posted to it meanwhile and whichever earlier request or sweep
\* still has a stop to make (Runner::hold, Runner::stop).
THEOREM TablesStay == Spec => []TablesStayForTheRun
<1>1. IInv => TablesStayForTheRun
  BY DEF IInv, TypeOK, KeptOnDisk, GivenIsHeld, TablesStayForTheRun
<1> QED
  BY <1>1, Invariance, PTL

\* For any quota, sizes and number of completed jobs, a sweep takes the oldest of them and
\* no more than it must (MemoryJobStore::shed).
THEOREM OldestGoFirst == Spec => ShedsOldestOnly
<1> DEFINE ShedsWell ==
      \A s \in Jobs :
        (task[s] = "reclaiming" /\ task'[s] = "sweeping")
        => LET shed == Completed \ Completed' IN
           /\ \A gone \in shed, left \in Completed' : gone \in record[left].older
           /\ shed # {} => \E last \in shed : Bytes(Completed' \cup {last}) > Quota
<1>1. ASSUME IInv, Next
      PROVE  ShedsWell
  <2>1. CASE \A k \in Jobs : task[k] = "reclaiming" => task'[k] = "reclaiming"
    BY <2>1
  <2>2. ASSUME NEW j \in Jobs, Reclaim(j)
        PROVE  ShedsWell
    <3>1. TypeOK /\ EndedInOrder
      BY <1>1 DEF IInv
    <3>2. Completed' = Completed \ Shed /\ Shed \subseteq Completed
      BY <2>2, <3>1, ReclaimEffect, ShedIs
    <3>3. Completed \ Completed' = Shed
      BY <3>2
    <3>4. \A gone \in Shed, left \in Completed' : gone \in record[left].older
      BY <3>1, <3>2, ShedsOlder
    <3>5. Shed # {} => \E last \in Shed : Bytes(Completed' \cup {last}) > Quota
      BY <3>1, <3>2, ShedsNoMore
    <3> QED
      BY <3>3, <3>4, <3>5
  <2> HIDE DEF ShedsWell
  <2> QED
    BY <1>1, <2>1, <2>2, ReclaimingStays DEF IInv
<1>2. IInv /\ [Next]_vars => [ShedsWell]_vars
  <2> HIDE DEF ShedsWell
  <2> QED  BY <1>1
<1> QED
  BY <1>2, Invariance, PTL DEF Spec, ShedsOldestOnly

\* A terminal phase is left only by the record going, and a record that went stays gone
\* (Job::apply, the two tables of which decide it).
THEOREM JobsEndOnce == Spec => EndsOnce
<1>1. IInv /\ [Next]_vars => [\A j \in Jobs : EndStays(j)]_vars
  BY EndsStay DEF IInv
<1> QED
  BY <1>1, Invariance, PTL DEF Spec, EndsOnce, EndStays

-----------------------------------------------------------------------------
(* The runner implements UwsJobs: under the mapping of JobProperties the   *)
(* initial states map to the initial state, and every step that keeps IInv *)
(* to a step of UwsJobs or to none.                                        *)

phaseBar == [j \in Jobs |-> UwsPhase(j)]
collectableBar == Completed \cap files

\* What decides a job's phase for a client: its own record, once it was created.
LEMMA UwsPhases ==
  ASSUME IInv
  PROVE  /\ \A j \in Jobs : record[j].phase # "NONE" => phaseBar[j] = record[j].phase
         /\ \A j \in Jobs : creation[j] = "unused" => phaseBar[j] = "ABSENT"
         /\ collectableBar = {j \in Jobs : record[j].phase = "COMPLETED"}
  BY DEF IInv, NothingBeforeCreation, AnswerBeforeRecord, phaseBar, collectableBar, UwsPhase,
     Completed

\* A step that moves no record and creates no job is none that a client sees.
LEMMA Unseen ==
  ASSUME IInv, IInv', \A k \in Jobs : /\ record'[k].phase = record[k].phase
                                      /\ creation'[k] = "unused" <=> creation[k] = "unused"
  PROVE  UNCHANGED <<phaseBar, collectableBar>>
<1>1. phaseBar' = phaseBar
  BY DEF phaseBar, UwsPhase
<1>2. collectableBar' = collectableBar
  BY DEF IInv, AnswerBeforeRecord, collectableBar, Completed
<1> QED
  BY <1>1, <1>2

\* A step that moves one job from one phase to another moves it so for a client.
LEMMA SeenToMove ==
  ASSUME IInv, IInv', NEW j \in Jobs, OthersSame(j),
         record[j].phase # "NONE", record'[j].phase # "NONE",
         \A k \in Jobs : creation'[k] = "unused" <=> creation[k] = "unused"
  PROVE  /\ phaseBar[j] = record[j].phase
         /\ phaseBar' = [phaseBar EXCEPT ![j] = record'[j].phase]
         /\ collectableBar' = IF record'[j].phase = "COMPLETED"
                                THEN collectableBar \cup {j} ELSE collectableBar \ {j}
<1>1. creation'[j] # "unused" /\ creation[j] # "unused"
  BY DEF IInv, NothingBeforeCreation
<1>2. phaseBar[j] = record[j].phase
  BY <1>1 DEF phaseBar, UwsPhase
<1>3. phaseBar' = [phaseBar EXCEPT ![j] = record'[j].phase]
  BY <1>1 DEF phaseBar, UwsPhase, OthersSame
<1>4. collectableBar = {k \in Jobs : record[k].phase = "COMPLETED"}
  BY UwsPhases
<1>5. collectableBar' = {k \in Jobs : record'[k].phase = "COMPLETED"}
  BY DEF IInv, AnswerBeforeRecord, collectableBar, Completed
<1>6. collectableBar' = IF record'[j].phase = "COMPLETED"
                          THEN collectableBar \cup {j} ELSE collectableBar \ {j}
  BY <1>4, <1>5 DEF OthersSame
<1> QED
  BY <1>2, <1>3, <1>6

\* Records that are taken out of the store are jobs destroyed.
LEMMA SeenToGo ==
  ASSUME IInv, IInv', NEW S \in SUBSET Jobs, Forget(S), creation' = creation
  PROVE  Uws!Destroy(S \cap Stored)
<1> DEFINE T == S \cap Stored
<1>records. record \in Records
  BY DEF IInv, TypeOK, Records
<1>1. \A k \in Jobs : record'[k].phase = IF k \in S THEN "NONE" ELSE record[k].phase
  BY <1>records, ForgetEffect
<1>2. \A k \in T : UwsPhase(k) \in Phases
  BY <1>records DEF Stored, UwsPhase, IInv, NothingBeforeCreation, Records, Record
<1>3. phaseBar' = [k \in Jobs |-> IF k \in T THEN "DESTROYED" ELSE phaseBar[k]]
  BY <1>1 DEF phaseBar, UwsPhase, Stored, IInv, NothingBeforeCreation
<1>4. collectableBar = {k \in Jobs : record[k].phase = "COMPLETED"}
  BY UwsPhases
<1>5. collectableBar' = {k \in Jobs : record'[k].phase = "COMPLETED"}
  BY DEF IInv, AnswerBeforeRecord, collectableBar, Completed
<1>6. collectableBar' = collectableBar \ T
  BY <1>1, <1>4, <1>5 DEF Stored
<1> QED
  BY <1>2, <1>3, <1>6 DEF Uws!Destroy, Uws!Phases, Phases, phaseBar, collectableBar

LEMMA StepRefines ==
  ASSUME IInv, IInv', Next
  PROVE  Uws!Next \/ UNCHANGED <<phaseBar, collectableBar>>
<1> DEFINE Refined == Uws!Next \/ UNCHANGED <<phaseBar, collectableBar>>
<1>records. record \in Records /\ task \in [Jobs -> TaskStates]
            /\ creation \in [Jobs -> {"unused", "created", "holding", "held", "issued", "failed"}]
  BY DEF IInv, TypeOK, Records
<1>same. ASSUME \A k \in Jobs : record'[k].phase = record[k].phase, creation' = creation
         PROVE  Refined
  BY <1>same, Unseen
<1>going. ASSUME NEW S \in SUBSET Jobs, Forget(S), creation' = creation
          PROVE  Refined
  <2>1. S \cap Stored \in SUBSET Jobs
    OBVIOUS
  <2> QED
    BY <1>going, <2>1, SeenToGo DEF Uws!Next
<1>1. ASSUME NEW j \in Jobs,
             \/ AbortStops(j) \/ Destroy(j) \/ DestroyRemoves(j) \/ Launch(j)
             \/ Watch(j) \/ ClockRunsOut(j) \/ Observe(j) \/ KeepAnswer(j) \/ Abandon(j)
             \/ RemoveRefused(j) \/ ReclaimDone(j) \/ Finish(j) \/ WorkOpens(j)
             \/ CreationLands(j) \/ WorkDropped(j)
             \/ WorkEnds(j, "done") \/ WorkEnds(j, "failed")
      PROVE  Refined
  <2>1. UNCHANGED <<record, creation>>
    BY <1>1 DEF AbortStops, Destroy, DestroyRemoves, Launch, Watch, ClockRunsOut,
       Observe, KeepAnswer, Abandon, RemoveRefused, ReclaimDone, Finish, WorkOpens,
       CreationLands, WorkDropped, WorkEnds, storeVars
  <2> QED
    BY <2>1, <1>same
<1>2. ASSUME NEW j \in Jobs, NEW S \in SUBSET Items,
             HoldForCreate(j, S) \/ Extend(j, S) \/ PostParameters(j, S)
      PROVE  Refined
  <2>1. record' = record
    BY <1>2 DEF HoldForCreate, Extend, PostParameters, storeVars
  <2>2. \A k \in Jobs : creation'[k] = "unused" <=> creation[k] = "unused"
    BY <1>2, <1>records DEF HoldForCreate, Extend, PostParameters, storeVars
  <2> QED
    BY <2>1, <2>2, Unseen
<1>3. ASSUME NEW s \in Sweepers, NEW j \in Jobs, NEW product \in BOOLEAN,
             Sweep(s, j, product)
      PROVE  Refined
  BY <1>3, <1>same DEF Sweep, storeVars
<1>4. ASSUME NEW j \in Jobs,
             SetDestruction(j, TRUE) \/ SetDestruction(j, FALSE) \/ TimePasses(j)
      PROVE  Refined
  BY <1>4, <1>same, <1>records, DueEffect DEF SetDestruction, TimePasses
<1>5. ASSUME NEW j \in Jobs, Issue(j)
      PROVE  Refined
  <2>1. record' = record /\ \A k \in Jobs : creation'[k] = "unused" <=> creation[k] = "unused"
    BY <1>5, <1>records DEF Issue
  <2> QED
    BY <2>1, Unseen
\* A job is accepted.
<1>6. ASSUME NEW j \in Jobs, Create(j)
      PROVE  Refined
  <2>1. /\ creation[j] = "unused" /\ record[j].phase = "NONE"
        /\ creation' = [creation EXCEPT ![j] = "created"]
    BY <1>6 DEF Create, IInv, NothingBeforeCreation
  <2>2. record'[j].phase = "PENDING" /\ OthersSame(j)
    BY <1>6, <1>records, CreateEffect
  <2>3. phaseBar[j] = "ABSENT"
    BY <2>1 DEF phaseBar, UwsPhase
  <2>4. phaseBar' = [phaseBar EXCEPT ![j] = "PENDING"]
    BY <2>1, <2>2, <1>records DEF phaseBar, UwsPhase, OthersSame
  <2>5. collectableBar = {k \in Jobs : record[k].phase = "COMPLETED"}
    BY UwsPhases
  <2>6. collectableBar' = {k \in Jobs : record'[k].phase = "COMPLETED"}
    BY DEF IInv, AnswerBeforeRecord, collectableBar, Completed
  <2>7. collectableBar' = collectableBar
    BY <2>1, <2>2, <2>5, <2>6 DEF OthersSame
  <2>8. Uws!Accept(j)
    BY <2>3, <2>4, <2>7 DEF Uws!Accept, Uws!Moves, phaseBar, collectableBar
  <2> QED
    BY <2>8 DEF Uws!Next
\* A job is committed, or a commit refused.
<1>7. ASSUME NEW j \in Jobs, RunOnCreate(j) \/ Run(j)
      PROVE  Refined
  <2>creation. \A k \in Jobs : creation'[k] = "unused" <=> creation[k] = "unused"
    BY <1>7, <1>records DEF RunOnCreate, Run
  <2>1. CASE Start(j)
    <3>1. record[j].phase = "PENDING" /\ record'[j].phase = "QUEUED" /\ OthersSame(j)
      BY <2>1, <1>records, StartEffect
    <3>2. Uws!Commit(j)
      <4>1. /\ phaseBar[j] = "PENDING" /\ phaseBar' = [phaseBar EXCEPT ![j] = "QUEUED"]
            /\ collectableBar' = collectableBar \ {j}
        BY <3>1, <2>creation, SeenToMove
      <4>2. j \notin collectableBar
        BY <3>1, UwsPhases
      <4> QED
        BY <4>1, <4>2 DEF Uws!Commit, Uws!Moves, Uws!TakenIn, Uws!LeadsTo, phaseBar, collectableBar
    <3> QED
      BY <3>2 DEF Uws!Next
  <2>2. CASE record' = record
    BY <2>2, <2>creation, Unseen
  <2> QED
    BY <1>7, <2>1, <2>2 DEF RunOnCreate, Run
\* A job is aborted by a request.
<1>8. ASSUME NEW j \in Jobs, Abort(j)
      PROVE  Refined
  <2>1. /\ record[j].phase \in {"PENDING", "QUEUED", "EXECUTING"}
        /\ record'[j].phase = "ABORTED" /\ OthersSame(j) /\ creation' = creation
    BY <1>8, <1>records, AbortEffect DEF Abort
  <2>2. /\ phaseBar[j] \in {"PENDING", "QUEUED", "EXECUTING"}
        /\ phaseBar' = [phaseBar EXCEPT ![j] = "ABORTED"]
        /\ collectableBar' = collectableBar \ {j}
    BY <2>1, SeenToMove
  <2>3. j \notin collectableBar
    BY <2>1, UwsPhases
  <2>4. Uws!Cancel(j)
    BY <2>2, <2>3 DEF Uws!Cancel, Uws!Moves, Uws!TakenIn, Uws!LeadsTo, phaseBar, collectableBar
  <2> QED
    BY <2>4 DEF Uws!Next
\* A job begins, or is found not to be QUEUED any more.
<1>9. ASSUME NEW j \in Jobs, Admit(j)
      PROVE  Refined
  <2>creation. creation' = creation
    BY <1>9 DEF Admit
  <2>1. CASE record[j].phase = "QUEUED" /\ record'[j].phase = "EXECUTING" /\ OthersSame(j)
    <3>1. /\ phaseBar[j] = "QUEUED" /\ phaseBar' = [phaseBar EXCEPT ![j] = "EXECUTING"]
          /\ collectableBar' = collectableBar \ {j}
      BY <2>1, <2>creation, SeenToMove
    <3>2. j \notin collectableBar
      BY <2>1, UwsPhases
    <3>3. Uws!Begin(j)
      BY <3>1, <3>2 DEF Uws!Begin, Uws!Moves, Uws!TakenIn, Uws!LeadsTo, phaseBar, collectableBar
    <3> QED
      BY <3>3 DEF Uws!Next
  <2>2. CASE record' = record
    BY <2>2, <2>creation, <1>same
  <2> QED
    BY <1>9, <2>1, <2>2, <1>records, AdmitEffect
\* A job fails or is stopped by its clock, or the record has the last word already.
<1>10. ASSUME NEW j \in Jobs, RecordFailure(j)
       PROVE  Refined
  <2>creation. creation' = creation
    BY <1>10 DEF RecordFailure
  <2>task. task[j] = "abandoned"
    BY <1>10 DEF RecordFailure, Goto
  <2>1. CASE record' = record
    BY <2>1, <2>creation, <1>same
  <2>2. CASE record' # record
    <3>1. /\ record[j].phase \in {"PENDING", "QUEUED", "EXECUTING"} /\ OthersSame(j)
          /\ record'[j].phase \in {"ERROR", "ABORTED"}
      BY <1>10, <2>2, <1>records, FailureEffect
    <3>2. record[j].phase = "EXECUTING"
      BY <3>1, <2>task DEF IInv, WaitsWithItsTask
    <3>3. /\ phaseBar[j] = "EXECUTING"
          /\ phaseBar' = [phaseBar EXCEPT ![j] = record'[j].phase]
          /\ collectableBar' = collectableBar \ {j}
      BY <3>1, <3>2, <2>creation, SeenToMove
    <3>4. j \notin collectableBar
      BY <3>2, UwsPhases
    <3>5. Uws!GiveUp(j) \/ Uws!Cancel(j)
      BY <3>1, <3>3, <3>4 DEF Uws!GiveUp, Uws!Cancel, Uws!Moves, Uws!TakenIn, Uws!LeadsTo, phaseBar,
         collectableBar
    <3> QED
      BY <3>5 DEF Uws!Next
  <2> QED
    BY <2>1, <2>2
\* A job succeeds, its answer being there already, or is refused.
<1>11. ASSUME NEW j \in Jobs, RecordSuccess(j)
       PROVE  Refined
  <2>creation. creation' = creation
    BY <1>11 DEF RecordSuccess
  <2>task. task[j] = "kept"
    BY <1>11 DEF RecordSuccess, Goto
  <2>1. CASE record' = record
    BY <2>1, <2>creation, <1>same
  <2>2. CASE record' # record
    <3>1. /\ record[j].phase \in {"QUEUED", "EXECUTING"} /\ OthersSame(j)
          /\ record'[j].phase = "COMPLETED"
      BY <1>11, <2>2, <1>records, SuccessEffect
    <3>2. record[j].phase = "EXECUTING"
      BY <3>1, <2>task DEF IInv, WaitsWithItsTask
    <3>3. /\ phaseBar[j] = "EXECUTING"
          /\ phaseBar' = [phaseBar EXCEPT ![j] = "COMPLETED"]
          /\ collectableBar' = collectableBar \cup {j}
      BY <3>1, <3>2, <2>creation, SeenToMove
    <3>4. Uws!Succeed(j)
      BY <3>3 DEF Uws!Succeed, Uws!Moves, Uws!LeadsTo, phaseBar, collectableBar
    <3> QED
      BY <3>4 DEF Uws!Next
  <2> QED
    BY <2>1, <2>2
\* Jobs are destroyed, by a request, for the quota or by the clock.
<1>12. ASSUME NEW j \in Jobs, DestroyDeletes(j)
       PROVE  Refined
  BY <1>12, <1>going DEF DestroyDeletes
<1>13. ASSUME NEW j \in Jobs, Reclaim(j)
       PROVE  Refined
  <2>1. Shed \in SUBSET Jobs
    BY DEF Shed, Completed
  <2> QED
    BY <1>13, <2>1, <1>going DEF Reclaim
<1>14. ASSUME Expire
       PROVE  Refined
  <2>1. {j \in Stored : record[j].due} \in SUBSET Jobs
    BY DEF Stored
  <2> QED
    BY <1>14, <2>1, <1>going DEF Expire
<1> HIDE DEF Refined
<1>15. Refined
  BY <1>1, <1>2, <1>3, <1>4, <1>5, <1>6, <1>7, <1>8, <1>9, <1>10, <1>11, <1>12, <1>13, <1>14
  DEF Next, Request, Creating, Task, Work
<1> QED
  BY <1>15 DEF Refined

\* For any jobs, slots, quota and uploads, all a client can see of the runner is a behaviour
\* UwsJobs allows: phases in their order, and a result to collect exactly while the job says
\* COMPLETED (Runner, MemoryJobStore, Job::apply and the /async handlers together).
THEOREM RunnerImplementsUws == Spec => ImplementsUws
<1>1. Init => Uws!Init
  BY DEF Init, Uws!Init, UwsPhase, Completed, NoJob
<1>2. IInv /\ IInv' /\ [Next]_vars => [Uws!Next]_(Uws!vars)
  <2> SUFFICES ASSUME IInv, IInv', [Next]_vars
               PROVE  [Uws!Next]_(Uws!vars)
    OBVIOUS
  <2>1. CASE Next
    BY <2>1, StepRefines DEF Uws!vars, phaseBar, collectableBar
  <2>2. CASE UNCHANGED vars
    <3>1. UNCHANGED <<record, creation, files>>
      BY <2>2 DEF vars, storeVars, diskVars
    <3>2. UNCHANGED <<phaseBar, collectableBar>>
      BY <3>1, Unseen
    <3> QED
      BY <3>2 DEF Uws!vars, phaseBar, collectableBar
  <2> QED
    BY <2>1, <2>2 DEF vars
<1> QED
  BY <1>1, <1>2, Invariance, PTL DEF Spec, ImplementsUws, Uws!Spec

-----------------------------------------------------------------------------
(* The directory that the processes of a machine share: no sweep takes     *)
(* that of a live process, and no lock file goes before the directory it   *)
(* speaks for, for any number of processes.                                *)

USE ProcessesAssumption

\* Nothing is there before a process starts.
LEMMA InitDirInv == InitDirs => DirInv
  BY DEF InitDirs, DirInv, DirsTypeOK, LiveDirectoryStays, OwnerHoldsLock, SweeperHoldsLock,
         RemovedStaysRemoved, Owning, Locked, Alive

\* What the start of a process does (Results::open, but for its sweep).
LEMMA StartKeeps ==
  ASSUME DirInv, NEW p \in Processes,
         CreateLock(p) \/ TakeLock(p) \/ MakeDirectory(p) \/ List(p)
  PROVE  DirInv'
<1> USE DEF DirInv, Moves, Owning, Locked, Alive
<1>1. CASE CreateLock(p)
  BY <1>1 DEF CreateLock, DirsTypeOK, LiveDirectoryStays, OwnerHoldsLock, SweeperHoldsLock,
              RemovedStaysRemoved
<1>2. CASE TakeLock(p)
  BY <1>2 DEF TakeLock, DirsTypeOK, LiveDirectoryStays, OwnerHoldsLock, SweeperHoldsLock,
              RemovedStaysRemoved
<1>3. CASE MakeDirectory(p)
  BY <1>3 DEF MakeDirectory, DirsTypeOK, LiveDirectoryStays, OwnerHoldsLock, SweeperHoldsLock,
              RemovedStaysRemoved
<1>4. CASE List(p)
  BY <1>4 DEF List, DirsTypeOK, LiveDirectoryStays, OwnerHoldsLock, SweeperHoldsLock,
              RemovedStaysRemoved
<1> QED
  BY <1>1, <1>2, <1>3, <1>4

\* What the sweep of a process does (reclaim).
LEMMA SweepKeeps ==
  ASSUME DirInv, NEW p \in Processes,
         \/ \E run \in Processes : Open(p, run)
         \/ Take(p) \/ RemoveDirectory(p) \/ RemoveLock(p) \/ CloseLock(p) \/ Serve(p)
  PROVE  DirInv'
<1> USE DEF DirInv, Visit, Moves, Owning, Locked, Alive
<1>1. CASE \E run \in Processes : Open(p, run)
  BY <1>1 DEF Open, DirsTypeOK, LiveDirectoryStays, OwnerHoldsLock, SweeperHoldsLock,
              RemovedStaysRemoved
<1>2. CASE Take(p)
  BY <1>2 DEF Take, DirsTypeOK, LiveDirectoryStays, OwnerHoldsLock, SweeperHoldsLock,
              RemovedStaysRemoved
<1>3. CASE RemoveDirectory(p)
  BY <1>3 DEF RemoveDirectory, DirsTypeOK, LiveDirectoryStays, OwnerHoldsLock,
              SweeperHoldsLock, RemovedStaysRemoved
<1>4. CASE RemoveLock(p)
  BY <1>4 DEF RemoveLock, DirsTypeOK, LiveDirectoryStays, OwnerHoldsLock, SweeperHoldsLock,
              RemovedStaysRemoved
<1>5. CASE CloseLock(p)
  BY <1>5 DEF CloseLock, DirsTypeOK, LiveDirectoryStays, OwnerHoldsLock, SweeperHoldsLock,
              RemovedStaysRemoved
<1>6. CASE Serve(p)
  BY <1>6 DEF Serve, DirsTypeOK, LiveDirectoryStays, OwnerHoldsLock, SweeperHoldsLock,
              RemovedStaysRemoved
<1> QED
  BY <1>1, <1>2, <1>3, <1>4, <1>5, <1>6

\* How a process ends, in order or killed (Results::drop).
LEMMA EndKeeps ==
  ASSUME DirInv, NEW p \in Processes,
         DropDirectory(p) \/ DropLock(p) \/ Exit(p) \/ Killed(p)
  PROVE  DirInv'
<1> USE DEF DirInv, Moves, Owning, Locked, Alive
<1>1. CASE DropDirectory(p)
  BY <1>1 DEF DropDirectory, DirsTypeOK, LiveDirectoryStays, OwnerHoldsLock, SweeperHoldsLock,
              RemovedStaysRemoved
<1>2. CASE DropLock(p)
  BY <1>2 DEF DropLock, DirsTypeOK, LiveDirectoryStays, OwnerHoldsLock, SweeperHoldsLock,
              RemovedStaysRemoved
<1>3. CASE Exit(p)
  BY <1>3 DEF Exit, Release, DirsTypeOK, LiveDirectoryStays, OwnerHoldsLock, SweeperHoldsLock,
              RemovedStaysRemoved
<1>4. CASE Killed(p)
  BY <1>4 DEF Killed, Release, DirsTypeOK, LiveDirectoryStays, OwnerHoldsLock,
              SweeperHoldsLock, RemovedStaysRemoved
<1> QED
  BY <1>1, <1>2, <1>3, <1>4

LEMMA NextDirInv == DirInv /\ [NextDirs]_dirVars => DirInv'
<1> SUFFICES ASSUME DirInv, [NextDirs]_dirVars PROVE DirInv'
  OBVIOUS
<1>1. CASE NextDirs
  BY <1>1, StartKeeps, SweepKeeps, EndKeeps DEF NextDirs, Proceeds
<1>2. CASE UNCHANGED dirVars
  BY <1>2 DEF dirVars, DirInv, DirsTypeOK, LiveDirectoryStays, OwnerHoldsLock, SweeperHoldsLock,
              RemovedStaysRemoved
<1> QED
  BY <1>1, <1>2

\* Whoever makes or removes a directory holds the lock that speaks for it, for any number of
\* processes that start, sweep, stop and are killed in any order (Results::open, reclaim).
THEOREM LocksGuardDirectories == DirsSpec => []DirInv
  BY InitDirInv, NextDirInv, PTL DEF DirsSpec

\* The directory of a service that is up is never swept away (Results::open, reclaim).
THEOREM LiveDirectoriesStay == DirsSpec => []LiveDirectoryStays
<1>1. DirInv => LiveDirectoryStays
  BY DEF DirInv
<1> QED
  BY <1>1, LocksGuardDirectories, PTL

\* No lock file loses its name while the directory beside it is there, whoever removes it and
\* wherever he is killed (reclaim, Results::drop).
THEOREM LocksOutliveDirectories == DirsSpec => LockOutlivesDirectory
<1> DEFINE Kept == \A run \in Processes \ Stuck : run \in locks \ locks' => run \notin dirs'
<1>1. DirInv /\ [NextDirs]_dirVars => [Kept]_dirVars
  <2> SUFFICES ASSUME DirInv, NextDirs, NEW run \in Processes \ Stuck, run \in locks \ locks'
               PROVE  run \notin dirs'
    BY DEF dirVars
  <2>1. PICK p \in Processes : CreateLock(p) \/ Proceeds(p) \/ DropDirectory(p) \/ Killed(p)
    BY DEF NextDirs
  <2>2. RemoveLock(p) \/ DropLock(p)
    BY <2>1 DEF Proceeds, CreateLock, TakeLock, MakeDirectory, List, Open, Take,
                RemoveDirectory, CloseLock, Serve, Exit, DropDirectory, Killed, Release
  <2>3. CASE RemoveLock(p)
    BY <2>3 DEF RemoveLock, Visit, DirInv, RemovedStaysRemoved
  <2>4. CASE DropLock(p)
    BY <2>4 DEF DropLock, Moves, DirInv, RemovedStaysRemoved
  <2> QED
    BY <2>2, <2>3, <2>4
<1> QED
  BY <1>1, LocksGuardDirectories, PTL DEF DirsSpec, LockOutlivesDirectory
=============================================================================
