------------------------- MODULE ResultsDirProperties -------------------------
(***************************************************************************)
(* What is claimed of the shared scratch directory.                        *)
(***************************************************************************)
EXTENDS ResultsDir

\* Every variable holds what it should, for every reachable state of DirsSpec.
DirsTypeOK ==
  /\ at \in [Processes -> {"absent", "gone", "killed"} \cup Alive]
  /\ locks \subseteq Processes
  /\ holder \in [Processes -> Processes \cup {None}]
  /\ dirs \subseteq Processes
  /\ listed \in [Processes -> SUBSET Processes]
  /\ visiting \in [Processes -> Processes \cup {None}]
  /\ stage \in [Processes -> {"none", "opened", "taken", "cleared", "unlinked"}]

\* The directory of a service that is up, or coming up, is there: no other process sweeps
\* it away, whenever that one reads, opens, locks and removes (Results::open, reclaim).
LiveDirectoryStays == \A p \in Processes : at[p] \in Owning => p \in dirs

\* A lock file outlives the directory it speaks for, so that a sweep or a shutdown that is
\* killed half-way leaves what the next sweep will find (reclaim, Results::drop).
LockOutlivesDirectory ==
  [][\A run \in Processes \ Stuck : run \in locks \ locks' => run \notin dirs']_dirVars

\* What a killed process left and can be told dead is gone once a process that starts later
\* is up, if no third one is killed in the meantime (reclaim).
DeadRunsReclaimed ==
  \A run \in Processes \ Stuck : \A p \in Processes \ {run} :
    (at[run] = "killed" /\ run \in dirs \cap locks /\ at[p] = "created")
    ~> \/ run \notin dirs
       \/ at[p] = "gone"
       \/ \E q \in Processes \ {run} : at[q] = "killed"

-----------------------------------------------------------------------------
(* Why they hold.                                                          *)

\* A process holds its own lock from when it takes it until it is gone.
OwnerHoldsLock == \A p \in Processes : at[p] \in Locked => holder[p] = p

\* A sweep looks at one lock file of somebody else's at a time, and holds it while it acts.
SweeperHoldsLock ==
  \A p \in Processes :
    /\ p \notin listed[p]
    /\ visiting[p] # p
    /\ stage[p] # "none" => at[p] = "sweeping" /\ visiting[p] # None
    /\ stage[p] \in {"taken", "cleared", "unlinked"} => holder[visiting[p]] = p

\* What was removed stays so, nobody making a directory under a lock that another holds.
RemovedStaysRemoved ==
  \A p \in Processes :
    /\ stage[p] = "cleared" => visiting[p] \notin dirs \ Stuck
    /\ at[p] = "closing" => p \notin dirs \ Stuck

\* Together: whoever makes or removes a directory holds the lock that speaks for it
\* (Results::open, reclaim, Results::drop).
DirInv ==
  /\ DirsTypeOK
  /\ LiveDirectoryStays
  /\ OwnerHoldsLock
  /\ SweeperHoldsLock
  /\ RemovedStaysRemoved
===============================================================================
