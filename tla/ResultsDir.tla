------------------------------ MODULE ResultsDir ------------------------------
(***************************************************************************)
(* The scratch directory that the processes of one machine share for job   *)
(* results.  Every process that starts takes a directory of its own there, *)
(* marks it alive with a locked file beside it, and sweeps the directories *)
(* whose lock nobody holds any more.  A process may be killed anywhere;    *)
(* the kernel then lets its locks go and leaves its files.                 *)
(*                                                                         *)
(* Each action is one system call, and calls of different processes come   *)
(* in any order.  A run is named by the process it belongs to, a name      *)
(* being 128 random bits drawn once.  A lock is on the file and not on its *)
(* name: it can be taken through a handle whose name is gone.              *)
(***************************************************************************)
EXTENDS Naturals

CONSTANTS
  Processes,   \* the processes that may start, and the runs they make
  Stuck,       \* the runs whose directory cannot be removed
  None         \* no process, no run

ASSUME ProcessesAssumption == None \notin Processes /\ Stuck \subseteq Processes

VARIABLES
  at,         \* where each process is in its life
  locks,      \* the lock files that have their name in the directory
  holder,     \* the process that holds each lock file's lock, or None
  dirs,       \* the result directories
  listed,     \* the lock files a sweep has still to look at
  visiting,   \* the run whose lock file the sweep has opened, or None
  stage       \* how far it is with that run

dirVars == <<at, locks, holder, dirs, listed, visiting, stage>>

Alive == {"created", "locked", "listing", "sweeping", "running", "closing", "unlinking"}
Owning == {"listing", "sweeping", "running"}   \* its directory is made and its own
Locked == Alive \ {"created"}                  \* its lock file is locked

Moves(p, from, to) ==
  /\ at[p] = from
  /\ at' = [at EXCEPT ![p] = to]

-----------------------------------------------------------------------------
(* Results::open.                                                          *)

\* The lock file is made ...
CreateLock(p) ==
  /\ Moves(p, "absent", "created")
  /\ locks' = locks \cup {p}
  /\ UNCHANGED <<holder, dirs, listed, visiting, stage>>

\* Mutant of TakeLock: the file is made and not locked.
TakeNoLock(p) ==
  /\ Moves(p, "created", "locked")
  /\ UNCHANGED <<locks, holder, dirs, listed, visiting, stage>>

\* ... and locked, which fails while a sweep of somebody else's holds it, and the start of
\* the service with it.
TakeLock(p) ==
  /\ \/ /\ holder[p] = None
        /\ Moves(p, "created", "locked")
        /\ holder' = [holder EXCEPT ![p] = p]
     \/ /\ holder[p] # None
        /\ Moves(p, "created", "gone")
        /\ UNCHANGED holder
  /\ UNCHANGED <<locks, dirs, listed, visiting, stage>>

MakeDirectory(p) ==
  /\ Moves(p, "locked", "listing")
  /\ dirs' = dirs \cup {p}
  /\ UNCHANGED <<locks, holder, listed, visiting, stage>>

-----------------------------------------------------------------------------
(* reclaim: the sweep of what dead runs left.                              *)

\* The directory is read, once.
List(p) ==
  /\ Moves(p, "listing", "sweeping")
  /\ listed' = [listed EXCEPT ![p] = locks \ {p}]
  /\ UNCHANGED <<locks, holder, dirs, visiting, stage>>

\* The next lock file is opened, or passed over as it is gone.
Open(p, run) ==
  /\ at[p] = "sweeping"
  /\ visiting[p] = None
  /\ run \in listed[p]
  /\ listed' = [listed EXCEPT ![p] = @ \ {run}]
  /\ IF run \in locks
       THEN /\ visiting' = [visiting EXCEPT ![p] = run]
            /\ stage' = [stage EXCEPT ![p] = "opened"]
       ELSE UNCHANGED <<visiting, stage>>
  /\ UNCHANGED <<at, locks, holder, dirs>>

Visit(p, from, to) ==
  /\ visiting[p] # None
  /\ stage[p] = from
  /\ stage' = [stage EXCEPT ![p] = to]

\* Mutants of Take: a lock somebody holds is no reason to leave the run alone, or one to stop
\* the sweep at.
TakeRegardless(p) ==
  /\ Visit(p, "opened", "taken")
  /\ holder' = [holder EXCEPT ![visiting[p]] = IF @ = None THEN p ELSE @]
  /\ UNCHANGED <<at, locks, dirs, listed, visiting>>

TakeOrStop(p) ==
  /\ \/ /\ Visit(p, "opened", "taken")
        /\ holder[visiting[p]] = None
        /\ holder' = [holder EXCEPT ![visiting[p]] = p]
        /\ UNCHANGED <<listed, visiting>>
     \/ /\ Visit(p, "opened", "none")
        /\ holder[visiting[p]] # None
        /\ visiting' = [visiting EXCEPT ![p] = None]
        /\ listed' = [listed EXCEPT ![p] = {}]
        /\ UNCHANGED holder
  /\ UNCHANGED <<at, locks, dirs>>

\* Its lock is taken, which says that no process holds the run; or it is passed over.
Take(p) ==
  /\ \/ /\ Visit(p, "opened", "taken")
        /\ holder[visiting[p]] = None
        /\ holder' = [holder EXCEPT ![visiting[p]] = p]
        /\ UNCHANGED visiting
     \/ /\ Visit(p, "opened", "none")
        /\ holder[visiting[p]] # None
        /\ visiting' = [visiting EXCEPT ![p] = None]
        /\ UNCHANGED holder
  /\ UNCHANGED <<at, locks, dirs, listed>>

\* Mutant of RemoveDirectory: the lock file's name goes before the directory.
RemoveLockFirst(p) ==
  /\ Visit(p, "taken", "cleared")
  /\ locks' = locks \ {visiting[p]}
  /\ UNCHANGED <<at, holder, dirs, listed, visiting>>

\* The run's directory goes, if it can ...
RemoveDirectory(p) ==
  /\ Visit(p, "taken", "cleared")
  /\ dirs' = dirs \ ({visiting[p]} \ Stuck)
  /\ UNCHANGED <<at, locks, holder, listed, visiting>>

\* ... then the name of its lock file, whether it could or not ...
RemoveLock(p) ==
  /\ Visit(p, "cleared", "unlinked")
  /\ locks' = locks \ {visiting[p]}
  /\ UNCHANGED <<at, holder, dirs, listed, visiting>>

\* ... and closing the file lets the lock go.
CloseLock(p) ==
  /\ Visit(p, "unlinked", "none")
  /\ holder' = [holder EXCEPT ![visiting[p]] = None]
  /\ visiting' = [visiting EXCEPT ![p] = None]
  /\ UNCHANGED <<at, locks, dirs, listed>>

\* Everything listed has been looked at, and the service is up.
Serve(p) ==
  /\ listed[p] = {}
  /\ visiting[p] = None
  /\ Moves(p, "sweeping", "running")
  /\ UNCHANGED <<locks, holder, dirs, listed, visiting, stage>>

-----------------------------------------------------------------------------
(* The end of a process.                                                   *)

\* An orderly shutdown drops Results: the directory goes ...
DropDirectory(p) ==
  /\ Moves(p, "running", "closing")
  /\ dirs' = dirs \ ({p} \ Stuck)
  /\ UNCHANGED <<locks, holder, listed, visiting, stage>>

\* ... then the lock file's name ...
DropLock(p) ==
  /\ Moves(p, "closing", "unlinking")
  /\ locks' = locks \ {p}
  /\ UNCHANGED <<holder, dirs, listed, visiting, stage>>

\* What the kernel does for a process that is gone, however it went.
Release(p) ==
  /\ holder' = [run \in Processes |-> IF holder[run] = p THEN None ELSE holder[run]]
  /\ listed' = [listed EXCEPT ![p] = {}]
  /\ visiting' = [visiting EXCEPT ![p] = None]
  /\ stage' = [stage EXCEPT ![p] = "none"]
  /\ UNCHANGED <<locks, dirs>>

\* ... and the process.
Exit(p) ==
  /\ Moves(p, "unlinking", "gone")
  /\ Release(p)

Killed(p) ==
  /\ at[p] \in Alive
  /\ at' = [at EXCEPT ![p] = "killed"]
  /\ Release(p)

-----------------------------------------------------------------------------
InitDirs ==
  /\ at = [p \in Processes |-> "absent"]
  /\ locks = {}
  /\ holder = [run \in Processes |-> None]
  /\ dirs = {}
  /\ listed = [p \in Processes |-> {}]
  /\ visiting = [p \in Processes |-> None]
  /\ stage = [p \in Processes |-> "none"]

\* What a process that has started does by itself.
Proceeds(p) ==
  \/ TakeLock(p) \/ MakeDirectory(p) \/ List(p)
  \/ \E run \in Processes : Open(p, run)
  \/ Take(p) \/ RemoveDirectory(p) \/ RemoveLock(p) \/ CloseLock(p) \/ Serve(p)
  \/ DropLock(p) \/ Exit(p)

NextDirs ==
  \E p \in Processes : CreateLock(p) \/ Proceeds(p) \/ DropDirectory(p) \/ Killed(p)

DirsSpec == InitDirs /\ [][NextDirs]_dirVars

\* A process that started and is not killed goes on; nobody has to start or to stop one.
FairDirsSpec == DirsSpec /\ \A p \in Processes : WF_dirVars(Proceeds(p))
===============================================================================
