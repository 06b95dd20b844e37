------------------------------ MODULE CatalogWarm ------------------------------
(***************************************************************************)
(* A published table's catalog, the requests that open it, and the task    *)
(* that keeps it warm: it reads the whole catalog when the service starts, *)
(* again at nine tenths of its lifetime, and sooner after a read that      *)
(* failed.  The task is one more handle on the catalog's cache.            *)
(*                                                                         *)
(* What the tables weigh together is the Footprint's; here a table that is *)
(* read is found to fit or not to fit.  Two bounds on the clock: it does   *)
(* not move while the task reads, nor while a handle has its part and only *)
(* has to run.                                                             *)
(***************************************************************************)
EXTENDS CatalogCache

CONSTANTS
  Warmer,      \* the handle of the task
  Retry,       \* how long it waits at most after a read that failed
  LastFailure, \* bound: how many reads fail
  LastEviction \* bound: how many entries are let go for room

ASSUME WarmAssumption == Warmer \in Handles /\ {Retry, LastFailure, LastEviction} \subseteq Nat

VARIABLES
  task,       \* where the task is
  left,       \* the parts it has still to ask for
  wake,       \* when it wakes
  renew,      \* whether it has read the catalog before
  failed,     \* how many reads failed before the first that succeeded
  lapsed,     \* how many have failed since
  evicted     \* how many entries have been let go for room

warmVars == <<task, left, wake, renew, failed, lapsed, evicted>>
allVars == <<vars, warmVars>>

Requests == Handles \ {Warmer}
RefreshAfter == (9 * Lifetime) \div 10

Fails ==
  /\ failed + lapsed < LastFailure
  /\ IF renew
     THEN lapsed' = lapsed + 1 /\ UNCHANGED failed
     ELSE failed' = failed + 1 /\ UNCHANGED lapsed

\* Mutant of StartRound: every reading finds what is there.
StartRoundFound ==
  /\ task = "due"
  /\ Open(Warmer)
  /\ task' = "reading" /\ left' = Parts
  /\ UNCHANGED <<wake, renew, failed, lapsed, evicted>>

\* keep_warm: the first reading finds what is there, those after it read it again.
StartRound ==
  /\ task = "due"
  /\ IF renew THEN OpenRenewed(Warmer) ELSE Open(Warmer)
  /\ task' = "reading" /\ left' = Parts
  /\ UNCHANGED <<wake, renew, failed, lapsed, evicted>>

\* read: every part, one after the other.
ReadPart ==
  /\ task = "reading"
  /\ \E p \in Parts :
       /\ Ask(Warmer, p)
       /\ stack[Warmer] = <<>> => p \in left
       /\ left' = IF stack[Warmer] = <<>> THEN left \ {p} ELSE left
  /\ UNCHANGED <<task, wake, renew, failed, lapsed, evicted>>

\* What a part asked for cannot be read, and the part is read without it.
ReadWithout ==
  /\ Len(stack[Warmer]) > 1
  /\ Fail(Warmer)
  /\ Fails
  /\ UNCHANGED <<task, left, wake, renew, evicted>>

Sleep(long) ==
  /\ task' = "asleep" /\ left' = {}
  /\ wake' = now + long

\* All of it is read, and the tables fit the cache, or do not.
EndRound ==
  /\ task = "reading" /\ stack[Warmer] = <<>>
  /\ Ready(Warmer) /\ left = {}
  /\ Close(Warmer)
  /\ \/ Sleep(RefreshAfter)
     \/ task' = "over" /\ UNCHANGED <<left, wake>>
  /\ renew' = TRUE
  /\ UNCHANGED <<failed, lapsed, evicted>>

\* A part cannot be read, and the round with it.
FailRound ==
  /\ task = "reading" /\ Doing(Warmer, "reading")
  /\ Close(Warmer)
  /\ Sleep(IF Retry < RefreshAfter THEN Retry ELSE RefreshAfter)
  /\ Fails
  /\ UNCHANGED <<renew, evicted>>

Wakes ==
  /\ task = "asleep" /\ now >= wake
  /\ task' = "due" /\ wake' = 0
  /\ UNCHANGED <<vars, left, renew, failed, lapsed, evicted>>

TimePasses ==
  /\ task = "asleep" => now < wake
  /\ task \in {"asleep", "over"}
  /\ drawn < LastGeneration
  /\ \A h \in Handles : ~ Runnable(h)
  /\ Tick
  /\ UNCHANGED warmVars

-----------------------------------------------------------------------------
WarmInit ==
  /\ Init
  /\ task = "due" /\ left = {} /\ wake = 0
  /\ renew = FALSE /\ failed = 0 /\ lapsed = 0 /\ evicted = 0

RequestStep(h) ==
  \/ Open(h)
  \/ \E p \in Parts : Ask(h, p)
  \/ Fail(h)
  \/ Close(h)
  \/ Walking(h)

WarmNext ==
  \/ StartRound \/ ReadPart \/ ReadWithout \/ EndRound \/ FailRound \/ Wakes
  \/ \E h \in Requests : RequestStep(h) /\ UNCHANGED warmVars
  \/ \E h \in Handles : Filling(h) /\ UNCHANGED warmVars
  \/ Walking(Warmer) /\ UNCHANGED warmVars
  \/ Publish /\ UNCHANGED warmVars
  \/ Evicts /\ evicted < LastEviction /\ evicted' = evicted + 1 /\ UNCHANGED <<task, left, wake, renew, failed, lapsed>>
  \/ TimePasses

WarmSpec == WarmInit /\ [][WarmNext]_allVars
=============================================================================
