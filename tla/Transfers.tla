------------------------------- MODULE Transfers -------------------------------
(***************************************************************************)
(* Reading objects off a server that may not serve byte ranges.  A request *)
(* has a store of its own with a cell per object; the first read of an     *)
(* object probes the server while the others wait for the cell, and a      *)
(* server that answers with the whole object has it copied to scratch      *)
(* there and then.  Copies of all requests share a byte budget, kept by    *)
(* compare-and-swap, and a number of permits.                              *)
(*                                                                         *)
(* An object here is a key of one request's store.  A step is what runs    *)
(* between two awaits, or between two accesses of what threads share: the  *)
(* budget, the permits, the disk.  The copy of an object that cannot be    *)
(* finished gives its bytes back before its file is deleted; one whose     *)
(* request is over is deleted first.                                       *)
(***************************************************************************)
EXTENDS Naturals, SequencesExt

CONSTANTS
  Requests,     \* the requests in progress at once
  Objects,      \* the objects their stores are asked for
  Reads,        \* the reads of them in progress at once
  RequestOf,    \* the request each object's store belongs to
  ObjectOf,     \* the object each read is of
  Bodies,       \* the sizes a whole object may come in
  Chunks,       \* the sizes it may arrive in at a time
  Limits        \* what may be configured: the most bytes for one object, for all the
                \* copies there are, and how many copies may be under way

ASSUME TransfersAssumption ==
  /\ IsFiniteSet(Objects) /\ IsFiniteSet(Reads)
  /\ RequestOf \in [Objects -> Requests] /\ ObjectOf \in [Reads -> Objects]
  /\ Bodies \subseteq Nat /\ Chunks \subseteq Nat \ {0}
  /\ Limits \subseteq [object : Nat, total : Nat, copies : Nat \ {0}]

VARIABLES
  limits,      \* the limits configured
  pc,          \* where each read is
  source,      \* what each cell says of its object
  body,        \* how long the object being copied is: what the server sent
  held,        \* the bytes each object's claim holds of the budget
  disk,        \* the bytes each object's scratch file takes
  chunk, seen, \* what a read is growing its claim by, and the budget it last saw
  resident,    \* Transfers::resident, the bytes the budget counts
  permits,     \* the permits nobody holds
  queue,       \* the reads waiting for one, in order
  over         \* the requests that have ended

vars == <<limits, pc, source, body, held, disk, chunk, seen, resident, permits, queue, over>>

\* A read that is not served was refused over a limit, failed, or is not wanted any more.
Ended == {"served", "unserved"}
AtWork == {"probing", "queued", "copying", "growing", "writing", "dropping", "unlinking"}
Permitted == {"copying", "growing", "writing", "dropping", "unlinking"}

ReadsOf(o) == {r \in Reads : ObjectOf[r] = o}
Over(o) == RequestOf[o] \in over

Go(r, where) == pc' = [pc EXCEPT ![r] = where]

Init ==
  /\ limits \in Limits
  /\ pc = [r \in Reads |-> "idle"]
  /\ source = [o \in Objects |-> "unknown"]
  /\ body = [o \in Objects |-> 0]
  /\ held = [o \in Objects |-> 0]
  /\ disk = [o \in Objects |-> 0]
  /\ chunk = [r \in Reads |-> 0]
  /\ seen = [r \in Reads |-> 0]
  /\ resident = 0
  /\ permits = limits.copies
  /\ queue = <<>>
  /\ over = {}

copyVars == <<limits, body, held, disk, chunk, seen, resident, permits>>

-----------------------------------------------------------------------------
(* MaterializingStore::source: one cell per key.                           *)

\* A read served from the cell goes on to the server or to the copy, each read of which has a
\* handle of its own (Scratch::get_opts).
Ask(r) ==
  /\ pc[r] = "idle" /\ ~ Over(ObjectOf[r])
  /\ Go(r, "waiting")
  /\ UNCHANGED <<source, queue, over, copyVars>>

Serve(r) ==
  /\ pc[r] = "waiting"
  /\ source[ObjectOf[r]] \in {"ranged", "scratch"}
  /\ Go(r, "served")
  /\ UNCHANGED <<source, queue, over, copyVars>>

\* Mutant of Probe: a probe that came to nothing leaves the cell taken.
ProbeOnce(r) ==
  /\ pc[r] = "waiting" /\ source[ObjectOf[r]] = "unknown"
  /\ \A s \in ReadsOf(ObjectOf[r]) : pc[s] \notin AtWork \cup {"unserved"}
  /\ Go(r, "probing")
  /\ UNCHANGED <<source, queue, over, copyVars>>

\* The cell lets one read try; the others stay where they are until it settles or gives up.
Probe(r) ==
  /\ pc[r] = "waiting" /\ source[ObjectOf[r]] = "unknown"
  /\ \A s \in ReadsOf(ObjectOf[r]) : pc[s] \notin AtWork
  /\ Go(r, "probing")
  /\ UNCHANGED <<source, queue, over, copyVars>>

-----------------------------------------------------------------------------
(* MaterializingStore::probe and the checks absorb starts with.            *)

ProbeFails(r) ==
  /\ pc[r] = "probing"
  /\ Go(r, "unserved")
  /\ UNCHANGED <<source, queue, over, copyVars>>

\* The range was honoured, or the status is for the store below to report.
ProbeRanged(r) ==
  /\ pc[r] = "probing"
  /\ source' = [source EXCEPT ![ObjectOf[r]] = "ranged"]
  /\ Go(r, "served")
  /\ UNCHANGED <<queue, over, copyVars>>

\* A success that is not a 206 is the whole object, arriving now; it may not say how long it is.
ProbeWhole(r) ==
  /\ pc[r] = "probing"
  /\ \E n \in Bodies, said \in BOOLEAN :
       IF limits.object = 0 \/ (said /\ n > limits.object)
       THEN Go(r, "unserved") /\ UNCHANGED <<queue, body>>
       ELSE /\ Go(r, "queued")
            /\ queue' = Append(queue, r)
            /\ body' = [body EXCEPT ![ObjectOf[r]] = n]
  /\ UNCHANGED <<source, held, disk, chunk, seen, resident, permits, over, limits>>

\* The permit, and the scratch file: without one the permit goes back at once.
Begin(r) ==
  /\ queue # <<>> /\ r = Head(queue) /\ permits > 0
  /\ queue' = Tail(queue)
  /\ \/ /\ Go(r, "copying")
        /\ permits' = permits - 1
        /\ UNCHANGED body
     \/ /\ Go(r, "unserved")
        /\ body' = [body EXCEPT ![ObjectOf[r]] = 0]
        /\ UNCHANGED permits
  /\ UNCHANGED <<source, held, disk, chunk, seen, resident, over, limits>>

-----------------------------------------------------------------------------
(* absorb's loop, Claim::grow and the drops it ends with.                  *)

\* All that has arrived but the chunk at hand: what is claimed, and once it is written, on disk.
Size(r) == held[ObjectOf[r]]

Growing(r, n, budget) ==
  /\ chunk' = [chunk EXCEPT ![r] = n]
  /\ seen' = [seen EXCEPT ![r] = budget]

GiveUp(r) == Go(r, "dropping") /\ Growing(r, 0, 0)

\* A chunk arrives and the budget is looked at.
Arrive(r) ==
  /\ pc[r] = "copying"
  /\ \E n \in Chunks :
       /\ Size(r) + n <= body[ObjectOf[r]]
       /\ IF Size(r) + n > limits.object \/ resident + n > limits.total
          THEN GiveUp(r)
          ELSE Go(r, "growing") /\ Growing(r, n, resident)
  /\ UNCHANGED <<source, body, held, disk, resident, permits, queue, over, limits>>

Claimed(r) ==
  /\ held' = [held EXCEPT ![ObjectOf[r]] = @ + chunk[r]]
  /\ Go(r, "writing")
  /\ Growing(r, 0, 0)
  /\ UNCHANGED <<source, body, disk, permits, queue, over, limits>>

\* Mutant of Exchange: the sum is stored whatever became of what it was worked out from.
ExchangeRegardless(r) ==
  /\ pc[r] = "growing"
  /\ resident' = seen[r] + chunk[r]
  /\ Claimed(r)

Exchange(r) ==
  /\ pc[r] = "growing" /\ resident = seen[r]
  /\ resident' = resident + chunk[r]
  /\ Claimed(r)

\* A budget somebody else has moved is looked at again.
LookAgain(r) ==
  /\ pc[r] = "growing" /\ resident # seen[r]
  /\ IF resident + chunk[r] > limits.total
     THEN GiveUp(r)
     ELSE Growing(r, chunk[r], resident) /\ UNCHANGED pc
  /\ UNCHANGED <<source, body, held, disk, resident, permits, queue, over, limits>>

Write(r) ==
  /\ pc[r] = "writing"
  /\ \/ /\ disk' = [disk EXCEPT ![ObjectOf[r]] = Size(r)]
        /\ Go(r, "copying")
        /\ UNCHANGED <<chunk, seen>>
     \/ GiveUp(r) /\ UNCHANGED disk
  /\ UNCHANGED <<source, body, held, resident, permits, queue, over, limits>>

\* The transport fails in the middle of the body, or the last of the file is not written out.
Break(r) ==
  /\ pc[r] = "copying"
  /\ GiveUp(r)
  /\ UNCHANGED <<source, body, held, disk, resident, permits, queue, over, limits>>

\* Mutant of Finish: a body that breaks off is taken for its end.
FinishCutShort(r) ==
  /\ pc[r] = "copying" /\ Size(r) > 0
  /\ source' = [source EXCEPT ![ObjectOf[r]] = "scratch"]
  /\ permits' = permits + 1
  /\ Go(r, "served")
  /\ UNCHANGED <<body, held, disk, chunk, seen, resident, queue, over, limits>>

\* The body has ended: the copy is the cell's, the permit free.
Finish(r) ==
  /\ pc[r] = "copying" /\ Size(r) = body[ObjectOf[r]]
  /\ source' = [source EXCEPT ![ObjectOf[r]] = "scratch"]
  /\ permits' = permits + 1
  /\ Go(r, "served")
  /\ UNCHANGED <<body, held, disk, chunk, seen, resident, queue, over, limits>>

\* A read is dropped where it waits, its request being over or its answer not wanted any more.
Drop(r) ==
  /\ \/ /\ pc[r] \in {"waiting", "probing"}
        /\ Go(r, "unserved")
        /\ UNCHANGED <<queue, body, chunk, seen>>
     \/ /\ pc[r] = "queued"
        /\ Go(r, "unserved")
        /\ \E i \in DOMAIN queue : queue[i] = r /\ queue' = RemoveAt(queue, i)
        /\ body' = [body EXCEPT ![ObjectOf[r]] = 0]
        /\ UNCHANGED <<chunk, seen>>
     \/ /\ pc[r] = "copying"
        /\ GiveUp(r)
        /\ UNCHANGED <<queue, body>>
  /\ UNCHANGED <<source, held, disk, resident, permits, over, limits>>

\* absorb's locals go in the reverse of the order they came in: the claim,
GiveBack(r) ==
  /\ pc[r] = "dropping"
  /\ resident' = resident - held[ObjectOf[r]]
  /\ held' = [held EXCEPT ![ObjectOf[r]] = 0]
  /\ Go(r, "unlinking")
  /\ UNCHANGED <<source, body, disk, chunk, seen, permits, queue, over, limits>>

\* then the file and the permit.
Unlink(r) ==
  /\ pc[r] = "unlinking"
  /\ disk' = [disk EXCEPT ![ObjectOf[r]] = 0]
  /\ body' = [body EXCEPT ![ObjectOf[r]] = 0]
  /\ permits' = permits + 1
  /\ Go(r, "unserved")
  /\ UNCHANGED <<source, held, chunk, seen, resident, queue, over, limits>>

-----------------------------------------------------------------------------
(* The end of a request: its reads are dropped, its store with them.       *)

EndRequest(q) ==
  /\ q \notin over
  /\ over' = over \cup {q}
  /\ UNCHANGED <<pc, source, queue, copyVars>>

Quiet(o) == \A r \in ReadsOf(o) : pc[r] \in Ended \cup {"idle"}

\* Mutant of DeleteCopy: a copy is deleted by the last read it served.
DeleteServed(o) ==
  /\ Over(o) /\ source[o] = "scratch"
  /\ \A r \in ReadsOf(o) : pc[r] = "served"
  /\ source' = [source EXCEPT ![o] = "deleted"]
  /\ disk' = [disk EXCEPT ![o] = 0]
  /\ UNCHANGED <<pc, body, held, chunk, seen, resident, permits, queue, over, limits>>

\* Scratch's fields go in the order they are declared in: the file, then the claim.
DeleteCopy(o) ==
  /\ Over(o) /\ Quiet(o) /\ source[o] = "scratch"
  /\ source' = [source EXCEPT ![o] = "deleted"]
  /\ disk' = [disk EXCEPT ![o] = 0]
  /\ UNCHANGED <<pc, body, held, chunk, seen, resident, permits, queue, over, limits>>

ReleaseCopy(o) ==
  /\ source[o] = "deleted"
  /\ source' = [source EXCEPT ![o] = "unknown"]
  /\ resident' = resident - held[o]
  /\ held' = [held EXCEPT ![o] = 0]
  /\ UNCHANGED <<pc, body, disk, chunk, seen, permits, queue, over, limits>>

\* Nothing is remembered: the next request asks again.
NextRequest(q) ==
  /\ q \in over
  /\ \A o \in Objects : RequestOf[o] = q => Quiet(o) /\ source[o] \in {"unknown", "ranged"}
  /\ over' = over \ {q}
  /\ source' = [o \in Objects |-> IF RequestOf[o] = q THEN "unknown" ELSE source[o]]
  /\ body' = [o \in Objects |-> IF RequestOf[o] = q THEN 0 ELSE body[o]]
  /\ pc' = [r \in Reads |-> IF RequestOf[ObjectOf[r]] = q THEN "idle" ELSE pc[r]]
  /\ UNCHANGED <<held, disk, chunk, seen, resident, permits, queue, limits>>

-----------------------------------------------------------------------------
Next ==
  \/ \E r \in Reads :
       \/ Ask(r) \/ Serve(r) \/ Probe(r)
       \/ ProbeFails(r) \/ ProbeRanged(r) \/ ProbeWhole(r) \/ Begin(r)
       \/ Arrive(r) \/ Exchange(r) \/ LookAgain(r) \/ Write(r) \/ Break(r) \/ Finish(r)
       \/ Drop(r) \/ GiveBack(r) \/ Unlink(r)
  \/ \E q \in Requests : EndRequest(q) \/ NextRequest(q)
  \/ \E o \in Objects : DeleteCopy(o) \/ ReleaseCopy(o)

Spec == Init /\ [][Next]_vars

\* A server that has been asked answers, and what it sends goes on arriving, or the deadline of
\* the request has its reads dropped.  A loop that only compares and swaps is not beaten for ever
\* by copies that wait for the disk and the network between two tries.
Answered(r) ==
  \/ ProbeFails(r) \/ ProbeRanged(r) \/ ProbeWhole(r)
  \/ Arrive(r) \/ Break(r) \/ Finish(r)
  \/ pc[r] \in {"probing", "copying"} /\ Drop(r)

Fairness ==
  /\ \A r \in Reads :
       /\ WF_vars(Answered(r))
       /\ WF_vars(Serve(r)) /\ WF_vars(Probe(r)) /\ WF_vars(Begin(r))
       /\ WF_vars(LookAgain(r)) /\ SF_vars(Exchange(r)) /\ WF_vars(Write(r))
       /\ WF_vars(GiveBack(r)) /\ WF_vars(Unlink(r))
       /\ WF_vars(Drop(r) /\ Over(ObjectOf[r]))
  /\ \A o \in Objects : WF_vars(DeleteCopy(o)) /\ WF_vars(ReleaseCopy(o))

FairSpec == Spec /\ Fairness
================================================================================
