-------------------------- MODULE TransfersProperties --------------------------
(* What reading through a store that may copy promises the machine and the readers. *)
EXTENDS Transfers

TypeOK ==
  /\ limits \in Limits
  /\ pc \in [Reads -> {"idle", "waiting"} \cup AtWork \cup Ended]
  /\ source \in [Objects -> {"unknown", "ranged", "scratch", "deleted"}]
  /\ body \in [Objects -> Nat] /\ held \in [Objects -> Nat] /\ disk \in [Objects -> Nat]
  /\ chunk \in [Reads -> Nat] /\ seen \in [Reads -> Nat]
  /\ resident \in Nat /\ permits \in 0..limits.copies
  /\ queue \in Seq(Reads) /\ over \subseteq Requests

Working(r) == pc[r] \in AtWork

\* The budget counts what the claims hold, a permit is held by a copy under way or by nobody, and
\* a claim holds bytes only for a copy: through every way a copy may end, racing every other
\* (Claim::grow, Drop for Claim, absorb's permit).
Accounted ==
  /\ resident = SumFunctionOnSet(held, Objects)
  /\ permits + Cardinality({r \in Reads : pc[r] \in Permitted}) = limits.copies
  /\ \A o \in Objects :
       held[o] + disk[o] > 0 =>
         source[o] \in {"scratch", "deleted"} \/ \E r \in ReadsOf(o) : pc[r] \in Permitted

BeingDropped == {o \in Objects : \E r \in ReadsOf(o) : pc[r] = "unlinking"}

\* Many copies together stay within the limits of the disk (LimitsConfig::max_materialize_bytes,
\* max_materialize_total_bytes): but for copies being given up, whose bytes are back in the
\* budget a moment before their file is gone.
WithinBudget ==
  /\ resident <= limits.total
  /\ \A o \in Objects : disk[o] <= limits.object /\ (o \notin BeingDropped => disk[o] <= held[o])
  /\ SumFunctionOnSet(disk, Objects \ BeingDropped) <= limits.total

\* However many reads ask for an object and however those that try end, one at a time probes or
\* copies it, and none once it is settled (MaterializingStore::source).
OneCopyEach ==
  \A r, s \in Reads :
    /\ Working(r) /\ Working(s) /\ ObjectOf[r] = ObjectOf[s] => r = s
    /\ Working(r) => source[ObjectOf[r]] = "unknown"

\* No read is served from a part of an object: what the cell hands out is all the server had to
\* send, on disk (absorb, Source::Scratch).
NeverCutShort ==
  \A o \in Objects : source[o] = "scratch" => disk[o] = body[o] /\ held[o] = body[o]

\* Where a copy is says what has been taken for it: nothing before it begins, as much on disk as
\* is claimed between two chunks, room for the chunk at hand while the claim grows, and no claim
\* once that is given back (absorb, Claim::grow, and the order the locals are dropped in).
InStep ==
  /\ \A r \in Reads :
       /\ pc[r] = "copying" => disk[ObjectOf[r]] = Size(r)
       /\ pc[r] = "growing" => /\ Size(r) + chunk[r] <= limits.object
                              /\ seen[r] + chunk[r] <= limits.total
       /\ pc[r] = "unlinking" => Size(r) = 0
  /\ \A o \in Objects : held[o] <= limits.object /\ (source[o] = "deleted" => disk[o] = 0)

\* The line for a permit holds the reads that wait for one, each once (Semaphore).
InLine ==
  /\ \A i \in 1 .. Len(queue) : pc[queue[i]] = "queued"
  /\ \A i, j \in 1 .. Len(queue) : queue[i] = queue[j] => i = j

\* A read that waits for another's probe is served, or told why not, however the other ends: by
\* failing, over a limit, or dropped where it was (OnceCell::get_or_try_init).
WaitersAreAnswered == \A r \in Reads : pc[r] = "waiting" ~> pc[r] \in Ended

\* What the reads of a request took comes back once it is over, whatever they were at.
CopiesGo ==
  \A q \in Requests :
    q \in over ~> \/ q \notin over
                  \/ \A o \in Objects : RequestOf[o] = q => held[o] = 0 /\ disk[o] = 0 /\ Quiet(o)

\* Together: the budget and the permits are what the copies under way and the copies kept have
\* taken, and where each copy is says what that is.
TransfersInv ==
  TypeOK /\ Accounted /\ WithinBudget /\ OneCopyEach /\ NeverCutShort /\ InStep /\ InLine
================================================================================
