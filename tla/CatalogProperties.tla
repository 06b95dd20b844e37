--------------------------- MODULE CatalogProperties ---------------------------
(* What the catalog cache and the task that keeps it warm promise. *)
EXTENDS CatalogWarm

Versions == (0..LastVersion) \cup {None}

Frames ==
  [slot : Slots \cup (Generations \X {Anchor} \X {0}), at : {"waiting", "reading", "filled"},
   copy : Versions, needs : SUBSET Parts]

TypeOK ==
  /\ now \in 0..LastTime /\ version \in 0..LastVersion /\ drawn \in 0..LastGeneration
  /\ expires \in [Generations -> 0..(LastTime + Lifetime)]
  /\ anchorOf \in [Generations -> Versions]
  /\ held \in [Slots -> Versions]
  /\ anchored \in 0..drawn
  /\ resident \in [Generations \X Parts -> 0..Cardinality(Handles)]
  /\ opened \in [Handles -> 0..drawn]
  /\ stack \in [Handles -> Seq(Frames)]
  /\ walk \in [Handles -> Versions]
  /\ took \in [Handles -> SUBSET (0..LastVersion)]
  /\ task \in {"due", "reading", "asleep", "over"}
  /\ left \subseteq Parts /\ wake \in 0..(LastTime + Lifetime)
  /\ renew \in BOOLEAN /\ {failed, lapsed} \subseteq 0..LastFailure /\ evicted \in 0..LastEviction

AnchorVersion(h) == anchorOf[opened[h]]

\* No request pairs the properties it was given with a part of an earlier publication: what an
\* earlier reading left in the cache is out of its reach (the generation in the key, Slots::slot).
NothingOlder ==
  \A h \in Handles : Ready(h) => \A v \in took[h] : v >= AnchorVersion(h)

\* What can be found in the cache is within the deadline of the reading of the properties it
\* belongs to, however late it was filled and put there, by whatever handle (Slot::expires,
\* Deadline::expire_after_update).
NothingOutlivesItsAnchor ==
  /\ anchored # 0 => Live(anchored)
  /\ \A g \in Generations, p \in Parts : resident[<<g, p>>] # 0 => Live(g)

Depth == CHOOSE depth \in Depths : TRUE

\* Where a handle is: at nothing while it has no catalog, at the anchor alone until it has been
\* given it, and then at parts of its own generation, each asked for by the one before.
HandleInOrder(h) ==
  /\ opened[h] = 0 => stack[h] = <<>> /\ took[h] = {}
  /\ walk[h] # None => Ready(h)
  /\ Ready(h) => anchorOf[opened[h]] # None
  /\ Len(stack[h]) > 1 => Ready(h)
  /\ \A i, j \in DOMAIN stack[h] :
       i < j => Depth[stack[h][j].slot[2]] < Depth[stack[h][i].slot[2]]

FrameInOrder(h, f) ==
  /\ f.slot[1] = opened[h]
  /\ f.slot[2] = Anchor <=> ~ Ready(h)
  /\ f.needs \subseteq IF f.slot[2] = Anchor THEN {} ELSE Needs[f.slot[2]]
  /\ f.at = "filled" => Value(f.slot) # None
  /\ f.at = "reading" => f.copy \in 0..version /\ (f.slot[2] = Anchor => Value(f.slot) = None)

StacksInOrder ==
  \A h \in Handles : HandleInOrder(h) /\ \A i \in DOMAIN stack[h] : FrameInOrder(h, stack[h][i])

\* One at a time reads a part (OnceCell).
OneReads ==
  \A h, k \in Handles : \A i \in DOMAIN stack[h], j \in DOMAIN stack[k] :
    /\ stack[h][i].at = "reading" /\ stack[k][j].at = "reading"
    /\ stack[h][i].slot = stack[k][j].slot
    => h = k

\* What a generation has was read after its properties were, wherever it is by now.
ReadAfterAnchor ==
  /\ \A g \in Generations : anchorOf[g] # None => g <= drawn /\ anchorOf[g] <= version
  /\ \A s \in Slots : held[s] # None => anchorOf[s[1]] # None /\ held[s] >= anchorOf[s[1]]
  /\ \A h \in Handles :
       Ready(h) =>
         /\ \A v \in took[h] : v >= AnchorVersion(h)
         /\ walk[h] # None => walk[h] >= AnchorVersion(h)
         /\ \A i \in DOMAIN stack[h] :
              stack[h][i].at = "reading" => stack[h][i].copy >= AnchorVersion(h)

Found == anchored # 0 /\ anchorOf[anchored] # None

AllFound ==
  Found /\ \A p \in Parts : resident[<<anchored, p>>] # 0 /\ held[<<anchored, p, resident[<<anchored, p>>]>>] # None

Has(g, p) == resident[<<g, p>>] # 0 /\ held[<<g, p, resident[<<g, p>>]>>] # None
HasAll(g) == anchorOf[g] # None /\ \A p \in Parts : Has(g, p)

\* The clock will still be short of the deadline when the task, asleep from now on, wakes.
Outlasts(g) == now + RefreshAfter < expires[g]

FirstRound ==
  /\ now = 0 /\ task # "asleep"
  /\ drawn <= 1 /\ anchored = drawn
  /\ drawn = 1 => expires[1] = Lifetime

\* What the task has asked for it has, but for the part it is at.
RoundInOrder ==
  task = "reading" =>
    /\ Outlasts(opened[Warmer])
    /\ Ready(Warmer) => Outlasts(anchored)
    /\ anchored = opened[Warmer] \/ renew
    /\ \A p \in Parts \ left :
         Has(opened[Warmer], p) \/ (stack[Warmer] # <<>> /\ stack[Warmer][1].slot[2] = p)

\* After the first round there is always a whole catalog: the one before, until the task has the
\* properties of the next, and nobody is left who would put anything less in its place.
AlwaysWhole ==
  /\ Found
  /\ anchored # opened[Warmer] => HasAll(anchored)
  /\ task = "asleep" => wake < expires[anchored] /\ wake <= now + RefreshAfter
  /\ \A h \in Requests :
       LET g == opened[h] IN
       g \notin {0, opened[Warmer]} => anchorOf[g] # None /\ (Live(g) => HasAll(g))

\* Nothing failed and nothing was let go, and the task goes on.
Calm == failed = 0 /\ lapsed = 0 /\ evicted = 0 /\ task # "over"

WarmInv ==
  /\ opened[Warmer] # 0 <=> task = "reading"
  /\ Calm =>
       /\ IF renew THEN AlwaysWhole ELSE FirstRound
       /\ RoundInOrder
       /\ \A h \in Handles : opened[h] # 0 /\ ~ Ready(h) /\ stack[h] # <<>> => Outlasts(opened[h])

\* Together they say why the properties below hold, and every step keeps them.
CatalogInv ==
  TypeOK /\ NothingOutlivesItsAnchor /\ StacksInOrder /\ OneReads /\ ReadAfterAnchor /\ WarmInv

WhileWarm == renew /\ task # "over" => Found /\ (task = "asleep" => AllFound)

\* From its first reading on, a published table's catalog is there for whoever asks, the whole
\* of it between the task's readings: where no read of the task's fails and nothing is let go for
\* room (keep_warm, refresh_after, CatalogCache::renewed).
StaysWarm == failed = 0 /\ lapsed = 0 /\ evicted = 0 => WhileWarm

\* Handles that wait for each other's readings do not wait in a circle, though a reading waits for
\* others in its turn: whoever waits for a part waits for one that is being read (Slots::filled,
\* OnceCell::get_or_try_init).
WaitsOn(h, k) ==
  Doing(h, "waiting") /\ \E i \in DOMAIN stack[k] :
                           stack[k][i].slot = Top(h).slot /\ stack[k][i].at = "reading"

NoCircle ==
  ~ \E H \in (SUBSET Handles) \ {{}} : \A h \in H : \E k \in H : WaitsOn(h, k)
================================================================================
