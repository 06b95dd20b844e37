----------------------------- MODULE CatalogCache -----------------------------
(***************************************************************************)
(* What the process remembers of one catalog.  Each part of it is a slot   *)
(* that is filled once; the properties are the anchor, and a reading of    *)
(* them draws the generation the other parts are keyed under.  A handle    *)
(* belongs to one request: it finds or makes the anchor's slot, and then   *)
(* asks for parts, each answered from a slot it finds or fills itself.     *)
(* Filling one part may ask for others, so a handle has a stack of them.   *)
(*                                                                         *)
(* The store is not ours: what a read brings is the version that is        *)
(* published at some moment of it, taken here as the moment it begins.     *)
(* moka, the cache the slots are in, keeps an entry until it expires and   *)
(* may let any go before that for room.  A slot's value is never the wrong *)
(* kind and a lock is never poisoned, so neither is modelled.              *)
(***************************************************************************)
EXTENDS Naturals, Sequences, FiniteSets

CONSTANTS
  Handles,          \* the requests that may have the catalog open at once
  Parts,            \* its parts, beside the anchor
  Needs,            \* what filling a part may ask for
  Walked,           \* the parts a walk of the dataset lists at once
  Lifetime,         \* how long what is read is kept
  LastTime,         \* bound: when the clock stops
  LastVersion,      \* bound: how often the catalog is published again
  LastGeneration,   \* bound: how many anchors are made
  Anchor,           \* the anchor, as a part
  None              \* nothing

\* How deep filling a part may go, at most: what a part asks for asks for less.
Depths ==
  {depth \in [Parts -> 0..Cardinality(Parts)] : \A p \in Parts : \A q \in Needs[p] : depth[q] < depth[p]}

ASSUME CatalogAssumption ==
  /\ IsFiniteSet(Handles) /\ IsFiniteSet(Parts)
  /\ Anchor \notin Parts
  /\ None \notin Nat
  /\ Needs \in [Parts -> SUBSET Parts]
  /\ Depths # {}
  /\ Walked \subseteq Parts
  /\ {Lifetime, LastTime, LastVersion, LastGeneration} \subseteq Nat /\ Lifetime # 0

VARIABLES
  now,        \* the clock
  version,    \* how often the catalog has been published again
  drawn,      \* how many generations have been drawn
  expires,    \* when the slots of a generation stop being true
  anchorOf,   \* the version a generation's anchor holds, or None
  held,       \* the version a part's slot holds, or None
  anchored,   \* the generation whose anchor is in the cache, or 0
  resident,   \* which slot of a part is in the cache, or 0
  opened,     \* the generation a handle is of, or 0
  stack,      \* the parts a handle is at, outermost first
  walk,       \* the version a handle's walk of the dataset lists, or None
  took        \* the versions of what a handle has been given

handleVars == <<opened, stack, walk, took>>
vars == <<now, version, drawn, expires, anchorOf, held, anchored, resident, handleVars>>

Generations == 1..LastGeneration

\* A slot is its generation, its part, and a number among the slots made for the two.
Slots == Generations \X Parts \X (1..Cardinality(Handles))

Live(g) == now < expires[g]
Value(s) == IF s[2] = Anchor THEN anchorOf[s[1]] ELSE held[s]
Top(h) == stack[h][Len(stack[h])]
Outer(h) == SubSeq(stack[h], 1, Len(stack[h]) - 1)
Doing(h, what) == stack[h] # <<>> /\ Top(h).at = what
Runnable(h) == Doing(h, "filled") \/ (Doing(h, "waiting") /\ Value(Top(h).slot) # None)
Ready(h) == took[h] # {}     \* it has been given the anchor, which is the first

Frame(s, at) ==
  [slot |-> s, at |-> at,
   copy |-> IF at = "reading" THEN version ELSE None,
   needs |-> IF at = "reading" /\ s[2] # Anchor THEN Needs[s[2]] ELSE {}]

\* The slots a handle has in hand, and those somebody refers to.
InHand(h) == {stack[h][i].slot : i \in DOMAIN stack[h]}
Referred(s) == resident[<<s[1], s[2]>>] = s[3] \/ \E h \in Handles : s \in InHand(h)

\* Nobody has begun to read it.
Unread(s) ==
  \A h \in Handles : \A i \in DOMAIN stack[h] : stack[h][i].slot = s => stack[h][i].at = "waiting"

\* A generation that can still be asked about.
Reachable(g) == anchored = g \/ \E h \in Handles : opened[h] = g

\* What becomes of the cache and the slots: a generation nobody can ask about is left out, and so
\* is an empty slot in nobody's hand, the next one made being the same.  A slot nobody refers to
\* any more is dropped, whose number a later slot may take.
Settle(entries, values) ==
  /\ expires' = [g \in Generations |-> IF Reachable(g)' THEN expires[g] ELSE 0]
  /\ anchorOf' = [g \in Generations |-> IF Reachable(g)' THEN anchorOf[g] ELSE None]
  /\ resident' = [e \in Generations \X Parts |->
                    LET s == <<e[1], e[2], entries[e]>> IN
                    IF /\ entries[e] # 0 /\ Reachable(e[1])'
                       /\ values[s] # None \/ \E h \in Handles : s \in InHand(h)'
                    THEN entries[e] ELSE 0]
  /\ held' = [s \in Slots |-> IF Referred(s)' THEN values[s] ELSE None]

-----------------------------------------------------------------------------
(* Slots::slot and the first look at it.                                   *)

\* The slot of a part under a generation that the cache has, or one made and put there.  One
\* made past the deadline of its anchor is not found again.
SlotOf(g, p) ==
  IF resident[<<g, p>>] # 0 THEN <<g, p, resident[<<g, p>>]>>
  ELSE CHOOSE s \in Slots : s[1] = g /\ s[2] = p /\ ~ Referred(s)

\* Mutant of With: a part has a lifetime of its own.
WithOn(s) == [resident EXCEPT ![<<s[1], s[2]>>] = s[3]]

With(s) == [resident EXCEPT ![<<s[1], s[2]>>] = IF Live(s[1]) THEN s[3] ELSE 0]

\* A part that is filled is given at once, one that nobody reads is begun (OnceCell lets one at a
\* time read), and another is waited for.
Look(h, s, below) ==
  IF Value(s) # None
  THEN /\ took' = [took EXCEPT ![h] = @ \cup {Value(s)}]
       /\ stack' = [stack EXCEPT ![h] = below]
  ELSE /\ stack' = [stack EXCEPT ![h] = Append(below, Frame(s, IF Unread(s) THEN "reading" ELSE "waiting"))]
       /\ UNCHANGED took

\* Mutant of Draw: the generation stays with a catalog, whatever is read of it again.
DrawOnce ==
  /\ drawn < LastGeneration
  /\ drawn' = 1
  /\ expires' = [expires EXCEPT ![1] = now + Lifetime]
  /\ UNCHANGED anchorOf

\* A slot for the anchor, with a generation and a deadline of its own.
Draw ==
  /\ drawn < LastGeneration
  /\ drawn' = drawn + 1
  /\ expires' = [expires EXCEPT ![drawn + 1] = now + Lifetime]
  /\ UNCHANGED anchorOf

\* HatsCatalog::open: the anchor the cache has, or one to be read.
Open(h) ==
  /\ opened[h] = 0
  /\ IF anchored # 0
     THEN /\ opened' = [opened EXCEPT ![h] = anchored]
          /\ Look(h, <<anchored, Anchor, 0>>, <<>>)
          /\ UNCHANGED <<drawn, expires, anchorOf, anchored>>
     ELSE /\ Draw
          /\ anchored' = drawn'
          /\ opened' = [opened EXCEPT ![h] = drawn']
          /\ stack' = [stack EXCEPT ![h] = <<Frame(<<drawn', Anchor, 0>>, "reading")>>]
          /\ UNCHANGED took
  /\ UNCHANGED <<now, version, held, resident, walk>>

\* The same for a catalog that is renewed: its slot is not put in the cache yet.
OpenRenewed(h) ==
  /\ opened[h] = 0
  /\ Draw
  /\ opened' = [opened EXCEPT ![h] = drawn']
  /\ stack' = [stack EXCEPT ![h] = <<Frame(<<drawn', Anchor, 0>>, "reading")>>]
  /\ UNCHANGED <<now, version, held, anchored, resident, walk, took>>

\* Mutant of Ask: what a part's filling asks for may be the part itself.
AskAny(h, p) ==
  /\ Ready(h)
  /\ stack[h] = <<>> \/ Doing(h, "reading")
  /\ Look(h, SlotOf(opened[h], p), stack[h])
  /\ UNCHANGED <<now, version, drawn, anchored, opened, walk>>
  /\ Settle(With(SlotOf(opened[h], p)), held)

\* Slots::filled for a part, asked for by the request or by the part that is being filled.
Ask(h, p) ==
  /\ Ready(h)
  /\ \/ /\ stack[h] = <<>>
        /\ Look(h, SlotOf(opened[h], p), <<>>)
     \/ /\ Doing(h, "reading") /\ p \in Top(h).needs
        /\ Look(h, SlotOf(opened[h], p), Append(Outer(h), [Top(h) EXCEPT !.needs = @ \ {p}]))
  /\ UNCHANGED <<now, version, drawn, anchored, opened, walk>>
  /\ Settle(With(SlotOf(opened[h], p)), held)

-----------------------------------------------------------------------------
(* The rest of Slots::filled.                                              *)

Becomes(h, frame) == stack' = [stack EXCEPT ![h] = Append(Outer(h), frame)]

\* Whoever read it has failed or gone: one of those who wait begins (OnceCell::get_or_try_init).
Begin(h) ==
  /\ Doing(h, "waiting")
  /\ LET s == Top(h).slot IN
     /\ Value(s) = None
     /\ Unread(s)
     /\ Becomes(h, Frame(s, "reading"))
  /\ UNCHANGED <<now, version, drawn, expires, anchorOf, held, anchored, resident, opened, walk,
                 took>>

Deliver(h) ==
  /\ Doing(h, "reading")
  /\ LET s == Top(h).slot IN
     /\ Becomes(h, Frame(s, "filled"))
     /\ IF s[2] = Anchor
        THEN anchorOf' = [anchorOf EXCEPT ![s[1]] = Top(h).copy] /\ UNCHANGED held
        ELSE held' = [held EXCEPT ![s] = Top(h).copy] /\ UNCHANGED anchorOf
  /\ UNCHANGED <<now, version, drawn, expires, anchored, resident, opened, walk, took>>

\* Whoever read it, and whoever waited for it, puts the slot in the cache again, over whatever is
\* there under its key, so that it is weighed.  One put there past its deadline is not found.
Put(h) ==
  /\ Runnable(h)
  /\ stack' = [stack EXCEPT ![h] = Outer(h)]
  /\ UNCHANGED <<now, version, drawn, opened, walk>>
  /\ LET s == Top(h).slot IN
     /\ took' = [took EXCEPT ![h] = @ \cup {Value(s)}]
     /\ \/ /\ s[2] = Anchor
           /\ anchored' = IF Live(s[1]) THEN s[1] ELSE 0
           /\ Settle(resident, held)
        \/ /\ s[2] # Anchor
           /\ UNCHANGED anchored
           /\ Settle(With(s), held)

\* A part cannot be read.  Its slot stays, for the next to try; what asked for it goes on
\* without it, or fails in its turn.
Fail(h) ==
  /\ Doing(h, "reading")
  /\ Top(h).slot[2] # Anchor
  /\ stack' = [stack EXCEPT ![h] = Outer(h)]
  /\ UNCHANGED <<now, version, drawn, anchored, opened, walk, took>>
  /\ Settle(resident, held)

\* The request is answered, or fails, or nobody waits for it any more.
Close(h) ==
  /\ opened[h] # 0
  /\ opened' = [opened EXCEPT ![h] = 0]
  /\ stack' = [stack EXCEPT ![h] = <<>>]
  /\ walk' = [walk EXCEPT ![h] = None]
  /\ took' = [took EXCEPT ![h] = {}]
  /\ UNCHANGED <<now, version, drawn, anchored>>
  /\ Settle(resident, held)

-----------------------------------------------------------------------------
(* HatsCatalog::walk_dataset: one listing, offered as many parts.          *)

Walk(h) ==
  /\ Ready(h) /\ stack[h] = <<>> /\ walk[h] = None
  /\ walk' = [walk EXCEPT ![h] = version]
  /\ UNCHANGED <<now, version, drawn, expires, anchorOf, held, anchored, resident, opened, stack,
                 took>>

\* Slots::offer: a slot that is filled, or being filled, is left alone.
Offer(h, p) ==
  /\ walk[h] # None /\ stack[h] = <<>>
  /\ UNCHANGED <<now, version, drawn, anchored, handleVars>>
  /\ LET s == SlotOf(opened[h], p) IN
     Settle(With(s), IF held[s] = None /\ Unread(s) THEN [held EXCEPT ![s] = walk[h]] ELSE held)

EndWalk(h) ==
  /\ walk[h] # None
  /\ walk' = [walk EXCEPT ![h] = None]
  /\ UNCHANGED <<now, version, drawn, expires, anchorOf, held, anchored, resident, opened, stack,
                 took>>

-----------------------------------------------------------------------------
(* The cache, the clock and the store.                                     *)

\* moka makes room.
EvictAnchor ==
  /\ anchored # 0
  /\ anchored' = 0
  /\ UNCHANGED <<now, version, drawn, handleVars>>
  /\ Settle(resident, held)

Evict(g, p) ==
  /\ resident[<<g, p>>] # 0
  /\ UNCHANGED <<now, version, drawn, anchored, handleVars>>
  /\ Settle([resident EXCEPT ![<<g, p>>] = 0], held)

\* What reaches its deadline is not found any more.
Tick ==
  /\ now < LastTime
  /\ now' = now + 1
  /\ anchored' = IF anchored # 0 /\ now' < expires[anchored] THEN anchored ELSE 0
  /\ UNCHANGED <<version, drawn, handleVars>>
  /\ Settle([e \in Generations \X Parts |-> IF now' < expires[e[1]] THEN resident[e] ELSE 0], held)

Publish ==
  /\ version < LastVersion
  /\ version' = version + 1
  /\ UNCHANGED <<now, drawn, expires, anchorOf, held, anchored, resident, handleVars>>

-----------------------------------------------------------------------------
Init ==
  /\ now = 0 /\ version = 0 /\ drawn = 0
  /\ expires = [g \in Generations |-> 0]
  /\ anchorOf = [g \in Generations |-> None]
  /\ held = [s \in Slots |-> None]
  /\ anchored = 0
  /\ resident = [e \in Generations \X Parts |-> 0]
  /\ opened = [h \in Handles |-> 0]
  /\ stack = [h \in Handles |-> <<>>]
  /\ walk = [h \in Handles |-> None]
  /\ took = [h \in Handles |-> {}]

\* What filling does once it is asked for.
Filling(h) == Begin(h) \/ Deliver(h) \/ Put(h)

Walking(h) == Walk(h) \/ EndWalk(h) \/ \E p \in Walked : Offer(h, p)

Evicts == EvictAnchor \/ \E g \in Generations, p \in Parts : Evict(g, p)
=============================================================================
