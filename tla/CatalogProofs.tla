----------------------------- MODULE CatalogProofs -----------------------------
(***************************************************************************)
(* A catalog's cache and the task that keeps it warm, for any number of    *)
(* requests, parts, generations and any lifetime: CatalogInv holds         *)
(* initially and is kept by every step, and with it nothing older than its *)
(* anchor is given, nobody waits in a circle, and the catalog stays warm.  *)
(*                                                                         *)
(* The cache is taken by itself first, for whatever order its operations   *)
(* come in; the task is one more of its handles, and WarmInv then needs    *)
(* only what the operations do to what is in the cache.                    *)
(***************************************************************************)
EXTENDS CatalogProperties, DataLemmas

-----------------------------------------------------------------------------
(* The constants.                                                          *)

\* What the assumptions say of each constant.
LEMMA Constants ==
  /\ IsFiniteSet(Handles) /\ Anchor \notin Parts /\ None \notin Nat
  /\ Cardinality(Handles) \in Nat
  /\ \A p \in Parts : Needs[p] \subseteq Parts
  /\ Walked \subseteq Parts
  /\ Lifetime \in Nat \ {0} /\ LastTime \in Nat /\ LastVersion \in Nat /\ LastGeneration \in Nat
  /\ Warmer \in Handles
  BY CatalogAssumption, WarmAssumption, FS_CardinalityType

\* A part asks for parts that are less deep.
LEMMA DepthIs ==
  /\ \A p \in Parts : Depth[p] \in Nat
  /\ \A p \in Parts : \A q \in Needs[p] : Depth[q] < Depth[p]
<1>1. Depth \in Depths
  BY CatalogAssumption DEF Depth
<1>2. Cardinality(Parts) \in Nat
  BY CatalogAssumption, FS_CardinalityType
<1> QED
  BY <1>1, <1>2 DEF Depths

-----------------------------------------------------------------------------
(* Stacks.                                                                 *)

\* The variables of the cache are typed.
CacheTyped ==
  /\ now \in 0..LastTime /\ version \in 0..LastVersion /\ drawn \in 0..LastGeneration
  /\ expires \in [Generations -> 0..(LastTime + Lifetime)]
  /\ anchorOf \in [Generations -> Versions]
  /\ held \in [Slots -> Versions]
  /\ anchored \in 0..drawn
  /\ resident \in [Generations \X Parts -> 0..Cardinality(Handles)]
  /\ opened \in [Handles -> 0..drawn]
  /\ stack \in [Handles -> Seq(Frames)]
  /\ walk \in [Handles -> Versions]
  /\ took \in [Handles -> SUBSET (0..LastVersion)]

\* A generation's anchor, as a slot.
AnchorSlots == Generations \X {Anchor} \X {0}

\* The slot of a frame is a part's or the anchor's.
LEMMA SlotKinds ==
  ASSUME NEW s \in Slots \cup AnchorSlots
  PROVE  /\ s[1] \in Generations
         /\ s[2] = Anchor => s \in AnchorSlots /\ s = <<s[1], Anchor, 0>>
         /\ s[2] # Anchor => s \in Slots /\ s[2] \in Parts /\ s[3] \in 1..Cardinality(Handles)
         /\ s \in Slots => s[2] \in Parts /\ s[2] # Anchor /\ s = <<s[1], s[2], s[3]>>
  BY Constants DEF Slots, AnchorSlots

\* What a frame has.
LEMMA FrameHas ==
  ASSUME NEW f \in Frames
  PROVE  /\ f.slot \in Slots \cup AnchorSlots
         /\ f.at \in {"waiting", "reading", "filled"}
         /\ f.copy \in Versions /\ f.needs \in SUBSET Parts
  BY DEF Frames, AnchorSlots

\* A frame made for a slot.
LEMMA FrameIs ==
  ASSUME CacheTyped, NEW s \in Slots \cup AnchorSlots, NEW at \in {"waiting", "reading", "filled"}
  PROVE  /\ Frame(s, at) \in Frames
         /\ Frame(s, at).slot = s /\ Frame(s, at).at = at
         /\ at = "reading" => Frame(s, at).copy = version
         /\ Frame(s, at).needs \subseteq IF s[2] = Anchor THEN {} ELSE Needs[s[2]]
<1>1. version \in Versions /\ None \in Versions
  BY DEF CacheTyped, Versions
<1>2. s[2] # Anchor => Needs[s[2]] \in SUBSET Parts
  BY SlotKinds, Constants
<1> QED
  BY <1>1, <1>2 DEF Frame, Frames, AnchorSlots

\* The top of a stack, and what is below it.
LEMMA OuterIs ==
  ASSUME CacheTyped, NEW h \in Handles, stack[h] # <<>>
  PROVE  /\ Top(h) \in Frames /\ Len(stack[h]) \in Nat \ {0} /\ Top(h) = stack[h][Len(stack[h])]
         /\ Outer(h) \in Seq(Frames) /\ Len(Outer(h)) = Len(stack[h]) - 1
         /\ \A i \in 1 .. Len(stack[h]) - 1 : Outer(h)[i] = stack[h][i]
<1>1. stack[h] \in Seq(Frames)
  BY DEF CacheTyped
<1>2. Len(stack[h]) \in Nat \ {0} /\ \A i \in 1 .. Len(stack[h]) : stack[h][i] \in Frames
  BY <1>1, LenProperties, ElementOfSeq, EmptySeq
<1> DEFINE n == Len(stack[h]) - 1
<1>3. n \in Int /\ 1 \in Int /\ \A i \in 1 .. n : stack[h][i] \in Frames
  BY <1>2
<1>4. /\ SubSeq(stack[h], 1, n) \in Seq(Frames)
      /\ Len(SubSeq(stack[h], 1, n)) = IF 1 <= n THEN n - 1 + 1 ELSE 0
      /\ \A i \in 1 .. n - 1 + 1 : SubSeq(stack[h], 1, n)[i] = stack[h][1 + i - 1]
  <2> HIDE DEF n
  <2> QED
    BY ONLY <1>3, SubSeqProperties
<1>5. \A i \in 1 .. n : 1 + i - 1 = i
  OBVIOUS
<1>6. n - 1 + 1 = n /\ (IF 1 <= n THEN n - 1 + 1 ELSE 0) = n
  BY <1>2
<1> QED
  BY <1>2, <1>4, <1>5, <1>6 DEF Top, Outer

\* A frame is the same but for what it has still to ask for.
SameFrame(f, e) ==
  f.slot = e.slot /\ f.at = e.at /\ f.copy = e.copy /\ f.needs \subseteq e.needs

-----------------------------------------------------------------------------
(* The slot of a part.                                                     *)

\* A handle has one frame for a part at most.
LEMMA OnceInAStack ==
  ASSUME CacheTyped, StacksInOrder, NEW h \in Handles, NEW p \in Parts,
         NEW i \in DOMAIN stack[h], NEW j \in DOMAIN stack[h],
         stack[h][i].slot[2] = p, stack[h][j].slot[2] = p
  PROVE  i = j
<1>1. stack[h] \in Seq(Frames)
  BY DEF CacheTyped
<1>2. DOMAIN stack[h] = 1 .. Len(stack[h]) /\ Len(stack[h]) \in Nat
  BY <1>1, LenProperties
<1>3. i \in Nat /\ j \in Nat
  BY <1>2
<1>4. ~ i < j /\ ~ j < i
  BY DepthIs DEF StacksInOrder, HandleInOrder
<1> QED
  BY <1>3, <1>4

\* There is always a number to be had for a slot: there are as many as handles, each other handle
\* has one of them in hand at most, and the one that asks has none.
LEMMA SlotOfIs ==
  ASSUME CacheTyped, StacksInOrder, NEW h \in Handles, opened[h] # 0, NEW p \in Parts,
         \A i \in DOMAIN stack[h] : stack[h][i].slot[2] # p
  PROVE  LET s == SlotOf(opened[h], p) IN
         /\ s \in Slots /\ s[1] = opened[h] /\ s[2] = p
         /\ s = <<opened[h], p, s[3]>> /\ s[3] \in 1 .. Cardinality(Handles)
<1> DEFINE g == opened[h]
           N == Cardinality(Handles)
<1>1. g \in Generations /\ N \in Nat
  BY Constants DEF CacheTyped, Generations
<1>2. CASE resident[<<g, p>>] # 0
  <2>1. resident[<<g, p>>] \in 1 .. N
    <3>1. resident[<<g, p>>] \in 0 .. N
      BY <1>1 DEF CacheTyped
    <3> QED
      BY <3>1, <1>1, <1>2
  <2>2. SlotOf(g, p) = <<g, p, resident[<<g, p>>]>>
    BY <1>2 DEF SlotOf
  <2> QED
    BY <1>1, <2>1, <2>2 DEF Slots
<1>3. CASE resident[<<g, p>>] = 0
  <2>1. \E s \in Slots : s[1] = g /\ s[2] = p /\ ~ Referred(s)
    <3>1. SUFFICES ASSUME \A s \in Slots : s[1] = g /\ s[2] = p => Referred(s) PROVE FALSE
      OBVIOUS
    <3>2. \A n \in 1 .. N : \E k \in Handles \ {h} : <<g, p, n>> \in InHand(k)
      <4>1. TAKE n \in 1 .. N
      <4>2. <<g, p, n>> \in Slots /\ resident[<<g, p>>] # n
        BY <1>1, <1>3 DEF Slots
      <4>3. PICK k \in Handles : <<g, p, n>> \in InHand(k)
        BY <3>1, <4>2 DEF Referred
      <4>4. k # h
        BY <4>3 DEF InHand
      <4> QED
        BY <4>3, <4>4
    <3> DEFINE f == [n \in 1 .. N |-> CHOOSE k \in Handles \ {h} : <<g, p, n>> \in InHand(k)]
    <3>3. f \in [1 .. N -> Handles \ {h}] /\ \A n \in 1 .. N : <<g, p, n>> \in InHand(f[n])
      BY <3>2
    <3>4. IsFiniteSet(1 .. N) /\ Cardinality(1 .. N) = N
      BY <1>1, FS_Interval
    <3>5. IsFiniteSet(Handles \ {h}) /\ Cardinality(Handles \ {h}) < Cardinality(1 .. N)
      <4>1. IsFiniteSet(Handles \ {h}) /\ Cardinality(Handles \ {h}) = N - 1
        BY Constants, FS_RemoveElement
      <4> HIDE DEF N
      <4> QED
        BY <1>1, <3>4, <4>1
    <3>6. PICK x, y \in 1 .. N : x # y /\ f[x] = f[y]
      <4> DEFINE numbers == 1 .. N
                 others == Handles \ {h}
      <4>1. /\ IsFiniteSet(numbers) /\ IsFiniteSet(others) /\ Cardinality(others) < Cardinality(numbers)
            /\ f \in [numbers -> others]
        BY <3>3, <3>4, <3>5
      <4> HIDE DEF numbers, others, f
      <4>2. \E x, y \in numbers : x # y /\ f[x] = f[y]
        BY ONLY <4>1, FS_PigeonHole
      <4> QED
        BY <4>2 DEF numbers
    <3> HIDE DEF f
    <3>7. f[x] \in Handles /\ <<g, p, x>> \in InHand(f[x]) /\ <<g, p, y>> \in InHand(f[x])
      BY <3>3, <3>6
    <3>8. PICK i \in DOMAIN stack[f[x]] : stack[f[x]][i].slot = <<g, p, x>>
      BY <3>7 DEF InHand
    <3>9. PICK j \in DOMAIN stack[f[x]] : stack[f[x]][j].slot = <<g, p, y>>
      BY <3>7 DEF InHand
    <3>10. i = j
      BY <3>7, <3>8, <3>9, OnceInAStack
    <3> QED
      BY <3>6, <3>8, <3>9, <3>10
  <2>2. SlotOf(g, p) \in Slots /\ SlotOf(g, p)[1] = g /\ SlotOf(g, p)[2] = p
    BY <1>3, <2>1 DEF SlotOf
  <2> QED
    BY <2>2 DEF Slots
<1> QED
  BY <1>2, <1>3

\* A part that a handle asks for is at none of its frames.
LEMMA AskedIsNew ==
  ASSUME CacheTyped, StacksInOrder, NEW h \in Handles, NEW p \in Parts, Ready(h),
         stack[h] = <<>> \/ (Doing(h, "reading") /\ p \in Top(h).needs)
  PROVE  /\ opened[h] # 0
         /\ \A i \in DOMAIN stack[h] : /\ stack[h][i].slot[2] \in Parts
                                       /\ Depth[p] < Depth[stack[h][i].slot[2]]
                                       /\ stack[h][i].slot[2] # p
<1>1. opened[h] # 0
  BY DEF StacksInOrder, HandleInOrder, Ready
<1>2. CASE stack[h] = <<>>
  BY <1>1, <1>2
<1>3. CASE stack[h] # <<>> /\ Doing(h, "reading") /\ p \in Top(h).needs
  <2> DEFINE n == Len(stack[h])
  <2>1. stack[h] \in Seq(Frames) /\ n \in Nat \ {0} /\ DOMAIN stack[h] = 1 .. n /\ Top(h) = stack[h][n]
    BY <1>3, OuterIs, LenProperties DEF CacheTyped
  <2>2. \A i \in 1 .. n : stack[h][i].slot[2] \in Parts
    <3>1. TAKE i \in 1 .. n
    <3>2. stack[h][i] \in Frames
      BY <2>1, ElementOfSeq
    <3>3. stack[h][i].slot[2] # Anchor
      BY <2>1 DEF StacksInOrder, FrameInOrder
    <3> QED
      BY <3>2, <3>3, FrameHas, SlotKinds
  <2>3. p \in Needs[stack[h][n].slot[2]]
    BY <1>3, <2>1, <2>2, Constants DEF StacksInOrder, FrameInOrder
  <2>4. Depth[p] < Depth[stack[h][n].slot[2]]
    BY <2>1, <2>2, <2>3, DepthIs
  <2>5. \A i \in 1 .. n : i # n => Depth[stack[h][n].slot[2]] < Depth[stack[h][i].slot[2]]
    BY <2>1 DEF StacksInOrder, HandleInOrder
  <2>6. \A i \in 1 .. n : Depth[p] < Depth[stack[h][i].slot[2]]
    <3>1. TAKE i \in 1 .. n
    <3>2. n \in 1 .. n
      BY <2>1
    <3>3. Depth[p] \in Nat /\ Depth[stack[h][i].slot[2]] \in Nat /\ Depth[stack[h][n].slot[2]] \in Nat
      BY <2>2, <3>2, DepthIs
    <3>4. CASE i = n
      BY <2>4, <3>4
    <3>5. CASE i # n
      BY <2>4, <2>5, <3>3, <3>5
    <3> QED
      BY <3>4, <3>5
  <2> QED
    BY <1>1, <2>1, <2>2, <2>6, DepthIs
<1> QED
  BY <1>2, <1>3

-----------------------------------------------------------------------------
(* What each operation does.                                               *)

\* What is in the cache, what the slots hold, and what a slot holds after the step.
Entries == [Generations \X Parts -> 0..Cardinality(Handles)]
Values == [Slots -> Versions]
ValueThen(s) == IF s[2] = Anchor THEN anchorOf'[s[1]] ELSE held'[s]

\* What is settled is typed, and what can still be asked about is as it was to be.
LEMMA SettleEffect ==
  ASSUME CacheTyped, NEW entries \in Entries, NEW values \in Values, Settle(entries, values)
  PROVE  /\ expires' \in [Generations -> 0..(LastTime + Lifetime)]
         /\ anchorOf' \in [Generations -> Versions]
         /\ resident' \in Entries /\ held' \in Values
         /\ \A g \in Generations : Reachable(g)' => expires'[g] = expires[g] /\ anchorOf'[g] = anchorOf[g]
         /\ \A g \in Generations : ~ Reachable(g)' => anchorOf'[g] = None
         /\ \A g \in Generations, p \in Parts :
              resident'[<<g, p>>] # 0 => Reachable(g)' /\ resident'[<<g, p>>] = entries[<<g, p>>]
         /\ \A s \in Slots : held'[s] # None => held'[s] = values[s]
         /\ \A s \in Slots :
              held'[s] # None => Reachable(s[1])' \/ \E h \in Handles : s \in InHand(h)'
         /\ \A s \in Slots, h \in Handles : s \in InHand(h)' => held'[s] = values[s]
<1>1. None \in Versions /\ 0 \in 0..(LastTime + Lifetime) /\ 0 \in 0..Cardinality(Handles)
  BY Constants DEF Versions
<1>2. expires' = [g \in Generations |-> IF Reachable(g)' THEN expires[g] ELSE 0]
  BY DEF Settle
<1>3. anchorOf' = [g \in Generations |-> IF Reachable(g)' THEN anchorOf[g] ELSE None]
  BY DEF Settle
<1>4. expires \in [Generations -> 0..(LastTime + Lifetime)] /\ anchorOf \in [Generations -> Versions]
  BY DEF CacheTyped
<1>5. /\ expires' \in [Generations -> 0..(LastTime + Lifetime)]
      /\ anchorOf' \in [Generations -> Versions]
      /\ \A g \in Generations : Reachable(g)' => expires'[g] = expires[g] /\ anchorOf'[g] = anchorOf[g]
      /\ \A g \in Generations : ~ Reachable(g)' => anchorOf'[g] = None
  <2> DEFINE reached(g) == Reachable(g)'
  <2> HIDE DEF reached
  <2>1. /\ expires' = [g \in Generations |-> IF reached(g) THEN expires[g] ELSE 0]
        /\ anchorOf' = [g \in Generations |-> IF reached(g) THEN anchorOf[g] ELSE None]
    BY <1>2, <1>3 DEF reached
  <2>2. /\ expires' \in [Generations -> 0..(LastTime + Lifetime)]
        /\ anchorOf' \in [Generations -> Versions]
        /\ \A g \in Generations : reached(g) => expires'[g] = expires[g] /\ anchorOf'[g] = anchorOf[g]
        /\ \A g \in Generations : ~ reached(g) => anchorOf'[g] = None
    BY <1>1, <1>4, <2>1
  <2> QED
    BY <2>2 DEF reached
<1>6. /\ resident' \in Entries
      /\ \A g \in Generations, p \in Parts :
           resident'[<<g, p>>] # 0 => Reachable(g)' /\ resident'[<<g, p>>] = entries[<<g, p>>]
  <2> DEFINE kept(e) == /\ entries[e] # 0 /\ Reachable(e[1])'
                        /\ \/ values[<<e[1], e[2], entries[e]>>] # None
                           \/ \E h \in Handles : <<e[1], e[2], entries[e]>> \in InHand(h)'
  <2>1. resident' = [e \in Generations \X Parts |-> IF kept(e) THEN entries[e] ELSE 0]
    BY DEF Settle
  <2>2. \A g \in Generations, p \in Parts : kept(<<g, p>>) => Reachable(g)'
    OBVIOUS
  <2> HIDE DEF kept
  <2>3. resident' \in Entries
    BY <1>1, <2>1 DEF Entries
  <2>4. \A g \in Generations, p \in Parts :
          resident'[<<g, p>>] # 0 => kept(<<g, p>>) /\ resident'[<<g, p>>] = entries[<<g, p>>]
    BY <2>1
  <2> QED
    BY <2>2, <2>3, <2>4
<1>7. held' = [s \in Slots |-> IF Referred(s)' THEN values[s] ELSE None]
  BY DEF Settle
<1>8. /\ held' \in Values
      /\ \A s \in Slots : held'[s] # None => held'[s] = values[s] /\ Referred(s)'
      /\ \A s \in Slots : Referred(s)' => held'[s] = values[s]
  <2> DEFINE kept(s) == Referred(s)'
  <2> HIDE DEF kept
  <2>1. held' = [s \in Slots |-> IF kept(s) THEN values[s] ELSE None]
    BY <1>7 DEF kept
  <2>2. /\ held' \in Values
        /\ \A s \in Slots : held'[s] # None => held'[s] = values[s] /\ kept(s)
        /\ \A s \in Slots : kept(s) => held'[s] = values[s]
    BY <1>1, <2>1 DEF Values
  <2> QED
    BY <2>2 DEF kept
<1>9. \A s \in Slots, h \in Handles : s \in InHand(h)' => Referred(s)'
  BY DEF Referred
<1>10. \A s \in Slots : Referred(s)' => Reachable(s[1])' \/ \E h \in Handles : s \in InHand(h)'
  <2>1. TAKE s \in Slots
  <2>2. HAVE Referred(s)'
  <2>3. s[1] \in Generations /\ s[2] \in Parts /\ s[3] # 0
    BY Constants DEF Slots
  <2>4. resident'[<<s[1], s[2]>>] = s[3] \/ \E h \in Handles : s \in InHand(h)'
    BY <2>2 DEF Referred
  <2> QED
    BY <1>6, <2>3, <2>4
<1> QED
  BY <1>5, <1>6, <1>8, <1>9, <1>10

\* What is settled to be in the cache, filled, is there.
LEMMA SettleHas ==
  ASSUME CacheTyped, NEW entries \in Entries, NEW values \in Values, Settle(entries, values),
         NEW g \in Generations, NEW p \in Parts, Reachable(g)',
         entries[<<g, p>>] # 0, values[<<g, p, entries[<<g, p>>]>>] # None
  PROVE  Has(g, p)'
<1> DEFINE n == entries[<<g, p>>]
           s == <<g, p, n>>
<1>1. n \in 1..Cardinality(Handles) /\ s \in Slots
  BY Constants DEF Entries, Slots
<1>2. resident'[<<g, p>>] = n
  <2>1. <<g, p>> \in Generations \X Parts
    OBVIOUS
  <2> QED
    BY <2>1 DEF Settle
<1>3. Referred(s)'
  BY <1>2 DEF Referred
<1>4. held'[s] = values[s]
  BY <1>1, <1>3 DEF Settle
<1> QED
  BY <1>2, <1>4 DEF Has

\* A slot put in the cache is an entry like the others.
LEMMA WithIs ==
  ASSUME CacheTyped, NEW s \in Slots
  PROVE  /\ With(s) \in Entries
         /\ With(s)[<<s[1], s[2]>>] = IF Live(s[1]) THEN s[3] ELSE 0
         /\ \A e \in Generations \X Parts : e # <<s[1], s[2]>> => With(s)[e] = resident[e]
<1>1. <<s[1], s[2]>> \in Generations \X Parts /\ s[3] \in 0..Cardinality(Handles) /\ 0 \in 0..Cardinality(Handles)
  BY Constants DEF Slots
<1> QED
  BY <1>1 DEF With, CacheTyped, Entries

\* The stack of a handle after its step: its frames up to the n-th as they were.
UpTo(s, h, n) == \A i \in 1 .. n : SameFrame(s[i], stack[h][i])

\* After a step of h: the other handles are where they were, and h has left its part, goes on with
\* it, is at one more, or is where it was too.
OthersAsTheyWere(h) ==
  /\ stack' \in [Handles -> Seq(Frames)] /\ took' \in [Handles -> SUBSET (0..LastVersion)]
  /\ \A k \in Handles : k # h => stack'[k] = stack[k] /\ took'[k] = took[k]

Popped(h) ==
  stack[h] # <<>> /\ Len(stack'[h]) = Len(stack[h]) - 1 /\ UpTo(stack'[h], h, Len(stack[h]) - 1)
Swapped(h, top) ==
  /\ stack[h] # <<>> /\ Len(stack'[h]) = Len(stack[h]) /\ UpTo(stack'[h], h, Len(stack[h]) - 1)
  /\ stack'[h][Len(stack[h])] = top
Pushed(h, top) ==
  /\ Len(stack'[h]) = Len(stack[h]) + 1 /\ UpTo(stack'[h], h, Len(stack[h]))
  /\ stack'[h][Len(stack[h]) + 1] = top
Unmoved(h) == Len(stack'[h]) = Len(stack[h]) /\ UpTo(stack'[h], h, Len(stack[h]))

\* A value is given, and is one that was read.
LEMMA GivenTyped ==
  ASSUME CacheTyped, NEW s \in Slots \cup AnchorSlots, Value(s) # None
  PROVE  Value(s) \in 0..LastVersion
  BY SlotKinds DEF CacheTyped, Value, Versions

\* Asking: the part is given, or there is a frame for it on top, which reads it if nobody does.
LEMMA AskEffect ==
  ASSUME CacheTyped, StacksInOrder, NEW h \in Handles, NEW p \in Parts, Ask(h, p)
  PROVE  LET s == SlotOf(opened[h], p)
             top == Frame(s, IF Unread(s) THEN "reading" ELSE "waiting") IN
         /\ Ready(h) /\ opened[h] # 0
         /\ s \in Slots /\ s[1] = opened[h] /\ s[2] = p
         /\ \A i \in 1 .. Len(stack[h]) :
              stack[h][i].slot[2] \in Parts /\ Depth[p] < Depth[stack[h][i].slot[2]]
         /\ OthersAsTheyWere(h)
         /\ \/ held[s] # None /\ Unmoved(h) /\ took'[h] = took[h] \cup {held[s]}
            \/ held[s] = None /\ Pushed(h, top) /\ took'[h] = took[h]
<1> DEFINE s == SlotOf(opened[h], p)
           top == Frame(s, IF Unread(s) THEN "reading" ELSE "waiting")
           below == IF stack[h] = <<>> THEN <<>>
                    ELSE Append(Outer(h), [Top(h) EXCEPT !.needs = @ \ {p}])
<1>1. Ready(h) /\ (stack[h] = <<>> \/ (Doing(h, "reading") /\ p \in Top(h).needs))
  BY DEF Ask
<1>2. /\ opened[h] # 0
      /\ \A i \in DOMAIN stack[h] : /\ stack[h][i].slot[2] \in Parts
                                    /\ Depth[p] < Depth[stack[h][i].slot[2]]
                                    /\ stack[h][i].slot[2] # p
  BY <1>1, AskedIsNew
<1>3. stack[h] \in Seq(Frames) /\ DOMAIN stack[h] = 1 .. Len(stack[h]) /\ Len(stack[h]) \in Nat
  BY LenProperties DEF CacheTyped
<1>4. s \in Slots /\ s[1] = opened[h] /\ s[2] = p
  BY <1>2, SlotOfIs
<1>5. p # Anchor /\ Value(s) = held[s]
  BY <1>4, Constants DEF Value
<1>6. below \in Seq(Frames) /\ Len(below) = Len(stack[h]) /\ UpTo(below, h, Len(stack[h]))
  <2>1. CASE stack[h] = <<>>
    BY <2>1, EmptySeq DEF UpTo
  <2>2. CASE stack[h] # <<>>
    <3> DEFINE f == [Top(h) EXCEPT !.needs = Top(h).needs \ {p}]
               n == Len(stack[h])
    <3>1. Top(h) \in Frames /\ Top(h) = stack[h][n] /\ n \in Nat \ {0}
      BY <2>2, OuterIs
    <3>2. f \in Frames /\ SameFrame(f, Top(h))
      BY <3>1 DEF Frames, SameFrame
    <3>3. below = Append(Outer(h), f)
      BY <2>2
    <3> HIDE DEF f
    <3>4. /\ Outer(h) \in Seq(Frames) /\ Len(Outer(h)) = n - 1
          /\ \A i \in 1 .. n - 1 : Outer(h)[i] = stack[h][i]
      BY <2>2, OuterIs
    <3>5. /\ Append(Outer(h), f) \in Seq(Frames)
          /\ Len(Append(Outer(h), f)) = Len(Outer(h)) + 1
          /\ \A i \in 1 .. Len(Outer(h)) : Append(Outer(h), f)[i] = Outer(h)[i]
          /\ Append(Outer(h), f)[Len(Outer(h)) + 1] = f
      BY <3>2, <3>4, AppendProperties
    <3>6. \A i \in 1 .. n : SameFrame(Append(Outer(h), f)[i], stack[h][i])
      <4>1. \A i \in 1 .. n - 1 : Append(Outer(h), f)[i] = stack[h][i]
        BY <3>1, <3>4, <3>5
      <4>2. SameFrame(Append(Outer(h), f)[n], stack[h][n])
        BY <3>1, <3>2, <3>4, <3>5
      <4>3. \A i \in 1 .. n : i = n \/ i \in 1 .. n - 1
        BY <3>1
      <4> QED
        BY <4>1, <4>2, <4>3 DEF SameFrame
    <3>7. Len(Append(Outer(h), f)) = n
      BY <3>1, <3>4, <3>5
    <3> HIDE DEF below
    <3> QED
      BY <3>3, <3>5, <3>6, <3>7 DEF UpTo
  <2> QED
    BY <2>1, <2>2
<1>7. Look(h, s, below)
  BY <1>1 DEF Ask, Doing
<1> HIDE DEF below, s
<1>8. top \in Frames
  BY <1>4, FrameIs
<1>9. /\ Append(below, top) \in Seq(Frames)
      /\ Len(Append(below, top)) = Len(below) + 1
      /\ \A i \in 1 .. Len(below) : Append(below, top)[i] = below[i]
      /\ Append(below, top)[Len(below) + 1] = top
  BY <1>6, <1>8, AppendProperties
<1>10. CASE held[s] # None
  <2>1. held[s] \in 0..LastVersion
    BY <1>4, <1>5, <1>10, GivenTyped
  <2>2. took' = [took EXCEPT ![h] = took[h] \cup {held[s]}] /\ stack' = [stack EXCEPT ![h] = below]
    BY <1>5, <1>7, <1>10 DEF Look
  <2>3. OthersAsTheyWere(h) /\ stack'[h] = below /\ took'[h] = took[h] \cup {held[s]}
    BY <1>6, <2>1, <2>2 DEF OthersAsTheyWere, CacheTyped
  <2> QED
    BY <1>1, <1>2, <1>3, <1>4, <1>6, <1>10, <2>3 DEF Unmoved, s
<1>11. CASE held[s] = None
  <2>1. took' = took /\ stack' = [stack EXCEPT ![h] = Append(below, top)]
    BY <1>5, <1>7, <1>11 DEF Look
  <2>2. OthersAsTheyWere(h) /\ stack'[h] = Append(below, top) /\ took'[h] = took[h]
    BY <1>9, <2>1 DEF OthersAsTheyWere, CacheTyped
  <2>3. UpTo(stack'[h], h, Len(stack[h]))
    BY <1>6, <1>9, <2>2 DEF UpTo
  <2>4. Pushed(h, top)
    BY <1>6, <1>9, <2>2, <2>3 DEF Pushed
  <2> QED
    BY <1>1, <1>2, <1>3, <1>4, <1>11, <2>2, <2>4 DEF s
<1> QED
  BY <1>10, <1>11

\* Beginning, delivering and leaving: the frame on top changes, or goes.
LEMMA BecomesEffect ==
  ASSUME CacheTyped, NEW h \in Handles, NEW f \in Frames, stack[h] # <<>>, Becomes(h, f), took' = took
  PROVE  OthersAsTheyWere(h) /\ Swapped(h, f)
<1> DEFINE s == Append(Outer(h), f)
           n == Len(stack[h])
<1>1. /\ Outer(h) \in Seq(Frames) /\ Len(Outer(h)) = n - 1 /\ n \in Nat \ {0}
      /\ \A i \in 1 .. n - 1 : Outer(h)[i] = stack[h][i]
  BY OuterIs
<1>2. /\ s \in Seq(Frames) /\ Len(s) = Len(Outer(h)) + 1
      /\ \A i \in 1 .. Len(Outer(h)) : s[i] = Outer(h)[i]
      /\ s[Len(Outer(h)) + 1] = f
  BY <1>1, AppendProperties
<1>3. stack' = [stack EXCEPT ![h] = s]
  BY DEF Becomes
<1> HIDE DEF s
<1>4. OthersAsTheyWere(h) /\ stack'[h] = s
  BY <1>2, <1>3 DEF OthersAsTheyWere, CacheTyped
<1> QED
  BY <1>1, <1>2, <1>4 DEF Swapped, UpTo, SameFrame

\* A handle that leaves its part.
LEMMA OuterEffect ==
  ASSUME CacheTyped, NEW h \in Handles, stack[h] # <<>>, stack' = [stack EXCEPT ![h] = Outer(h)]
  PROVE  /\ stack' \in [Handles -> Seq(Frames)] /\ Popped(h)
         /\ \A k \in Handles : k # h => stack'[k] = stack[k]
<1>1. /\ Outer(h) \in Seq(Frames) /\ Len(Outer(h)) = Len(stack[h]) - 1
      /\ \A i \in 1 .. Len(stack[h]) - 1 : Outer(h)[i] = stack[h][i]
  BY OuterIs
<1>2. stack'[h] = Outer(h)
  BY DEF CacheTyped
<1> QED
  BY <1>1, <1>2 DEF Popped, UpTo, SameFrame, CacheTyped

-----------------------------------------------------------------------------
(* Where the handles are.                                                  *)

\* HandleInOrder and FrameInOrder after a step.
HandleNow(h) ==
  /\ opened'[h] = 0 => stack'[h] = <<>> /\ took'[h] = {}
  /\ walk'[h] # None => took'[h] # {}
  /\ took'[h] # {} => anchorOf'[opened'[h]] # None
  /\ Len(stack'[h]) > 1 => took'[h] # {}
  /\ \A i, j \in DOMAIN stack'[h] :
       i < j => Depth[stack'[h][j].slot[2]] < Depth[stack'[h][i].slot[2]]

\* FrameInOrder after the step, with each variable primed by itself.
FrameNow(h, f) ==
  /\ f.slot[1] = opened'[h]
  /\ f.slot[2] = Anchor <=> took'[h] = {}
  /\ f.needs \subseteq IF f.slot[2] = Anchor THEN {} ELSE Needs[f.slot[2]]
  /\ f.at = "filled" => ValueThen(f.slot) # None
  /\ f.at = "reading" => f.copy \in 0..version' /\ (f.slot[2] = Anchor => ValueThen(f.slot) = None)

InOrderNow(h) == HandleNow(h) /\ \A i \in DOMAIN stack'[h] : FrameNow(h, stack'[h][i])

\* They say what StacksInOrder does.
LEMMA OrderNow == (\A h \in Handles : InOrderNow(h)) => StacksInOrder'
  BY DEF InOrderNow, HandleNow, FrameNow, StacksInOrder, HandleInOrder, FrameInOrder, Value,
         ValueThen, Ready

\* What is filled stays filled, for whoever has it in hand, and what is read of the anchor is not.
ValuesStay ==
  /\ \A h \in Handles :
       opened'[h] # 0 /\ anchorOf[opened'[h]] # None => anchorOf'[opened'[h]] # None
  /\ \A h \in Handles : \A i \in 1 .. Len(stack'[h]) :
       LET f == stack'[h][i] IN
       f.slot[1] = opened'[h] =>
         /\ Value(f.slot) # None => ValueThen(f.slot) # None
         /\ f.at = "reading" /\ f.slot[2] = Anchor => ValueThen(f.slot) = Value(f.slot)

\* What is in the cache and filled, or in a hand, has its value after the slots nobody refers to are
\* dropped.
LEMMA SettleStays ==
  ASSUME CacheTyped, NEW entries \in Entries, NEW values \in Values, Settle(entries, values),
         stack' \in [Handles -> Seq(Frames)], opened' \in [Handles -> 0..LastGeneration],
         \A s \in Slots : held[s] # None => values[s] # None
  PROVE  /\ ValuesStay
         /\ \A h \in Handles : opened'[h] # 0 => /\ anchorOf'[opened'[h]] = anchorOf[opened'[h]]
                                                 /\ expires'[opened'[h]] = expires[opened'[h]]
<1>1. /\ \A g \in Generations : Reachable(g)' => anchorOf'[g] = anchorOf[g] /\ expires'[g] = expires[g]
      /\ \A s \in Slots, h \in Handles : s \in InHand(h)' => held'[s] = values[s]
  BY SettleEffect
<1>2. \A h \in Handles : opened'[h] # 0 =>
        /\ opened'[h] \in Generations
        /\ anchorOf'[opened'[h]] = anchorOf[opened'[h]] /\ expires'[opened'[h]] = expires[opened'[h]]
  <2>1. TAKE h \in Handles
  <2>2. HAVE opened'[h] # 0
  <2>3. opened'[h] \in Generations
    BY <2>2, Constants DEF Generations
  <2>4. \A g \in Generations : g = opened'[h] => Reachable(g)'
    BY DEF Reachable
  <2> QED
    BY <1>1, <2>3, <2>4
<1>3. ASSUME NEW h \in Handles, NEW i \in 1 .. Len(stack'[h]), stack'[h][i].slot[1] = opened'[h]
      PROVE  LET f == stack'[h][i] IN
             /\ Value(f.slot) # None => ValueThen(f.slot) # None
             /\ f.slot[2] = Anchor => ValueThen(f.slot) = Value(f.slot)
  <2> DEFINE s == stack'[h][i].slot
  <2>1. stack'[h][i] \in Frames /\ i \in DOMAIN stack'[h]
    BY ElementOfSeq, LenProperties
  <2>2. s \in Slots \cup AnchorSlots /\ s[1] \in Generations
    BY <2>1, FrameHas, SlotKinds
  <2>3. CASE s[2] = Anchor
    <3>1. opened'[h] # 0
      BY <1>3, <2>2 DEF Generations
    <3> QED
      BY <1>2, <1>3, <2>3, <3>1 DEF Value, ValueThen
  <2>4. CASE s[2] # Anchor
    <3>1. s \in Slots
      BY <2>2, <2>4, SlotKinds
    <3>2. s \in InHand(h)'
      BY <2>1 DEF InHand
    <3> QED
      BY <1>1, <2>4, <3>1, <3>2 DEF Value, ValueThen
  <2> QED
    BY <2>3, <2>4
<1> QED
  BY <1>2, <1>3 DEF ValuesStay

\* A frame that is the same stays in order.
LEMMA FrameStays ==
  ASSUME CacheTyped, StacksInOrder, ValuesStay, version' \in Nat, version <= version',
         NEW h \in Handles, opened'[h] = opened[h], took'[h] = {} <=> took[h] = {},
         NEW i \in 1 .. Len(stack'[h]), NEW j \in 1 .. Len(stack[h]),
         SameFrame(stack'[h][i], stack[h][j])
  PROVE  FrameNow(h, stack'[h][i])
<1> DEFINE f == stack'[h][i]
           e == stack[h][j]
<1>1. FrameInOrder(h, e)
  <2>1. stack[h] \in Seq(Frames)
    BY DEF CacheTyped
  <2>2. j \in DOMAIN stack[h]
    BY <2>1, LenProperties
  <2> QED
    BY <2>2 DEF StacksInOrder
<1>2. f.slot = e.slot /\ f.at = e.at /\ f.copy = e.copy /\ f.needs \subseteq e.needs
  BY DEF SameFrame
<1>3. f.slot[1] = opened'[h]
  BY <1>1, <1>2 DEF FrameInOrder
<1>4. /\ Value(f.slot) # None => ValueThen(f.slot) # None
      /\ f.at = "reading" /\ f.slot[2] = Anchor => ValueThen(f.slot) = Value(f.slot)
  BY <1>3 DEF ValuesStay
<1>5. version \in Nat
  BY Constants DEF CacheTyped
<1> HIDE DEF f, e
<1>6. FrameNow(h, f)
  BY <1>1, <1>2, <1>3, <1>4, <1>5 DEF FrameInOrder, FrameNow, Ready
<1> QED
  BY <1>6 DEF f

\* A handle that does not move stays in order.
LEMMA OtherInOrder ==
  ASSUME CacheTyped, StacksInOrder, ValuesStay, version' \in Nat, version <= version',
         NEW h \in Handles, opened'[h] = opened[h], took'[h] = took[h], stack'[h] = stack[h],
         walk'[h] # None => walk[h] # None
  PROVE  InOrderNow(h)
<1>1. stack[h] \in Seq(Frames)
  BY DEF CacheTyped
<1>2. DOMAIN stack[h] = 1 .. Len(stack[h])
  BY <1>1, LenProperties
<1>3. \A i \in DOMAIN stack'[h] : FrameNow(h, stack'[h][i])
  BY <1>2, FrameStays DEF SameFrame
<1>4. HandleInOrder(h)
  BY DEF StacksInOrder
<1>5. HandleNow(h)
  BY <1>4 DEF HandleInOrder, HandleNow, Ready, ValuesStay
<1> QED
  BY <1>3, <1>5 DEF InOrderNow

\* A handle that has been given something, or waits for the anchor, stays in order when what it is
\* at changes as Popped, Swapped, Pushed and Unmoved say.
LEMMA MoverInOrder ==
  ASSUME CacheTyped, StacksInOrder, ValuesStay, version' \in Nat, version <= version',
         NEW h \in Handles, opened'[h] = opened[h], opened[h] # 0, took'[h] = {} <=> took[h] = {},
         stack'[h] \in Seq(Frames), walk'[h] # None => took'[h] # {},
         NEW top, 
         \/ Popped(h) \/ Unmoved(h)
         \/ Swapped(h, top) /\ top.slot = Top(h).slot /\ FrameNow(h, top)
         \/ /\ Pushed(h, top) /\ FrameNow(h, top) /\ Ready(h)
            /\ \A i \in 1 .. Len(stack[h]) : Depth[top.slot[2]] < Depth[stack[h][i].slot[2]]
  PROVE  InOrderNow(h)
<1> DEFINE n == Len(stack[h])
           m == Len(stack'[h])
<1>1. n \in Nat /\ m \in Nat /\ DOMAIN stack[h] = 1 .. n /\ DOMAIN stack'[h] = 1 .. m
  BY LenProperties DEF CacheTyped
<1>2. \A i \in 1 .. m :
        \/ i \in 1 .. n /\ SameFrame(stack'[h][i], stack[h][i])
        \/ i = m /\ FrameNow(h, stack'[h][i]) /\ i \in 1 .. n /\ stack'[h][i].slot = stack[h][i].slot
        \/ /\ i = m /\ m = n + 1 /\ FrameNow(h, stack'[h][i]) /\ Ready(h)
           /\ \A j \in 1 .. n : Depth[stack'[h][i].slot[2]] < Depth[stack[h][j].slot[2]]
  <2>1. CASE Popped(h)
    BY <1>1, <2>1 DEF Popped, UpTo
  <2>2. CASE Unmoved(h)
    BY <1>1, <2>2 DEF Unmoved, UpTo
  <2>3. CASE Swapped(h, top) /\ top.slot = Top(h).slot /\ FrameNow(h, top)
    <3>1. m = n /\ n \in Nat \ {0} /\ Top(h) = stack[h][n] /\ stack'[h][n] = top
      BY <2>3, OuterIs DEF Swapped
    <3>2. \A i \in 1 .. n - 1 : SameFrame(stack'[h][i], stack[h][i])
      BY <2>3 DEF Swapped, UpTo
    <3>3. \A i \in 1 .. n : i = n \/ i \in 1 .. n - 1
      BY <3>1
    <3> QED
      BY <2>3, <3>1, <3>2, <3>3
  <2>4. CASE /\ Pushed(h, top) /\ FrameNow(h, top) /\ Ready(h)
             /\ \A i \in 1 .. n : Depth[top.slot[2]] < Depth[stack[h][i].slot[2]]
    <3>1. m = n + 1 /\ stack'[h][m] = top /\ \A i \in 1 .. n : SameFrame(stack'[h][i], stack[h][i])
      BY <2>4 DEF Pushed, UpTo
    <3>2. \A i \in 1 .. m : i = m \/ i \in 1 .. n
      BY <1>1, <3>1
    <3> QED
      BY <2>4, <3>1, <3>2
  <2> QED
    BY <2>1, <2>2, <2>3, <2>4
<1>3. \A i \in 1 .. m : FrameNow(h, stack'[h][i])
  BY <1>2, FrameStays
<1>4. \A i \in 1 .. m : i \in 1 .. n => stack'[h][i].slot = stack[h][i].slot
  BY <1>1, <1>2 DEF SameFrame
<1>5. HandleInOrder(h)
  BY DEF StacksInOrder
<1>6. \A i, j \in 1 .. m : i < j => Depth[stack'[h][j].slot[2]] < Depth[stack'[h][i].slot[2]]
  <2>1. TAKE i, j \in 1 .. m
  <2>2. HAVE i < j
  <2>3. i \in 1 .. n
    <3>1. i # m
      BY <1>1, <2>2
    <3> QED
      BY <1>2, <3>1
  <2>4. stack'[h][i].slot = stack[h][i].slot
    BY <1>4, <2>3
  <2>5. CASE j \in 1 .. n
    BY <1>1, <1>4, <1>5, <2>2, <2>3, <2>5 DEF HandleInOrder
  <2>6. CASE j \notin 1 .. n
    <3>1. \A k \in 1 .. n : Depth[stack'[h][j].slot[2]] < Depth[stack[h][k].slot[2]]
      BY <1>2, <2>6
    <3> QED
      BY <2>3, <2>4, <3>1
  <2> QED
    BY <2>5, <2>6
<1>7. m > 1 => took'[h] # {}
  <2>1. SUFFICES ASSUME m > 1 PROVE took[h] # {}
    OBVIOUS
  <2>2. CASE n > 1
    BY <1>5, <2>2 DEF HandleInOrder, Ready
  <2>3. CASE ~ n > 1
    <3>1. m \in 1 .. m /\ m \notin 1 .. n
      BY <1>1, <2>1, <2>3
    <3> QED
      BY <1>2, <3>1 DEF Ready
  <2> QED
    BY <2>2, <2>3
<1>8. took'[h] # {} => anchorOf'[opened'[h]] # None
  BY <1>5 DEF HandleInOrder, Ready, ValuesStay
<1>9. HandleNow(h)
  BY <1>1, <1>6, <1>7, <1>8 DEF HandleNow
<1> QED
  BY <1>1, <1>3, <1>9 DEF InOrderNow

\* A handle that is given nothing yet and is at the anchor, or at nothing.
LEMMA AtTheAnchor ==
  ASSUME CacheTyped, NEW h \in Handles, NEW g \in Generations, opened'[h] = g, walk'[h] = None,
         anchorOf'[g] \in Versions, version' \in Nat,
         \/ stack'[h] = <<>> /\ took'[h] # {} /\ anchorOf'[g] # None
         \/ /\ took'[h] = {} /\ anchorOf'[g] = None
            /\ \/ stack'[h] = <<Frame(<<g, Anchor, 0>>, "waiting")>>
               \/ stack'[h] = <<Frame(<<g, Anchor, 0>>, "reading")>> /\ version <= version'
  PROVE  InOrderNow(h)
<1>1. g # 0 /\ version \in Nat
  BY Constants DEF Generations, CacheTyped
<1>2. CASE stack'[h] = <<>> /\ took'[h] # {} /\ anchorOf'[g] # None
  <2>1. DOMAIN stack'[h] = {} /\ Len(stack'[h]) = 0
    BY <1>2, EmptySeq, LenProperties
  <2> QED
    BY <1>1, <1>2, <2>1 DEF InOrderNow, HandleNow
<1>3. ASSUME NEW at \in {"waiting", "reading"}, stack'[h] = <<Frame(<<g, Anchor, 0>>, at)>>,
             took'[h] = {}, anchorOf'[g] = None, at = "reading" => version <= version'
      PROVE  InOrderNow(h)
  <2> DEFINE s == <<g, Anchor, 0>>
             f == Frame(s, at)
  <2>1. /\ f.slot = s /\ f.at = at /\ (at = "reading" => f.copy = version)
        /\ f.needs \subseteq IF s[2] = Anchor THEN {} ELSE Needs[s[2]]
    BY FrameIs DEF AnchorSlots
  <2>2. DOMAIN stack'[h] = {1} /\ Len(stack'[h]) = 1 /\ stack'[h][1] = f
    BY <1>3
  <2> HIDE DEF f
  <2>3. FrameNow(h, f)
    BY <1>1, <1>3, <2>1 DEF FrameNow, ValueThen
  <2>4. HandleNow(h)
    BY <1>1, <1>3, <2>2 DEF HandleNow
  <2> QED
    BY <2>2, <2>3, <2>4 DEF InOrderNow
<1> QED
  BY <1>2, <1>3

\* Opening finds an anchor, given or not, or draws the next generation.
FindsAnchor(h, g) ==
  LET s == <<g, Anchor, 0>> IN
  /\ g = anchored /\ UNCHANGED <<drawn, expires, anchored>>
  /\ \/ anchorOf[g] # None /\ stack'[h] = <<>> /\ took'[h] = {anchorOf[g]}
     \/ /\ anchorOf[g] = None /\ took'[h] = {}
        /\ stack'[h] = <<Frame(s, IF Unread(s) THEN "reading" ELSE "waiting")>>

\* It is the one after the last drawn, and h reads it.
MakesAnchor(h, g) ==
  /\ g = drawn + 1 /\ drawn' = g /\ anchorOf[g] = None
  /\ expires' = [expires EXCEPT ![g] = now + Lifetime]
  /\ took'[h] = {} /\ stack'[h] = <<Frame(<<g, Anchor, 0>>, "reading")>>

\* A handle that opens the catalog does one of the two.
LEMMA OpenEffect ==
  ASSUME CacheTyped, StacksInOrder, ReadAfterAnchor, NEW h \in Handles, Open(h) \/ OpenRenewed(h)
  PROVE  /\ opened[h] = 0 /\ stack[h] = <<>> /\ took[h] = {} /\ walk[h] = None
         /\ UNCHANGED <<now, version, held, resident, walk, anchorOf>>
         /\ OthersAsTheyWere(h)
         /\ \E g \in Generations :
              /\ opened' = [opened EXCEPT ![h] = g]
              /\ \/ Open(h) /\ FindsAnchor(h, g)
                 \/ Open(h) /\ MakesAnchor(h, g) /\ anchored = 0 /\ anchored' = g
                 \/ OpenRenewed(h) /\ MakesAnchor(h, g) /\ anchored' = anchored
<1>1. opened[h] = 0 /\ stack[h] = <<>> /\ took[h] = {} /\ walk[h] = None
  BY DEF Open, OpenRenewed, StacksInOrder, HandleInOrder, Ready
<1>2. UNCHANGED <<now, version, held, resident, walk, anchorOf>>
  BY DEF Open, OpenRenewed, Draw
<1>3. ASSUME NEW g \in Generations, NEW at \in {"waiting", "reading"}
      PROVE  /\ <<Frame(<<g, Anchor, 0>>, at)>> \in Seq(Frames)
             /\ Append(<<>>, Frame(<<g, Anchor, 0>>, at)) = <<Frame(<<g, Anchor, 0>>, at)>>
  <2>1. Frame(<<g, Anchor, 0>>, at) \in Frames
    BY FrameIs DEF AnchorSlots
  <2> QED
    BY <2>1
<1>4. /\ stack \in [Handles -> Seq(Frames)] /\ took \in [Handles -> SUBSET (0..LastVersion)]
      /\ drawn \in 0..LastGeneration /\ anchored \in 0..drawn
  BY DEF CacheTyped
<1>5. CASE Open(h) /\ anchored # 0
  <2> DEFINE g == anchored
             s == <<g, Anchor, 0>>
             at == IF Unread(s) THEN "reading" ELSE "waiting"
  <2>1. g \in Generations
    BY <1>4, <1>5, Constants DEF Generations
  <2>2. opened' = [opened EXCEPT ![h] = g] /\ Look(h, s, <<>>) /\ UNCHANGED <<drawn, expires, anchored>>
    BY <1>5 DEF Open
  <2>3. Value(s) = anchorOf[g]
    BY DEF Value
  <2>4. CASE anchorOf[g] # None
    <3>1. anchorOf[g] \in 0..LastVersion
      BY <2>1, <2>4 DEF CacheTyped, Versions
    <3>2. took' = [took EXCEPT ![h] = took[h] \cup {anchorOf[g]}] /\ stack' = [stack EXCEPT ![h] = <<>>]
      BY <2>2, <2>3, <2>4 DEF Look
    <3>3. stack'[h] = <<>> /\ took'[h] = {anchorOf[g]} /\ OthersAsTheyWere(h)
      BY <1>1, <1>4, <3>1, <3>2, EmptySeq DEF OthersAsTheyWere
    <3> QED
      BY <1>1, <1>2, <1>5, <2>1, <2>2, <2>4, <3>3 DEF FindsAnchor
  <2>5. CASE anchorOf[g] = None
    <3>1. at \in {"waiting", "reading"}
      OBVIOUS
    <3>2. took' = took /\ stack' = [stack EXCEPT ![h] = Append(<<>>, Frame(s, at))]
      BY <2>2, <2>3, <2>5 DEF Look
    <3> HIDE DEF at
    <3>3. stack'[h] = <<Frame(s, at)>> /\ took'[h] = {} /\ OthersAsTheyWere(h)
      BY <1>1, <1>3, <1>4, <2>1, <3>1, <3>2 DEF OthersAsTheyWere
    <3> QED
      BY <1>1, <1>2, <1>5, <2>1, <2>2, <2>5, <3>3 DEF FindsAnchor, at
  <2> QED
    BY <2>4, <2>5
<1>6. CASE (Open(h) /\ anchored = 0) \/ OpenRenewed(h)
  <2> DEFINE g == drawn + 1
  <2>1. /\ drawn < LastGeneration /\ drawn' = g
        /\ expires' = [expires EXCEPT ![g] = now + Lifetime]
        /\ took' = took
    BY <1>6 DEF Open, OpenRenewed, Draw
  <2>2. g \in Generations /\ ~ g <= drawn
    BY <1>4, <2>1, Constants DEF Generations
  <2>3. anchorOf[g] = None
    BY <2>2 DEF ReadAfterAnchor
  <2>4. stack' = [stack EXCEPT ![h] = <<Frame(<<g, Anchor, 0>>, "reading")>>]
    BY <1>6, <2>1 DEF Open, OpenRenewed
  <2>5. opened' = [opened EXCEPT ![h] = g]
    BY <1>6, <2>1 DEF Open, OpenRenewed
  <2>6. stack'[h] = <<Frame(<<g, Anchor, 0>>, "reading")>> /\ took'[h] = {} /\ OthersAsTheyWere(h)
    BY <1>1, <1>3, <1>4, <2>1, <2>2, <2>4 DEF OthersAsTheyWere
  <2>7. MakesAnchor(h, g)
    BY <2>1, <2>3, <2>6 DEF MakesAnchor
  <2>8. \/ Open(h) /\ anchored = 0 /\ anchored' = g
        \/ OpenRenewed(h) /\ anchored' = anchored
    BY <1>6, <2>1 DEF Open, OpenRenewed
  <2> HIDE DEF g
  <2> QED
    BY <1>1, <1>2, <2>2, <2>5, <2>6, <2>7, <2>8
<1> QED
  BY <1>5, <1>6

\* The operations, of a handle and of the cache itself.
HandleStep(h) ==
  \/ Open(h) \/ OpenRenewed(h) \/ (\E p \in Parts : Ask(h, p))
  \/ Begin(h) \/ Deliver(h) \/ Put(h) \/ Fail(h) \/ Close(h)
  \/ Walk(h) \/ EndWalk(h) \/ (\E p \in Parts : Offer(h, p))

\* A step of nobody's, and any step the cache can take.
CacheStep ==
  EvictAnchor \/ (\E g \in Generations, p \in Parts : Evict(g, p)) \/ Tick \/ Publish \/ UNCHANGED vars

Operation == CacheStep \/ \E h \in Handles : HandleStep(h)

\* A handle at a part or at the anchor, and what it is at.
LEMMA TopIs ==
  ASSUME CacheTyped, StacksInOrder, NEW h \in Handles, stack[h] # <<>>
  PROVE  /\ Top(h) \in Frames /\ FrameInOrder(h, Top(h)) /\ Top(h) = stack[h][Len(stack[h])]
         /\ Len(stack[h]) \in Nat \ {0} /\ Len(stack[h]) \in DOMAIN stack[h]
         /\ opened[h] # 0 /\ opened[h] \in Generations /\ Top(h).slot[1] = opened[h]
         /\ Top(h).slot \in Slots \cup AnchorSlots
         /\ Top(h).slot[2] = Anchor => Len(stack[h]) = 1
<1>1. /\ Top(h) \in Frames /\ Len(stack[h]) \in Nat \ {0} /\ Top(h) = stack[h][Len(stack[h])]
      /\ DOMAIN stack[h] = 1 .. Len(stack[h])
  BY OuterIs, LenProperties DEF CacheTyped
<1>2. FrameInOrder(h, Top(h)) /\ HandleInOrder(h)
  BY <1>1 DEF StacksInOrder
<1>3. Top(h).slot \in Slots \cup AnchorSlots /\ Top(h).slot[1] \in Generations
  BY <1>1, FrameHas, SlotKinds
<1>4. Top(h).slot[1] = opened[h] /\ (Top(h).slot[2] = Anchor => Len(stack[h]) = 1)
  <2> DEFINE n == Len(stack[h])
  <2>1. n \in Nat \ {0} /\ (n > 1 => Ready(h))
    BY <1>1, <1>2 DEF HandleInOrder
  <2> HIDE DEF n
  <2>2. Top(h).slot[2] = Anchor => n = 1
    BY <1>2, <2>1 DEF FrameInOrder
  <2> QED
    BY <1>2, <2>2 DEF FrameInOrder, n
<1>5. opened[h] # 0
  BY <1>2 DEF HandleInOrder
<1> QED
  BY <1>1, <1>2, <1>3, <1>4, <1>5

\* What is put in the cache is a value.
LEMMA RunnableHas ==
  ASSUME CacheTyped, StacksInOrder, NEW h \in Handles, Runnable(h)
  PROVE  stack[h] # <<>> /\ Value(Top(h).slot) # None
<1>1. stack[h] # <<>>
  BY DEF Runnable, Doing
<1> QED
  BY <1>1, TopIs DEF Runnable, Doing, FrameInOrder

\* Deliver: the frame on top is filled with what was read.
LEMMA DeliverEffect ==
  ASSUME CacheTyped, StacksInOrder, NEW h \in Handles, Deliver(h)
  PROVE  /\ stack[h] # <<>> /\ Top(h).at = "reading" /\ Top(h).copy \in 0..version
         /\ OthersAsTheyWere(h) /\ took' = took
         /\ Frame(Top(h).slot, "filled") \in Frames /\ Swapped(h, Frame(Top(h).slot, "filled"))
         /\ UNCHANGED <<now, version, drawn, expires, anchored, resident, opened, walk>>
         /\ IF Top(h).slot[2] = Anchor
            THEN anchorOf' = [anchorOf EXCEPT ![opened[h]] = Top(h).copy] /\ held' = held
            ELSE held' = [held EXCEPT ![Top(h).slot] = Top(h).copy] /\ anchorOf' = anchorOf
<1>1. stack[h] # <<>> /\ Top(h).at = "reading" /\ took' = took
  BY DEF Deliver, Doing
<1>2. Top(h).slot \in Slots \cup AnchorSlots /\ Top(h).slot[1] = opened[h] /\ Top(h).copy \in 0..version
  BY <1>1, TopIs DEF FrameInOrder
<1>3. Frame(Top(h).slot, "filled") \in Frames
  BY <1>2, FrameIs
<1>4. Becomes(h, Frame(Top(h).slot, "filled"))
  BY DEF Deliver
<1>5. OthersAsTheyWere(h) /\ Swapped(h, Frame(Top(h).slot, "filled"))
  BY <1>1, <1>3, <1>4, BecomesEffect
<1> QED
  BY <1>1, <1>2, <1>3, <1>5 DEF Deliver

\* Put: the frame goes, its value is given, and its slot is in the cache if it is not too late.
LEMMA PutEffect ==
  ASSUME CacheTyped, StacksInOrder, NEW h \in Handles, Put(h)
  PROVE  LET s == Top(h).slot IN
         /\ Runnable(h) /\ stack[h] # <<>> /\ Value(s) \in 0..LastVersion
         /\ OthersAsTheyWere(h) /\ Popped(h) /\ took'[h] = took[h] \cup {Value(s)}
         /\ UNCHANGED <<now, version, drawn, opened, walk>>
         /\ \/ /\ s = <<opened[h], Anchor, 0>> /\ stack'[h] = <<>>
               /\ anchored' = (IF Live(opened[h]) THEN opened[h] ELSE 0)
               /\ resident \in Entries /\ Settle(resident, held)
            \/ /\ s \in Slots /\ s[1] = opened[h] /\ s[2] \in Parts /\ Ready(h)
               /\ anchored' = anchored
               /\ With(s) \in Entries /\ Settle(With(s), held)
<1> DEFINE s == Top(h).slot
<1>1. Runnable(h) /\ stack[h] # <<>> /\ Value(s) # None
  BY RunnableHas DEF Put
<1>2. /\ s \in Slots \cup AnchorSlots /\ s[1] = opened[h] /\ FrameInOrder(h, Top(h))
      /\ s[2] = Anchor => Len(stack[h]) = 1
  BY <1>1, TopIs
<1>3. Value(s) \in 0..LastVersion
  BY <1>1, <1>2, GivenTyped
<1>4. stack' = [stack EXCEPT ![h] = Outer(h)] /\ took' = [took EXCEPT ![h] = took[h] \cup {Value(s)}]
  BY DEF Put
<1>5. /\ stack' \in [Handles -> Seq(Frames)] /\ Popped(h)
      /\ \A k \in Handles : k # h => stack'[k] = stack[k]
  BY <1>1, <1>4, OuterEffect
<1>6. OthersAsTheyWere(h) /\ took'[h] = took[h] \cup {Value(s)}
  BY <1>3, <1>4, <1>5 DEF OthersAsTheyWere, CacheTyped
<1>7. UNCHANGED <<now, version, drawn, opened, walk>>
  BY DEF Put
<1>8. CASE s[2] = Anchor
  <2>1. s = <<opened[h], Anchor, 0>>
    BY <1>2, <1>8, SlotKinds
  <2>2. stack'[h] = <<>>
    <3>1. Len(stack'[h]) = 0 /\ stack'[h] \in Seq(Frames)
      BY <1>2, <1>5, <1>8 DEF Popped
    <3> QED
      BY <3>1, EmptySeq
  <2>3. anchored' = (IF Live(opened[h]) THEN opened[h] ELSE 0) /\ Settle(resident, held)
    BY <1>2, <1>8 DEF Put
  <2>4. resident \in Entries
    BY DEF CacheTyped, Entries
  <2> QED
    BY <1>1, <1>3, <1>5, <1>6, <1>7, <2>1, <2>2, <2>3, <2>4
<1>9. CASE s[2] # Anchor
  <2>1. s \in Slots /\ s[2] \in Parts /\ With(s) \in Entries
    BY <1>2, <1>9, SlotKinds, WithIs
  <2>2. Ready(h)
    BY <1>2, <1>9 DEF FrameInOrder
  <2>3. anchored' = anchored /\ Settle(With(s), held)
    BY <1>9 DEF Put
  <2> QED
    BY <1>1, <1>2, <1>3, <1>5, <1>6, <1>7, <2>1, <2>2, <2>3
<1> QED
  BY <1>8, <1>9

\* Offer: the slot is in the cache, with what the walk lists if nobody reads it.
Offered(h, s) == IF held[s] = None /\ Unread(s) THEN [held EXCEPT ![s] = walk[h]] ELSE held

\* What a walk offers goes into an empty slot nobody reads, or nowhere.
LEMMA OfferEffect ==
  ASSUME CacheTyped, StacksInOrder, NEW h \in Handles, NEW p \in Parts, Offer(h, p)
  PROVE  LET s == SlotOf(opened[h], p) IN
         /\ Ready(h) /\ opened[h] # 0 /\ walk[h] # None
         /\ s \in Slots /\ s[1] = opened[h] /\ s[2] = p
         /\ UNCHANGED <<now, version, drawn, anchored, handleVars>>
         /\ With(s) \in Entries /\ Offered(h, s) \in Values /\ Settle(With(s), Offered(h, s))
         /\ \A t \in Slots : held[t] # None => Offered(h, s)[t] = held[t]
         /\ \A t \in Slots : Offered(h, s)[t] # None => Offered(h, s)[t] = held[t] \/ (t = s /\ Offered(h, s)[t] = walk[h])
<1>1. walk[h] # None /\ stack[h] = <<>>
  BY DEF Offer
<1>2. Ready(h) /\ opened[h] # 0
  BY <1>1 DEF StacksInOrder, HandleInOrder, Ready
<1>3. DOMAIN stack[h] = {}
  BY <1>1
<1>4. SlotOf(opened[h], p) \in Slots /\ SlotOf(opened[h], p)[1] = opened[h] /\ SlotOf(opened[h], p)[2] = p
  BY <1>2, <1>3, SlotOfIs
<1>5. held \in Values /\ walk[h] \in Versions
  BY DEF CacheTyped, Values
<1>6. ASSUME NEW s \in Slots
      PROVE  /\ Offered(h, s) \in Values
             /\ \A t \in Slots : held[t] # None => Offered(h, s)[t] = held[t]
             /\ \A t \in Slots : Offered(h, s)[t] # None =>
                  Offered(h, s)[t] = held[t] \/ (t = s /\ Offered(h, s)[t] = walk[h])
  BY <1>5 DEF Offered, Values
<1>7. /\ UNCHANGED <<now, version, drawn, anchored, handleVars>>
      /\ Settle(With(SlotOf(opened[h], p)), Offered(h, SlotOf(opened[h], p)))
  BY DEF Offer, Offered
<1> QED
  BY <1>1, <1>2, <1>4, <1>6, <1>7, WithIs

-----------------------------------------------------------------------------
(* The types, and the order of the stacks, are kept.                       *)

\* A value that stays is the one there was.
LEMMA SameStays ==
  ASSUME UNCHANGED <<anchorOf, held>>
  PROVE  ValuesStay
  BY DEF ValuesStay, Value, ValueThen

\* The cache stays typed when it is settled.
LEMMA SettledTyped ==
  ASSUME CacheTyped, NEW entries \in Entries, NEW values \in Values, Settle(entries, values),
         now' \in 0..LastTime, version' = version, drawn' = drawn, anchored' \in 0..drawn,
         opened' \in [Handles -> 0..drawn], stack' \in [Handles -> Seq(Frames)],
         walk' \in [Handles -> Versions], took' \in [Handles -> SUBSET (0..LastVersion)]
  PROVE  CacheTyped'
<1>1. /\ expires' \in [Generations -> 0..(LastTime + Lifetime)]
      /\ anchorOf' \in [Generations -> Versions]
      /\ resident' \in Entries /\ held' \in Values
  BY SettleEffect
<1> QED
  BY <1>1 DEF CacheTyped, Entries, Values

\* A settled step in which one handle moves, and no more is given than it has been before.
LEMMA SettledInOrder ==
  ASSUME CacheTyped, StacksInOrder, NEW entries \in Entries, NEW values \in Values,
         Settle(entries, values), \A s \in Slots : held[s] # None => values[s] # None,
         version' = version, drawn' = drawn, opened' = opened, walk' = walk,
         NEW h \in Handles, OthersAsTheyWere(h), ValuesStay => InOrderNow(h)
  PROVE  \A k \in Handles : InOrderNow(k)
<1>1. stack' \in [Handles -> Seq(Frames)] /\ opened' \in [Handles -> 0..LastGeneration]
  BY Constants DEF OthersAsTheyWere, CacheTyped
<1>2. ValuesStay
  BY <1>1, SettleStays
<1>3. version \in Nat /\ version <= version'
  BY Constants DEF CacheTyped
<1>4. \A k \in Handles : k # h => InOrderNow(k)
  BY <1>2, <1>3, OtherInOrder DEF OthersAsTheyWere
<1> QED
  BY <1>2, <1>4

\* The same of one in which none does.
LEMMA StillInOrder ==
  ASSUME CacheTyped, StacksInOrder, ValuesStay, version' \in Nat, version <= version',
         opened' = opened, stack' = stack, took' = took,
         \A k \in Handles : walk'[k] # None => walk[k] # None
  PROVE  \A k \in Handles : InOrderNow(k)
  BY OtherInOrder

\* Each operation keeps the types and the order of the stacks: the catalog is opened,
LEMMA OpenInOrder ==
  ASSUME CacheTyped, StacksInOrder, ReadAfterAnchor, NEW h \in Handles, Open(h) \/ OpenRenewed(h)
  PROVE  CacheTyped' /\ \A k \in Handles : InOrderNow(k)
<1>1. /\ opened[h] = 0 /\ stack[h] = <<>> /\ took[h] = {} /\ walk[h] = None
      /\ UNCHANGED <<now, version, held, resident, walk, anchorOf>>
      /\ OthersAsTheyWere(h)
  BY OpenEffect
<1>2. PICK g \in Generations :
              /\ opened' = [opened EXCEPT ![h] = g]
              /\ \/ Open(h) /\ FindsAnchor(h, g)
                 \/ Open(h) /\ MakesAnchor(h, g) /\ anchored = 0 /\ anchored' = g
                 \/ OpenRenewed(h) /\ MakesAnchor(h, g) /\ anchored' = anchored
  BY OpenEffect
<1>3. version' \in Nat /\ version <= version' /\ ValuesStay /\ anchorOf'[g] \in Versions
  BY <1>1, <1>2, SameStays, Constants DEF CacheTyped
<1>4. opened'[h] = g /\ \A k \in Handles : k # h => opened'[k] = opened[k]
  BY <1>2 DEF CacheTyped
<1>5. InOrderNow(h)
  <2>1. \/ stack'[h] = <<>> /\ took'[h] # {} /\ anchorOf[g] # None
        \/ /\ took'[h] = {} /\ anchorOf[g] = None
           /\ \/ stack'[h] = <<Frame(<<g, Anchor, 0>>, "waiting")>>
              \/ stack'[h] = <<Frame(<<g, Anchor, 0>>, "reading")>>
    BY <1>2 DEF FindsAnchor, MakesAnchor
  <2> QED
    BY <1>1, <1>3, <1>4, <2>1, AtTheAnchor
<1>6. \A k \in Handles : k # h => InOrderNow(k)
  BY <1>1, <1>3, <1>4, OtherInOrder DEF OthersAsTheyWere
<1>7. CacheTyped'
  <2>1. drawn \in Nat /\ drawn' \in 0..LastGeneration /\ drawn <= drawn' /\ g \in 0..drawn' /\ anchored' \in 0..drawn'
    <3>1. drawn \in 0..LastGeneration /\ anchored \in 0..drawn /\ LastGeneration \in Nat /\ g \in 1..LastGeneration
      BY Constants DEF CacheTyped, Generations
    <3>2. CASE FindsAnchor(h, g)
      BY <3>1, <3>2 DEF FindsAnchor
    <3>3. CASE MakesAnchor(h, g) /\ anchored' \in {g, anchored}
      <4>1. drawn' = g /\ g = drawn + 1
        BY <3>3 DEF MakesAnchor
      <4> QED
        BY <3>1, <3>3, <4>1
    <3> QED
      BY <1>2, <3>2, <3>3
  <2>2. opened' \in [Handles -> 0..drawn']
    BY <1>2, <2>1 DEF CacheTyped
  <2>3. now + Lifetime \in 0..(LastTime + Lifetime)
    BY Constants DEF CacheTyped
  <2>4. expires' \in [Generations -> 0..(LastTime + Lifetime)]
    BY <1>2, <2>3 DEF CacheTyped, FindsAnchor, MakesAnchor
  <2> QED
    BY <1>1, <2>1, <2>2, <2>4 DEF CacheTyped, OthersAsTheyWere
<1> QED
  BY <1>5, <1>6, <1>7

\* a part is asked for,
LEMMA AskInOrder ==
  ASSUME CacheTyped, StacksInOrder, NEW h \in Handles, NEW p \in Parts, Ask(h, p)
  PROVE  CacheTyped' /\ \A k \in Handles : InOrderNow(k)
<1> DEFINE s == SlotOf(opened[h], p)
           top == Frame(s, IF Unread(s) THEN "reading" ELSE "waiting")
<1>1. /\ Ready(h) /\ opened[h] # 0
      /\ s \in Slots /\ s[1] = opened[h] /\ s[2] = p
      /\ \A i \in 1 .. Len(stack[h]) :
           stack[h][i].slot[2] \in Parts /\ Depth[p] < Depth[stack[h][i].slot[2]]
      /\ OthersAsTheyWere(h)
      /\ \/ held[s] # None /\ Unmoved(h) /\ took'[h] = took[h] \cup {held[s]}
         \/ held[s] = None /\ Pushed(h, top) /\ took'[h] = took[h]
  BY AskEffect
<1>2. Settle(With(s), held) /\ UNCHANGED <<now, version, drawn, anchored, opened, walk>>
  BY DEF Ask
<1>3. With(s) \in Entries /\ held \in Values
  BY <1>1, WithIs DEF CacheTyped, Values
<1>4. version' \in Nat /\ version <= version'
  BY <1>2, Constants DEF CacheTyped
<1>5. /\ top.slot = s /\ top.at \in {"reading", "waiting"}
      /\ top.at = "reading" => top.copy = version
      /\ top.needs \subseteq IF s[2] = Anchor THEN {} ELSE Needs[s[2]]
  BY <1>1, FrameIs
<1> HIDE DEF s, top
<1>6. took'[h] # {} /\ took[h] # {} /\ p # Anchor /\ stack'[h] \in Seq(Frames)
  BY <1>1, Constants DEF Ready, OthersAsTheyWere
<1>7. FrameNow(h, top)
  <2>1. top.slot[1] = opened'[h] /\ top.slot[2] = p /\ version' = version /\ top.at # "filled"
    BY <1>1, <1>2, <1>5
  <2>2. top.at = "reading" => top.copy \in 0..version'
    BY <1>4, <1>5, <2>1
  <2>3. top.needs \subseteq Needs[p]
    BY <1>1, <1>5, <1>6
  <2> QED
    BY <1>6, <2>1, <2>2, <2>3 DEF FrameNow
<1>8. ValuesStay => InOrderNow(h)
  <2>1. opened'[h] = opened[h] /\ (took'[h] = {} <=> took[h] = {}) /\ (walk'[h] # None => took'[h] # {})
    BY <1>2, <1>6
  <2>2. \/ Unmoved(h)
        \/ /\ Pushed(h, top) /\ FrameNow(h, top) /\ Ready(h)
           /\ \A i \in 1 .. Len(stack[h]) : Depth[top.slot[2]] < Depth[stack[h][i].slot[2]]
    BY <1>1, <1>5, <1>7
  <2> QED
    BY <1>1, <1>4, <1>6, <2>1, <2>2, MoverInOrder
<1>9. \A k \in Handles : InOrderNow(k)
  BY <1>1, <1>2, <1>3, <1>8, SettledInOrder
<1>10. CacheTyped'
  <2>1. /\ now' \in 0..LastTime /\ anchored' \in 0..drawn
        /\ opened' \in [Handles -> 0..drawn] /\ walk' \in [Handles -> Versions]
    BY <1>2 DEF CacheTyped
  <2> QED
    BY <1>1, <1>2, <1>3, <2>1, SettledTyped DEF OthersAsTheyWere
<1> QED
  BY <1>9, <1>10

\* who waits begins to read,
LEMMA BeginEffect ==
  ASSUME CacheTyped, StacksInOrder, NEW h \in Handles, Begin(h)
  PROVE  LET s == Top(h).slot IN
         /\ stack[h] # <<>> /\ Value(s) = None /\ Unread(s)
         /\ OthersAsTheyWere(h) /\ Frame(s, "reading") \in Frames /\ Swapped(h, Frame(s, "reading"))
         /\ UNCHANGED <<now, version, drawn, expires, anchorOf, held, anchored, resident, opened,
                        walk, took>>
<1>1. stack[h] # <<>> /\ Becomes(h, Frame(Top(h).slot, "reading")) /\ took' = took
  BY DEF Begin, Doing
<1>2. Frame(Top(h).slot, "reading") \in Frames
  BY <1>1, TopIs, FrameIs
<1> QED
  BY <1>1, <1>2, BecomesEffect DEF Begin

\* which keeps the order,
LEMMA BeginInOrder ==
  ASSUME CacheTyped, StacksInOrder, NEW h \in Handles, Begin(h)
  PROVE  CacheTyped' /\ \A k \in Handles : InOrderNow(k)
<1> DEFINE s == Top(h).slot
           top == Frame(s, "reading")
<1>1. /\ stack[h] # <<>> /\ Value(s) = None
      /\ OthersAsTheyWere(h) /\ Swapped(h, top)
      /\ UNCHANGED <<now, version, drawn, expires, anchorOf, held, anchored, resident, opened,
                     walk, took>>
  BY BeginEffect
<1>2. /\ FrameInOrder(h, Top(h)) /\ s \in Slots \cup AnchorSlots /\ s[1] = opened[h] /\ opened[h] # 0
  BY <1>1, TopIs
<1>3. /\ top.slot = s /\ top.at = "reading" /\ top.copy = version
      /\ top.needs \subseteq IF s[2] = Anchor THEN {} ELSE Needs[s[2]]
  BY <1>2, FrameIs
<1>4. ValuesStay /\ version' = version /\ version' \in Nat /\ version <= version'
  BY <1>1, SameStays, Constants DEF CacheTyped
<1> HIDE DEF top
<1>5. FrameNow(h, top)
  <2>1. ValueThen(s) = None
    BY <1>1 DEF Value, ValueThen
  <2>2. s[2] = Anchor <=> took[h] = {}
    BY <1>2 DEF FrameInOrder, Ready
  <2> QED
    BY <1>1, <1>2, <1>3, <1>4, <2>1, <2>2 DEF FrameNow
<1>6. InOrderNow(h)
  <2>1. walk'[h] # None => took'[h] # {}
    BY <1>1 DEF StacksInOrder, HandleInOrder, Ready
  <2> QED
    BY <1>1, <1>2, <1>3, <1>4, <1>5, <2>1, MoverInOrder DEF OthersAsTheyWere
<1>7. \A k \in Handles : k # h => InOrderNow(k)
  BY <1>1, <1>4, OtherInOrder DEF OthersAsTheyWere
<1>8. CacheTyped'
  BY <1>1 DEF CacheTyped, OthersAsTheyWere
<1> QED
  BY <1>6, <1>7, <1>8

\* What is delivered of the anchor is read by nobody else.
LEMMA DeliverInOrder ==
  ASSUME CacheTyped, StacksInOrder, OneReads, NEW h \in Handles, Deliver(h)
  PROVE  CacheTyped' /\ \A k \in Handles : InOrderNow(k)
<1> DEFINE s == Top(h).slot
           top == Frame(s, "filled")
           n == Len(stack[h])
<1>1. /\ stack[h] # <<>> /\ Top(h).at = "reading" /\ Top(h).copy \in 0..version
      /\ OthersAsTheyWere(h) /\ took' = took
      /\ Swapped(h, top)
      /\ UNCHANGED <<now, version, drawn, expires, anchored, resident, opened, walk>>
      /\ IF s[2] = Anchor
         THEN anchorOf' = [anchorOf EXCEPT ![opened[h]] = Top(h).copy] /\ held' = held
         ELSE held' = [held EXCEPT ![s] = Top(h).copy] /\ anchorOf' = anchorOf
  BY DeliverEffect
<1>2. /\ FrameInOrder(h, Top(h)) /\ s \in Slots \cup AnchorSlots /\ s[1] = opened[h] /\ opened[h] # 0
      /\ opened[h] \in Generations /\ Top(h) = stack[h][n] /\ n \in DOMAIN stack[h] /\ n \in Nat \ {0}
      /\ s[2] = Anchor => n = 1
  BY <1>1, TopIs
<1>3. /\ top.slot = s /\ top.at = "filled"
      /\ top.needs \subseteq IF s[2] = Anchor THEN {} ELSE Needs[s[2]]
  BY <1>2, FrameIs
<1>4. Top(h).copy \in Versions /\ Top(h).copy # None /\ version' = version /\ version' \in Nat /\ version <= version'
  BY <1>1, Constants DEF CacheTyped, Versions
<1>5. s[2] # Anchor => s \in Slots
  BY <1>2, SlotKinds
<1>6. ValueThen(s) # None
  BY <1>1, <1>2, <1>4, <1>5 DEF ValueThen, CacheTyped
<1>7. /\ \A g \in Generations : anchorOf[g] # None => anchorOf'[g] # None
      /\ \A t \in Slots : held[t] # None => held'[t] # None
      /\ \A g \in Generations : g # opened[h] \/ s[2] # Anchor => anchorOf'[g] = anchorOf[g]
  BY <1>1, <1>2, <1>4, <1>5 DEF CacheTyped
<1> HIDE DEF top
<1>8. ASSUME NEW k \in Handles, NEW i \in 1 .. Len(stack'[k]), stack'[k][i].slot[1] = opened'[k],
             stack'[k][i].at = "reading", stack'[k][i].slot[2] = Anchor, s[2] = Anchor
      PROVE  opened[k] # opened[h]
  <2>1. CASE k = h
    <3>1. Len(stack'[h]) = n /\ stack'[h][n] = top
      BY <1>1 DEF Swapped
    <3>2. i = n
      BY <1>2, <1>8, <2>1, <3>1
    <3> QED
      BY <1>3, <1>8, <2>1, <3>1, <3>2
  <2>2. CASE k # h
    <3>1. stack'[k] = stack[k] /\ i \in DOMAIN stack[k] /\ opened'[k] = opened[k]
      BY <1>1, <2>2, LenProperties DEF OthersAsTheyWere, CacheTyped
    <3>2. stack[k][i].slot # s
      BY <1>1, <1>2, <1>8, <2>2, <3>1 DEF OneReads
    <3>3. stack[k][i] \in Frames
      BY <3>1, ElementOfSeq, LenProperties DEF CacheTyped
    <3>4. stack[k][i].slot = <<opened[k], Anchor, 0>>
      BY <1>8, <3>1, <3>3, FrameHas, SlotKinds
    <3>5. s = <<opened[h], Anchor, 0>>
      BY <1>2, <1>8, SlotKinds
    <3> QED
      BY <3>2, <3>4, <3>5
  <2> QED
    BY <2>1, <2>2
<1>9. ValuesStay
  <2>1. \A k \in Handles : opened'[k] # 0 => opened'[k] \in Generations
    <3>1. opened' \in [Handles -> 0..LastGeneration]
      BY <1>1, Constants DEF CacheTyped
    <3> QED
      BY <3>1, Constants DEF Generations
  <2>2. ASSUME NEW k \in Handles, NEW i \in 1 .. Len(stack'[k]), stack'[k][i].slot[1] = opened'[k]
        PROVE  LET f == stack'[k][i] IN
               /\ Value(f.slot) # None => ValueThen(f.slot) # None
               /\ f.at = "reading" /\ f.slot[2] = Anchor => ValueThen(f.slot) = Value(f.slot)
    <3> DEFINE f == stack'[k][i]
    <3>1. f \in Frames
      BY <1>1, ElementOfSeq, LenProperties DEF OthersAsTheyWere
    <3>2. f.slot \in Slots \cup AnchorSlots /\ f.slot[1] \in Generations /\ (f.slot[2] # Anchor => f.slot \in Slots)
      BY <3>1, FrameHas, SlotKinds
    <3>3. Value(f.slot) # None => ValueThen(f.slot) # None
      BY <1>7, <3>2 DEF Value, ValueThen
    <3>4. f.at = "reading" /\ f.slot[2] = Anchor => ValueThen(f.slot) = Value(f.slot)
      <4>1. SUFFICES ASSUME f.at = "reading", f.slot[2] = Anchor PROVE anchorOf'[f.slot[1]] = anchorOf[f.slot[1]]
        BY DEF Value, ValueThen
      <4>2. opened'[k] = opened[k]
        BY <1>1
      <4> QED
        BY <1>7, <1>8, <2>2, <3>2, <4>1, <4>2
    <3> QED
      BY <3>3, <3>4
  <2> QED
    BY <1>7, <2>1, <2>2 DEF ValuesStay
<1>10. FrameNow(h, top)
  <2>1. s[2] = Anchor <=> took[h] = {}
    BY <1>2 DEF FrameInOrder, Ready
  <2> QED
    BY <1>1, <1>2, <1>3, <1>4, <1>6, <2>1 DEF FrameNow
<1>11. InOrderNow(h)
  <2>1. walk'[h] # None => took'[h] # {}
    BY <1>1 DEF StacksInOrder, HandleInOrder, Ready
  <2> QED
    BY <1>1, <1>2, <1>3, <1>4, <1>9, <1>10, <2>1, MoverInOrder DEF OthersAsTheyWere
<1>12. \A k \in Handles : k # h => InOrderNow(k)
  BY <1>1, <1>4, <1>9, OtherInOrder DEF OthersAsTheyWere
<1>13. CacheTyped'
  <2>1. anchorOf' \in [Generations -> Versions] /\ held' \in [Slots -> Versions]
    BY <1>1, <1>2, <1>4, <1>5 DEF CacheTyped
  <2> QED
    BY <1>1, <2>1 DEF CacheTyped, OthersAsTheyWere
<1> QED
  BY <1>11, <1>12, <1>13

\* a part is given and its slot put in the cache again,
LEMMA PutInOrder ==
  ASSUME CacheTyped, StacksInOrder, NEW h \in Handles, Put(h)
  PROVE  CacheTyped' /\ \A k \in Handles : InOrderNow(k)
<1> DEFINE s == Top(h).slot
<1>1. /\ Runnable(h) /\ stack[h] # <<>> /\ Value(s) \in 0..LastVersion
      /\ OthersAsTheyWere(h) /\ Popped(h) /\ took'[h] = took[h] \cup {Value(s)}
      /\ UNCHANGED <<now, version, drawn, opened, walk>>
      /\ \/ /\ s = <<opened[h], Anchor, 0>> /\ stack'[h] = <<>>
            /\ anchored' = (IF Live(opened[h]) THEN opened[h] ELSE 0)
            /\ resident \in Entries /\ Settle(resident, held)
         \/ /\ s \in Slots /\ s[1] = opened[h] /\ s[2] \in Parts /\ Ready(h)
            /\ anchored' = anchored
            /\ With(s) \in Entries /\ Settle(With(s), held)
  BY PutEffect
<1>2. PICK entries \in Entries : Settle(entries, held)
  BY <1>1
<1>3. held \in Values /\ version' \in Nat /\ version <= version' /\ opened[h] # 0 /\ opened[h] \in 0..drawn
  BY <1>1, TopIs, Constants DEF CacheTyped, Values
<1>4. anchored' \in 0..drawn
  BY <1>1, <1>3 DEF CacheTyped
<1>5. took'[h] # {}
  BY <1>1
<1>6. ASSUME ValuesStay PROVE InOrderNow(h)
  <2>1. CASE s = <<opened[h], Anchor, 0>> /\ stack'[h] = <<>>
    <3>1. Value(s) = anchorOf[opened[h]]
      BY <2>1 DEF Value
    <3>2. Value(s) # None
      BY <1>1, RunnableHas
    <3>3. anchorOf'[opened'[h]] # None /\ opened'[h] # 0
      BY <1>1, <1>3, <1>6, <3>1, <3>2 DEF ValuesStay
    <3>4. DOMAIN stack'[h] = {} /\ Len(stack'[h]) = 0
      BY <2>1, EmptySeq, LenProperties
    <3> QED
      BY <1>5, <3>3, <3>4 DEF InOrderNow, HandleNow
  <2>2. CASE Ready(h)
    <3>1. took'[h] = {} <=> took[h] = {}
      BY <1>5, <2>2 DEF Ready
    <3>2. opened'[h] = opened[h] /\ stack'[h] \in Seq(Frames)
      BY <1>1 DEF OthersAsTheyWere
    <3> QED
      BY <1>1, <1>3, <1>5, <1>6, <3>1, <3>2, MoverInOrder
  <2> QED
    BY <1>1, <2>1, <2>2
<1>7. \A k \in Handles : InOrderNow(k)
  BY <1>1, <1>2, <1>3, <1>6, SettledInOrder
<1>8. CacheTyped'
  <2>1. now' \in 0..LastTime /\ opened' \in [Handles -> 0..drawn] /\ walk' \in [Handles -> Versions]
    BY <1>1 DEF CacheTyped
  <2> QED
    BY <1>1, <1>2, <1>3, <1>4, <2>1, SettledTyped DEF OthersAsTheyWere
<1> QED
  BY <1>7, <1>8

\* a part that cannot be read is left,
LEMMA FailEffect ==
  ASSUME CacheTyped, StacksInOrder, NEW h \in Handles, Fail(h)
  PROVE  /\ stack[h] # <<>> /\ Ready(h) /\ opened[h] # 0
         /\ OthersAsTheyWere(h) /\ Popped(h) /\ took' = took
         /\ UNCHANGED <<now, version, drawn, anchored, opened, walk>>
         /\ resident \in Entries /\ held \in Values /\ Settle(resident, held)
<1>1. stack[h] # <<>> /\ Top(h).slot[2] # Anchor /\ took' = took
  BY DEF Fail, Doing
<1>2. Ready(h) /\ opened[h] # 0
  BY <1>1, TopIs DEF FrameInOrder
<1>3. OthersAsTheyWere(h) /\ Popped(h)
  BY <1>1, OuterEffect DEF Fail, OthersAsTheyWere, CacheTyped
<1> QED
  BY <1>1, <1>2, <1>3 DEF Fail, CacheTyped, Entries, Values

\* which keeps the order,
LEMMA FailInOrder ==
  ASSUME CacheTyped, StacksInOrder, NEW h \in Handles, Fail(h)
  PROVE  CacheTyped' /\ \A k \in Handles : InOrderNow(k)
<1>1. /\ stack[h] # <<>> /\ Ready(h) /\ opened[h] # 0
      /\ OthersAsTheyWere(h) /\ Popped(h) /\ took' = took
      /\ UNCHANGED <<now, version, drawn, anchored, opened, walk>>
      /\ resident \in Entries /\ held \in Values /\ Settle(resident, held)
  BY FailEffect
<1>2. version' \in Nat /\ version <= version'
  BY <1>1, Constants DEF CacheTyped
<1>3. ValuesStay => InOrderNow(h)
  BY <1>1, <1>2, MoverInOrder DEF Ready, OthersAsTheyWere
<1>4. \A k \in Handles : InOrderNow(k)
  BY <1>1, <1>3, SettledInOrder
<1>5. CacheTyped'
  BY <1>1, SettledTyped DEF CacheTyped, OthersAsTheyWere
<1> QED
  BY <1>4, <1>5

\* a handle that closes leaves everything,
LEMMA CloseEffect ==
  ASSUME CacheTyped, NEW h \in Handles, Close(h)
  PROVE  /\ opened[h] # 0 /\ opened'[h] = 0 /\ stack'[h] = <<>> /\ walk'[h] = None /\ took'[h] = {}
         /\ OthersAsTheyWere(h) /\ opened' \in [Handles -> 0..drawn] /\ walk' \in [Handles -> Versions]
         /\ \A k \in Handles : k # h => opened'[k] = opened[k] /\ walk'[k] = walk[k]
         /\ UNCHANGED <<now, version, drawn, anchored>>
         /\ resident \in Entries /\ held \in Values /\ Settle(resident, held)
<1>1. <<>> \in Seq(Frames) /\ 0 \in 0..drawn /\ None \in Versions
  BY EmptySeq, Constants DEF CacheTyped, Versions
<1> QED
  BY <1>1 DEF Close, CacheTyped, OthersAsTheyWere, Entries, Values

\* which keeps the order,
LEMMA CloseInOrder ==
  ASSUME CacheTyped, StacksInOrder, NEW h \in Handles, Close(h)
  PROVE  CacheTyped' /\ \A k \in Handles : InOrderNow(k)
<1>1. /\ opened[h] # 0 /\ opened'[h] = 0 /\ stack'[h] = <<>> /\ walk'[h] = None /\ took'[h] = {}
      /\ OthersAsTheyWere(h) /\ opened' \in [Handles -> 0..drawn] /\ walk' \in [Handles -> Versions]
      /\ \A k \in Handles : k # h => opened'[k] = opened[k] /\ walk'[k] = walk[k]
      /\ UNCHANGED <<now, version, drawn, anchored>>
      /\ resident \in Entries /\ held \in Values /\ Settle(resident, held)
  BY CloseEffect
<1>2. stack' \in [Handles -> Seq(Frames)] /\ opened' \in [Handles -> 0..LastGeneration]
  BY <1>1, Constants DEF OthersAsTheyWere, CacheTyped
<1>3. ValuesStay /\ version' \in Nat /\ version <= version'
  <2>1. ValuesStay
    BY <1>1, <1>2, SettleStays
  <2>2. version' = version
    BY <1>1
  <2> QED
    BY <2>1, <2>2, Constants DEF CacheTyped
<1>4. InOrderNow(h)
  <2>1. DOMAIN stack'[h] = {} /\ Len(stack'[h]) = 0
    BY <1>1, EmptySeq, LenProperties
  <2> QED
    BY <1>1, <2>1 DEF InOrderNow, HandleNow
<1>5. \A k \in Handles : k # h => InOrderNow(k)
  BY <1>1, <1>3, OtherInOrder DEF OthersAsTheyWere
<1>6. CacheTyped'
  BY <1>1, SettledTyped DEF CacheTyped, OthersAsTheyWere
<1> QED
  BY <1>4, <1>5, <1>6

\* a walk lists and offers,
LEMMA WalkingInOrder ==
  ASSUME CacheTyped, StacksInOrder, NEW h \in Handles,
         Walk(h) \/ EndWalk(h) \/ \E p \in Parts : Offer(h, p)
  PROVE  CacheTyped' /\ \A k \in Handles : InOrderNow(k)
<1>1. CASE Walk(h)
  <2>1. /\ Ready(h) /\ walk' = [walk EXCEPT ![h] = version]
        /\ UNCHANGED <<now, version, drawn, expires, anchorOf, held, anchored, resident, opened, stack,
                       took>>
    BY <1>1 DEF Walk
  <2>2. ValuesStay /\ version' \in Nat /\ version <= version' /\ version \in Versions
    BY <2>1, SameStays, Constants DEF CacheTyped, Versions
  <2>3. CacheTyped'
    BY <2>1, <2>2 DEF CacheTyped
  <2>4. opened[h] # 0 /\ took'[h] # {} /\ took'[h] = took[h]
    BY <2>1 DEF StacksInOrder, HandleInOrder, Ready
  <2>5. InOrderNow(h)
    <3>1. Unmoved(h) /\ stack'[h] \in Seq(Frames)
      BY <2>1 DEF Unmoved, UpTo, SameFrame, CacheTyped
    <3> QED
      BY <2>1, <2>2, <2>4, <3>1, MoverInOrder
  <2>6. \A k \in Handles : k # h => InOrderNow(k)
    <3>1. \A k \in Handles : k # h => walk'[k] = walk[k]
      BY <2>1
    <3> QED
      BY <2>1, <2>2, <3>1, OtherInOrder
  <2> QED
    BY <2>3, <2>5, <2>6
<1>2. CASE EndWalk(h)
  <2>1. /\ walk' = [walk EXCEPT ![h] = None]
        /\ UNCHANGED <<now, version, drawn, expires, anchorOf, held, anchored, resident, opened, stack,
                       took>>
    BY <1>2 DEF EndWalk
  <2>2. ValuesStay /\ version' \in Nat /\ version <= version' /\ None \in Versions
    BY <2>1, SameStays, Constants DEF CacheTyped, Versions
  <2>3. CacheTyped'
    BY <2>1, <2>2 DEF CacheTyped
  <2>4. \A k \in Handles : walk'[k] # None => walk[k] # None
    BY <2>1 DEF CacheTyped
  <2> QED
    BY <2>1, <2>2, <2>3, <2>4, StillInOrder
<1>3. ASSUME NEW p \in Parts, Offer(h, p)
      PROVE  CacheTyped' /\ \A k \in Handles : InOrderNow(k)
  <2> DEFINE s == SlotOf(opened[h], p)
  <2>1. /\ UNCHANGED <<now, version, drawn, anchored, handleVars>>
        /\ With(s) \in Entries /\ Offered(h, s) \in Values /\ Settle(With(s), Offered(h, s))
        /\ \A t \in Slots : held[t] # None => Offered(h, s)[t] = held[t]
    BY <1>3, OfferEffect
  <2> HIDE DEF s
  <2>2. opened' = opened /\ stack' = stack /\ walk' = walk /\ took' = took
    BY <2>1 DEF handleVars
  <2>3. stack' \in [Handles -> Seq(Frames)] /\ opened' \in [Handles -> 0..LastGeneration]
    BY <2>2, Constants DEF CacheTyped
  <2>4. ValuesStay
    <3> DEFINE values == Offered(h, s)
    <3>1. values \in Values /\ Settle(With(s), values) /\ \A t \in Slots : held[t] # None => values[t] # None
      BY <2>1
    <3> HIDE DEF values
    <3> QED
      BY <2>1, <2>3, <3>1, SettleStays
  <2>5. version' \in Nat /\ version <= version'
    BY <2>1, Constants DEF CacheTyped
  <2>6. \A k \in Handles : InOrderNow(k)
    BY <2>2, <2>4, <2>5, StillInOrder
  <2>7. /\ now' \in 0..LastTime /\ anchored' \in 0..drawn /\ opened' \in [Handles -> 0..drawn]
        /\ walk' \in [Handles -> Versions] /\ took' \in [Handles -> SUBSET (0..LastVersion)]
    BY <2>1, <2>2 DEF CacheTyped
  <2>8. CacheTyped'
    BY <2>1, <2>3, <2>7, SettledTyped
  <2> QED
    BY <2>6, <2>8
<1> QED
  BY <1>1, <1>2, <1>3

\* and the cache, the clock and the store move by themselves.
LEMMA CacheInOrder ==
  ASSUME CacheTyped, StacksInOrder, CacheStep
  PROVE  CacheTyped' /\ \A k \in Handles : InOrderNow(k)
<1>1. resident \in Entries /\ held \in Values /\ version \in Nat /\ None \in Versions
  BY Constants DEF CacheTyped, Entries, Values, Versions
<1>2. ASSUME NEW entries \in Entries, Settle(entries, held), now' \in 0..LastTime,
             version' = version, drawn' = drawn, anchored' \in 0..drawn, handleVars' = handleVars
      PROVE  CacheTyped' /\ \A k \in Handles : InOrderNow(k)
  <2>1. opened' = opened /\ stack' = stack /\ walk' = walk /\ took' = took
    BY <1>2 DEF handleVars
  <2>2. /\ stack' \in [Handles -> Seq(Frames)] /\ opened' \in [Handles -> 0..LastGeneration]
        /\ opened' \in [Handles -> 0..drawn] /\ walk' \in [Handles -> Versions]
        /\ took' \in [Handles -> SUBSET (0..LastVersion)]
    BY <2>1, Constants DEF CacheTyped
  <2>3. ValuesStay
    BY <1>1, <1>2, <2>2, SettleStays
  <2>4. version' \in Nat /\ version <= version'
    BY <1>1, <1>2
  <2>5. CacheTyped'
    BY <1>1, <1>2, <2>2, SettledTyped
  <2> QED
    BY <2>1, <2>3, <2>4, <2>5, StillInOrder
<1>3. now \in 0..LastTime /\ anchored \in 0..drawn /\ 0 \in 0..drawn
  BY Constants DEF CacheTyped
<1>4. CASE EvictAnchor
  BY <1>1, <1>2, <1>3, <1>4 DEF EvictAnchor
<1>5. ASSUME NEW g \in Generations, NEW p \in Parts, Evict(g, p)
      PROVE  CacheTyped' /\ \A k \in Handles : InOrderNow(k)
  <2>1. [resident EXCEPT ![<<g, p>>] = 0] \in Entries
    BY <1>1, Constants DEF Entries
  <2> QED
    BY <1>2, <1>3, <1>5, <2>1 DEF Evict
<1>6. CASE Tick
  <2> DEFINE entries == [e \in Generations \X Parts |-> IF now' < expires[e[1]] THEN resident[e] ELSE 0]
  <2>1. entries \in Entries
    BY <1>1, Constants DEF Entries
  <2>2. now' \in 0..LastTime /\ anchored' \in 0..drawn
    BY <1>3, <1>6, Constants DEF Tick
  <2>3. Settle(entries, held) /\ UNCHANGED <<version, drawn, handleVars>>
    BY <1>6 DEF Tick
  <2> HIDE DEF entries
  <2> QED
    BY <1>2, <2>1, <2>2, <2>3
<1>7. CASE Publish \/ UNCHANGED vars
  <2>1. /\ UNCHANGED <<now, drawn, expires, anchorOf, held, anchored, resident, handleVars>>
        /\ version' \in 0..LastVersion /\ version <= version'
    BY <1>1, <1>7, Constants DEF Publish, vars, CacheTyped
  <2>2. opened' = opened /\ stack' = stack /\ walk' = walk /\ took' = took
    BY <2>1 DEF handleVars
  <2>3. CacheTyped'
    BY <2>1, <2>2 DEF CacheTyped
  <2>4. ValuesStay /\ version' \in Nat
    BY <2>1, SameStays, Constants
  <2> QED
    BY <2>1, <2>2, <2>3, <2>4, StillInOrder
<1> QED
  BY <1>4, <1>5, <1>6, <1>7 DEF CacheStep

\* Every operation keeps the types and the order.
LEMMA OrderKept ==
  ASSUME CacheTyped, StacksInOrder, OneReads, ReadAfterAnchor, Operation
  PROVE  CacheTyped' /\ StacksInOrder'
<1>1. ASSUME NEW h \in Handles, HandleStep(h) PROVE CacheTyped' /\ \A k \in Handles : InOrderNow(k)
  BY <1>1, OpenInOrder, AskInOrder, BeginInOrder, DeliverInOrder, PutInOrder, FailInOrder,
     CloseInOrder, WalkingInOrder DEF HandleStep
<1> QED
  BY <1>1, CacheInOrder, OrderNow DEF Operation

-----------------------------------------------------------------------------
(* One reads a part at a time.                                             *)

\* What a handle reads after its step it was reading, or nobody was.
ReadsAlone(h) ==
  \A j \in 1 .. Len(stack'[h]) :
    stack'[h][j].at = "reading" =>
      \/ \E i \in DOMAIN stack[h] : stack[h][i].slot = stack'[h][j].slot /\ stack[h][i].at = "reading"
      \/ Unread(stack'[h][j].slot)

\* Whose readings are those it had, or of a slot nobody read, reads alone.
LEMMA ReadsAloneKeeps ==
  ASSUME CacheTyped, CacheTyped', OneReads, NEW h \in Handles, ReadsAlone(h),
         \A k \in Handles : k # h => stack'[k] = stack[k]
  PROVE  OneReads'
<1>1. \A k \in Handles : DOMAIN stack'[k] = 1 .. Len(stack'[k])
  BY LenProperties DEF CacheTyped
<1>2. ASSUME NEW k \in Handles, NEW j \in DOMAIN stack'[k], stack'[k][j].at = "reading"
      PROVE  \/ \E i \in DOMAIN stack[k] : /\ stack[k][i].slot = stack'[k][j].slot
                                           /\ stack[k][i].at = "reading"
             \/ k = h /\ Unread(stack'[k][j].slot)
  BY <1>1, <1>2 DEF ReadsAlone
<1>3. ASSUME NEW k \in Handles, NEW l \in Handles, NEW i \in DOMAIN stack'[k], NEW j \in DOMAIN stack'[l],
             stack'[k][i].at = "reading", stack'[l][j].at = "reading",
             stack'[k][i].slot = stack'[l][j].slot
      PROVE  k = l
  <2> DEFINE s == stack'[k][i].slot
             Reads(m) == \E n \in DOMAIN stack[m] : stack[m][n].slot = s /\ stack[m][n].at = "reading"
  <2>1. Reads(k) \/ (k = h /\ Unread(s))
    BY <1>2, <1>3
  <2>2. Reads(l) \/ (l = h /\ Unread(s))
    BY <1>2, <1>3
  <2>3. Unread(s) => ~ Reads(k) /\ ~ Reads(l)
    BY DEF Unread
  <2>4. Reads(k) /\ Reads(l) => k = l
    BY DEF OneReads
  <2> HIDE DEF Reads, s
  <2> QED
    BY <2>1, <2>2, <2>3, <2>4
<1> QED
  BY <1>3 DEF OneReads

\* A frame that is the same reads what it read.
LEMMA UpToReads ==
  ASSUME CacheTyped, NEW h \in Handles, NEW n \in Nat, n <= Len(stack[h]), UpTo(stack'[h], h, n)
  PROVE  \A j \in 1 .. n : stack'[h][j].at = "reading" =>
           \E i \in DOMAIN stack[h] : stack[h][i].slot = stack'[h][j].slot /\ stack[h][i].at = "reading"
<1>1. DOMAIN stack[h] = 1 .. Len(stack[h]) /\ Len(stack[h]) \in Nat
  BY LenProperties DEF CacheTyped
<1>2. \A j \in 1 .. n : j \in DOMAIN stack[h] /\ SameFrame(stack'[h][j], stack[h][j])
  BY <1>1 DEF UpTo
<1> QED
  BY <1>2 DEF SameFrame

\* No operation has a part read by two.
LEMMA OneReadsKept ==
  ASSUME CacheTyped, StacksInOrder, OneReads, ReadAfterAnchor, CacheTyped', Operation
  PROVE  OneReads'
<1>1. \A h \in Handles : Len(stack[h]) \in Nat /\ Len(stack[h]) <= Len(stack[h])
  BY LenProperties DEF CacheTyped
<1>2. CASE stack' = stack
  BY <1>2 DEF OneReads
<1>3. ASSUME NEW h \in Handles, OthersAsTheyWere(h) \/ \A k \in Handles : k # h => stack'[k] = stack[k],
             ReadsAlone(h)
      PROVE  OneReads'
  BY <1>3, ReadsAloneKeeps DEF OthersAsTheyWere
<1>4. ASSUME NEW h \in Handles, Open(h) \/ OpenRenewed(h) PROVE OneReads'
  <2>1. PICK g \in Generations : FindsAnchor(h, g) \/ MakesAnchor(h, g)
    BY <1>4, OpenEffect
  <2>2. OthersAsTheyWere(h)
    BY <1>4, OpenEffect
  <2> DEFINE s == <<g, Anchor, 0>>
  <2>3. s \in Slots \cup AnchorSlots
    BY DEF AnchorSlots
  <2>4. CASE FindsAnchor(h, g)
    <3>1. CASE stack'[h] = <<>>
      <4>1. Len(stack'[h]) = 0
        BY <3>1, EmptySeq
      <4> QED
        BY <1>3, <2>2, <4>1 DEF ReadsAlone
    <3>2. CASE stack'[h] = <<Frame(s, IF Unread(s) THEN "reading" ELSE "waiting")>>
      <4> DEFINE at == IF Unread(s) THEN "reading" ELSE "waiting"
      <4>1. Frame(s, at).slot = s /\ Frame(s, at).at = at
        BY <2>3, FrameIs
      <4>2. Len(stack'[h]) = 1 /\ stack'[h][1] = Frame(s, at)
        BY <3>2
      <4>3. ReadsAlone(h)
        BY <4>1, <4>2 DEF ReadsAlone
      <4> QED
        BY <1>3, <2>2, <4>3
    <3> QED
      BY <2>4, <3>1, <3>2 DEF FindsAnchor
  <2>5. CASE MakesAnchor(h, g)
    <3>1. Frame(s, "reading").slot = s
      BY <2>3, FrameIs
    <3>2. Len(stack'[h]) = 1 /\ stack'[h][1] = Frame(s, "reading")
      BY <2>5 DEF MakesAnchor
    <3>3. Unread(s)
      <4>1. ASSUME NEW k \in Handles, NEW i \in DOMAIN stack[k], stack[k][i].slot = s PROVE FALSE
        <5>1. opened[k] = g
          BY <4>1 DEF StacksInOrder, FrameInOrder
        <5>2. opened[k] \in 0..drawn /\ g = drawn + 1 /\ drawn \in Nat
          BY <2>5, Constants DEF CacheTyped, MakesAnchor
        <5> QED
          BY <5>1, <5>2
      <4> QED
        BY <4>1 DEF Unread
    <3>4. ReadsAlone(h)
      BY <3>1, <3>2, <3>3 DEF ReadsAlone
    <3> QED
      BY <1>3, <2>2, <3>4
  <2> QED
    BY <2>1, <2>4, <2>5
<1>5. ASSUME NEW h \in Handles, NEW p \in Parts, Ask(h, p) PROVE OneReads'
  <2> DEFINE s == SlotOf(opened[h], p)
             top == Frame(s, IF Unread(s) THEN "reading" ELSE "waiting")
             n == Len(stack[h])
  <2>1. s \in Slots /\ OthersAsTheyWere(h) /\ (Unmoved(h) \/ Pushed(h, top))
    BY <1>5, AskEffect
  <2>2. top.slot = s /\ (top.at = "reading" => Unread(s))
    BY <2>1, FrameIs
  <2> HIDE DEF top, s
  <2>3. CASE Unmoved(h)
    BY <1>1, <1>3, <2>1, <2>3, UpToReads DEF Unmoved, ReadsAlone
  <2>4. CASE Pushed(h, top)
    <3>1. Len(stack'[h]) = n + 1 /\ UpTo(stack'[h], h, n) /\ stack'[h][n + 1] = top
      BY <2>4 DEF Pushed
    <3>2. \A j \in 1 .. n + 1 : j = n + 1 \/ j \in 1 .. n
      BY <1>1
    <3>3. ReadsAlone(h)
      BY <1>1, <2>2, <3>1, <3>2, UpToReads DEF ReadsAlone
    <3> QED
      BY <1>3, <2>1, <3>3
  <2> QED
    BY <2>1, <2>3, <2>4
<1>6. ASSUME NEW h \in Handles, NEW top, OthersAsTheyWere(h), Swapped(h, top),
             top.at = "reading" => Unread(top.slot)
      PROVE  OneReads'
  <2> DEFINE n == Len(stack[h])
  <2>1. Len(stack'[h]) = n /\ UpTo(stack'[h], h, n - 1) /\ stack'[h][n] = top /\ n \in Nat \ {0}
    BY <1>6, OuterIs DEF Swapped
  <2>2. \A j \in 1 .. n : j = n \/ j \in 1 .. n - 1
    BY <2>1
  <2>3. n - 1 \in Nat /\ n - 1 <= n
    BY <2>1
  <2>4. ReadsAlone(h)
    BY <1>6, <2>1, <2>2, <2>3, UpToReads DEF ReadsAlone
  <2> QED
    BY <1>3, <1>6, <2>4
<1>7. ASSUME NEW h \in Handles, Begin(h) PROVE OneReads'
  <2>1. /\ stack[h] # <<>> /\ Unread(Top(h).slot) /\ OthersAsTheyWere(h)
        /\ Swapped(h, Frame(Top(h).slot, "reading"))
    BY <1>7, BeginEffect
  <2>2. Frame(Top(h).slot, "reading").slot = Top(h).slot
    BY <2>1, TopIs, FrameIs
  <2> QED
    BY <1>6, <2>1, <2>2
<1>8. ASSUME NEW h \in Handles, Deliver(h) PROVE OneReads'
  <2>1. /\ stack[h] # <<>> /\ OthersAsTheyWere(h) /\ Swapped(h, Frame(Top(h).slot, "filled"))
    BY <1>8, DeliverEffect
  <2>2. Frame(Top(h).slot, "filled").at = "filled"
    BY <2>1, TopIs, FrameIs
  <2> QED
    BY <1>6, <2>1, <2>2
<1>9. ASSUME NEW h \in Handles, OthersAsTheyWere(h), Popped(h) PROVE OneReads'
  <2> DEFINE n == Len(stack[h])
  <2>1. Len(stack'[h]) = n - 1 /\ UpTo(stack'[h], h, n - 1) /\ n \in Nat \ {0}
    BY <1>9, OuterIs DEF Popped
  <2>2. n - 1 \in Nat /\ n - 1 <= n
    BY <2>1
  <2>3. ReadsAlone(h)
    BY <2>1, <2>2, UpToReads DEF ReadsAlone
  <2> QED
    BY <1>3, <1>9, <2>3
<1>10. ASSUME NEW h \in Handles, Put(h) \/ Fail(h) PROVE OneReads'
  BY <1>9, <1>10, PutEffect, FailEffect
<1>11. ASSUME NEW h \in Handles, Close(h) PROVE OneReads'
  <2>1. OthersAsTheyWere(h) /\ stack'[h] = <<>>
    BY <1>11, CloseEffect
  <2>2. Len(stack'[h]) = 0
    BY <2>1, EmptySeq
  <2> QED
    BY <1>3, <2>1, <2>2 DEF ReadsAlone
<1>12. ASSUME NEW h \in Handles, Walk(h) \/ EndWalk(h) \/ \E p \in Parts : Offer(h, p) PROVE OneReads'
  BY <1>2, <1>12 DEF Walk, EndWalk, Offer, handleVars
<1>13. CASE CacheStep
  BY <1>2, <1>13 DEF CacheStep, EvictAnchor, Evict, Tick, Publish, vars, handleVars
<1> QED
  BY <1>4, <1>5, <1>7, <1>8, <1>10, <1>11, <1>12, <1>13 DEF Operation, HandleStep

-----------------------------------------------------------------------------
(* What is given was read after the anchor.                                *)

\* The three parts of ReadAfterAnchor after a step.
AnchorsNow == \A g \in Generations : anchorOf'[g] # None => g <= drawn' /\ anchorOf'[g] <= version'
\* The same of what the slots hold, and below, of what a handle was given, lists and reads.
HeldNow ==
  \A s \in Slots : held'[s] # None => anchorOf'[s[1]] # None /\ held'[s] >= anchorOf'[s[1]]
GivenNow(h) ==
  took'[h] # {} =>
    /\ \A v \in took'[h] : v >= anchorOf'[opened'[h]]
    /\ walk'[h] # None => walk'[h] >= anchorOf'[opened'[h]]
    /\ \A i \in DOMAIN stack'[h] :
         stack'[h][i].at = "reading" => stack'[h][i].copy >= anchorOf'[opened'[h]]

\* Together they say what ReadAfterAnchor does.
LEMMA AfterNow ==
  AnchorsNow /\ HeldNow /\ (\A h \in Handles : GivenNow(h)) => ReadAfterAnchor'
  BY DEF AnchorsNow, HeldNow, GivenNow, ReadAfterAnchor, Ready, AnchorVersion

\* What a ready handle's generation has.
LEMMA ReadyHas ==
  ASSUME CacheTyped, StacksInOrder, ReadAfterAnchor, NEW h \in Handles, Ready(h)
  PROVE  /\ opened[h] \in Generations
         /\ anchorOf[opened[h]] # None /\ anchorOf[opened[h]] \in Nat /\ anchorOf[opened[h]] <= version
         /\ \A v \in took[h] : v >= anchorOf[opened[h]]
         /\ walk[h] # None => walk[h] >= anchorOf[opened[h]]
         /\ \A i \in DOMAIN stack[h] :
              stack[h][i].at = "reading" => stack[h][i].copy >= anchorOf[opened[h]]
<1>1. opened[h] # 0 /\ anchorOf[opened[h]] # None
  BY DEF StacksInOrder, HandleInOrder, Ready
<1>2. opened[h] \in Generations
  BY <1>1, Constants DEF CacheTyped, Generations
<1>3. anchorOf[opened[h]] \in Nat
  BY <1>1, <1>2, Constants DEF CacheTyped, Versions
<1> QED
  BY <1>1, <1>2, <1>3 DEF ReadAfterAnchor, AnchorVersion

\* What is left in the cache is as new as it was.
LEMMA SettledAfter ==
  ASSUME CacheTyped, ReadAfterAnchor, StacksInOrder', CacheTyped',
         NEW entries \in Entries, NEW values \in Values, Settle(entries, values),
         \A s \in Slots : values[s] # None => anchorOf[s[1]] # None /\ values[s] >= anchorOf[s[1]],
         drawn' = drawn, version' = version
  PROVE  AnchorsNow /\ HeldNow
<1>1. /\ \A g \in Generations : anchorOf'[g] # None => Reachable(g)' /\ anchorOf'[g] = anchorOf[g]
      /\ \A g \in Generations : Reachable(g)' => anchorOf'[g] = anchorOf[g]
      /\ \A s \in Slots : held'[s] # None => held'[s] = values[s]
      /\ \A s \in Slots :
           held'[s] # None => Reachable(s[1])' \/ \E h \in Handles : s \in InHand(h)'
  BY SettleEffect
<1>2. \A s \in Slots, h \in Handles : s \in InHand(h)' => opened'[h] = s[1]
  BY DEF InHand, StacksInOrder, FrameInOrder
<1>3. \A s \in Slots : s[1] \in Generations
  BY DEF Slots
<1>4. \A s \in Slots, h \in Handles : s \in InHand(h)' => Reachable(s[1])'
  <2>1. \A g \in Generations, h \in Handles : opened'[h] = g => Reachable(g)'
    BY DEF Reachable
  <2>2. TAKE s \in Slots, h \in Handles
  <2>3. HAVE s \in InHand(h)'
  <2> DEFINE g == s[1]
  <2>4. g \in Generations /\ opened'[h] = g
    BY <1>2, <1>3, <2>3
  <2>5. Reachable(g)'
    BY <2>1, <2>4
  <2> QED
    BY <2>5
<1>5. AnchorsNow
  BY <1>1 DEF AnchorsNow, ReadAfterAnchor
<1>6. HeldNow
  <2>1. SUFFICES ASSUME NEW s \in Slots, held'[s] # None
                 PROVE  anchorOf'[s[1]] # None /\ held'[s] >= anchorOf'[s[1]]
    BY DEF HeldNow
  <2>2. Reachable(s[1])' /\ held'[s] = values[s] /\ s[1] \in Generations
    BY <1>1, <1>3, <1>4, <2>1
  <2>3. anchorOf'[s[1]] = anchorOf[s[1]]
    BY <1>1, <2>2
  <2> QED
    BY <2>1, <2>2, <2>3
<1> QED
  BY <1>5, <1>6

\* A handle whose frames stay, with one on top, has what it had and what it is given.
LEMMA MoverAfter ==
  ASSUME CacheTyped, StacksInOrder, ReadAfterAnchor, CacheTyped', NEW h \in Handles,
         NEW v, took'[h] \in {took[h], took[h] \cup {v}},
         v >= anchorOf[opened[h]], Ready(h),
         opened'[h] = opened[h], anchorOf'[opened[h]] = anchorOf[opened[h]],
         walk'[h] \in {walk[h], None, version},
         NEW top, top.at = "reading" => top.copy = version,
         Popped(h) \/ Unmoved(h) \/ Swapped(h, top) \/ Pushed(h, top)
  PROVE  GivenNow(h)
<1> DEFINE a == anchorOf[opened[h]]
           n == Len(stack[h])
           m == Len(stack'[h])
<1>1. /\ a \in Nat /\ a <= version /\ version \in Nat
      /\ \A w \in took[h] : w >= a
      /\ walk[h] # None => walk[h] >= a
      /\ \A i \in DOMAIN stack[h] : stack[h][i].at = "reading" => stack[h][i].copy >= a
  <2>1. version \in Nat
    BY Constants DEF CacheTyped
  <2> QED
    BY <2>1, ReadyHas
<1>2. DOMAIN stack[h] = 1 .. n /\ DOMAIN stack'[h] = 1 .. m /\ n \in Nat /\ m \in Nat
  BY LenProperties DEF CacheTyped
<1>3. \A i \in 1 .. m :
        (i \in 1 .. n /\ SameFrame(stack'[h][i], stack[h][i])) \/ stack'[h][i] = top
  <2>1. CASE Popped(h)
    BY <1>2, <2>1 DEF Popped, UpTo
  <2>2. CASE Unmoved(h)
    BY <1>2, <2>2 DEF Unmoved, UpTo
  <2>3. CASE Swapped(h, top)
    <3>1. m = n /\ stack'[h][n] = top /\ \A i \in 1 .. n - 1 : SameFrame(stack'[h][i], stack[h][i])
      BY <2>3 DEF Swapped, UpTo
    <3>2. \A i \in 1 .. n : i = n \/ i \in 1 .. n - 1
      BY <1>2
    <3> QED
      BY <3>1, <3>2
  <2>4. CASE Pushed(h, top)
    <3>1. m = n + 1 /\ stack'[h][m] = top /\ \A i \in 1 .. n : SameFrame(stack'[h][i], stack[h][i])
      BY <2>4 DEF Pushed, UpTo
    <3>2. \A i \in 1 .. m : i = m \/ i \in 1 .. n
      BY <1>2, <3>1
    <3> QED
      BY <3>1, <3>2
  <2> QED
    BY <2>1, <2>2, <2>3, <2>4
<1>4. \A i \in DOMAIN stack'[h] : stack'[h][i].at = "reading" => stack'[h][i].copy >= a
  <2>1. TAKE i \in DOMAIN stack'[h]
  <2>2. HAVE stack'[h][i].at = "reading"
  <2>3. CASE i \in 1 .. n /\ SameFrame(stack'[h][i], stack[h][i])
    BY <1>1, <1>2, <2>2, <2>3 DEF SameFrame
  <2>4. CASE stack'[h][i] = top
    BY <1>1, <2>2, <2>4
  <2> QED
    BY <1>2, <1>3, <2>3, <2>4
<1>5. walk'[h] # None => walk'[h] >= a
  BY <1>1
<1>6. \A w \in took'[h] : w >= a
  BY <1>1
<1>7. anchorOf'[opened'[h]] = a
  OBVIOUS
<1> HIDE DEF a
<1> QED
  BY <1>4, <1>5, <1>6, <1>7 DEF GivenNow

\* A handle that does not move has what it had.
LEMMA OtherAfter ==
  ASSUME CacheTyped, StacksInOrder, ReadAfterAnchor, NEW h \in Handles,
         opened'[h] = opened[h], stack'[h] = stack[h], took'[h] = took[h],
         walk'[h] = walk[h] \/ walk'[h] = None,
         took[h] # {} => anchorOf'[opened[h]] = anchorOf[opened[h]]
  PROVE  GivenNow(h)
  BY DEF ReadAfterAnchor, GivenNow, Ready, AnchorVersion

\* The handles that do not move.
LEMMA OthersAfter ==
  ASSUME CacheTyped, StacksInOrder, ReadAfterAnchor, NEW h \in Handles, OthersAsTheyWere(h),
         \A k \in Handles : k # h => opened'[k] = opened[k] /\ walk'[k] = walk[k],
         \A k \in Handles : k # h /\ opened'[k] # 0 /\ took[k] # {} =>
           anchorOf'[opened'[k]] = anchorOf[opened'[k]],
         GivenNow(h)
  PROVE  \A k \in Handles : GivenNow(k)
<1>1. ASSUME NEW k \in Handles, k # h PROVE GivenNow(k)
  <2>1. opened'[k] = opened[k] /\ stack'[k] = stack[k] /\ took'[k] = took[k] /\ walk'[k] = walk[k]
    BY <1>1 DEF OthersAsTheyWere
  <2>2. took[k] # {} => opened[k] # 0
    BY DEF StacksInOrder, HandleInOrder
  <2>3. took[k] # {} => anchorOf'[opened[k]] = anchorOf[opened[k]]
    BY <1>1, <2>1, <2>2
  <2> QED
    BY <2>1, <2>3, OtherAfter
<1> QED
  BY <1>1

\* Each operation keeps ReadAfterAnchor: the catalog is opened,
LEMMA OpenAfter ==
  ASSUME CacheTyped, StacksInOrder, ReadAfterAnchor, CacheTyped', NEW h \in Handles,
         Open(h) \/ OpenRenewed(h)
  PROVE  ReadAfterAnchor'
<1>1. /\ opened[h] = 0 /\ walk[h] = None
      /\ UNCHANGED <<now, version, held, resident, walk, anchorOf>>
      /\ OthersAsTheyWere(h)
  BY OpenEffect
<1>2. PICK g \in Generations :
        opened' = [opened EXCEPT ![h] = g] /\ (FindsAnchor(h, g) \/ MakesAnchor(h, g))
  BY OpenEffect
<1>3. opened'[h] = g /\ \A k \in Handles : k # h => opened'[k] = opened[k]
  BY <1>2 DEF CacheTyped
<1>4. GivenNow(h)
  <2>1. \/ took'[h] = {}
        \/ anchorOf[g] # None /\ stack'[h] = <<>> /\ took'[h] = {anchorOf[g]}
    BY <1>2 DEF FindsAnchor, MakesAnchor
  <2>2. CASE anchorOf[g] # None /\ stack'[h] = <<>> /\ took'[h] = {anchorOf[g]}
    <3>1. anchorOf[g] \in Nat
      BY <2>2, Constants DEF CacheTyped, Versions
    <3>2. DOMAIN stack'[h] = {} /\ walk'[h] = None /\ anchorOf'[opened'[h]] = anchorOf[g]
      BY <1>1, <1>3, <2>2
    <3> QED
      BY <2>2, <3>1, <3>2 DEF GivenNow
  <2> QED
    BY <2>1, <2>2 DEF GivenNow
<1>5. \A k \in Handles : GivenNow(k)
  BY <1>1, <1>3, <1>4, OthersAfter
<1>6. AnchorsNow
  <2>1. drawn <= drawn' /\ drawn \in Nat /\ drawn' \in Nat
    BY <1>2, Constants DEF CacheTyped, FindsAnchor, MakesAnchor
  <2>2. \A i \in Generations : i \in Nat
    BY Constants DEF Generations
  <2> QED
    BY <1>1, <2>1, <2>2 DEF AnchorsNow, ReadAfterAnchor
<1>7. HeldNow
  BY <1>1 DEF HeldNow, ReadAfterAnchor
<1> QED
  BY <1>5, <1>6, <1>7, AfterNow

\* A settled step of one handle.
LEMMA MoveAfter ==
  ASSUME CacheTyped, StacksInOrder, ReadAfterAnchor, CacheTyped', StacksInOrder',
         NEW entries \in Entries, Settle(entries, held), drawn' = drawn, version' = version,
         NEW h \in Handles, OthersAsTheyWere(h),
         \A k \in Handles : k # h => opened'[k] = opened[k] /\ walk'[k] = walk[k],
         (\A k \in Handles : opened'[k] # 0 => anchorOf'[opened'[k]] = anchorOf[opened'[k]])
           => GivenNow(h)
  PROVE  ReadAfterAnchor'
<1>1. held \in Values /\ \A s \in Slots : held[s] # None => anchorOf[s[1]] # None /\ held[s] >= anchorOf[s[1]]
  BY DEF CacheTyped, Values, ReadAfterAnchor
<1>2. AnchorsNow /\ HeldNow
  BY <1>1, SettledAfter
<1>3. stack' \in [Handles -> Seq(Frames)] /\ opened' \in [Handles -> 0..LastGeneration]
  <2>1. stack' \in [Handles -> Seq(Frames)] /\ opened' \in [Handles -> 0..drawn'] /\ drawn' \in 0..LastGeneration
    BY DEF CacheTyped
  <2> QED
    BY <2>1, Constants
<1>4. \A k \in Handles : opened'[k] # 0 => anchorOf'[opened'[k]] = anchorOf[opened'[k]]
  BY <1>1, <1>3, SettleStays
<1>5. \A k \in Handles : GivenNow(k)
  BY <1>4, OthersAfter
<1> QED
  BY <1>2, <1>5, AfterNow

\* a part is asked for,
LEMMA AskAfter ==
  ASSUME CacheTyped, StacksInOrder, ReadAfterAnchor, CacheTyped', StacksInOrder',
         NEW h \in Handles, NEW p \in Parts, Ask(h, p)
  PROVE  ReadAfterAnchor'
<1> DEFINE s == SlotOf(opened[h], p)
           top == Frame(s, IF Unread(s) THEN "reading" ELSE "waiting")
<1>1. /\ Ready(h) /\ opened[h] # 0 /\ s \in Slots /\ s[1] = opened[h]
      /\ OthersAsTheyWere(h)
      /\ \/ held[s] # None /\ Unmoved(h) /\ took'[h] = took[h] \cup {held[s]}
         \/ held[s] = None /\ Pushed(h, top) /\ took'[h] = took[h]
  BY AskEffect
<1>2. Settle(With(s), held) /\ UNCHANGED <<now, version, drawn, anchored, opened, walk>>
  BY DEF Ask
<1>3. With(s) \in Entries
  BY <1>1, WithIs
<1>4. top.at = "reading" => top.copy = version
  BY <1>1, FrameIs
<1> HIDE DEF s, top
<1>5. PICK v : v >= anchorOf[opened[h]] /\ took'[h] \in {took[h], took[h] \cup {v}}
  <2>1. CASE held[s] # None
    BY <1>1, <2>1 DEF ReadAfterAnchor
  <2>2. CASE held[s] = None
    <3>1. anchorOf[opened[h]] >= anchorOf[opened[h]]
      BY <1>1, ReadyHas
    <3> QED
      BY <1>1, <2>2, <3>1
  <2> QED
    BY <2>1, <2>2
<1>6. ASSUME anchorOf'[opened'[h]] = anchorOf[opened'[h]] PROVE GivenNow(h)
  <2>1. /\ opened'[h] = opened[h] /\ anchorOf'[opened[h]] = anchorOf[opened[h]] /\ walk'[h] = walk[h]
        /\ Unmoved(h) \/ Pushed(h, top)
    BY <1>1, <1>2, <1>6
  <2> QED
    BY <1>1, <1>4, <1>5, <2>1, MoverAfter
<1>7. opened'[h] # 0 /\ \A k \in Handles : k # h => opened'[k] = opened[k] /\ walk'[k] = walk[k]
  BY <1>1, <1>2
<1> QED
  BY <1>1, <1>2, <1>3, <1>6, <1>7, MoveAfter

\* who waits begins to read, and reads what is published by now,
LEMMA BeginAfter ==
  ASSUME CacheTyped, StacksInOrder, ReadAfterAnchor, CacheTyped', NEW h \in Handles, Begin(h)
  PROVE  ReadAfterAnchor'
<1> DEFINE top == Frame(Top(h).slot, "reading")
<1>1. /\ stack[h] # <<>> /\ OthersAsTheyWere(h) /\ Swapped(h, top)
      /\ UNCHANGED <<now, version, drawn, expires, anchorOf, held, anchored, resident, opened,
                     walk, took>>
  BY BeginEffect
<1>2. top.copy = version
  BY <1>1, TopIs, FrameIs
<1> HIDE DEF top
<1>3. GivenNow(h)
  <2>1. CASE Ready(h)
    <3>1. anchorOf[opened[h]] >= anchorOf[opened[h]]
      BY <2>1, ReadyHas
    <3>2. /\ took'[h] \in {took[h], took[h] \cup {anchorOf[opened[h]]}} /\ walk'[h] = walk[h]
          /\ opened'[h] = opened[h] /\ anchorOf'[opened[h]] = anchorOf[opened[h]]
      BY <1>1
    <3> QED
      BY <1>1, <1>2, <2>1, <3>1, <3>2, MoverAfter
  <2>2. CASE ~ Ready(h)
    BY <1>1, <2>2 DEF GivenNow, Ready
  <2> QED
    BY <2>1, <2>2
<1>4. \A k \in Handles : GivenNow(k)
  BY <1>1, <1>3, OthersAfter
<1>5. AnchorsNow /\ HeldNow
  BY <1>1 DEF AnchorsNow, HeldNow, ReadAfterAnchor
<1> QED
  BY <1>4, <1>5, AfterNow

\* a part is given and put in the cache again,
LEMMA PutAfter ==
  ASSUME CacheTyped, StacksInOrder, ReadAfterAnchor, CacheTyped', StacksInOrder',
         NEW h \in Handles, Put(h)
  PROVE  ReadAfterAnchor'
<1> DEFINE s == Top(h).slot
<1>1. /\ stack[h] # <<>> /\ Value(s) \in 0..LastVersion /\ Value(s) # None
      /\ OthersAsTheyWere(h) /\ Popped(h) /\ took'[h] = took[h] \cup {Value(s)}
      /\ UNCHANGED <<now, version, drawn, opened, walk>>
      /\ \/ /\ s = <<opened[h], Anchor, 0>> /\ stack'[h] = <<>>
            /\ resident \in Entries /\ Settle(resident, held)
         \/ /\ s \in Slots /\ s[1] = opened[h] /\ s[2] \in Parts /\ Ready(h)
            /\ With(s) \in Entries /\ Settle(With(s), held)
  BY PutEffect, RunnableHas
<1>2. PICK entries \in Entries : Settle(entries, held)
  BY <1>1
<1>3. opened[h] # 0 /\ FrameInOrder(h, Top(h)) /\ HandleInOrder(h)
  BY <1>1, TopIs DEF StacksInOrder
<1>4. ASSUME anchorOf'[opened'[h]] = anchorOf[opened'[h]] PROVE GivenNow(h)
  <2>1. opened'[h] = opened[h] /\ anchorOf'[opened[h]] = anchorOf[opened[h]] /\ walk'[h] = walk[h]
    BY <1>1, <1>4
  <2>2. CASE s = <<opened[h], Anchor, 0>> /\ stack'[h] = <<>>
    <3>1. took[h] = {} /\ walk[h] = None
      BY <1>3, <2>2 DEF FrameInOrder, HandleInOrder, Ready
    <3>2. Value(s) = anchorOf[opened[h]]
      BY <2>2 DEF Value
    <3>3. DOMAIN stack'[h] = {}
      BY <2>2
    <3>4. Value(s) >= Value(s)
      BY <1>1, Constants
    <3> HIDE DEF s
    <3> QED
      BY <1>1, <2>1, <3>1, <3>2, <3>3, <3>4 DEF GivenNow
  <2>3. CASE s \in Slots /\ s[1] = opened[h] /\ s[2] \in Parts /\ Ready(h)
    <3>1. Value(s) = held[s]
      BY <2>3, Constants DEF Value
    <3>2. Value(s) >= anchorOf[opened[h]]
      BY <1>1, <2>3, <3>1 DEF ReadAfterAnchor
    <3> DEFINE top == [at |-> "waiting", copy |-> None]
    <3>3. top.at = "waiting"
      OBVIOUS
    <3>4. took'[h] \in {took[h], took[h] \cup {Value(s)}}
      BY <1>1
    <3>5. Popped(h) /\ Ready(h)
      BY <1>1, <2>3
    <3> DEFINE v == Value(s)
    <3>6. v >= anchorOf[opened[h]] /\ took'[h] \in {took[h], took[h] \cup {v}}
      BY <3>2, <3>4
    <3> HIDE DEF v, top
    <3> QED
      BY <2>1, <3>3, <3>5, <3>6, MoverAfter
  <2> QED
    BY <1>1, <2>2, <2>3
<1>5. opened'[h] # 0 /\ \A k \in Handles : k # h => opened'[k] = opened[k] /\ walk'[k] = walk[k]
  BY <1>1, <1>3
<1> QED
  BY <1>1, <1>2, <1>4, <1>5, MoveAfter

\* a part that cannot be read is left,
LEMMA FailAfter ==
  ASSUME CacheTyped, StacksInOrder, ReadAfterAnchor, CacheTyped', StacksInOrder',
         NEW h \in Handles, Fail(h)
  PROVE  ReadAfterAnchor'
<1>1. /\ Ready(h) /\ opened[h] # 0
      /\ OthersAsTheyWere(h) /\ Popped(h) /\ took' = took
      /\ UNCHANGED <<now, version, drawn, anchored, opened, walk>>
      /\ resident \in Entries /\ Settle(resident, held)
  BY FailEffect
<1>2. ASSUME anchorOf'[opened'[h]] = anchorOf[opened'[h]] PROVE GivenNow(h)
  <2>1. /\ opened'[h] = opened[h] /\ anchorOf'[opened[h]] = anchorOf[opened[h]] /\ walk'[h] = walk[h]
        /\ took'[h] = took[h]
    BY <1>1, <1>2
  <2>2. anchorOf[opened[h]] >= anchorOf[opened[h]]
    BY <1>1, ReadyHas
  <2> DEFINE top == [at |-> "waiting", copy |-> None]
  <2>3. top.at = "waiting"
    OBVIOUS
  <2> HIDE DEF top
  <2>4. took'[h] \in {took[h], took[h] \cup {anchorOf[opened[h]]}}
    BY <2>1
  <2> QED
    BY <1>1, <2>1, <2>2, <2>3, <2>4, MoverAfter
<1>3. opened'[h] # 0 /\ \A k \in Handles : k # h => opened'[k] = opened[k] /\ walk'[k] = walk[k]
  BY <1>1
<1> QED
  BY <1>1, <1>2, <1>3, MoveAfter

\* a handle closes,
LEMMA CloseAfter ==
  ASSUME CacheTyped, StacksInOrder, ReadAfterAnchor, CacheTyped', StacksInOrder',
         NEW h \in Handles, Close(h)
  PROVE  ReadAfterAnchor'
<1>1. /\ took'[h] = {} /\ OthersAsTheyWere(h)
      /\ \A k \in Handles : k # h => opened'[k] = opened[k] /\ walk'[k] = walk[k]
      /\ UNCHANGED <<now, version, drawn, anchored>>
      /\ resident \in Entries /\ Settle(resident, held)
  BY CloseEffect
<1>2. GivenNow(h)
  BY <1>1 DEF GivenNow
<1> QED
  BY <1>1, <1>2, MoveAfter

\* What is delivered of a part was asked for by who had the anchor; nobody has anything of a
\* generation yet when its anchor is delivered.
LEMMA DeliverAfter ==
  ASSUME CacheTyped, StacksInOrder, ReadAfterAnchor, CacheTyped', NEW h \in Handles, Deliver(h)
  PROVE  ReadAfterAnchor'
<1> DEFINE s == Top(h).slot
           top == Frame(s, "filled")
<1>1. /\ stack[h] # <<>> /\ Top(h).at = "reading" /\ Top(h).copy \in 0..version
      /\ OthersAsTheyWere(h) /\ took' = took /\ Swapped(h, top)
      /\ UNCHANGED <<now, version, drawn, expires, anchored, resident, opened, walk>>
      /\ IF s[2] = Anchor
         THEN anchorOf' = [anchorOf EXCEPT ![opened[h]] = Top(h).copy] /\ held' = held
         ELSE held' = [held EXCEPT ![s] = Top(h).copy] /\ anchorOf' = anchorOf
  BY DeliverEffect
<1>2. /\ FrameInOrder(h, Top(h)) /\ s \in Slots \cup AnchorSlots /\ s[1] = opened[h]
      /\ opened[h] \in Generations /\ Top(h) = stack[h][Len(stack[h])]
      /\ Len(stack[h]) \in DOMAIN stack[h]
  BY <1>1, TopIs
<1>3. top.at = "filled"
  BY <1>2, FrameIs
<1>4. opened[h] <= drawn /\ drawn' = drawn /\ version' = version
  BY <1>1 DEF CacheTyped
<1> HIDE DEF top
<1>5. CASE s[2] = Anchor
  <2> DEFINE g == opened[h]
  <2>1. anchorOf' = [anchorOf EXCEPT ![g] = Top(h).copy] /\ held' = held
    BY <1>1, <1>5
  <2>2. anchorOf[g] = None /\ took[h] = {}
    BY <1>1, <1>2, <1>5 DEF FrameInOrder, Value, Ready
  <2>3. \A i \in Generations : i # g => anchorOf'[i] = anchorOf[i]
    BY <2>1 DEF CacheTyped
  <2>4. anchorOf'[g] \in 0..version
    BY <1>1, <1>2, <2>1 DEF CacheTyped
  <2>5. AnchorsNow
    <3>1. version \in Nat
      BY Constants DEF CacheTyped
    <3> QED
      BY <1>4, <2>3, <2>4, <3>1 DEF AnchorsNow, ReadAfterAnchor
  <2>6. HeldNow
    <3>1. \A t \in Slots : held[t] # None => t[1] \in Generations /\ t[1] # g
      BY <2>2 DEF ReadAfterAnchor, Slots
    <3> QED
      BY <2>1, <2>3, <3>1 DEF HeldNow, ReadAfterAnchor
  <2>7. GivenNow(h)
    BY <1>1, <2>2 DEF GivenNow
  <2>8. \A k \in Handles : took[k] # {} => anchorOf'[opened[k]] = anchorOf[opened[k]]
    BY <2>2, <2>3, ReadyHas DEF Ready
  <2>9. \A k \in Handles : GivenNow(k)
    BY <1>1, <2>7, <2>8, OthersAfter
  <2> QED
    BY <2>5, <2>6, <2>9, AfterNow
<1>6. CASE s[2] # Anchor
  <2>1. held' = [held EXCEPT ![s] = Top(h).copy] /\ anchorOf' = anchorOf
    BY <1>1, <1>6
  <2>2. s \in Slots /\ Ready(h)
    BY <1>2, <1>6, SlotKinds DEF FrameInOrder
  <2>3. anchorOf[opened[h]] # None /\ Top(h).copy >= anchorOf[opened[h]]
    BY <1>1, <1>2, <2>2, ReadyHas
  <2>4. \A t \in Slots : t # s => held'[t] = held[t]
    BY <2>1 DEF CacheTyped
  <2>5. held'[s] = Top(h).copy
    BY <2>1, <2>2 DEF CacheTyped
  <2>6. HeldNow
    <3>1. SUFFICES ASSUME NEW t \in Slots, held'[t] # None
                   PROVE  anchorOf'[t[1]] # None /\ held'[t] >= anchorOf'[t[1]]
      BY DEF HeldNow
    <3>2. CASE t = s
      <4>1. t[1] = opened[h] /\ held'[t] = Top(h).copy
        BY <1>2, <2>5, <3>2
      <4> QED
        BY <2>1, <2>3, <4>1
    <3>3. CASE t # s
      BY <2>1, <2>4, <3>1, <3>3 DEF ReadAfterAnchor
    <3> QED
      BY <3>2, <3>3
  <2>7. AnchorsNow
    BY <1>4, <2>1 DEF AnchorsNow, ReadAfterAnchor
  <2>8. GivenNow(h)
    <3>1. anchorOf[opened[h]] >= anchorOf[opened[h]]
      BY <2>2, ReadyHas
    <3>2. /\ took'[h] \in {took[h], took[h] \cup {anchorOf[opened[h]]}} /\ walk'[h] = walk[h]
          /\ opened'[h] = opened[h] /\ anchorOf'[opened[h]] = anchorOf[opened[h]]
      BY <1>1, <2>1
    <3>3. Swapped(h, top)
      BY <1>1
    <3>4. top.at = "reading" => top.copy = version
      BY <1>3
    <3> QED
      BY <2>2, <3>1, <3>2, <3>3, <3>4, MoverAfter
  <2>9. \A k \in Handles : GivenNow(k)
    BY <1>1, <2>1, <2>8, OthersAfter
  <2> QED
    BY <2>6, <2>7, <2>9, AfterNow
<1> QED
  BY <1>5, <1>6

\* A settled step in which no handle moves.
LEMMA StillAfter ==
  ASSUME CacheTyped, StacksInOrder, ReadAfterAnchor, CacheTyped', StacksInOrder',
         NEW entries \in Entries, NEW values \in Values, Settle(entries, values),
         \A s \in Slots : values[s] # None => anchorOf[s[1]] # None /\ values[s] >= anchorOf[s[1]],
         \A s \in Slots : held[s] # None => values[s] # None,
         drawn' = drawn, version' = version, handleVars' = handleVars
  PROVE  ReadAfterAnchor'
<1>1. opened' = opened /\ stack' = stack /\ walk' = walk /\ took' = took
  BY DEF handleVars
<1>2. AnchorsNow /\ HeldNow
  BY SettledAfter
<1>3. stack' \in [Handles -> Seq(Frames)] /\ opened' \in [Handles -> 0..LastGeneration]
  BY <1>1, Constants DEF CacheTyped
<1>4. \A k \in Handles : opened'[k] # 0 => anchorOf'[opened'[k]] = anchorOf[opened'[k]]
  BY <1>3, SettleStays
<1>5. \A k \in Handles : GivenNow(k)
  <2>1. \A k \in Handles : took[k] # {} => opened[k] # 0
    BY DEF StacksInOrder, HandleInOrder
  <2> QED
    BY <1>1, <1>4, <2>1, OtherAfter
<1> QED
  BY <1>2, <1>5, AfterNow

\* A walk lists what is published by now, and offers what it listed.
LEMMA WalkingAfter ==
  ASSUME CacheTyped, StacksInOrder, ReadAfterAnchor, CacheTyped', StacksInOrder',
         NEW h \in Handles, Walk(h) \/ EndWalk(h) \/ \E p \in Parts : Offer(h, p)
  PROVE  ReadAfterAnchor'
<1>1. CASE Walk(h) \/ EndWalk(h)
  <2>1. /\ UNCHANGED <<now, version, drawn, expires, anchorOf, held, anchored, resident, opened, stack,
                       took>>
        /\ walk' = [walk EXCEPT ![h] = version] \/ walk' = [walk EXCEPT ![h] = None]
        /\ Walk(h) => Ready(h) /\ walk' = [walk EXCEPT ![h] = version]
        /\ EndWalk(h) => walk' = [walk EXCEPT ![h] = None]
    BY <1>1 DEF Walk, EndWalk
  <2>2. AnchorsNow /\ HeldNow
    BY <2>1 DEF AnchorsNow, HeldNow, ReadAfterAnchor
  <2>3. \A k \in Handles : k # h => walk'[k] = walk[k]
    BY <2>1 DEF CacheTyped
  <2>4. GivenNow(h)
    <3>1. CASE Ready(h)
      <4>1. anchorOf[opened[h]] >= anchorOf[opened[h]]
        BY <3>1, ReadyHas
      <4>2. walk'[h] \in {walk[h], None, version}
        BY <2>1 DEF CacheTyped
      <4>3. Unmoved(h)
        BY <2>1 DEF Unmoved, UpTo, SameFrame
      <4>4. took'[h] \in {took[h], took[h] \cup {anchorOf[opened[h]]}}
        BY <2>1
      <4> DEFINE top == [at |-> "waiting", copy |-> None]
      <4>5. top.at = "waiting"
        OBVIOUS
      <4> HIDE DEF top
      <4> QED
        BY <2>1, <3>1, <4>1, <4>2, <4>3, <4>4, <4>5, MoverAfter
    <3>2. CASE ~ Ready(h)
      BY <2>1, <3>2 DEF GivenNow, Ready
    <3> QED
      BY <3>1, <3>2
  <2>5. \A k \in Handles : GivenNow(k)
    <3>1. OthersAsTheyWere(h)
      BY <2>1 DEF OthersAsTheyWere, CacheTyped
    <3> QED
      BY <2>1, <2>3, <2>4, <3>1, OthersAfter
  <2> QED
    BY <2>2, <2>5, AfterNow
<1>2. ASSUME NEW p \in Parts, Offer(h, p) PROVE ReadAfterAnchor'
  <2> DEFINE s == SlotOf(opened[h], p)
             values == Offered(h, s)
  <2>1. /\ Ready(h) /\ walk[h] # None /\ s[1] = opened[h]
        /\ UNCHANGED <<now, version, drawn, anchored, handleVars>>
        /\ With(s) \in Entries /\ values \in Values /\ Settle(With(s), values)
        /\ \A t \in Slots : held[t] # None => values[t] = held[t]
        /\ \A t \in Slots : values[t] # None => values[t] = held[t] \/ (t = s /\ values[t] = walk[h])
    BY <1>2, OfferEffect
  <2>2. anchorOf[opened[h]] # None /\ walk[h] >= anchorOf[opened[h]]
    BY <2>1, ReadyHas
  <2> HIDE DEF values, s
  <2>3. ASSUME NEW t \in Slots, values[t] # None
        PROVE  anchorOf[t[1]] # None /\ values[t] >= anchorOf[t[1]]
    <3>1. CASE values[t] = held[t]
      BY <2>3, <3>1 DEF ReadAfterAnchor
    <3>2. CASE t = s /\ values[t] = walk[h]
      BY <2>1, <2>2, <3>2
    <3> QED
      BY <2>1, <2>3, <3>1, <3>2
  <2> QED
    BY <2>1, <2>3, StillAfter
<1> QED
  BY <1>1, <1>2

\* The cache makes room, the clock ticks, the catalog is published again.
LEMMA CacheAfter ==
  ASSUME CacheTyped, StacksInOrder, ReadAfterAnchor, CacheTyped', StacksInOrder', CacheStep
  PROVE  ReadAfterAnchor'
<1>1. resident \in Entries /\ held \in Values
  BY DEF CacheTyped, Entries, Values
<1>2. ASSUME NEW entries \in Entries, Settle(entries, held), version' = version, drawn' = drawn,
             handleVars' = handleVars
      PROVE  ReadAfterAnchor'
  BY <1>1, <1>2, StillAfter DEF ReadAfterAnchor
<1>3. CASE EvictAnchor
  BY <1>1, <1>2, <1>3 DEF EvictAnchor
<1>4. ASSUME NEW g \in Generations, NEW p \in Parts, Evict(g, p) PROVE ReadAfterAnchor'
  <2>1. [resident EXCEPT ![<<g, p>>] = 0] \in Entries
    BY <1>1, Constants DEF Entries
  <2> QED
    BY <1>2, <1>4, <2>1 DEF Evict
<1>5. CASE Tick
  <2> DEFINE entries == [e \in Generations \X Parts |-> IF now' < expires[e[1]] THEN resident[e] ELSE 0]
  <2>1. entries \in Entries
    BY <1>1, Constants DEF Entries
  <2>2. Settle(entries, held) /\ UNCHANGED <<version, drawn, handleVars>>
    BY <1>5 DEF Tick
  <2> HIDE DEF entries
  <2> QED
    BY <1>2, <2>1, <2>2
<1>6. CASE Publish \/ UNCHANGED vars
  <2>1. /\ UNCHANGED <<now, drawn, expires, anchorOf, held, anchored, resident, handleVars>>
        /\ version <= version' /\ version \in Nat /\ version' \in Nat
    BY <1>6, Constants DEF Publish, vars, CacheTyped
  <2>2. opened' = opened /\ stack' = stack /\ walk' = walk /\ took' = took
    BY <2>1 DEF handleVars
  <2>3. AnchorsNow
    <3>1. \A g \in Generations : anchorOf[g] # None => anchorOf[g] \in Nat
      BY Constants DEF CacheTyped, Versions
    <3> QED
      BY <2>1, <3>1 DEF AnchorsNow, ReadAfterAnchor
  <2>4. HeldNow
    BY <2>1 DEF HeldNow, ReadAfterAnchor
  <2>5. \A h \in Handles : GivenNow(h)
    BY <2>1, <2>2, OtherAfter
  <2> QED
    BY <2>3, <2>4, <2>5, AfterNow
<1> QED
  BY <1>3, <1>4, <1>5, <1>6 DEF CacheStep

\* Every operation keeps it.
LEMMA AfterKept ==
  ASSUME CacheTyped, StacksInOrder, ReadAfterAnchor, CacheTyped', StacksInOrder', Operation
  PROVE  ReadAfterAnchor'
<1>1. ASSUME NEW h \in Handles, HandleStep(h) PROVE ReadAfterAnchor'
  BY <1>1, OpenAfter, AskAfter, BeginAfter, DeliverAfter, PutAfter, FailAfter, CloseAfter,
     WalkingAfter DEF HandleStep
<1> QED
  BY <1>1, CacheAfter DEF Operation

-----------------------------------------------------------------------------
(* Deadlines.                                                              *)

\* What is settled in the cache is within its deadline, when its entries are.
LEMMA SettledLive ==
  ASSUME CacheTyped, NEW entries \in Entries, NEW values \in Values, Settle(entries, values),
         \A g \in Generations, p \in Parts : entries[<<g, p>>] # 0 => now' < expires[g],
         anchored' \in 0..LastGeneration, anchored' # 0 => now' < expires[anchored']
  PROVE  NothingOutlivesItsAnchor'
<1>1. /\ \A g \in Generations : Reachable(g)' => expires'[g] = expires[g]
      /\ \A g \in Generations, p \in Parts :
           resident'[<<g, p>>] # 0 => Reachable(g)' /\ resident'[<<g, p>>] = entries[<<g, p>>]
  BY SettleEffect
<1>2. \A g \in Generations : g = anchored' => Reachable(g)'
  BY DEF Reachable
<1>3. anchored' # 0 => now' < expires'[anchored']
  <2>1. anchored' # 0 => anchored' \in Generations
    BY Constants DEF Generations
  <2> QED
    BY <1>1, <1>2, <2>1
<1>4. \A g \in Generations, p \in Parts : resident'[<<g, p>>] # 0 => now' < expires'[g]
  BY <1>1
<1> QED
  BY <1>3, <1>4 DEF NothingOutlivesItsAnchor, Live

\* Nothing is put in the cache, or stays there, past the deadline of its anchor.
LEMMA DeadlineKept ==
  ASSUME CacheTyped, StacksInOrder, ReadAfterAnchor, NothingOutlivesItsAnchor, CacheTyped', Operation
  PROVE  NothingOutlivesItsAnchor'
<1>1. /\ resident \in Entries /\ held \in Values /\ anchored \in 0..LastGeneration
      /\ drawn \in 0..LastGeneration /\ now \in Nat
      /\ \A g \in Generations : expires[g] \in Nat
  BY Constants DEF CacheTyped, Entries, Values
<1>2. /\ anchored # 0 => now < expires[anchored]
      /\ \A g \in Generations, p \in Parts : resident[<<g, p>>] # 0 => now < expires[g]
  BY DEF NothingOutlivesItsAnchor, Live
<1>3. CASE UNCHANGED <<now, expires, anchored, resident>>
  BY <1>3 DEF NothingOutlivesItsAnchor, Live
<1>4. ASSUME NEW entries \in Entries, NEW values \in Values, Settle(entries, values), now' = now,
             \A g \in Generations, p \in Parts :
               entries[<<g, p>>] # 0 => resident[<<g, p>>] # 0 \/ now < expires[g],
             \/ anchored' \in {0, anchored}
             \/ anchored' \in 0..LastGeneration /\ now < expires[anchored']
      PROVE  NothingOutlivesItsAnchor'
  <2>1. \A g \in Generations, p \in Parts : entries[<<g, p>>] # 0 => now' < expires[g]
    BY <1>2, <1>4
  <2>2. anchored' \in 0..LastGeneration /\ (anchored' # 0 => now' < expires[anchored'])
    BY <1>1, <1>2, <1>4, Constants
  <2> QED
    BY <1>4, <2>1, <2>2, SettledLive
<1>5. ASSUME NEW s \in Slots
      PROVE  \A g \in Generations, p \in Parts :
               With(s)[<<g, p>>] # 0 => resident[<<g, p>>] # 0 \/ now < expires[g]
  <2>1. TAKE g \in Generations, p \in Parts
  <2>2. CASE <<g, p>> = <<s[1], s[2]>>
    BY <2>2, WithIs DEF Live
  <2>3. CASE <<g, p>> # <<s[1], s[2]>>
    BY <2>3, WithIs
  <2> QED
    BY <2>2, <2>3
<1>6. ASSUME NEW h \in Handles, Open(h) \/ OpenRenewed(h) PROVE NothingOutlivesItsAnchor'
  <2>1. PICK g \in Generations :
              \/ FindsAnchor(h, g)
              \/ MakesAnchor(h, g) /\ anchored' \in {g, anchored}
    BY <1>6, OpenEffect
  <2>2. UNCHANGED <<now, resident>>
    BY <1>6, OpenEffect
  <2>3. CASE FindsAnchor(h, g)
    BY <1>3, <2>2, <2>3 DEF FindsAnchor
  <2>4. CASE MakesAnchor(h, g) /\ anchored' \in {g, anchored}
    <3>1. expires' = [expires EXCEPT ![g] = now + Lifetime]
      BY <2>4 DEF MakesAnchor
    <3>2. \A i \in Generations : expires'[i] = expires[i] \/ now < expires'[i]
      <4>1. now < now + Lifetime
        BY <1>1, Constants
      <4> QED
        BY <3>1, <4>1 DEF CacheTyped
    <3>3. anchored # 0 => anchored \in Generations
      BY <1>1, Constants DEF Generations
    <3>4. anchored' # 0 => now < expires'[anchored']
      <4>1. CASE anchored' = g
        <5>1. expires'[g] = now + Lifetime
          BY <3>1 DEF CacheTyped
        <5> QED
          BY <1>1, <4>1, <5>1, Constants
      <4>2. CASE anchored' = anchored
        BY <1>2, <3>2, <3>3, <4>2
      <4> QED
        BY <2>4, <4>1, <4>2
    <3> QED
      BY <1>2, <2>2, <3>2, <3>4 DEF NothingOutlivesItsAnchor, Live
  <2> QED
    BY <2>1, <2>3, <2>4
<1>7. ASSUME NEW h \in Handles, NEW p \in Parts, Ask(h, p) PROVE NothingOutlivesItsAnchor'
  <2>1. SlotOf(opened[h], p) \in Slots
    BY <1>7, AskEffect
  <2>2. Settle(With(SlotOf(opened[h], p)), held) /\ UNCHANGED <<now, anchored>>
    BY <1>7 DEF Ask
  <2> DEFINE s == SlotOf(opened[h], p)
  <2> HIDE DEF s
  <2> QED
    BY <1>1, <1>4, <1>5, <2>1, <2>2, WithIs DEF s
<1>8. ASSUME NEW h \in Handles, Begin(h) \/ Deliver(h) \/ Walk(h) \/ EndWalk(h)
      PROVE  NothingOutlivesItsAnchor'
  BY <1>3, <1>8 DEF Begin, Deliver, Walk, EndWalk
<1>9. ASSUME NEW h \in Handles, Put(h) PROVE NothingOutlivesItsAnchor'
  <2> DEFINE s == Top(h).slot
  <2>1. /\ stack[h] # <<>> /\ now' = now
        /\ \/ /\ anchored' = (IF Live(opened[h]) THEN opened[h] ELSE 0)
              /\ Settle(resident, held)
           \/ /\ s \in Slots /\ anchored' = anchored
              /\ With(s) \in Entries /\ Settle(With(s), held)
    BY <1>9, PutEffect
  <2> HIDE DEF s
  <2>2. CASE anchored' = (IF Live(opened[h]) THEN opened[h] ELSE 0) /\ Settle(resident, held)
    <3>1. anchored' = 0 \/ (anchored' \in 0..LastGeneration /\ now < expires[anchored'])
      <4>1. opened[h] \in 0..LastGeneration
        BY Constants DEF CacheTyped
      <4> QED
        BY <2>2, <4>1 DEF Live
    <3> QED
      BY <1>1, <1>4, <2>1, <2>2, <3>1
  <2>3. CASE s \in Slots /\ anchored' = anchored /\ With(s) \in Entries /\ Settle(With(s), held)
    BY <1>1, <1>4, <1>5, <2>1, <2>3
  <2> QED
    BY <2>1, <2>2, <2>3
<1>10. ASSUME NEW h \in Handles, Fail(h) \/ Close(h) PROVE NothingOutlivesItsAnchor'
  BY <1>1, <1>4, <1>10 DEF Fail, Close
<1>11. ASSUME NEW h \in Handles, NEW p \in Parts, Offer(h, p) PROVE NothingOutlivesItsAnchor'
  <2> DEFINE s == SlotOf(opened[h], p)
             values == Offered(h, s)
  <2>1. /\ s \in Slots /\ UNCHANGED <<now, anchored>>
        /\ With(s) \in Entries /\ values \in Values /\ Settle(With(s), values)
    BY <1>11, OfferEffect
  <2> HIDE DEF values, s
  <2> QED
    BY <1>4, <1>5, <2>1
<1>12. CASE EvictAnchor
  BY <1>1, <1>4, <1>12 DEF EvictAnchor
<1>13. ASSUME NEW g \in Generations, NEW p \in Parts, Evict(g, p) PROVE NothingOutlivesItsAnchor'
  <2> DEFINE entries == [resident EXCEPT ![<<g, p>>] = 0]
  <2>1. entries \in Entries /\ \A e \in Generations \X Parts : entries[e] # 0 => resident[e] # 0
    BY <1>1, Constants DEF Entries
  <2>2. Settle(entries, held) /\ UNCHANGED <<now, anchored>>
    BY <1>13 DEF Evict
  <2> HIDE DEF entries
  <2> QED
    BY <1>1, <1>4, <2>1, <2>2
<1>14. CASE Tick
  <2> DEFINE entries == [e \in Generations \X Parts |-> IF now' < expires[e[1]] THEN resident[e] ELSE 0]
  <2>1. entries \in Entries
    BY <1>1, Constants DEF Entries
  <2>2. \A g \in Generations, p \in Parts : entries[<<g, p>>] # 0 => now' < expires[g]
    OBVIOUS
  <2>3. Settle(entries, held) /\ anchored' = IF anchored # 0 /\ now' < expires[anchored] THEN anchored ELSE 0
    BY <1>14 DEF Tick
  <2>4. anchored' \in 0..LastGeneration /\ (anchored' # 0 => now' < expires[anchored'])
    BY <1>1, <2>3, Constants
  <2> HIDE DEF entries
  <2> QED
    BY <1>1, <2>1, <2>2, <2>3, <2>4, SettledLive
<1>15. CASE Publish \/ UNCHANGED vars
  BY <1>3, <1>15 DEF Publish, vars
<1> QED
  BY <1>6, <1>7, <1>8, <1>9, <1>10, <1>11, <1>12, <1>13, <1>14, <1>15
     DEF Operation, HandleStep, CacheStep

-----------------------------------------------------------------------------
(* Nothing older is given, and nobody waits in a circle.                   *)

\* What a handle was given was read after its anchor.
LEMMA NoneOlder ==
  ASSUME ReadAfterAnchor
  PROVE  NothingOlder
  BY DEF ReadAfterAnchor, NothingOlder

\* Of those who wait for each other, the one whose part is least deep waits for one who, reading
\* that part, is at a part less deep still.
LEMMA WaitsForDeeper ==
  ASSUME CacheTyped, StacksInOrder, NEW h \in Handles, NEW k \in Handles, WaitsOn(h, k),
         Doing(k, "waiting")
  PROVE  /\ Top(h).slot[2] \in Parts /\ Top(k).slot[2] \in Parts
         /\ Depth[Top(k).slot[2]] < Depth[Top(h).slot[2]]
<1>1. stack[h] # <<>> /\ stack[k] # <<>> /\ Top(k).at = "waiting"
  BY DEF WaitsOn, Doing
<1>2. PICK i \in DOMAIN stack[k] : stack[k][i].slot = Top(h).slot /\ stack[k][i].at = "reading"
  BY DEF WaitsOn
<1> DEFINE n == Len(stack[k])
<1>3. Top(k) = stack[k][n] /\ n \in DOMAIN stack[k] /\ n \in Nat \ {0} /\ DOMAIN stack[k] = 1 .. n
  BY <1>1, TopIs, LenProperties DEF CacheTyped
<1>4. i < n
  <2>1. i # n
    BY <1>1, <1>2, <1>3
  <2> QED
    BY <1>3, <2>1
<1>5. Ready(k)
  BY <1>3, <1>4 DEF StacksInOrder, HandleInOrder
<1>6. Depth[Top(k).slot[2]] < Depth[stack[k][i].slot[2]]
  BY <1>3, <1>4 DEF StacksInOrder, HandleInOrder
<1>7. \A j \in DOMAIN stack[k] : stack[k][j].slot[2] \in Parts
  <2>1. TAKE j \in DOMAIN stack[k]
  <2>2. stack[k][j] \in Frames
    BY <1>3, ElementOfSeq DEF CacheTyped
  <2>3. stack[k][j].slot[2] # Anchor
    BY <1>5 DEF StacksInOrder, FrameInOrder
  <2> QED
    BY <2>2, <2>3, FrameHas, SlotKinds
<1> QED
  BY <1>2, <1>3, <1>6, <1>7

\* So there is none in a circle, whose depths would have no least.
LEMMA NobodyInACircle ==
  ASSUME CacheTyped, StacksInOrder
  PROVE  NoCircle
<1>1. SUFFICES ASSUME NEW H \in (SUBSET Handles) \ {{}}, \A h \in H : \E k \in H : WaitsOn(h, k)
               PROVE  FALSE
  BY DEF NoCircle
<1>2. \A h \in H : Doing(h, "waiting")
  BY <1>1 DEF WaitsOn
<1> DEFINE depth(h) == Depth[Top(h).slot[2]]
           S == {depth(h) : h \in H}
<1>3. \A h \in H : Top(h).slot[2] \in Parts
  BY <1>1, <1>2, WaitsForDeeper
<1>4. S \in SUBSET Nat /\ S # {}
  BY <1>1, <1>3, DepthIs
<1>5. PICK m \in S : \A x \in S : m <= x
  <2> HIDE DEF S
  <2> QED
    BY <1>4, MinIs
<1>6. PICK h \in H : m = depth(h)
  OBVIOUS
<1>7. PICK k \in H : WaitsOn(h, k)
  BY <1>1
<1>8. depth(k) < depth(h) /\ depth(k) \in S /\ depth(k) \in Nat /\ depth(h) \in Nat
  BY <1>2, <1>3, <1>7, WaitsForDeeper, DepthIs
<1> QED
  BY <1>5, <1>6, <1>8

-----------------------------------------------------------------------------
(* The task.                                                               *)

\* A catalog is read again before it is too old.
LEMMA RefreshIs == RefreshAfter \in Nat /\ RefreshAfter < Lifetime
<1>1. \A l \in Nat \ {0} : (9 * l) \div 10 \in Nat /\ (9 * l) \div 10 < l
  OBVIOUS
<1> QED
  BY <1>1, Constants DEF RefreshAfter

\* The variables of the task are typed.
TaskTyped ==
  /\ task \in {"due", "reading", "asleep", "over"}
  /\ left \subseteq Parts /\ wake \in 0..(LastTime + Lifetime)
  /\ renew \in BOOLEAN /\ {failed, lapsed} \subseteq 0..LastFailure /\ evicted \in 0..LastEviction

\* The types of the two are those of the whole.
LEMMA Typed == TypeOK <=> CacheTyped /\ TaskTyped
  BY DEF TypeOK, CacheTyped, TaskTyped

\* Every step of the catalog and its task is an operation on the cache.
LEMMA StepIs ==
  ASSUME [WarmNext]_allVars
  PROVE  Operation
<1>1. CASE StartRound
  BY <1>1, Constants DEF StartRound, Operation, HandleStep
<1>2. CASE ReadPart
  BY <1>2, Constants DEF ReadPart, Operation, HandleStep
<1>3. CASE ReadWithout \/ EndRound \/ FailRound
  BY <1>3, Constants DEF ReadWithout, EndRound, FailRound, Operation, HandleStep
<1>4. CASE Wakes \/ UNCHANGED allVars
  BY <1>4 DEF Wakes, allVars, Operation, CacheStep
<1>5. ASSUME NEW h \in Handles, RequestStep(h) \/ Filling(h) \/ Walking(h) PROVE Operation
  BY <1>5, Constants DEF RequestStep, Filling, Walking, Operation, HandleStep
<1>6. CASE Publish \/ Evicts \/ TimePasses
  BY <1>6 DEF Evicts, TimePasses, Operation, CacheStep
<1> QED
  BY <1>1, <1>2, <1>3, <1>4, <1>5, <1>6, Constants DEF WarmNext, Requests

\* What each step does to the task.
LEMMA TaskKept ==
  ASSUME CacheTyped, TaskTyped, [WarmNext]_allVars
  PROVE  TaskTyped'
<1>1. now \in Nat /\ LastTime \in Nat /\ now <= LastTime /\ LastFailure \in Nat /\ LastEviction \in Nat
      /\ Retry \in Nat /\ Lifetime \in Nat
  BY Constants, WarmAssumption DEF CacheTyped
<1>2. CASE UNCHANGED warmVars
  BY <1>2 DEF TaskTyped, warmVars
<1>3. CASE StartRound
  BY <1>3 DEF StartRound, TaskTyped
<1>4. CASE ReadPart
  BY <1>4 DEF ReadPart, TaskTyped
<1>5. ASSUME Fails
      PROVE  {failed', lapsed'} \subseteq 0..LastFailure
  BY <1>1, <1>5 DEF Fails, TaskTyped
<1>6. CASE ReadWithout
  BY <1>5, <1>6 DEF ReadWithout, TaskTyped
<1>7. ASSUME NEW long \in Nat, long <= RefreshAfter, Sleep(long)
      PROVE  task' = "asleep" /\ left' = {} /\ wake' \in 0..(LastTime + Lifetime)
  BY <1>1, <1>7, RefreshIs DEF Sleep
<1>8. CASE EndRound
  <2>1. Sleep(RefreshAfter) \/ (task' = "over" /\ UNCHANGED <<left, wake>>)
    BY <1>8 DEF EndRound
  <2>2. renew' = TRUE /\ UNCHANGED <<failed, lapsed, evicted>>
    BY <1>8 DEF EndRound
  <2>3. RefreshAfter \in Nat /\ RefreshAfter <= RefreshAfter
    BY RefreshIs
  <2> QED
    BY <1>7, <2>1, <2>2, <2>3 DEF TaskTyped
<1>9. CASE FailRound
  <2> DEFINE long == IF Retry < RefreshAfter THEN Retry ELSE RefreshAfter
  <2>1. long \in Nat /\ long <= RefreshAfter
    BY <1>1, RefreshIs
  <2>2. Sleep(long) /\ Fails /\ UNCHANGED <<renew, evicted>>
    BY <1>9 DEF FailRound
  <2> HIDE DEF long
  <2> QED
    BY <1>5, <1>7, <2>1, <2>2 DEF TaskTyped
<1>10. CASE Wakes
  BY <1>1, <1>10 DEF Wakes, TaskTyped
<1>11. CASE Evicts /\ evicted < LastEviction /\ evicted' = evicted + 1 /\ UNCHANGED <<task, left, wake, renew, failed, lapsed>>
  BY <1>1, <1>11 DEF TaskTyped
<1> QED
  BY <1>2, <1>3, <1>4, <1>6, <1>8, <1>9, <1>10, <1>11 DEF WarmNext, TimePasses, allVars, warmVars

-----------------------------------------------------------------------------
(* What is whole stays whole.                                              *)

\* A slot that is put in the cache takes nothing out of it that is filled: it is the slot that was
\* there, or is filled itself.
LEMMA WithHas ==
  ASSUME CacheTyped, NothingOutlivesItsAnchor, NEW s \in Slots, NEW values \in Values,
         \A t \in Slots : held[t] # None => values[t] # None,
         \/ resident[<<s[1], s[2]>>] # 0 => s[3] = resident[<<s[1], s[2]>>]
         \/ held[s] # None,
         NEW g \in Generations, NEW p \in Parts, Has(g, p)
  PROVE  LET n == With(s)[<<g, p>>] IN n # 0 /\ values[<<g, p, n>>] # None
<1>1. /\ resident[<<g, p>>] \in 1..Cardinality(Handles) /\ Live(g)
      /\ held[<<g, p, resident[<<g, p>>]>>] # None
  BY Constants DEF Has, NothingOutlivesItsAnchor, CacheTyped
<1>2. s = <<s[1], s[2], s[3]>> /\ s[3] # 0
  BY Constants DEF Slots
<1>3. <<g, p, resident[<<g, p>>]>> \in Slots
  BY <1>1 DEF Slots
<1>4. CASE <<g, p>> = <<s[1], s[2]>>
  <2>1. With(s)[<<g, p>>] = s[3]
    BY <1>1, <1>4, WithIs
  <2>2. s = <<g, p, s[3]>> /\ held[s] # None
    BY <1>1, <1>2, <1>4
  <2> QED
    BY <1>2, <2>1, <2>2
<1>5. CASE <<g, p>> # <<s[1], s[2]>>
  <2>1. With(s)[<<g, p>>] = resident[<<g, p>>]
    BY <1>5, WithIs
  <2> QED
    BY <1>1, <1>3, <2>1
<1> QED
  BY <1>4, <1>5

\* A generation is as whole after a step as before.
StaysWhole(g) ==
  /\ anchorOf[g] # None => anchorOf'[g] # None
  /\ expires'[g] = expires[g]
  /\ \A p \in Parts : Has(g, p) /\ now' < expires[g] => Has(g, p)'

\* So is a generation that is still asked about when the cache is settled and its entries stay.
LEMMA SettledWhole ==
  ASSUME CacheTyped, NEW entries \in Entries, NEW values \in Values, Settle(entries, values),
         NEW g \in Generations, Reachable(g)',
         \A p \in Parts : Has(g, p) /\ now' < expires[g] =>
           entries[<<g, p>>] # 0 /\ values[<<g, p, entries[<<g, p>>]>>] # None
  PROVE  StaysWhole(g)
<1>1. expires'[g] = expires[g] /\ anchorOf'[g] = anchorOf[g]
  BY SettleEffect
<1>2. \A p \in Parts : Has(g, p) /\ now' < expires[g] => Has(g, p)'
  BY SettleHas
<1> QED
  BY <1>1, <1>2 DEF StaysWhole

\* Nothing but letting go takes from a generation that somebody can ask about.
LEMMA WholeKept ==
  ASSUME CacheTyped, StacksInOrder, ReadAfterAnchor, NothingOutlivesItsAnchor,
         NEW g \in Generations, g <= drawn, Reachable(g)',
         Tick \/ Publish \/ (UNCHANGED vars) \/ \E h \in Handles : HandleStep(h)
  PROVE  StaysWhole(g)
<1>1. resident \in Entries /\ held \in Values
  BY DEF CacheTyped, Entries, Values
<1>2. ASSUME UNCHANGED <<resident, held>>, anchorOf[g] # None => anchorOf'[g] # None,
             expires'[g] = expires[g]
      PROVE  StaysWhole(g)
  BY <1>2 DEF StaysWhole, Has
<1>3. ASSUME Settle(resident, held) PROVE StaysWhole(g)
  BY <1>1, <1>3, SettledWhole DEF Has
<1>4. ASSUME NEW s \in Slots, NEW values \in Values, Settle(With(s), values),
             \A t \in Slots : held[t] # None => values[t] # None,
             \/ resident[<<s[1], s[2]>>] # 0 => s[3] = resident[<<s[1], s[2]>>]
             \/ held[s] # None
      PROVE  StaysWhole(g)
  <2>1. With(s) \in Entries
    BY WithIs
  <2>2. \A p \in Parts : Has(g, p) => LET n == With(s)[<<g, p>>] IN n # 0 /\ values[<<g, p, n>>] # None
    BY <1>4, WithHas
  <2> QED
    BY <1>4, <2>1, <2>2, SettledWhole
<1>5. ASSUME NEW i, NEW p PROVE resident[<<i, p>>] # 0 => SlotOf(i, p)[3] = resident[<<i, p>>]
  BY DEF SlotOf
<1>6. ASSUME NEW h \in Handles, Open(h) \/ OpenRenewed(h) PROVE StaysWhole(g)
  <2>1. UNCHANGED <<held, resident, anchorOf>>
    BY <1>6, OpenEffect
  <2>2. PICK i \in Generations : FindsAnchor(h, i) \/ MakesAnchor(h, i)
    BY <1>6, OpenEffect
  <2>3. expires'[g] = expires[g]
    <3>1. drawn \in Nat
      BY Constants DEF CacheTyped
    <3>2. CASE MakesAnchor(h, i)
      <4>1. g # i /\ g \in Generations /\ expires' = [expires EXCEPT ![i] = now + Lifetime]
        BY <3>1, <3>2, Constants DEF MakesAnchor, Generations
      <4> QED
        BY <4>1 DEF CacheTyped
    <3> QED
      BY <2>2, <3>2 DEF FindsAnchor
  <2> QED
    BY <1>2, <2>1, <2>3
<1>7. ASSUME NEW h \in Handles, NEW p \in Parts, Ask(h, p) PROVE StaysWhole(g)
  <2> DEFINE s == SlotOf(opened[h], p)
  <2>1. s \in Slots /\ s[1] = opened[h] /\ s[2] = p
    BY <1>7, AskEffect
  <2>2. Settle(With(s), held)
    BY <1>7 DEF Ask
  <2>3. resident[<<s[1], s[2]>>] # 0 => s[3] = resident[<<s[1], s[2]>>]
    BY <1>5, <2>1
  <2> HIDE DEF s
  <2> QED
    BY <1>1, <1>4, <2>1, <2>2, <2>3
<1>8. ASSUME NEW h \in Handles, NEW p \in Parts, Offer(h, p) PROVE StaysWhole(g)
  <2> DEFINE s == SlotOf(opened[h], p)
             values == Offered(h, s)
  <2>1. /\ s \in Slots /\ s[1] = opened[h] /\ s[2] = p
        /\ values \in Values /\ Settle(With(s), values)
        /\ \A t \in Slots : held[t] # None => values[t] = held[t]
    BY <1>8, OfferEffect
  <2>2. resident[<<s[1], s[2]>>] # 0 => s[3] = resident[<<s[1], s[2]>>]
    BY <1>5, <2>1
  <2> HIDE DEF s, values
  <2> QED
    BY <1>4, <2>1, <2>2
<1>9. ASSUME NEW h \in Handles, Put(h) PROVE StaysWhole(g)
  <2> DEFINE s == Top(h).slot
  <2>1. \/ Settle(resident, held)
        \/ s \in Slots /\ s[2] \in Parts /\ Settle(With(s), held)
    BY <1>9, PutEffect
  <2>2. Value(s) # None
    BY <1>9, RunnableHas DEF Put
  <2>3. s[2] \in Parts => held[s] # None
    BY <2>2, Constants DEF Value
  <2> HIDE DEF s
  <2> QED
    BY <1>1, <1>3, <1>4, <2>1, <2>3
<1>10. ASSUME NEW h \in Handles, Fail(h) \/ Close(h) PROVE StaysWhole(g)
  BY <1>3, <1>10 DEF Fail, Close
<1>11. ASSUME NEW h \in Handles, Begin(h) \/ Walk(h) \/ EndWalk(h) PROVE StaysWhole(g)
  BY <1>2, <1>11 DEF Begin, Walk, EndWalk
<1>12. ASSUME NEW h \in Handles, Deliver(h) PROVE StaysWhole(g)
  <2>1. /\ stack[h] # <<>> /\ Top(h).copy \in 0..version
        /\ UNCHANGED <<now, expires, resident>>
        /\ IF Top(h).slot[2] = Anchor
           THEN anchorOf' = [anchorOf EXCEPT ![opened[h]] = Top(h).copy] /\ held' = held
           ELSE held' = [held EXCEPT ![Top(h).slot] = Top(h).copy] /\ anchorOf' = anchorOf
    BY <1>12, DeliverEffect
  <2>2. Top(h).copy # None
    BY <2>1, Constants
  <2>3. anchorOf[g] # None => anchorOf'[g] # None
    BY <2>1, <2>2 DEF CacheTyped
  <2>4. \A t \in Slots : held[t] # None => held'[t] # None
    BY <2>1, <2>2 DEF CacheTyped
  <2>5. \A p \in Parts : Has(g, p) => <<g, p, resident[<<g, p>>]>> \in Slots
    <3>1. TAKE p \in Parts
    <3>2. HAVE Has(g, p)
    <3>3. resident[<<g, p>>] \in 1..Cardinality(Handles)
      BY <3>2, Constants DEF Has, CacheTyped
    <3> QED
      BY <3>3 DEF Slots
  <2>6. \A p \in Parts : Has(g, p) => Has(g, p)'
    BY <2>1, <2>4, <2>5 DEF Has
  <2> QED
    BY <2>1, <2>3, <2>6 DEF StaysWhole
<1>13. CASE Tick
  <2> DEFINE entries == [e \in Generations \X Parts |-> IF now' < expires[e[1]] THEN resident[e] ELSE 0]
  <2>1. entries \in Entries
    BY <1>1, Constants DEF Entries
  <2>2. Settle(entries, held)
    BY <1>13 DEF Tick
  <2>3. \A p \in Parts : now' < expires[g] => entries[<<g, p>>] = resident[<<g, p>>]
    OBVIOUS
  <2> HIDE DEF entries
  <2> QED
    BY <1>1, <2>1, <2>2, <2>3, SettledWhole DEF Has
<1>14. CASE Publish \/ UNCHANGED vars
  BY <1>2, <1>14 DEF Publish, vars
<1> QED
  BY <1>6, <1>7, <1>8, <1>9, <1>10, <1>11, <1>12, <1>13, <1>14 DEF HandleStep

-----------------------------------------------------------------------------
(* The catalog stays warm.                                                 *)

\* WarmInv after a step, a generation being read of what is there then.
HasThen(g, p) == resident'[<<g, p>>] # 0 /\ held'[<<g, p, resident'[<<g, p>>]>>] # None
WholeThen(g) == anchorOf'[g] # None /\ \A p \in Parts : HasThen(g, p)
OutlastsThen(g) == now' + RefreshAfter < expires'[g]

\* FirstRound, RoundInOrder and AlwaysWhole after the step, with each variable primed by itself.
FirstRoundNow ==
  /\ now' = 0 /\ task' # "asleep" /\ drawn' <= 1 /\ anchored' = drawn'
  /\ drawn' = 1 => expires'[1] = Lifetime

RoundNow ==
  task' = "reading" =>
    /\ OutlastsThen(opened'[Warmer])
    /\ took'[Warmer] # {} => OutlastsThen(anchored')
    /\ anchored' = opened'[Warmer] \/ renew'
    /\ \A p \in Parts \ left' :
         HasThen(opened'[Warmer], p) \/ (stack'[Warmer] # <<>> /\ stack'[Warmer][1].slot[2] = p)

AlwaysWholeNow ==
  /\ anchored' # 0 /\ anchorOf'[anchored'] # None
  /\ anchored' # opened'[Warmer] => WholeThen(anchored')
  /\ task' = "asleep" => wake' < expires'[anchored'] /\ wake' <= now' + RefreshAfter
  /\ \A h \in Requests :
       opened'[h] \notin {0, opened'[Warmer]} =>
         /\ anchorOf'[opened'[h]] # None
         /\ now' < expires'[opened'[h]] => WholeThen(opened'[h])

\* The last conjunct of WarmInv, and all of it, the same way.
WaitersNow ==
  \A h \in Handles : opened'[h] # 0 /\ took'[h] = {} /\ stack'[h] # <<>> => OutlastsThen(opened'[h])

WarmNow == (IF renew' THEN AlwaysWholeNow ELSE FirstRoundNow) /\ RoundNow /\ WaitersNow

\* They say what WarmInv does.
LEMMA WarmIs ==
  ASSUME opened'[Warmer] # 0 <=> task' = "reading", Calm' => WarmNow
  PROVE  WarmInv'
<1>1. HasAll(anchored)' <=> WholeThen(anchored')
  BY DEF HasAll, Has, WholeThen, HasThen
<1>2. AlwaysWholeNow => AlwaysWhole'
  BY <1>1 DEF AlwaysWholeNow, AlwaysWhole, Found, HasAll, Has, Live, WholeThen, HasThen
<1>3. FirstRoundNow => FirstRound'
  BY DEF FirstRoundNow, FirstRound
<1>4. RoundNow => RoundInOrder'
  BY DEF RoundNow, RoundInOrder, OutlastsThen, Outlasts, Ready, HasThen, Has
<1>5. WaitersNow => (\A h \in Handles : opened[h] # 0 /\ ~ Ready(h) /\ stack[h] # <<>> => Outlasts(opened[h]))'
  BY DEF WaitersNow, OutlastsThen, Outlasts, Ready
<1> QED
  BY <1>2, <1>3, <1>4, <1>5 DEF WarmNow, WarmInv

\* While nothing has failed and nothing was let go, nothing had, and these are the steps.
LEMMA CalmStep ==
  ASSUME TaskTyped, [WarmNext]_allVars, Calm'
  PROVE  /\ Calm
         /\ \/ StartRound \/ ReadPart \/ (EndRound /\ Sleep(RefreshAfter)) \/ Wakes
            \/ \E h \in Requests : RequestStep(h) /\ UNCHANGED warmVars
            \/ \E h \in Handles : Filling(h) /\ UNCHANGED warmVars
            \/ (Walking(Warmer) \/ Publish) /\ UNCHANGED warmVars
            \/ TimePasses \/ UNCHANGED allVars
<1>1. failed \in Nat /\ lapsed \in Nat /\ evicted \in Nat
  BY WarmAssumption DEF TaskTyped
<1>2. CASE UNCHANGED warmVars
  BY <1>2 DEF Calm, WarmNext, allVars, warmVars, StartRound, ReadPart, ReadWithout, EndRound,
              FailRound, Wakes, Fails
<1>3. ~ Fails
  BY <1>1 DEF Fails, Calm
<1>4. ~ ReadWithout /\ ~ FailRound
  BY <1>3 DEF ReadWithout, FailRound
<1>5. ~ (evicted' = evicted + 1)
  BY <1>1 DEF Calm
<1>6. CASE StartRound \/ ReadPart \/ Wakes \/ TimePasses \/ UNCHANGED allVars
  BY <1>6 DEF Calm, StartRound, ReadPart, Wakes, TimePasses, allVars, warmVars
<1>7. CASE EndRound
  BY <1>7 DEF Calm, EndRound
<1> QED
  BY <1>2, <1>4, <1>5, <1>6, <1>7 DEF WarmNext

\* The generations that can be asked about stay as whole as they are.
LEMMA StayWhole ==
  ASSUME CacheTyped, StacksInOrder, ReadAfterAnchor, NothingOutlivesItsAnchor, CacheTyped',
         Tick \/ Publish \/ (UNCHANGED vars) \/ \E h \in Handles : HandleStep(h),
         NEW g, g # 0, g <= drawn, g = anchored' \/ \E k \in Handles : g = opened'[k]
  PROVE  /\ anchorOf[g] # None => anchorOf'[g] # None
         /\ expires'[g] = expires[g] /\ expires[g] \in Nat
         /\ \A p \in Parts : Has(g, p) /\ now' < expires[g] => HasThen(g, p)
         /\ HasAll(g) /\ now' < expires[g] => WholeThen(g)
<1>1. g \in Generations
  <2>1. drawn' \in 0..LastGeneration /\ anchored' \in 0..drawn' /\ opened' \in [Handles -> 0..drawn']
    BY DEF CacheTyped
  <2> QED
    BY <2>1, Constants DEF Generations
<1>2. Reachable(g)'
  BY DEF Reachable
<1>3. StaysWhole(g)
  BY <1>1, <1>2, WholeKept
<1>4. \A p \in Parts : Has(g, p)' <=> HasThen(g, p)
  BY DEF Has, HasThen
<1>5. expires[g] \in Nat
  BY <1>1, Constants DEF CacheTyped
<1> QED
  BY <1>3, <1>4, <1>5 DEF StaysWhole, HasAll, WholeThen

\* What the invariants say while all is calm.
LEMMA CalmHas ==
  ASSUME CacheTyped, TaskTyped, StacksInOrder, ReadAfterAnchor, NothingOutlivesItsAnchor, WarmInv, Calm
  PROVE  /\ now \in Nat /\ drawn \in Nat /\ anchored \in 0..drawn /\ RefreshAfter \in Nat
         /\ \A h \in Handles : opened[h] \in 0..drawn
         /\ opened[Warmer] # 0 <=> task = "reading"
         /\ renew => AlwaysWhole
         /\ ~ renew => FirstRound
         /\ RoundInOrder
         /\ renew \in BOOLEAN
         /\ \A h \in Handles : opened[h] # 0 /\ took[h] = {} /\ stack[h] # <<>> => Outlasts(opened[h])
         /\ task = "reading" => anchored # 0
<1>1. now \in Nat /\ drawn \in Nat /\ anchored \in 0..drawn /\ RefreshAfter \in Nat
  BY RefreshIs, Constants DEF CacheTyped
<1>2. \A h \in Handles : opened[h] \in 0..drawn
  BY DEF CacheTyped
<1>3. /\ opened[Warmer] # 0 <=> task = "reading"
      /\ renew => AlwaysWhole
      /\ ~ renew => FirstRound
      /\ RoundInOrder
      /\ \A h \in Handles : opened[h] # 0 /\ took[h] = {} /\ stack[h] # <<>> => Outlasts(opened[h])
  BY DEF WarmInv, Ready
<1>4. task = "reading" => anchored # 0
  <2>1. SUFFICES ASSUME task = "reading" PROVE anchored # 0
    OBVIOUS
  <2>2. CASE renew
    BY <1>3, <2>2 DEF AlwaysWhole, Found
  <2>3. CASE ~ renew
    BY <1>1, <1>2, <1>3, <2>1, <2>3, Constants DEF FirstRound
  <2> QED
    BY <2>2, <2>3
<1>5. renew \in BOOLEAN
  BY DEF TaskTyped
<1> QED
  BY <1>1, <1>2, <1>3, <1>4, <1>5

\* A generation that is whole is one that may be found.
LEMMA WholeIsLive ==
  ASSUME CacheTyped, NothingOutlivesItsAnchor, NEW g \in Generations
  PROVE  /\ \A p \in Parts : Has(g, p) => now < expires[g]
         /\ Outlasts(g) => now < expires[g]
<1>1. \A p \in Parts : Has(g, p) => now < expires[g]
  BY DEF NothingOutlivesItsAnchor, Has, Live
<1>2. now \in Nat /\ expires[g] \in Nat /\ RefreshAfter \in Nat
  BY RefreshIs, Constants DEF CacheTyped
<1> QED
  BY <1>1, <1>2 DEF Outlasts

\* A step in which the clock stands still, the task stays where it is, nobody opens the catalog,
\* and the anchor in the cache is the one before or one that somebody has just been given.
LEMMA StillWarm ==
  ASSUME CacheTyped, TaskTyped, StacksInOrder, ReadAfterAnchor, NothingOutlivesItsAnchor, WarmInv, Calm,
         CacheTyped', Publish \/ (UNCHANGED vars) \/ \E h \in Handles : HandleStep(h),
         now' = now, drawn' = drawn, task' = task, wake' = wake, renew' = renew,
         \A k \in Handles : opened'[k] = opened[k] \/ (k # Warmer /\ opened'[k] = 0),
         \/ anchored' = anchored /\ (took'[Warmer] # {} => took[Warmer] # {})
         \/ \E h \in Handles : /\ opened[h] # 0 /\ opened'[h] = opened[h] /\ anchored' = opened[h]
                               /\ Outlasts(opened[h]) /\ anchorOf[opened[h]] # None,
         \A h \in Handles : opened'[h] # 0 /\ took'[h] = {} /\ stack'[h] # <<>> =>
           took[h] = {} /\ stack[h] # <<>>,
         task = "reading" => \A p \in Parts \ left' :
           \/ HasThen(opened[Warmer], p)
           \/ stack'[Warmer] # <<>> /\ stack'[Warmer][1].slot[2] = p
  PROVE  WarmInv'
<1> DEFINE o == opened[Warmer]
<1>1. /\ now \in Nat /\ drawn \in Nat /\ anchored \in 0..drawn /\ RefreshAfter \in Nat
      /\ \A h \in Handles : opened[h] \in 0..drawn
      /\ o # 0 <=> task = "reading"
      /\ renew => AlwaysWhole
      /\ ~ renew => FirstRound
      /\ RoundInOrder
      /\ renew \in BOOLEAN
      /\ \A h \in Handles : opened[h] # 0 /\ took[h] = {} /\ stack[h] # <<>> => Outlasts(opened[h])
      /\ task = "reading" => anchored # 0
  BY CalmHas
<1>2. Warmer \in Handles /\ opened'[Warmer] = o
  BY Constants
<1>3. ASSUME NEW g, g # 0, g <= drawn, g = anchored' \/ \E k \in Handles : g = opened'[k]
      PROVE  /\ anchorOf[g] # None => anchorOf'[g] # None
             /\ expires'[g] = expires[g] /\ expires[g] \in Nat
             /\ \A p \in Parts : Has(g, p) => HasThen(g, p)
             /\ HasAll(g) /\ now < expires[g] => WholeThen(g)
             /\ Outlasts(g) => OutlastsThen(g) /\ now < expires[g]
  <2>1. /\ anchorOf[g] # None => anchorOf'[g] # None
        /\ expires'[g] = expires[g] /\ expires[g] \in Nat
        /\ \A p \in Parts : Has(g, p) /\ now < expires[g] => HasThen(g, p)
        /\ HasAll(g) /\ now < expires[g] => WholeThen(g)
    BY <1>3, StayWhole
  <2>2. g \in Generations
    <3>1. drawn' \in 0..LastGeneration /\ anchored' \in 0..drawn' /\ opened' \in [Handles -> 0..drawn']
      BY DEF CacheTyped
    <3> QED
      BY <1>3, <3>1, Constants DEF Generations
  <2> QED
    BY <1>1, <2>1, <2>2, WholeIsLive DEF Outlasts, OutlastsThen
<1>4. anchored' \in 0..drawn /\ \A h \in Handles : opened'[h] \in 0..drawn
  BY DEF CacheTyped
<1>5. WaitersNow
  <2>1. SUFFICES ASSUME NEW h \in Handles, opened'[h] # 0, took'[h] = {}, stack'[h] # <<>>
                 PROVE  OutlastsThen(opened'[h])
    BY DEF WaitersNow
  <2>2. opened'[h] = opened[h] /\ took[h] = {} /\ stack[h] # <<>>
    BY <2>1
  <2> QED
    BY <1>1, <1>3, <1>4, <2>1, <2>2
<1>6. ASSUME ~ renew PROVE FirstRoundNow /\ (o # 0 => anchored' = o)
  <2>1. now = 0 /\ task # "asleep" /\ drawn <= 1 /\ anchored = drawn /\ (drawn = 1 => expires[1] = Lifetime)
    BY <1>1, <1>6 DEF FirstRound
  <2>2. anchored' = drawn
    <3>1. \A h \in Handles : opened[h] # 0 => opened[h] = drawn
      BY <1>1, <2>1
    <3> QED
      BY <2>1, <3>1
  <2>3. drawn = 1 => expires'[1] = Lifetime
    BY <1>3, <2>1, <2>2
  <2>4. o # 0 => o = drawn
    BY <1>1, <1>2, <2>1
  <2> QED
    BY <2>1, <2>2, <2>3, <2>4 DEF FirstRoundNow
<1>7. anchored' # 0 /\ took[Warmer] # {} /\ task = "reading" => (anchored' = anchored => OutlastsThen(anchored'))
  <2>1. SUFFICES ASSUME anchored' # 0, took[Warmer] # {}, task = "reading", anchored' = anchored
                 PROVE  OutlastsThen(anchored')
    OBVIOUS
  <2>2. Outlasts(anchored)
    BY <1>1, <2>1 DEF RoundInOrder, Ready
  <2> QED
    BY <1>3, <1>4, <2>1, <2>2
<1>8. RoundNow
  <2>1. SUFFICES ASSUME task = "reading"
                 PROVE  /\ OutlastsThen(o)
                        /\ took'[Warmer] # {} => OutlastsThen(anchored')
                        /\ anchored' = o \/ renew
    BY <1>2 DEF RoundNow
  <2>2. OutlastsThen(o)
    <3>1. Outlasts(o) /\ o # 0 /\ o <= drawn
      BY <1>1, <1>2, <2>1 DEF RoundInOrder
    <3> QED
      BY <1>2, <1>3, <3>1
  <2>3. took'[Warmer] # {} => OutlastsThen(anchored')
    <3>1. CASE anchored' = anchored /\ (took'[Warmer] # {} => took[Warmer] # {})
      BY <1>1, <1>7, <2>1, <3>1
    <3>2. ASSUME NEW h \in Handles, opened[h] # 0, anchored' = opened[h], Outlasts(opened[h])
          PROVE  OutlastsThen(anchored')
      BY <1>3, <1>4, <3>2
    <3> QED
      BY <3>1, <3>2
  <2>4. anchored' = o \/ renew
    BY <1>1, <1>6, <2>1
  <2> QED
    BY <2>2, <2>3, <2>4
<1>9. ASSUME renew PROVE AlwaysWholeNow
  <2>1. /\ anchored # 0 /\ anchorOf[anchored] # None
        /\ anchored # o => HasAll(anchored)
        /\ task = "asleep" => wake < expires[anchored] /\ wake <= now + RefreshAfter
        /\ \A h \in Requests : opened[h] \notin {0, o} =>
             anchorOf[opened[h]] # None /\ (now < expires[opened[h]] => HasAll(opened[h]))
    BY <1>1, <1>9 DEF AlwaysWhole, Found, Live
  <2>2. /\ anchored' # 0 /\ anchorOf'[anchored'] # None
        /\ anchored' # o => WholeThen(anchored')
        /\ task = "asleep" => wake < expires'[anchored'] /\ wake <= now + RefreshAfter
    <3>1. CASE anchored' = anchored
      <4>1. now < expires[anchored]
        BY <2>1 DEF NothingOutlivesItsAnchor, Live
      <4> QED
        BY <1>3, <1>4, <2>1, <3>1, <4>1
    <3>2. ASSUME NEW h \in Handles, opened[h] # 0, opened'[h] = opened[h], anchored' = opened[h],
                 Outlasts(opened[h]), anchorOf[opened[h]] # None
          PROVE  /\ anchored' # 0 /\ anchorOf'[anchored'] # None
                 /\ anchored' # o => WholeThen(anchored')
                 /\ task = "asleep" => wake < expires'[anchored'] /\ wake <= now + RefreshAfter
      <4> DEFINE g == opened[h]
      <4>1. /\ g # 0 /\ anchored' = g /\ anchorOf'[g] # None /\ expires'[g] = expires[g]
            /\ expires[g] \in Nat /\ now < expires[g] /\ now + RefreshAfter < expires[g]
            /\ HasAll(g) => WholeThen(g)
        BY <1>3, <1>4, <3>2 DEF Outlasts
      <4>2. g # o => HasAll(g)
        <5>1. g # o => h \in Requests
          BY DEF Requests
        <5> QED
          BY <2>1, <3>2, <4>1, <5>1
      <4>3. task = "asleep" => wake < expires[g] /\ wake <= now + RefreshAfter
        <5>1. wake \in Nat
          BY Constants DEF TaskTyped
        <5> QED
          BY <1>1, <2>1, <4>1, <5>1
      <4> HIDE DEF g
      <4> QED
        BY <4>1, <4>2, <4>3
    <3> QED
      BY <3>1, <3>2
  <2>3. ASSUME NEW h \in Requests, opened'[h] \notin {0, o}
        PROVE  anchorOf'[opened'[h]] # None /\ (now' < expires'[opened'[h]] => WholeThen(opened'[h]))
    <3>1. h \in Handles /\ opened'[h] = opened[h]
      BY <2>3 DEF Requests
    <3>2. anchorOf[opened[h]] # None /\ (now < expires[opened[h]] => HasAll(opened[h]))
      BY <2>1, <2>3, <3>1
    <3> QED
      BY <1>3, <1>4, <2>3, <3>1, <3>2
  <2> QED
    BY <1>2, <2>2, <2>3 DEF AlwaysWholeNow
<1>10. WarmNow
  BY <1>1, <1>5, <1>6, <1>8, <1>9 DEF WarmNow
<1> QED
  BY <1>1, <1>2, <1>10, WarmIs

\* Somebody opens the catalog, or the task begins a round: in the first round all there is is
\* fresh, and afterwards the anchor is found, or is the task's own and not to be found yet.
LEMMA OpenWarm ==
  ASSUME CacheTyped, TaskTyped, StacksInOrder, ReadAfterAnchor, NothingOutlivesItsAnchor, WarmInv, Calm,
         CacheTyped', NEW h \in Handles,
         \/ h \in Requests /\ Open(h) /\ UNCHANGED warmVars
         \/ h = Warmer /\ StartRound
  PROVE  WarmInv'
<1> DEFINE o == opened[Warmer]
<1>1. /\ now \in Nat /\ drawn \in Nat /\ anchored \in 0..drawn /\ RefreshAfter \in Nat
      /\ \A k \in Handles : opened[k] \in 0..drawn
      /\ o # 0 <=> task = "reading"
      /\ renew => AlwaysWhole
      /\ ~ renew => FirstRound
      /\ RoundInOrder
      /\ renew \in BOOLEAN
      /\ \A k \in Handles : opened[k] # 0 /\ took[k] = {} /\ stack[k] # <<>> => Outlasts(opened[k])
      /\ task = "reading" => anchored # 0
  BY CalmHas
<1>2. /\ Open(h) \/ (OpenRenewed(h) /\ renew /\ h = Warmer)
      /\ h = Warmer => task = "due" /\ task' = "reading" /\ left' = Parts
      /\ h = Warmer => (renew => OpenRenewed(h)) /\ (~ renew => Open(h))
      /\ h # Warmer => task' = task /\ left' = left /\ Open(h)
      /\ renew' = renew /\ wake' = wake
  BY DEF StartRound, warmVars, Requests
<1>3. /\ UNCHANGED <<now, version, held, resident, walk, anchorOf>>
      /\ OthersAsTheyWere(h)
  BY <1>2, OpenEffect
<1>4. PICK g \in Generations :
              /\ opened' = [opened EXCEPT ![h] = g]
              /\ \/ Open(h) /\ FindsAnchor(h, g)
                 \/ Open(h) /\ MakesAnchor(h, g) /\ anchored = 0 /\ anchored' = g
                 \/ OpenRenewed(h) /\ MakesAnchor(h, g) /\ anchored' = anchored
  BY <1>2, OpenEffect
<1>5. opened'[h] = g /\ (\A k \in Handles : k # h => opened'[k] = opened[k])
      /\ g # 0 /\ g \in Nat
  BY <1>4, Constants DEF CacheTyped, Generations
<1>6. \A k \in Handles : k # h => stack'[k] = stack[k] /\ took'[k] = took[k]
  BY <1>3 DEF OthersAsTheyWere
<1>7. \A i : WholeThen(i) <=> HasAll(i)
  BY <1>3 DEF WholeThen, HasThen, HasAll, Has
<1>8. \A i, p : HasThen(i, p) <=> Has(i, p)
  BY <1>3 DEF HasThen, Has
<1>9. /\ FindsAnchor(h, g) =>
           g = anchored /\ anchored' = anchored /\ drawn' = drawn /\ expires' = expires
      /\ MakesAnchor(h, g) => g = drawn + 1 /\ drawn' = g /\ expires'[g] = now + Lifetime
                              /\ \A i \in Generations : i # g => expires'[i] = expires[i]
  BY DEF FindsAnchor, MakesAnchor, CacheTyped
<1> DEFINE finds == FindsAnchor(h, g)
           makes == MakesAnchor(h, g)
<1>9a. ~ (Open(h) /\ OpenRenewed(h)) /\ ~ (finds /\ makes)
  <2>1. ~ (finds /\ makes)
    BY <1>1, <1>9
  <2>2. ASSUME Open(h), OpenRenewed(h) PROVE FALSE
    <3>1. drawn' = drawn + 1 /\ anchored' = anchored
      BY <2>2 DEF OpenRenewed, Draw
    <3>2. IF anchored # 0 THEN drawn' = drawn ELSE anchored' = drawn'
      BY <2>2 DEF Open
    <3> QED
      BY <1>1, <3>1, <3>2
  <2> QED
    BY <2>1, <2>2
<1>10. \A i \in 1 .. drawn : expires'[i] = expires[i] /\ (Outlasts(i) => OutlastsThen(i))
  <2>1. TAKE i \in 1 .. drawn
  <2>2. i \in Generations
    BY Constants DEF CacheTyped, Generations
  <2>3. expires'[i] = expires[i]
    BY <1>1, <1>4, <1>9, <2>2
  <2> QED
    BY <1>3, <2>3 DEF Outlasts, OutlastsThen
<1>11. MakesAnchor(h, g) => OutlastsThen(g)
  BY <1>1, <1>3, <1>9, RefreshIs, Constants DEF OutlastsThen
<1>12. ASSUME ~ renew PROVE FirstRoundNow /\ OutlastsThen(g) /\ anchored' = g
  <2>1. now = 0 /\ task # "asleep" /\ drawn <= 1 /\ anchored = drawn /\ (drawn = 1 => expires[1] = Lifetime)
    BY <1>1, <1>12 DEF FirstRound
  <2>2. task' # "asleep"
    BY <1>2, <2>1
  <2>3. CASE FindsAnchor(h, g)
    <3>1. drawn = 1 /\ g = 1
      BY <1>1, <1>5, <1>9, <2>1, <2>3
    <3>2. expires'[1] = Lifetime /\ now' = 0
      BY <1>3, <1>9, <2>1, <2>3, <3>1
    <3> QED
      BY <1>9, <2>1, <2>2, <2>3, <3>1, <3>2, RefreshIs DEF FirstRoundNow, OutlastsThen
  <2>4. CASE MakesAnchor(h, g)
    <3>1. Open(h) /\ anchored = 0 /\ anchored' = g
      BY <1>2, <1>4, <1>12, <1>9a, <2>4
    <3>2. g = 1 /\ drawn' = 1 /\ expires'[1] = Lifetime
      BY <1>9, <2>1, <2>4, <3>1, Constants
    <3> QED
      BY <1>3, <1>11, <2>1, <2>2, <2>4, <3>1, <3>2 DEF FirstRoundNow
  <2> QED
    BY <1>4, <2>3, <2>4
<1>13. ASSUME renew
       PROVE  /\ anchored # 0 /\ anchored' = anchored /\ anchorOf[anchored] # None
              /\ h # Warmer => FindsAnchor(h, g)
              /\ h = Warmer => MakesAnchor(h, g)
  <2>1. anchored # 0 /\ anchorOf[anchored] # None
    BY <1>1, <1>13 DEF AlwaysWhole, Found
  <2>2. CASE h = Warmer
    BY <1>2, <1>4, <1>13, <1>9a, <2>1, <2>2
  <2>3. CASE h # Warmer
    BY <1>2, <1>4, <1>9, <1>9a, <2>1, <2>3
  <2> QED
    BY <2>1, <2>2, <2>3
<1>14. WaitersNow
  <2>1. SUFFICES ASSUME NEW k \in Handles, opened'[k] # 0, took'[k] = {}, stack'[k] # <<>>
                 PROVE  OutlastsThen(opened'[k])
    BY DEF WaitersNow
  <2>2. CASE k # h
    <3>1. opened'[k] = opened[k] /\ Outlasts(opened[k]) /\ opened[k] \in 1 .. drawn
      BY <1>1, <1>5, <1>6, <2>1, <2>2
    <3> QED
      BY <1>10, <3>1
  <2>3. CASE k = h
    <3>1. MakesAnchor(h, g) \/ (FindsAnchor(h, g) /\ anchorOf[g] = None)
      BY <1>4, <2>1, <2>3 DEF FindsAnchor
    <3>2. MakesAnchor(h, g) \/ ~ renew
      BY <1>9, <1>13, <3>1
    <3> QED
      BY <1>5, <1>11, <1>12, <2>3, <3>2
  <2> QED
    BY <2>2, <2>3
<1>15. RoundNow
  <2>1. SUFFICES ASSUME task' = "reading"
                 PROVE  /\ OutlastsThen(opened'[Warmer])
                        /\ took'[Warmer] # {} => OutlastsThen(anchored')
                        /\ anchored' = opened'[Warmer] \/ renew'
                        /\ \A p \in Parts \ left' :
                             \/ HasThen(opened'[Warmer], p)
                             \/ stack'[Warmer] # <<>> /\ stack'[Warmer][1].slot[2] = p
    BY DEF RoundNow
  <2>2. CASE h = Warmer
    <3>1. renew => MakesAnchor(h, g) /\ took'[h] = {}
      BY <1>13, <2>2 DEF MakesAnchor
    <3>2. Parts \ left' = {}
      BY <1>2, <2>2
    <3> QED
      BY <1>1, <1>2, <1>5, <1>11, <1>12, <2>2, <3>1, <3>2
  <2>3. CASE h # Warmer
    <3>1. /\ task = "reading" /\ left' = left /\ opened'[Warmer] = o
          /\ took'[Warmer] = took[Warmer] /\ stack'[Warmer] = stack[Warmer]
      BY <1>2, <1>5, <1>6, <2>1, <2>3, Constants
    <3>2. anchored # 0 /\ o # 0 /\ anchored \in 1 .. drawn /\ o \in 1 .. drawn
      BY <1>1, <3>1, Constants
    <3>3. anchored' = anchored
      BY <1>2, <1>4, <1>9, <2>3, <3>2
    <3>4. /\ Outlasts(o) /\ (took[Warmer] # {} => Outlasts(anchored)) /\ (anchored = o \/ renew)
          /\ \A p \in Parts \ left : Has(o, p) \/ (stack[Warmer] # <<>> /\ stack[Warmer][1].slot[2] = p)
      BY <1>1, <3>1 DEF RoundInOrder, Ready
    <3> QED
      BY <1>2, <1>8, <1>10, <3>1, <3>2, <3>3, <3>4
  <2> QED
    BY <2>2, <2>3
<1>16. ASSUME renew PROVE AlwaysWholeNow
  <2>1. /\ anchored # 0 /\ anchorOf[anchored] # None
        /\ anchored # o => HasAll(anchored)
        /\ task = "asleep" => wake < expires[anchored] /\ wake <= now + RefreshAfter
        /\ \A k \in Requests : opened[k] \notin {0, o} =>
             anchorOf[opened[k]] # None /\ (now < expires[opened[k]] => HasAll(opened[k]))
    BY <1>1, <1>16 DEF AlwaysWhole, Found, Live
  <2>2. anchored' = anchored /\ anchored \in 1 .. drawn /\ now' = now /\ anchorOf' = anchorOf
    BY <1>1, <1>3, <1>13, <1>16
  <2>3. expires'[anchored] = expires[anchored]
    BY <1>10, <2>2
  <2>4. h # Warmer => opened'[Warmer] = o /\ task' = task
    BY <1>2, <1>5, Constants
  <2>5. h = Warmer => o = 0 /\ opened'[Warmer] = g /\ task' # "asleep"
    BY <1>1, <1>2, <1>5
  <2>6. anchored # opened'[Warmer] => WholeThen(anchored)
    <3>1. anchored # opened'[Warmer] => anchored # o
      BY <2>1, <2>4, <2>5
    <3> QED
      BY <1>7, <2>1, <3>1
  <2>7. task' = "asleep" => wake' < expires'[anchored'] /\ wake' <= now' + RefreshAfter
    BY <1>2, <2>1, <2>2, <2>3, <2>4, <2>5
  <2>8. ASSUME NEW k \in Requests, opened'[k] \notin {0, opened'[Warmer]}
        PROVE  anchorOf'[opened'[k]] # None /\ (now' < expires'[opened'[k]] => WholeThen(opened'[k]))
    <3>1. k \in Handles /\ k # Warmer
      BY DEF Requests
    <3>2. CASE k = h
      <4>1. FindsAnchor(h, g) /\ g = anchored /\ opened'[k] = anchored
        BY <1>5, <1>9, <1>13, <1>16, <3>1, <3>2
      <4>2. WholeThen(anchored)
        BY <2>6, <2>8, <4>1
      <4> QED
        BY <2>1, <2>2, <4>1, <4>2
    <3>3. CASE k # h
      <4>1. opened'[k] = opened[k] /\ opened[k] # 0
        BY <1>5, <2>8, <3>1, <3>3
      <4>2. opened[k] \notin {0, o}
        BY <2>4, <2>5, <2>8, <4>1
      <4>3. expires'[opened[k]] = expires[opened[k]]
        BY <1>1, <1>10, <3>1, <4>1
      <4> QED
        BY <1>7, <2>1, <2>2, <4>1, <4>2, <4>3
    <3> QED
      BY <3>2, <3>3
  <2> QED
    BY <2>1, <2>2, <2>6, <2>7, <2>8 DEF AlwaysWholeNow
<1>17. opened'[Warmer] # 0 <=> task' = "reading"
  BY <1>1, <1>2, <1>5, Constants
<1>18. WarmNow
  BY <1>1, <1>2, <1>12, <1>14, <1>15, <1>16 DEF WarmNow
<1> QED
  BY <1>17, <1>18, WarmIs

\* What the task has asked for it has then, or is still at.
LEMMA RoundStays ==
  ASSUME CacheTyped, TaskTyped, StacksInOrder, ReadAfterAnchor, NothingOutlivesItsAnchor, WarmInv, Calm,
         CacheTyped', Publish \/ (UNCHANGED vars) \/ \E h \in Handles : HandleStep(h),
         now' = now, opened'[Warmer] = opened[Warmer], task = "reading"
  PROVE  \A p \in Parts \ left :
           HasThen(opened[Warmer], p) \/ (stack[Warmer] # <<>> /\ stack[Warmer][1].slot[2] = p)
<1> DEFINE o == opened[Warmer]
<1>1. o # 0 /\ o \in 0..drawn /\ drawn \in Nat /\ RoundInOrder
  BY CalmHas, Constants
<1>2. o \in Generations
  <2>1. drawn \in 0..LastGeneration /\ LastGeneration \in Nat
    BY Constants DEF CacheTyped
  <2> QED
    BY <1>1, <2>1 DEF Generations
<1>3. \A p \in Parts : Has(o, p) => HasThen(o, p)
  BY <1>1, <1>2, StayWhole, WholeIsLive, Constants
<1> QED
  BY <1>1, <1>3 DEF RoundInOrder

\* The first of the parts a handle is at stays where it is while there are others on it.
LEMMA FirstStays ==
  ASSUME CacheTyped, NEW h \in Handles, stack[h] # <<>>, NEW top,
         \/ Unmoved(h) \/ Pushed(h, top)
         \/ Swapped(h, top) /\ top.slot = Top(h).slot
         \/ Popped(h) /\ Len(stack[h]) > 1
  PROVE  stack'[h] # <<>> /\ stack'[h][1].slot = stack[h][1].slot
<1> DEFINE n == Len(stack[h])
           m == Len(stack'[h])
<1>1. n \in Nat \ {0} /\ Top(h) = stack[h][n]
  BY OuterIs
<1>2. m # 0 => stack'[h] # <<>>
  BY EmptySeq
<1>3. CASE Unmoved(h)
  BY <1>1, <1>2, <1>3 DEF Unmoved, UpTo, SameFrame
<1>4. CASE Pushed(h, top)
  BY <1>1, <1>2, <1>4 DEF Pushed, UpTo, SameFrame
<1>5. CASE Swapped(h, top) /\ top.slot = Top(h).slot
  <2>1. m = n /\ stack'[h][n] = top /\ \A i \in 1 .. n - 1 : stack'[h][i].slot = stack[h][i].slot
    BY <1>5 DEF Swapped, UpTo, SameFrame
  <2>2. n = 1 \/ 1 \in 1 .. n - 1
    <3>1. n = 1 \/ n - 1 >= 1
      <4>1. n \in Nat \ {0}
        BY <1>1
      <4> HIDE DEF n
      <4> QED
        BY <4>1
    <3> QED
      BY <1>1, <3>1
  <2> QED
    BY <1>1, <1>2, <1>5, <2>1, <2>2
<1>6. CASE Popped(h) /\ n > 1
  <2>1. m = n - 1 /\ \A i \in 1 .. n - 1 : stack'[h][i].slot = stack[h][i].slot
    BY <1>6 DEF Popped, UpTo, SameFrame
  <2>2. 1 \in 1 .. n - 1 /\ m # 0
    BY <1>1, <1>6, <2>1
  <2> QED
    BY <1>2, <2>1, <2>2
<1> QED
  BY <1>3, <1>4, <1>5, <1>6

\* A slot that is filled and put in the cache in time is there.
LEMMA PutHas ==
  ASSUME CacheTyped, NEW s \in Slots, Settle(With(s), held), held[s] # None, now < expires[s[1]],
         NEW h \in Handles, opened'[h] = s[1]
  PROVE  HasThen(s[1], s[2])
<1>1. s[1] \in Generations /\ s[2] \in Parts /\ s[3] # 0 /\ s = <<s[1], s[2], s[3]>>
  BY Constants DEF Slots
<1>2. With(s)[<<s[1], s[2]>>] = s[3] /\ With(s) \in Entries /\ held \in Values
  BY WithIs DEF Live, CacheTyped, Values
<1>3. \A g \in Generations : g = s[1] => Reachable(g)'
  BY DEF Reachable
<1>4. \A g \in Generations, p \in Parts : g = s[1] /\ p = s[2] => Has(g, p)'
  <2>1. TAKE g \in Generations, p \in Parts
  <2>2. HAVE g = s[1] /\ p = s[2]
  <2>3. Reachable(g)' /\ With(s)[<<g, p>>] = s[3] /\ held[<<g, p, s[3]>>] # None
    BY <1>1, <1>2, <1>3, <2>2
  <2> QED
    BY <1>1, <1>2, <2>3, SettleHas
<1>5. \A g, p : Has(g, p)' <=> HasThen(g, p)
  BY DEF Has, HasThen
<1> QED
  BY <1>1, <1>4, <1>5

\* Asking, by a request or by the task.
LEMMA AskWarm ==
  ASSUME CacheTyped, TaskTyped, StacksInOrder, ReadAfterAnchor, NothingOutlivesItsAnchor, WarmInv, Calm,
         CacheTyped', NEW h \in Handles, NEW p \in Parts, Ask(h, p),
         task' = task, wake' = wake, renew' = renew,
         IF h = Warmer
         THEN /\ task = "reading"
              /\ left' = IF stack[Warmer] = <<>> THEN left \ {p} ELSE left
         ELSE left' = left
  PROVE  WarmInv'
<1> DEFINE s == SlotOf(opened[h], p)
           top == Frame(s, IF Unread(s) THEN "reading" ELSE "waiting")
           o == opened[Warmer]
<1>1. /\ Ready(h) /\ opened[h] # 0
      /\ s \in Slots /\ s[1] = opened[h] /\ s[2] = p
      /\ OthersAsTheyWere(h)
      /\ \/ held[s] # None /\ Unmoved(h) /\ took'[h] = took[h] \cup {held[s]}
         \/ held[s] = None /\ Pushed(h, top) /\ took'[h] = took[h]
  BY AskEffect
<1>2. Settle(With(s), held) /\ UNCHANGED <<now, version, drawn, anchored, opened, walk>>
  BY DEF Ask
<1>3. top.slot = s
  BY <1>1, FrameIs
<1>4. HandleStep(h)
  BY DEF HandleStep
<1> HIDE DEF s, top
<1>5. took'[h] # {} /\ took[h] # {} /\ \A k \in Handles : k # h => took'[k] = took[k] /\ stack'[k] = stack[k]
  BY <1>1 DEF Ready, OthersAsTheyWere
<1>6. ASSUME task = "reading", NEW q \in Parts \ left'
      PROVE  HasThen(o, q) \/ (stack'[Warmer] # <<>> /\ stack'[Warmer][1].slot[2] = q)
  <2>1. \A r \in Parts \ left : HasThen(o, r) \/ (stack[Warmer] # <<>> /\ stack[Warmer][1].slot[2] = r)
    BY <1>2, <1>4, <1>6, RoundStays
  <2>2. CASE h # Warmer
    BY <1>5, <1>6, <2>1, <2>2, Constants
  <2>3. CASE h = Warmer /\ stack[Warmer] # <<>>
    <3>1. left' = left
      BY <2>3
    <3>2. stack'[Warmer] # <<>> /\ stack'[Warmer][1].slot = stack[Warmer][1].slot
      BY <1>1, <2>3, FirstStays
    <3> QED
      BY <1>6, <2>1, <3>1, <3>2
  <2>4. CASE h = Warmer /\ stack[Warmer] = <<>>
    <3>1. q \in Parts \ left \/ q = p
      BY <1>6, <2>4
    <3>2. q \in Parts \ left => HasThen(o, q)
      BY <2>1, <2>4
    <3>3. CASE held[s] # None
      <4>1. o \in Generations /\ Outlasts(o)
        <5>1. drawn \in 0..LastGeneration /\ LastGeneration \in Nat /\ o \in 0..drawn /\ o # 0
          BY <1>6, CalmHas, Constants DEF CacheTyped
        <5>2. RoundInOrder
          BY CalmHas
        <5> QED
          BY <1>6, <5>1, <5>2 DEF RoundInOrder, Generations
      <4>2. now < expires[o]
        BY <4>1, WholeIsLive
      <4>3. HasThen(o, p)
        BY <1>1, <1>2, <2>4, <3>3, <4>2, PutHas
      <4> QED
        BY <3>1, <3>2, <4>3
    <3>4. CASE held[s] = None
      <4>1. Pushed(h, top)
        BY <1>1, <3>4
      <4>2. Len(stack[h]) = 0
        BY <2>4, EmptySeq
      <4>3. Len(stack'[h]) = 1 /\ stack'[h][1] = top
        BY <4>1, <4>2 DEF Pushed
      <4>4. stack'[h] # <<>>
        BY <4>3, EmptySeq
      <4> QED
        BY <1>1, <1>3, <2>4, <3>1, <3>2, <4>3, <4>4
    <3> QED
      BY <3>3, <3>4
  <2> QED
    BY <2>2, <2>3, <2>4
<1>7. took'[Warmer] # {} => took[Warmer] # {}
  BY <1>5, Constants
<1>8. \A k \in Handles : opened'[k] # 0 /\ took'[k] = {} /\ stack'[k] # <<>> => took[k] = {} /\ stack[k] # <<>>
  BY <1>5
<1>9. \A k \in Handles : opened'[k] = opened[k] \/ (k # Warmer /\ opened'[k] = 0)
  BY <1>2
<1> QED
  BY <1>2, <1>4, <1>6, <1>7, <1>8, <1>9, StillWarm

\* Filling: what is put in the cache is what somebody was given, and still good.
LEMMA FillWarm ==
  ASSUME CacheTyped, TaskTyped, StacksInOrder, ReadAfterAnchor, NothingOutlivesItsAnchor, WarmInv, Calm,
         CacheTyped', NEW h \in Handles, Begin(h) \/ Deliver(h), UNCHANGED warmVars
  PROVE  WarmInv'
<1> DEFINE o == opened[Warmer]
<1>1. task' = task /\ wake' = wake /\ renew' = renew /\ left' = left
  BY DEF warmVars
<1>2. PICK top :
        /\ stack[h] # <<>> /\ Swapped(h, top) /\ top.slot = Top(h).slot /\ OthersAsTheyWere(h)
        /\ UNCHANGED <<now, drawn, anchored, opened, took>>
  <2>1. CASE Begin(h)
    <3>1. /\ stack[h] # <<>> /\ OthersAsTheyWere(h) /\ Swapped(h, Frame(Top(h).slot, "reading"))
          /\ UNCHANGED <<now, drawn, anchored, opened, took>>
      BY <2>1, BeginEffect
    <3>2. Frame(Top(h).slot, "reading").slot = Top(h).slot
      BY <3>1, TopIs, FrameIs
    <3> QED
      BY <3>1, <3>2
  <2>2. CASE Deliver(h)
    <3>1. /\ stack[h] # <<>> /\ OthersAsTheyWere(h) /\ Swapped(h, Frame(Top(h).slot, "filled"))
          /\ UNCHANGED <<now, drawn, anchored, opened, took>>
      BY <2>2, DeliverEffect
    <3>2. Frame(Top(h).slot, "filled").slot = Top(h).slot
      BY <3>1, TopIs, FrameIs
    <3> QED
      BY <3>1, <3>2
  <2> QED
    BY <2>1, <2>2
<1>3. HandleStep(h)
  BY DEF HandleStep
<1>4. \A k \in Handles : k # h => stack'[k] = stack[k]
  BY <1>2 DEF OthersAsTheyWere
<1>5. stack'[h] # <<>> /\ stack'[h][1].slot = stack[h][1].slot
  BY <1>2, FirstStays
<1>6. \A k \in Handles : stack'[k] # <<>> <=> stack[k] # <<>>
  BY <1>2, <1>4, <1>5
<1>7. \A k \in Handles : stack[k] # <<>> => stack'[k][1].slot = stack[k][1].slot
  BY <1>4, <1>5
<1>8. ASSUME task = "reading", NEW q \in Parts \ left'
      PROVE  HasThen(o, q) \/ (stack'[Warmer] # <<>> /\ stack'[Warmer][1].slot[2] = q)
  <2>1. \A r \in Parts \ left : HasThen(o, r) \/ (stack[Warmer] # <<>> /\ stack[Warmer][1].slot[2] = r)
    BY <1>2, <1>3, <1>8, RoundStays
  <2> QED
    BY <1>1, <1>6, <1>7, <1>8, <2>1, Constants
<1>9. \A k \in Handles : opened'[k] # 0 /\ took'[k] = {} /\ stack'[k] # <<>> => took[k] = {} /\ stack[k] # <<>>
  BY <1>2, <1>6
<1> QED
  BY <1>1, <1>2, <1>3, <1>8, <1>9, StillWarm

\* Who read a part or waited for it puts it back: the task's part is there, nobody else's is worse.
LEMMA PutWarm ==
  ASSUME CacheTyped, TaskTyped, StacksInOrder, ReadAfterAnchor, NothingOutlivesItsAnchor, WarmInv, Calm,
         CacheTyped', NEW h \in Handles, Put(h), UNCHANGED warmVars
  PROVE  WarmInv'
<1> DEFINE o == opened[Warmer]
           s == Top(h).slot
<1>1. task' = task /\ wake' = wake /\ renew' = renew /\ left' = left
  BY DEF warmVars
<1>2. /\ Runnable(h) /\ stack[h] # <<>> /\ Value(s) # None
      /\ OthersAsTheyWere(h) /\ Popped(h) /\ took'[h] = took[h] \cup {Value(s)}
      /\ UNCHANGED <<now, version, drawn, opened, walk>>
      /\ \/ /\ s = <<opened[h], Anchor, 0>> /\ stack'[h] = <<>>
            /\ anchored' = (IF Live(opened[h]) THEN opened[h] ELSE 0)
            /\ resident \in Entries /\ Settle(resident, held)
         \/ /\ s \in Slots /\ s[1] = opened[h] /\ s[2] \in Parts /\ Ready(h)
            /\ anchored' = anchored
            /\ With(s) \in Entries /\ Settle(With(s), held)
  BY PutEffect, RunnableHas
<1>3. /\ FrameInOrder(h, Top(h)) /\ opened[h] # 0 /\ opened[h] \in Generations
      /\ Top(h) = stack[h][Len(stack[h])] /\ Len(stack[h]) \in Nat \ {0}
      /\ s[2] = Anchor => Len(stack[h]) = 1
  BY <1>2, TopIs
<1>4. HandleStep(h)
  BY DEF HandleStep
<1>5. \A k \in Handles : k # h => stack'[k] = stack[k] /\ took'[k] = took[k]
  BY <1>2 DEF OthersAsTheyWere
<1>6. took'[h] # {} /\ (took'[Warmer] # {} => took[Warmer] # {} \/ h = Warmer)
  BY <1>2, <1>5, Constants
<1>7. \A k \in Handles : opened'[k] # 0 /\ took'[k] = {} /\ stack'[k] # <<>> => took[k] = {} /\ stack[k] # <<>>
  BY <1>5, <1>6
<1>8. \/ anchored' = anchored /\ (took'[Warmer] # {} => took[Warmer] # {})
      \/ /\ opened[h] # 0 /\ opened'[h] = opened[h] /\ anchored' = opened[h]
         /\ Outlasts(opened[h]) /\ anchorOf[opened[h]] # None
  <2>1. CASE s = <<opened[h], Anchor, 0>> /\ anchored' = (IF Live(opened[h]) THEN opened[h] ELSE 0)
    <3>1. took[h] = {}
      BY <1>3, <2>1 DEF FrameInOrder, Ready
    <3>2. Outlasts(opened[h])
      BY <1>2, <1>3, <3>1, CalmHas
    <3>3. now < expires[opened[h]]
      BY <1>3, <3>2, WholeIsLive
    <3>4. Value(s) = anchorOf[opened[h]]
      BY <2>1 DEF Value
    <3> QED
      BY <1>2, <1>3, <2>1, <3>2, <3>3, <3>4 DEF Live
  <2>2. CASE Ready(h) /\ anchored' = anchored
    BY <1>6, <2>2 DEF Ready
  <2> QED
    BY <1>2, <2>1, <2>2
<1>9. ASSUME task = "reading", NEW q \in Parts \ left'
      PROVE  HasThen(o, q) \/ (stack'[Warmer] # <<>> /\ stack'[Warmer][1].slot[2] = q)
  <2>1. \A r \in Parts \ left : HasThen(o, r) \/ (stack[Warmer] # <<>> /\ stack[Warmer][1].slot[2] = r)
    BY <1>2, <1>4, <1>9, RoundStays
  <2>2. CASE h # Warmer
    BY <1>1, <1>5, <1>9, <2>1, <2>2, Constants
  <2>3. CASE h = Warmer /\ Len(stack[h]) > 1
    <3>1. stack'[h] # <<>> /\ stack'[h][1].slot = stack[h][1].slot
      BY <1>2, <2>3, FirstStays
    <3> QED
      BY <1>1, <1>9, <2>1, <2>3, <3>1
  <2>4. CASE h = Warmer /\ ~ Len(stack[h]) > 1
    <3>1. stack[h][1].slot = s
      <4> DEFINE n == Len(stack[h])
      <4>1. n \in Nat \ {0} /\ ~ n > 1 /\ Top(h) = stack[h][n]
        BY <1>3, <2>4
      <4> HIDE DEF n
      <4>2. n = 1
        BY <4>1
      <4> QED
        BY <4>1, <4>2
    <3>2. HasThen(o, q) \/ s[2] = q
      BY <1>1, <1>9, <2>1, <2>4, <3>1
    <3>3. s[2] = q => HasThen(o, q)
      <4>1. SUFFICES ASSUME s[2] = q PROVE HasThen(o, q)
        OBVIOUS
      <4>2. q # Anchor
        BY <1>9, Constants
      <4>3. s \in Slots /\ s[1] = o /\ Settle(With(s), held)
        BY <1>2, <2>4, <4>1, <4>2
      <4>4. held[s] # None
        BY <1>2, <4>1, <4>2 DEF Value
      <4>5. Outlasts(o)
        <5>1. RoundInOrder
          BY CalmHas
        <5> QED
          BY <1>9, <5>1 DEF RoundInOrder
      <4>6. now < expires[o] /\ opened'[h] = o
        BY <1>2, <1>3, <2>4, <4>5, WholeIsLive
      <4> HIDE DEF s
      <4> QED
        BY <4>1, <4>3, <4>4, <4>6, PutHas
    <3> QED
      BY <3>2, <3>3
  <2> QED
    BY <2>2, <2>3, <2>4
<1>10. \A k \in Handles : opened'[k] = opened[k] \/ (k # Warmer /\ opened'[k] = 0)
  BY <1>2
<1> QED
  BY <1>1, <1>2, <1>4, <1>7, <1>8, <1>9, <1>10, StillWarm

\* A request that fails to read a part, or is done; a walk; and what the store does.
LEMMA IdleWarm ==
  ASSUME CacheTyped, TaskTyped, StacksInOrder, ReadAfterAnchor, NothingOutlivesItsAnchor, WarmInv, Calm,
         CacheTyped', UNCHANGED warmVars,
         \/ \E h \in Requests : Fail(h) \/ Close(h)
         \/ \E h \in Handles : Walk(h) \/ EndWalk(h) \/ \E p \in Parts : Offer(h, p)
         \/ Publish \/ UNCHANGED vars
  PROVE  WarmInv'
<1> DEFINE o == opened[Warmer]
<1>1. task' = task /\ wake' = wake /\ renew' = renew /\ left' = left
  BY DEF warmVars
<1>2. Publish \/ (UNCHANGED vars) \/ \E h \in Handles : HandleStep(h)
  BY DEF HandleStep, Requests
<1>3. ASSUME now' = now, drawn' = drawn, anchored' = anchored,
             took'[Warmer] = took[Warmer], stack'[Warmer] = stack[Warmer], opened'[Warmer] = o,
             \A k \in Handles : opened'[k] \in {opened[k], 0},
             \A k \in Handles : opened'[k] # 0 /\ took'[k] = {} /\ stack'[k] # <<>> =>
               took[k] = {} /\ stack[k] # <<>>
      PROVE  WarmInv'
  <2>1. task = "reading" =>
          \A r \in Parts \ left' : HasThen(o, r) \/ (stack'[Warmer] # <<>> /\ stack'[Warmer][1].slot[2] = r)
    BY <1>1, <1>2, <1>3, RoundStays
  <2>2. \A k \in Handles : opened'[k] = opened[k] \/ (k # Warmer /\ opened'[k] = 0)
    BY <1>3
  <2> QED
    BY <1>1, <1>2, <1>3, <2>1, <2>2, StillWarm
<1>4. ASSUME NEW h \in Requests, Fail(h) PROVE WarmInv'
  <2>1. h \in Handles /\ h # Warmer
    BY DEF Requests
  <2>2. /\ Ready(h) /\ OthersAsTheyWere(h) /\ took' = took
        /\ UNCHANGED <<now, version, drawn, anchored, opened, walk>>
    BY <1>4, <2>1, FailEffect
  <2>3. \A k \in Handles : k # h => stack'[k] = stack[k]
    BY <2>2 DEF OthersAsTheyWere
  <2> QED
    BY <1>3, <2>1, <2>2, <2>3, Constants DEF Ready
<1>5. ASSUME NEW h \in Requests, Close(h) PROVE WarmInv'
  <2>1. h \in Handles /\ h # Warmer
    BY DEF Requests
  <2>2. /\ opened'[h] = 0 /\ OthersAsTheyWere(h)
        /\ \A k \in Handles : k # h => opened'[k] = opened[k] /\ walk'[k] = walk[k]
        /\ UNCHANGED <<now, version, drawn, anchored>>
    BY <1>5, <2>1, CloseEffect
  <2>3. \A k \in Handles : k # h => stack'[k] = stack[k] /\ took'[k] = took[k]
    BY <2>2 DEF OthersAsTheyWere
  <2> QED
    BY <1>3, <2>1, <2>2, <2>3, Constants
<1>6. ASSUME UNCHANGED <<now, drawn, anchored, opened, stack, took>> PROVE WarmInv'
  BY <1>3, <1>6
<1>7. ASSUME NEW h \in Handles, Walk(h) \/ EndWalk(h) \/ \E p \in Parts : Offer(h, p) PROVE WarmInv'
  BY <1>6, <1>7 DEF Walk, EndWalk, Offer, handleVars
<1>8. CASE Publish \/ UNCHANGED vars
  BY <1>6, <1>8 DEF Publish, vars, handleVars
<1> QED
  BY <1>4, <1>5, <1>7, <1>8

\* A round ends with the whole catalog, and the task sleeps for less than it will stay.
LEMMA EndWarm ==
  ASSUME CacheTyped, TaskTyped, StacksInOrder, ReadAfterAnchor, NothingOutlivesItsAnchor, WarmInv, Calm,
         CacheTyped', EndRound, Sleep(RefreshAfter)
  PROVE  WarmInv'
<1> DEFINE o == opened[Warmer]
<1>1. /\ now \in Nat /\ drawn \in Nat /\ anchored \in 0..drawn /\ RefreshAfter \in Nat
      /\ \A k \in Handles : opened[k] \in 0..drawn
      /\ o # 0 <=> task = "reading"
      /\ renew => AlwaysWhole
      /\ ~ renew => FirstRound
      /\ RoundInOrder
      /\ renew \in BOOLEAN
      /\ \A k \in Handles : opened[k] # 0 /\ took[k] = {} /\ stack[k] # <<>> => Outlasts(opened[k])
      /\ task = "reading" => anchored # 0
  BY CalmHas
<1>2. /\ task = "reading" /\ stack[Warmer] = <<>> /\ Ready(Warmer) /\ left = {} /\ Close(Warmer)
      /\ renew' = TRUE /\ task' = "asleep" /\ wake' = now + RefreshAfter
  BY DEF EndRound, Sleep
<1>3. /\ opened'[Warmer] = 0 /\ OthersAsTheyWere(Warmer)
      /\ \A k \in Handles : k # Warmer => opened'[k] = opened[k]
      /\ UNCHANGED <<now, version, drawn, anchored>>
  BY <1>2, CloseEffect, Constants
<1>4. \A k \in Handles : k # Warmer => stack'[k] = stack[k] /\ took'[k] = took[k]
  BY <1>3 DEF OthersAsTheyWere
<1>5. /\ anchored # 0 /\ o # 0
      /\ Outlasts(anchored)
      /\ anchored = o \/ renew
      /\ HasAll(o)
  <2>1. anchorOf[o] # None
    BY <1>2, ReadyHas, Constants
  <2>2. \A p \in Parts : Has(o, p)
    BY <1>1, <1>2 DEF RoundInOrder
  <2> QED
    BY <1>1, <1>2, <2>1, <2>2 DEF RoundInOrder, HasAll
<1>6. HasAll(anchored)
  <2>1. CASE anchored = o
    BY <1>5, <2>1
  <2>2. CASE anchored # o /\ renew
    BY <1>1, <2>2 DEF AlwaysWhole
  <2> QED
    BY <1>5, <2>1, <2>2
<1>7. ASSUME NEW k \in Requests, opened[k] # 0
      PROVE  anchorOf[opened[k]] # None /\ (now < expires[opened[k]] => HasAll(opened[k]))
  <2>1. CASE opened[k] = o
    BY <1>5, <2>1 DEF HasAll
  <2>2. CASE opened[k] # o /\ renew
    BY <1>1, <1>7, <2>2 DEF AlwaysWhole, Live
  <2>3. CASE opened[k] # o /\ ~ renew
    <3>1. drawn <= 1 /\ opened[k] \in 0..drawn /\ o \in 0..drawn
      BY <1>1, <2>3, Constants DEF FirstRound, Requests
    <3> QED
      BY <1>1, <1>5, <1>7, <2>3, <3>1
  <2> QED
    BY <1>1, <2>1, <2>2, <2>3
<1>8. HandleStep(Warmer)
  BY <1>2 DEF HandleStep
<1>9. ASSUME NEW g, g # 0, g <= drawn, g = anchored' \/ \E k \in Handles : g = opened'[k]
      PROVE  /\ anchorOf[g] # None => anchorOf'[g] # None
             /\ expires'[g] = expires[g]
             /\ HasAll(g) /\ now < expires[g] => WholeThen(g)
  BY <1>3, <1>8, <1>9, StayWhole, Constants
<1>10. anchored' = anchored /\ anchored <= drawn /\ now < expires[anchored] /\ now' = now
  BY <1>1, <1>3, <1>5 DEF NothingOutlivesItsAnchor, Live
<1>11. AlwaysWholeNow
  <2>1. anchorOf'[anchored'] # None /\ WholeThen(anchored') /\ wake' < expires'[anchored']
    BY <1>2, <1>5, <1>6, <1>9, <1>10 DEF HasAll, Outlasts
  <2>2. wake' <= now' + RefreshAfter
    BY <1>1, <1>2, <1>10
  <2>3. ASSUME NEW k \in Requests, opened'[k] \notin {0, opened'[Warmer]}
        PROVE  anchorOf'[opened'[k]] # None /\ (now' < expires'[opened'[k]] => WholeThen(opened'[k]))
    <3>1. k \in Handles /\ opened'[k] = opened[k] /\ opened[k] # 0 /\ opened[k] <= drawn
      BY <1>1, <1>3, <2>3 DEF Requests
    <3> QED
      BY <1>7, <1>9, <1>10, <3>1
  <2> QED
    BY <1>5, <1>10, <2>1, <2>2, <2>3 DEF AlwaysWholeNow
<1>12. WaitersNow
  <2>1. SUFFICES ASSUME NEW k \in Handles, opened'[k] # 0, took'[k] = {}, stack'[k] # <<>>
                 PROVE  OutlastsThen(opened'[k])
    BY DEF WaitersNow
  <2>2. opened'[k] = opened[k] /\ Outlasts(opened[k]) /\ opened[k] <= drawn
    BY <1>1, <1>3, <1>4, <2>1
  <2> QED
    BY <1>9, <1>10, <2>1, <2>2 DEF Outlasts, OutlastsThen
<1>13. RoundNow
  BY <1>2 DEF RoundNow
<1> QED
  BY <1>2, <1>3, <1>11, <1>12, <1>13, WarmIs DEF WarmNow

\* The task wakes with a whole catalog in the cache.
LEMMA WakesWarm ==
  ASSUME CacheTyped, TaskTyped, StacksInOrder, ReadAfterAnchor, NothingOutlivesItsAnchor, WarmInv, Calm, Wakes
  PROVE  WarmInv'
<1>1. /\ task = "asleep" /\ task' = "due" /\ UNCHANGED <<vars, left, renew, failed, lapsed, evicted>>
  BY DEF Wakes
<1>2. /\ now' = now /\ expires' = expires /\ anchorOf' = anchorOf /\ held' = held /\ anchored' = anchored
      /\ resident' = resident /\ opened' = opened /\ stack' = stack /\ took' = took /\ renew' = renew
  BY <1>1 DEF vars, handleVars
<1>3. /\ renew => AlwaysWhole
      /\ ~ renew => FirstRound
      /\ opened[Warmer] # 0 <=> task = "reading"
      /\ \A k \in Handles : opened[k] # 0 /\ took[k] = {} /\ stack[k] # <<>> => Outlasts(opened[k])
  BY CalmHas
<1>4. renew
  BY <1>1, <1>3 DEF FirstRound
<1>5. \A i : WholeThen(i) <=> HasAll(i)
  BY <1>2 DEF WholeThen, HasThen, HasAll, Has
<1>6. AlwaysWholeNow
  BY <1>1, <1>2, <1>3, <1>4, <1>5 DEF AlwaysWhole, AlwaysWholeNow, Found, Live
<1>7. WaitersNow
  BY <1>2, <1>3 DEF WaitersNow, Outlasts, OutlastsThen
<1>8. RoundNow
  BY <1>1 DEF RoundNow
<1> QED
  BY <1>1, <1>2, <1>3, <1>4, <1>6, <1>7, <1>8, WarmIs DEF WarmNow

\* While the task sleeps nobody waits for an anchor, and the catalog does not run out.
LEMMA TimeWarm ==
  ASSUME CacheTyped, TaskTyped, StacksInOrder, ReadAfterAnchor, NothingOutlivesItsAnchor, WarmInv, Calm,
         CacheTyped', TimePasses
  PROVE  WarmInv'
<1>1. /\ task = "asleep" /\ now < wake /\ Tick /\ UNCHANGED warmVars
      /\ \A h \in Handles : ~ Runnable(h)
  BY DEF TimePasses, Calm
<1>2. /\ now \in Nat /\ drawn \in Nat /\ anchored \in 0..drawn /\ RefreshAfter \in Nat
      /\ \A k \in Handles : opened[k] \in 0..drawn
      /\ opened[Warmer] = 0
      /\ renew => AlwaysWhole
      /\ ~ renew => FirstRound
      /\ \A k \in Handles : opened[k] # 0 /\ took[k] = {} /\ stack[k] # <<>> => Outlasts(opened[k])
  BY <1>1, CalmHas
<1>3. renew
  BY <1>1, <1>2 DEF FirstRound
<1>4. /\ anchored # 0 /\ anchorOf[anchored] # None
      /\ HasAll(anchored)
      /\ wake < expires[anchored] /\ wake <= now + RefreshAfter
      /\ \A h \in Requests : opened[h] # 0 =>
           anchorOf[opened[h]] # None /\ (now < expires[opened[h]] => HasAll(opened[h]))
  BY <1>1, <1>2, <1>3 DEF AlwaysWhole, Found, Live
<1>5. wake \in Nat
  BY Constants DEF TaskTyped
<1>6. /\ now' = now + 1 /\ drawn' = drawn /\ opened' = opened /\ stack' = stack /\ took' = took
      /\ anchored' = IF anchored # 0 /\ now' < expires[anchored] THEN anchored ELSE 0
  BY <1>1 DEF Tick, handleVars
<1>7. task' = task /\ wake' = wake /\ renew' = renew
  BY <1>1 DEF warmVars
<1>8. \A g \in 1 .. drawn : expires[g] \in Nat
  <2>1. drawn \in 0..LastGeneration /\ LastGeneration \in Nat
    BY Constants DEF CacheTyped
  <2>2. \A g \in Generations : expires[g] \in Nat
    BY Constants DEF CacheTyped
  <2> QED
    BY <2>1, <2>2 DEF Generations
<1>9. anchored' = anchored /\ now' < expires[anchored] /\ anchored \in 1 .. drawn
  <2>1. anchored \in 1 .. drawn /\ expires[anchored] \in Nat
    BY <1>2, <1>4, <1>8
  <2> QED
    BY <1>1, <1>2, <1>4, <1>5, <1>6, <2>1
<1>10. ASSUME NEW g, g # 0, g <= drawn, g = anchored' \/ \E k \in Handles : g = opened'[k]
       PROVE  /\ anchorOf[g] # None => anchorOf'[g] # None
              /\ expires'[g] = expires[g]
              /\ HasAll(g) /\ now' < expires[g] => WholeThen(g)
  BY <1>1, <1>10, StayWhole
<1>11. AlwaysWholeNow
  <2>1. anchorOf'[anchored'] # None /\ WholeThen(anchored') /\ wake' < expires'[anchored']
    BY <1>4, <1>7, <1>9, <1>10
  <2>2. wake' <= now' + RefreshAfter
    BY <1>2, <1>4, <1>5, <1>6, <1>7
  <2>3. ASSUME NEW k \in Requests, opened'[k] \notin {0, opened'[Warmer]}
        PROVE  anchorOf'[opened'[k]] # None /\ (now' < expires'[opened'[k]] => WholeThen(opened'[k]))
    <3>1. k \in Handles /\ opened'[k] = opened[k] /\ opened[k] \in 1 .. drawn
      BY <1>2, <1>6, <2>3 DEF Requests
    <3>2. expires'[opened[k]] = expires[opened[k]] /\ expires[opened[k]] \in Nat
      BY <1>8, <1>10, <3>1
    <3>3. now' < expires[opened[k]] => now < expires[opened[k]]
      BY <1>2, <1>6, <3>2
    <3> QED
      BY <1>4, <1>10, <2>3, <3>1, <3>2, <3>3
  <2> QED
    BY <1>4, <1>9, <2>1, <2>2, <2>3 DEF AlwaysWholeNow
<1>12. ASSUME NEW h \in Handles, opened[h] # 0, took[h] = {}, stack[h] # <<>> PROVE FALSE
  <2>1. h \in Requests
    BY <1>2, <1>12 DEF Requests
  <2>2. anchorOf[opened[h]] # None
    BY <1>4, <1>12, <2>1
  <2>3. /\ FrameInOrder(h, Top(h)) /\ Top(h) \in Frames /\ Top(h).slot[1] = opened[h]
    BY <1>12, TopIs
  <2>4. Top(h).slot[2] = Anchor /\ Value(Top(h).slot) # None
    BY <1>12, <2>2, <2>3 DEF FrameInOrder, Ready, Value
  <2>5. Top(h).at \in {"waiting", "filled"}
    BY <2>3, <2>4, FrameHas DEF FrameInOrder
  <2>6. Runnable(h)
    BY <1>12, <2>4, <2>5 DEF Runnable, Doing
  <2> QED
    BY <1>1, <2>6
<1>13. WaitersNow
  BY <1>6, <1>12 DEF WaitersNow
<1>14. RoundNow
  BY <1>1, <1>7 DEF RoundNow
<1> QED
  BY <1>1, <1>2, <1>3, <1>6, <1>7, <1>11, <1>13, <1>14, WarmIs DEF WarmNow

\* The task has the catalog open while it reads it.
LEMMA TaskOpens ==
  ASSUME CacheTyped, StacksInOrder, ReadAfterAnchor, WarmInv, [WarmNext]_allVars
  PROVE  opened'[Warmer] # 0 <=> task' = "reading"
<1>1. opened[Warmer] # 0 <=> task = "reading"
  BY DEF WarmInv
<1>2. CASE StartRound
  <2>1. Open(Warmer) \/ OpenRenewed(Warmer)
    BY <1>2 DEF StartRound
  <2>2. \E g \in Generations : opened' = [opened EXCEPT ![Warmer] = g]
    BY <2>1, OpenEffect, Constants
  <2>3. opened'[Warmer] # 0
    BY <2>2, Constants DEF CacheTyped, Generations
  <2> QED
    BY <1>2, <2>3 DEF StartRound
<1>3. CASE EndRound \/ FailRound
  <2>1. Close(Warmer) /\ task' \in {"asleep", "over"}
    BY <1>3 DEF EndRound, FailRound, Sleep
  <2> QED
    BY <2>1, CloseEffect, Constants
<1>4. ASSUME opened'[Warmer] = opened[Warmer], task' = task \/ (task = "asleep" /\ task' = "due")
      PROVE  opened'[Warmer] # 0 <=> task' = "reading"
  BY <1>1, <1>4
<1>5. CASE ReadPart \/ ReadWithout \/ Wakes
  BY <1>4, <1>5 DEF ReadPart, ReadWithout, Wakes, Ask, Fail, vars, handleVars
<1>6. ASSUME NEW h \in Requests, RequestStep(h), UNCHANGED warmVars PROVE opened'[Warmer] # 0 <=> task' = "reading"
  <2>1. h \in Handles /\ h # Warmer
    BY DEF Requests
  <2>2. CASE Open(h)
    <3>1. \E g \in Generations : opened' = [opened EXCEPT ![h] = g]
      BY <2>1, <2>2, OpenEffect
    <3>2. opened'[Warmer] = opened[Warmer]
      BY <2>1, <3>1, Constants DEF CacheTyped
    <3> QED
      BY <1>4, <1>6, <3>2 DEF warmVars
  <2>3. CASE Close(h)
    BY <1>4, <1>6, <2>1, <2>3, CloseEffect, Constants DEF warmVars
  <2>4. CASE (\E p \in Parts : Ask(h, p)) \/ Fail(h) \/ Walking(h)
    BY <1>4, <1>6, <2>4 DEF Ask, Fail, Walking, Walk, EndWalk, Offer, warmVars, handleVars
  <2> QED
    BY <1>6, <2>2, <2>3, <2>4 DEF RequestStep
<1>7. ASSUME NEW h \in Handles, Filling(h), UNCHANGED warmVars PROVE opened'[Warmer] # 0 <=> task' = "reading"
  BY <1>4, <1>7 DEF Filling, Begin, Deliver, Put, warmVars
<1>8. CASE Walking(Warmer) /\ UNCHANGED warmVars
  BY <1>4, <1>8 DEF Walking, Walk, EndWalk, Offer, warmVars, handleVars
<1>9. CASE (Publish /\ UNCHANGED warmVars) \/ UNCHANGED allVars
  BY <1>4, <1>9 DEF Publish, warmVars, allVars, vars, handleVars
<1>10. CASE Evicts /\ task' = task
  BY <1>4, <1>10 DEF Evicts, EvictAnchor, Evict, handleVars
<1>11. CASE TimePasses
  BY <1>4, <1>11 DEF TimePasses, Tick, warmVars, handleVars
<1> QED
  BY <1>2, <1>3, <1>5, <1>6, <1>7, <1>8, <1>9, <1>10, <1>11 DEF WarmNext

\* Every step keeps WarmInv.
LEMMA WarmKept ==
  ASSUME CacheTyped, TaskTyped, StacksInOrder, ReadAfterAnchor, NothingOutlivesItsAnchor, WarmInv,
         CacheTyped', [WarmNext]_allVars
  PROVE  WarmInv'
<1>1. CASE ~ Calm'
  BY <1>1, TaskOpens, WarmIs
<1>2. CASE Calm'
  <2>1. Calm
    BY <1>2, CalmStep
  <2>2. CASE StartRound
    BY <2>1, <2>2, OpenWarm, Constants
  <2>3. CASE ReadPart
    <3>1. PICK p \in Parts : /\ Ask(Warmer, p)
                             /\ left' = IF stack[Warmer] = <<>> THEN left \ {p} ELSE left
      BY <2>3 DEF ReadPart
    <3>2. task = "reading" /\ task' = task /\ wake' = wake /\ renew' = renew
      BY <2>3 DEF ReadPart
    <3> QED
      BY <2>1, <3>1, <3>2, AskWarm, Constants
  <2>4. CASE EndRound /\ Sleep(RefreshAfter)
    BY <2>1, <2>4, EndWarm
  <2>5. CASE Wakes
    BY <2>1, <2>5, WakesWarm
  <2>6. ASSUME NEW h \in Requests, RequestStep(h), UNCHANGED warmVars PROVE WarmInv'
    <3>1. h \in Handles /\ h # Warmer
      BY DEF Requests
    <3>2. CASE Open(h)
      BY <2>1, <2>6, <3>1, <3>2, OpenWarm
    <3>3. ASSUME NEW p \in Parts, Ask(h, p) PROVE WarmInv'
      <4>1. task' = task /\ wake' = wake /\ renew' = renew /\ left' = left
        BY <2>6 DEF warmVars
      <4> QED
        BY <2>1, <3>1, <3>3, <4>1, AskWarm
    <3>4. CASE Fail(h) \/ Close(h) \/ Walking(h)
      <4>1. \/ Fail(h) \/ Close(h)
            \/ Walk(h) \/ EndWalk(h) \/ \E p \in Parts : Offer(h, p)
        BY <3>4, Constants DEF Walking
      <4> QED
        BY <2>1, <2>6, <3>1, <4>1, IdleWarm
    <3> QED
      BY <2>6, <3>2, <3>3, <3>4 DEF RequestStep
  <2>7. ASSUME NEW h \in Handles, Filling(h), UNCHANGED warmVars PROVE WarmInv'
    BY <2>1, <2>7, FillWarm, PutWarm DEF Filling
  <2>8. CASE (Walking(Warmer) \/ Publish) /\ UNCHANGED warmVars
    <3>1. \/ Walk(Warmer) \/ EndWalk(Warmer) \/ \E p \in Parts : Offer(Warmer, p)
          \/ Publish
      BY <2>8, Constants DEF Walking
    <3> QED
      BY <2>1, <2>8, <3>1, IdleWarm, Constants
  <2>9. CASE TimePasses
    BY <2>1, <2>9, TimeWarm
  <2>10. CASE UNCHANGED allVars
    <3>1. UNCHANGED vars /\ UNCHANGED warmVars
      BY <2>10 DEF allVars
    <3> QED
      BY <2>1, <3>1, IdleWarm
  <2> QED
    BY <1>2, <2>2, <2>3, <2>4, <2>5, <2>6, <2>7, <2>8, <2>9, <2>10, CalmStep
<1> QED
  BY <1>1, <1>2

-----------------------------------------------------------------------------
(* The theorems.                                                           *)

\* At first nothing is drawn, nobody has anything open and the task is due.
LEMMA InitCatalogInv == WarmInit => CatalogInv
<1> SUFFICES ASSUME WarmInit PROVE CatalogInv
  OBVIOUS
<1>1. Init /\ task = "due" /\ left = {} /\ wake = 0 /\ renew = FALSE /\ failed = 0 /\ lapsed = 0 /\ evicted = 0
  BY DEF WarmInit
<1>2. /\ <<>> \in Seq(Frames) /\ Len(<<>>) = 0 /\ DOMAIN <<>> = {}
      /\ None \in Versions
  BY EmptySeq, LenProperties DEF Versions
<1>3. \A h \in Handles : opened[h] = 0 /\ stack[h] = <<>> /\ walk[h] = None /\ took[h] = {}
  BY <1>1 DEF Init
<1>4. CacheTyped
  BY <1>1, <1>2, Constants DEF Init, CacheTyped
<1>5. TaskTyped
  <2>1. 0 \in 0..(LastTime + Lifetime) /\ 0 \in 0..LastFailure /\ 0 \in 0..LastEviction
    BY Constants, WarmAssumption
  <2> QED
    BY <1>1, <2>1 DEF TaskTyped
<1>6. NothingOutlivesItsAnchor
  BY <1>1 DEF Init, NothingOutlivesItsAnchor
<1>7. StacksInOrder /\ OneReads
  BY <1>2, <1>3 DEF StacksInOrder, HandleInOrder, FrameInOrder, OneReads, Ready
<1>8. ReadAfterAnchor
  BY <1>1, <1>3 DEF Init, ReadAfterAnchor, Ready
<1>9. WarmInv
  <2>1. FirstRound
    BY <1>1 DEF Init, FirstRound
  <2> QED
    BY <1>1, <1>3, <2>1, Constants DEF WarmInv, RoundInOrder
<1> QED
  BY <1>4, <1>5, <1>6, <1>7, <1>8, <1>9, Typed DEF CatalogInv

\* Every step keeps every conjunct, by the lemmas above.
LEMMA NextCatalogInv == CatalogInv /\ [WarmNext]_allVars => CatalogInv'
<1> SUFFICES ASSUME CatalogInv, [WarmNext]_allVars PROVE CatalogInv'
  OBVIOUS
<1>1. /\ CacheTyped /\ TaskTyped /\ NothingOutlivesItsAnchor /\ StacksInOrder /\ OneReads
      /\ ReadAfterAnchor /\ WarmInv
  BY Typed DEF CatalogInv
<1>2. Operation
  BY StepIs
<1>3. CacheTyped' /\ StacksInOrder'
  BY <1>1, <1>2, OrderKept
<1>4. OneReads' /\ ReadAfterAnchor' /\ NothingOutlivesItsAnchor'
  BY <1>1, <1>2, <1>3, OneReadsKept, AfterKept, DeadlineKept
<1>5. TaskTyped' /\ WarmInv'
  BY <1>1, <1>3, TaskKept, WarmKept
<1>6. TypeOK'
  BY <1>3, <1>5 DEF TypeOK, CacheTyped, TaskTyped
<1> QED
  BY <1>3, <1>4, <1>5, <1>6 DEF CatalogInv

\* The order of the handles' stacks, what was read after what, what is over with its anchor, and
\* what is left of a catalog while the task reads the next, for any catalog and any requests
\* (Slots, HatsCatalog::open, keep_warm).
THEOREM CatalogCorrect == WarmSpec => []CatalogInv
  BY InitCatalogInv, NextCatalogInv, PTL DEF WarmSpec

\* No request pairs the properties it was given with a part of an earlier publication, however
\* often the catalog is published and read again (the generation in the key, Slots::slot).
THEOREM NothingOlderIsGiven == WarmSpec => []NothingOlder
<1>1. CatalogInv => NothingOlder
  BY NoneOlder DEF CatalogInv
<1> QED
  BY <1>1, CatalogCorrect, PTL

\* Readers that wait for each other's readings never wait in a circle, whatever a part's filling
\* asks for, as long as what it asks for does not ask for it (Slots::filled).
THEOREM NobodyWaitsInACircle == WarmSpec => []NoCircle
<1>1. CatalogInv => NoCircle
  BY Typed, NobodyInACircle DEF CatalogInv
<1> QED
  BY <1>1, CatalogCorrect, PTL

\* A catalog whose reads do not fail and that is let go of for nobody's room is there for whoever
\* asks from the first reading on, and whole while the task sleeps (keep_warm, refresh_after).
THEOREM CatalogStaysWarm == WarmSpec => []StaysWarm
<1>1. CatalogInv => StaysWarm
  <2> SUFFICES ASSUME CatalogInv, Calm, renew PROVE Found /\ (task = "asleep" => AllFound)
    BY DEF StaysWarm, WhileWarm, Calm
  <2>1. AlwaysWhole /\ (opened[Warmer] # 0 <=> task = "reading")
    BY DEF CatalogInv, WarmInv
  <2>2. Found
    BY <2>1 DEF AlwaysWhole
  <2>3. ASSUME task = "asleep" PROVE AllFound
    <3>1. anchored # opened[Warmer]
      BY <2>1, <2>2, <2>3 DEF Found
    <3>2. HasAll(anchored)
      BY <2>1, <3>1 DEF AlwaysWhole
    <3> QED
      BY <2>2, <3>2 DEF AllFound, HasAll, Has
  <2> QED
    BY <2>2, <2>3
<1> QED
  BY <1>1, CatalogCorrect, PTL
================================================================================
