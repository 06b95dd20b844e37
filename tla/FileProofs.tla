------------------------------ MODULE FileProofs ------------------------------
(***************************************************************************)
(* What the readers of one file of a mount are given, for any urls,        *)
(* readers, sizes, times and replacements of the file: FilesInv holds      *)
(* initially and is kept by every step.                                    *)
(*                                                                         *)
(* The cache of generated answers comes first, for any urls, sizes,        *)
(* limits and requests.  The weight of the answers is what they add up     *)
(* to; keeping one takes a first part of the line and the older answer     *)
(* away from that sum.  That nothing is left in line without an answer     *)
(* after that is why what the sum loses is what is taken off the count.    *)
(*                                                                         *)
(* Each step of the cache is part of a step of its readers or of none; so  *)
(* what is proved of it is carried over.                                   *)
(***************************************************************************)
EXTENDS FileProperties, DataLemmas

-----------------------------------------------------------------------------
(* The state the invariant describes.                                      *)

\* What the assumption on the constants says of each of them.
LEMMA Limits ==
  /\ IsFiniteSet(Urls) /\ None \notin Urls /\ None \notin [size : Nat, made : Nat]
  /\ Sizes \subseteq Nat /\ Ttl \in Nat /\ Capacity \in Nat /\ LastTime \in Nat
  BY LimitsAssumption

\* An answer that is held has a size and was made by now.
LEMMA HeldIs ==
  ASSUME TypeOK, NEW u \in Held
  PROVE  u \in Urls /\ entries[u] \in Entry /\ entries[u].size \in Nat /\ entries[u].made \in 0 .. now
  BY DEF TypeOK, Held, Entry

\* What the answers take is a natural for each url.
LEMMA SizeIs ==
  ASSUME TypeOK
  PROVE  /\ \A u \in Urls : Size[u] \in Nat
         /\ \A u \in Urls \ Held : Size[u] = 0
         /\ \A u \in Held : Size[u] = entries[u].size
  BY DEF TypeOK, Size, Held, Entry

\* So is what those to some of the urls take, and it is part of what they all take.
LEMMA WeightIs ==
  ASSUME TypeOK, NEW S \in SUBSET Urls
  PROVE  /\ Weight(S) \in Nat /\ Weight(Urls \ S) \in Nat
         /\ Weight(Urls) = Weight(S) + Weight(Urls \ S)
<1> DEFINE f == Size
<1>1. IsFiniteSet(Urls) /\ \A u \in Urls : f[u] \in Nat
  BY Limits, SizeIs
<1>2. IsFiniteSet(S) /\ IsFiniteSet(Urls \ S)
  BY <1>1, FS_Subset
<1> HIDE DEF f
<1>3. SumFunctionOnSet(f, S) \in Nat /\ SumFunctionOnSet(f, Urls \ S) \in Nat
  BY <1>1, <1>2, SumNat
<1>4. SumFunctionOnSet(f, Urls) = SumFunctionOnSet(f, S) + SumFunctionOnSet(f, Urls \ S)
  BY <1>1, SumSplit
<1> QED
  BY <1>3, <1>4 DEF Weight, f

\* The answer to one url takes what its size is.
LEMMA WeightOfOne ==
  ASSUME TypeOK, NEW u \in Urls
  PROVE  Weight({u}) = Size[u]
<1> DEFINE f == Size
<1>1. f[u] \in Nat
  BY SizeIs
<1> HIDE DEF f
<1>2. SumFunctionOnSet(f, {u}) = f[u]
  BY <1>1, SumOfOne
<1> QED
  BY <1>2 DEF Weight, f

\* The line: each url once, every answer held in it, made in its order.
LEMMA LineIs ==
  ASSUME CacheInv
  PROVE  /\ order \in Seq(Urls) /\ Len(order) \in Nat /\ Distinct(order)
         /\ \A i \in 1 .. Len(order) : order[i] \in Urls
         /\ \A u \in Held : \E i \in 1 .. Len(order) : order[i] = u
         /\ \A i, j \in 1 .. Len(order) :
              i < j /\ order[i] \in Held /\ order[j] \in Held =>
                entries[order[i]].made <= entries[order[j]].made
<1>1. order \in Seq(Urls)
  BY DEF CacheInv, TypeOK
<1>2. Len(order) \in Nat /\ DOMAIN order = 1 .. Len(order) /\ \A i \in 1 .. Len(order) : order[i] \in Urls
  BY <1>1, LenProperties, ElementOfSeq
<1> QED
  BY <1>1, <1>2 DEF CacheInv, OnePlaceInLine, Distinct, IsInjective

-----------------------------------------------------------------------------
(* What keeping an answer takes off the front of the line.                 *)

\* The walk off the front takes every place whose answer is gone, or has expired, before the first
\* that is still good.
LEMMA AgedIs ==
  ASSUME CacheInv
  PROVE  /\ Aged \in 0 .. Len(order)
         /\ \A j \in 1 .. Len(order) : order[j] \notin Held => j <= Aged
<1> DEFINE AllOld(n) == \A u \in First(n) : u \in Held => Expired(u)
           Walks == {n \in 0 .. Len(order) : AllOld(n)}
<1>1. Len(order) \in Nat
  BY LineIs
<1>2. 0 \in Walks
  BY <1>1 DEF First
<1>3. ASSUME NEW j \in 1 .. Len(order), order[j] \notin Held PROVE j \in Walks
  <2>1. \A i \in 1 .. j : order[i] \in Held => Expired(order[i])
    BY <1>1, <1>3, LineIs, LenProperties DEF CacheInv, LinePlaces
  <2> QED
    BY <1>1, <2>1 DEF First
<1>4. Aged = Max(Walks)
  BY DEF Aged
<1>5. Walks \in SUBSET (0 .. Len(order))
  OBVIOUS
<1> HIDE DEF Walks
<1> QED
  BY <1>1, <1>2, <1>3, <1>4, <1>5, MaxIs

\* So many places are dropped that no more need be, or there are no more.
LEMMA DroppedIs ==
  ASSUME CacheInv, NEW size \in Nat
  PROVE  /\ Dropped(size) \in 0 .. Len(order) /\ Aged <= Dropped(size)
         /\ \/ Dropped(size) = Len(order)
            \/ Less(bytes, Weight(First(Dropped(size)))) + size <= Capacity
<1> DEFINE Enough(n) == n = Len(order) \/ Less(bytes, Weight(First(n))) + size <= Capacity
           Drops == {n \in Aged .. Len(order) : Enough(n)}
<1>1. Len(order) \in Nat /\ Aged \in 0 .. Len(order)
  BY LineIs, AgedIs
<1>2. Len(order) \in Drops
  BY <1>1
<1>3. Dropped(size) = Min(Drops)
  BY DEF Dropped
<1>4. Drops \in SUBSET Nat
  BY <1>1
<1>5. Dropped(size) \in Drops
  <2> HIDE DEF Drops
  <2> QED
    BY <1>2, <1>3, <1>4, MinIs
<1> QED
  BY <1>1, <1>5

\* What is left of the line after that holds an answer at every place, and nothing of what went.
LEMMA RestIs ==
  ASSUME CacheInv, NEW n \in 0 .. Len(order), Aged <= n
  PROVE  /\ First(n) \in SUBSET Urls
         /\ Rest(n) \in Seq(Urls) /\ Len(Rest(n)) = Len(order) - n /\ Len(Rest(n)) \in Nat
         /\ \A i \in 1 .. Len(Rest(n)) : Rest(n)[i] = order[n + i] /\ Rest(n)[i] \in Held \ First(n)
         /\ \A u \in Held \ First(n) : \E i \in 1 .. Len(Rest(n)) : Rest(n)[i] = u
         /\ Distinct(Rest(n))
<1>1. /\ order \in Seq(Urls) /\ Len(order) \in Nat /\ Distinct(order)
      /\ \A i \in 1 .. Len(order) : order[i] \in Urls
      /\ \A u \in Held : \E i \in 1 .. Len(order) : order[i] = u
  BY LineIs
<1>2. First(n) \in SUBSET Urls
  BY <1>1 DEF First
<1> DEFINE rest == Rest(n)
<1>3. /\ rest \in Seq(Urls) /\ Len(rest) = Len(order) - n /\ Len(rest) \in Nat
      /\ \A i \in 1 .. Len(rest) : rest[i] = order[n + i]
  <2>1. \A i \in (n + 1) .. Len(order) : order[i] \in Urls
    BY <1>1
  <2>2. /\ SubSeq(order, n + 1, Len(order)) \in Seq(Urls)
        /\ Len(SubSeq(order, n + 1, Len(order))) =
             IF n + 1 <= Len(order) THEN Len(order) - (n + 1) + 1 ELSE 0
        /\ \A i \in 1 .. (Len(order) - (n + 1) + 1) :
             SubSeq(order, n + 1, Len(order))[i] = order[n + 1 + i - 1]
    BY <1>1, <2>1, SubSeqProperties
  <2> QED
    BY <1>1, <2>2 DEF Rest
<1> HIDE DEF rest
<1>4. ASSUME NEW i \in 1 .. Len(rest) PROVE rest[i] \in Held \ First(n)
  <2>1. n + i \in 1 .. Len(order) /\ ~ (n + i <= Aged) /\ rest[i] = order[n + i]
    BY <1>1, <1>3, AgedIs
  <2>2. rest[i] \in Held
    BY <2>1, AgedIs
  <2>3. rest[i] \notin First(n)
    BY <1>1, <2>1 DEF First, Distinct
  <2> QED
    BY <2>2, <2>3
<1>5. ASSUME NEW u \in Held \ First(n) PROVE \E i \in 1 .. Len(rest) : rest[i] = u
  <2>1. PICK j \in 1 .. Len(order) : order[j] = u
    BY <1>1
  <2>2. ~ (j <= n)
    BY <1>1, <2>1 DEF First
  <2>3. j - n \in 1 .. Len(rest) /\ rest[j - n] = order[n + (j - n)] /\ n + (j - n) = j
    BY <1>1, <1>3, <2>1, <2>2
  <2> QED
    BY <2>1, <2>3
<1>6. Distinct(rest)
  <2>1. ASSUME NEW i \in 1 .. Len(rest), NEW j \in 1 .. Len(rest), rest[i] = rest[j] PROVE i = j
    <3>1. n + i \in 1 .. Len(order) /\ n + j \in 1 .. Len(order)
      BY <1>1, <1>3, <2>1
    <3>2. order[n + i] = order[n + j]
      BY <1>3, <2>1
    <3>3. n + i = n + j
      BY <1>1, <3>1, <3>2 DEF Distinct
    <3> QED
      BY <1>1, <1>3, <2>1, <3>3
  <2> QED
    BY <2>1 DEF Distinct
<1> QED
  BY <1>2, <1>3, <1>4, <1>5, <1>6 DEF rest

-----------------------------------------------------------------------------
(* Keeping an answer.                                                      *)

\* The line loses its first part and the place of the older answer to the url, which gets a new
\* place at the end.
LEMMA KeepLine ==
  ASSUME CacheInv, NEW u \in Urls, NEW size \in Nat, Keep(u, size)
  PROVE  \E line \in Seq(Urls) :
           /\ order' = Append(line, u) /\ Distinct(line)
           /\ \A i \in 1 .. Len(line) : line[i] \in (Held \ First(Dropped(size))) \ {u}
           /\ \A v \in (Held \ First(Dropped(size))) \ {u} : \E i \in 1 .. Len(line) : line[i] = v
           /\ \A i, j \in 1 .. Len(line) :
                i < j => entries[line[i]].made <= entries[line[j]].made
<1> DEFINE n == Dropped(size)
           rest == Rest(n)
           kept == Held \ First(n)
<1>1. n \in 0 .. Len(order) /\ Aged <= n
  BY DroppedIs
<1>2. Len(order) \in Nat
  BY LineIs
<1>3. /\ rest \in Seq(Urls) /\ Len(rest) = Len(order) - n /\ Len(rest) \in Nat
      /\ \A i \in 1 .. Len(rest) : rest[i] = order[n + i] /\ rest[i] \in kept
      /\ \A v \in kept : \E i \in 1 .. Len(rest) : rest[i] = v
      /\ Distinct(rest) /\ DOMAIN rest = 1 .. Len(rest)
  BY <1>1, RestIs, LenProperties
<1>4. \A i, j \in 1 .. Len(rest) : i < j => entries[rest[i]].made <= entries[rest[j]].made
  <2>1. ASSUME NEW i \in 1 .. Len(rest), NEW j \in 1 .. Len(rest), i < j
        PROVE  entries[rest[i]].made <= entries[rest[j]].made
    <3>1. /\ n + i \in 1 .. Len(order) /\ n + j \in 1 .. Len(order) /\ n + i < n + j
          /\ rest[i] = order[n + i] /\ rest[j] = order[n + j] /\ rest[i] \in Held /\ rest[j] \in Held
      BY <1>1, <1>2, <1>3, <2>1
    <3> QED
      BY <3>1, LineIs
  <2> QED
    BY <2>1
<1>5. \/ (Held \cap {u}) \ First(n) = {} /\ order' = Append(rest, u)
      \/ \E i \in DOMAIN rest : rest[i] = u /\ order' = Append(RemoveAt(rest, i), u)
  BY DEF Keep
<1> HIDE DEF n, rest
<1>6. CASE (Held \cap {u}) \ First(n) = {} /\ order' = Append(rest, u)
  <2>1. kept \ {u} = kept
    BY <1>6
  <2> QED
    BY <1>3, <1>4, <1>6, <2>1 DEF n
<1>7. ASSUME NEW i \in 1 .. Len(rest), rest[i] = u, order' = Append(RemoveAt(rest, i), u)
      PROVE  \E line \in Seq(Urls) :
               /\ order' = Append(line, u) /\ Distinct(line)
               /\ \A k \in 1 .. Len(line) : line[k] \in kept \ {u}
               /\ \A v \in kept \ {u} : \E k \in 1 .. Len(line) : line[k] = v
               /\ \A k, j \in 1 .. Len(line) : k < j => entries[line[k]].made <= entries[line[j]].made
  <2> DEFINE line == RemoveAt(rest, i)
             Place(k) == IF k < i THEN k ELSE k + 1
  <2>1. /\ line \in Seq(Urls) /\ Len(line) = Len(rest) - 1
        /\ \A k \in 1 .. (Len(rest) - 1) : line[k] = IF k < i THEN rest[k] ELSE rest[k + 1]
    <3>1. rest \in Seq(Urls)
      BY <1>3
    <3> QED
      BY <3>1, RemoveAtEffect
  <2>2. /\ Distinct(line)
        /\ \A k \in 1 .. Len(line) : line[k] # u
    BY <1>3, <1>7, RemoveAtKeepsDistinct
  <2> HIDE DEF line
  <2>3. \A k \in 1 .. Len(line) : Place(k) \in 1 .. Len(rest) /\ line[k] = rest[Place(k)]
    BY <1>3, <2>1
  <2>4. \A k \in 1 .. Len(line) : line[k] \in kept \ {u}
    BY <1>3, <2>2, <2>3
  <2>5. ASSUME NEW v \in kept \ {u} PROVE \E k \in 1 .. Len(line) : line[k] = v
    <3>1. PICK j \in 1 .. Len(rest) : rest[j] = v
      BY <1>3
    <3>2. j # i
      BY <1>7, <3>1
    <3>3. CASE j < i
      BY <1>3, <2>1, <3>1, <3>3
    <3>4. CASE j > i
      <4>1. j - 1 \in 1 .. Len(line) /\ ~ (j - 1 < i) /\ (j - 1) + 1 = j
        BY <1>3, <2>1, <3>4
      <4> QED
        BY <2>1, <3>1, <4>1
    <3> QED
      BY <1>3, <3>2, <3>3, <3>4
  <2>6. ASSUME NEW k \in 1 .. Len(line), NEW j \in 1 .. Len(line), k < j
        PROVE  entries[line[k]].made <= entries[line[j]].made
    <3>1. Place(k) < Place(j)
      BY <1>3, <2>1, <2>6
    <3> QED
      BY <1>4, <2>3, <3>1
  <2>7. order' = Append(line, u)
    BY <1>7 DEF line
  <2> QED
    BY <2>1, <2>2, <2>4, <2>5, <2>6, <2>7
<1> QED
  <2>1. CASE \E i \in DOMAIN rest : rest[i] = u /\ order' = Append(RemoveAt(rest, i), u)
    BY <1>3, <1>7, <2>1 DEF n
  <2> QED
    BY <1>5, <1>6, <2>1

\* What is held after it: what was not dropped, and the new answer.
LEMMA KeepHeld ==
  ASSUME CacheInv, NEW u \in Urls, NEW size \in Nat, Keep(u, size), now' = now
  PROVE  /\ entries' \in [Urls -> Entry \cup {None}]
         /\ entries'[u] = [size |-> size, made |-> now]
         /\ \A v \in Urls \ {u} : entries'[v] = IF v \in First(Dropped(size)) THEN None ELSE entries[v]
         /\ Held' = ((Held \ First(Dropped(size))) \ {u}) \cup {u}
<1>1. /\ entries \in [Urls -> Entry \cup {None}] /\ now \in Nat
  BY Limits DEF CacheInv, TypeOK
<1>2. entries' = [v \in Urls |-> CASE v = u -> [size |-> size, made |-> now]
                                    [] v # u /\ v \in First(Dropped(size)) -> None
                                    [] OTHER -> entries[v]]
  BY DEF Keep
<1>3. [size |-> size, made |-> now] \in Entry /\ [size |-> size, made |-> now] # None
  BY <1>1, Limits DEF Entry
<1>4. /\ entries'[u] = [size |-> size, made |-> now]
      /\ \A v \in Urls \ {u} : entries'[v] = IF v \in First(Dropped(size)) THEN None ELSE entries[v]
  BY <1>2
<1>5. \A v \in Urls : entries'[v] \in Entry \cup {None}
  BY <1>1, <1>3, <1>4
<1>6. Held' = ((Held \ First(Dropped(size))) \ {u}) \cup {u}
  BY <1>3, <1>4 DEF Held
<1> QED
  BY <1>2, <1>4, <1>5, <1>6

\* The count after it is what the answers then held take.
LEMMA KeepCount ==
  ASSUME CacheInv, NEW u \in Urls, NEW size \in Nat, size <= Capacity, Keep(u, size), now' = now
  PROVE  bytes' \in Nat /\ CountedAndCapped'
<1> DEFINE n == Dropped(size)
           off == First(n)
           kept == Urls \ off
           old == (Held \cap {u}) \ off
           others == kept \ {u}
           g == Size'
<1>1. TypeOK /\ bytes = Weight(Urls) /\ bytes \in Nat /\ bytes <= Capacity /\ Capacity \in Nat
  BY Limits DEF CacheInv, TypeOK, CountedAndCapped
<1>2. /\ n \in 0 .. Len(order) /\ Aged <= n
      /\ n = Len(order) \/ Less(bytes, Weight(off)) + size <= Capacity
  BY DroppedIs
<1>3. off \in SUBSET Urls
  BY <1>2, RestIs
<1>4. /\ Weight(off) \in Nat /\ Weight(kept) \in Nat /\ bytes = Weight(off) + Weight(kept)
  BY <1>1, <1>3, WeightIs
<1>5. bytes' = Less(Less(bytes, Weight(off)), Weight(old)) + size
  BY DEF Keep
<1>6. Less(bytes, Weight(off)) = Weight(kept)
  BY <1>1, <1>4 DEF Less
\* What the older answer took, if any, is the rest of what was kept.
<1>7. /\ Weight(others) \in Nat /\ Weight(old) \in Nat
      /\ Weight(kept) = Weight(old) + Weight(others)
  <2>1. Weight(others) \in Nat /\ Weight(old) \in Nat
    BY <1>1, <1>3, WeightIs
  <2>2. CASE u \in off
    <3>1. old = {} /\ others = kept
      BY <2>2
    <3>2. Weight({}) = 0
      BY Limits, SumUnfolds DEF Weight
    <3> HIDE DEF old, others, kept
    <3> QED
      BY <1>4, <3>1, <3>2
  <2>3. CASE u \notin off
    <3>1. Weight(kept) = Size[u] + Weight(others)
      <4> DEFINE f == Size
      <4>1. \A x \in kept : f[x] \in Nat
        BY <1>1, SizeIs
      <4>2. IsFiniteSet(kept) /\ u \in kept
        BY <2>3, Limits, FS_Subset
      <4> HIDE DEF f, kept
      <4>3. SumFunctionOnSet(f, kept) = f[u] + SumFunctionOnSet(f, kept \ {u})
        BY <4>1, <4>2, SumTakeOut
      <4> QED
        BY <4>3 DEF f, Weight
    <3>2. Weight(old) = Size[u]
      <4>1. CASE u \in Held
        <5>1. old = {u}
          BY <2>3, <4>1
        <5> HIDE DEF old
        <5> QED
          BY <1>1, <5>1, WeightOfOne
      <4>2. CASE u \notin Held
        <5>1. old = {}
          BY <4>2
        <5>2. Size[u] = 0
          BY <1>1, <4>2, SizeIs
        <5>3. Weight({}) = 0
          BY Limits, SumUnfolds DEF Weight
        <5> HIDE DEF old
        <5> QED
          BY <5>1, <5>2, <5>3
      <4> QED
        BY <4>1, <4>2
    <3> QED
      BY <2>1, <3>1, <3>2
  <2> QED
    BY <2>1, <2>2, <2>3
<1>8. bytes' = Weight(others) + size
  <2> HIDE DEF kept, off, old, others
  <2> QED
    BY <1>4, <1>5, <1>6, <1>7 DEF Less
\* And so is what they take after it.
<1>9. SumFunctionOnSet(g, Urls) = Weight(others) + size
  <2> DEFINE f == Size
             rest == Urls \ {u}
  <2>1. /\ g[u] = size
        /\ \A v \in others : g[v] = f[v]
        /\ \A v \in rest \ others : g[v] = 0
        /\ \A v \in Urls : g[v] \in Nat /\ f[v] \in Nat
    <3>1. entries'[u] = [size |-> size, made |-> now] /\ entries'[u] # None
      BY KeepHeld, <1>1, Limits DEF TypeOK
    <3>2. \A v \in others : entries'[v] = entries[v]
      BY KeepHeld
    <3>3. \A v \in rest \ others : entries'[v] = None
      BY KeepHeld
    <3>4. \A v \in Urls : Size[v] \in Nat
      BY <1>1, SizeIs
    <3>5. \A v \in others : Size'[v] = Size[v]
      BY <3>2 DEF Size
    <3>6. \A v \in rest \ others : Size'[v] = 0
      BY <3>3 DEF Size
    <3>7. Size'[u] = size
      BY <3>1 DEF Size
    <3>8. \A v \in Urls : v = u \/ v \in others \/ v \in rest \ others
      OBVIOUS
    <3> QED
      BY <3>4, <3>5, <3>6, <3>7, <3>8
  <2>2. IsFiniteSet(Urls) /\ IsFiniteSet(rest) /\ IsFiniteSet(others) /\ IsFiniteSet(rest \ others)
    BY Limits, FS_Subset
  <2>3. others \in SUBSET rest /\ u \in Urls /\ \A v \in rest : g[v] \in Nat
    BY <2>1
  <2> HIDE DEF f, g, others
  <2>4. SumFunctionOnSet(g, Urls) = g[u] + SumFunctionOnSet(g, Urls \ {u})
    BY <2>1, <2>2, SumTakeOut
  <2>5. SumFunctionOnSet(g, rest) = SumFunctionOnSet(g, others) + SumFunctionOnSet(g, rest \ others)
    <3> HIDE DEF rest
    <3> QED
      BY <2>2, <2>3, SumSplit
  <2>6. SumFunctionOnSet(g, rest \ others) = 0
    BY <2>1, <2>2, SumOfZeros
  <2>7. SumFunctionOnSet(g, others) = SumFunctionOnSet(f, others)
    BY <2>1, <2>2, SumSame
  <2>8. SumFunctionOnSet(f, others) = Weight(others)
    BY DEF Weight, f
  <2> QED
    BY <1>7, <2>1, <2>4, <2>5, <2>6, <2>7, <2>8
\* A line that is dropped whole leaves nothing that takes anything.
<1>10. Weight(others) + size <= Capacity
  <2>1. CASE n = Len(order)
    <3>1. \A v \in others : Size[v] = 0
      <4>1. Held \subseteq off
        BY <2>1, LineIs DEF First
      <4> QED
        BY <1>1, <4>1, SizeIs
    <3>2. IsFiniteSet(others)
      BY Limits, FS_Subset
    <3>3. Weight(others) = 0
      <4> DEFINE f == Size
      <4>1. \A v \in others : f[v] = 0
        BY <3>1
      <4> HIDE DEF f, others
      <4>2. SumFunctionOnSet(f, others) = 0
        BY <3>2, <4>1, SumOfZeros
      <4> QED
        BY <4>2 DEF Weight, f
    <3> HIDE DEF others
    <3> QED
      BY <3>3
  <2>2. CASE Weight(kept) + size <= Capacity
    <3> HIDE DEF others, kept, old
    <3> QED
      BY <1>1, <1>4, <1>7, <2>2
  <2> QED
    BY <1>2, <1>6, <2>1, <2>2
<1>11. Weight(Urls)' = SumFunctionOnSet(g, Urls)
  BY DEF Weight
<1> HIDE DEF others, g
<1> QED
  BY <1>7, <1>8, <1>9, <1>10, <1>11 DEF CountedAndCapped

-----------------------------------------------------------------------------
(* The steps.                                                              *)

\* Nothing is held at first.
LEMMA InitCacheInv == Init => CacheInv
<1> SUFFICES ASSUME Init PROVE CacheInv
  OBVIOUS
<1>1. TypeOK
  BY Limits DEF Init, TypeOK
<1>2. Held = {}
  BY DEF Init, Held
<1>3. Weight(Urls) = 0
  <2> DEFINE f == Size
  <2>1. \A u \in Urls : f[u] = 0
    BY <1>1, <1>2, SizeIs
  <2> HIDE DEF f
  <2>2. SumFunctionOnSet(f, Urls) = 0
    BY <2>1, Limits, SumOfZeros
  <2> QED
    BY <2>2 DEF Weight, f
<1>4. CountedAndCapped
  BY <1>3, Limits DEF Init, CountedAndCapped
<1>5. OnePlaceInLine /\ LinePlaces
  BY <1>2 DEF Init, OnePlaceInLine, LinePlaces, IsInjective
<1> QED
  BY <1>1, <1>4, <1>5 DEF CacheInv

\* A lookup that meets an expired answer takes it off the count, and leaves a place before which
\* nothing is good: whatever is held there was made no later.
LEMMA MissKeeps ==
  ASSUME CacheInv, NEW r \in Requests, NEW u \in Urls, Miss(r, u)
  PROVE  CacheInv'
<1>1. /\ TypeOK /\ bytes = Weight(Urls) /\ bytes \in Nat /\ bytes <= Capacity /\ Capacity \in Nat
      /\ entries \in [Urls -> Entry \cup {None}] /\ now \in Nat /\ Ttl \in Nat
  BY Limits DEF CacheInv, TypeOK, CountedAndCapped
<1>2. order' = order /\ now' = now /\ working' = [working EXCEPT ![r] = u]
  BY DEF Miss
<1>3. \/ UNCHANGED <<entries, bytes>>
      \/ /\ u \in Held => Expired(u)
         /\ entries' = [entries EXCEPT ![u] = None]
         /\ bytes' = Less(bytes, Weight({u}))
  BY DEF Miss
<1>4. CASE UNCHANGED <<entries, bytes>>
  BY <1>1, <1>2, <1>4 DEF CacheInv, TypeOK, CountedAndCapped, OnePlaceInLine, LinePlaces, Held,
     Expired, Weight, Size, Entry
<1>5. CASE /\ u \in Held => Expired(u)
           /\ entries' = [entries EXCEPT ![u] = None]
           /\ bytes' = Less(bytes, Weight({u}))
  <2>1. entries' \in [Urls -> Entry \cup {None}] /\ Entry' = Entry
    BY <1>1, <1>2, <1>5 DEF Entry
  <2>2. Held' = Held \ {u} /\ \A v \in Urls \ {u} : entries'[v] = entries[v]
    BY <1>1, <1>5 DEF Held
  <2>3. bytes' \in Nat /\ bytes' = Weight(Urls \ {u})
    <3>1. /\ Weight({u}) \in Nat /\ Weight(Urls \ {u}) \in Nat
          /\ bytes = Weight({u}) + Weight(Urls \ {u})
      BY <1>1, WeightIs
    <3> QED
      BY <1>5, <3>1 DEF Less
  <2>4. Weight(Urls)' = Weight(Urls \ {u})
    <3> DEFINE f == Size
               g == Size'
    <3>1. /\ g[u] = 0
          /\ \A v \in Urls \ {u} : g[v] = f[v]
          /\ \A v \in Urls : f[v] \in Nat /\ g[v] \in Nat
      <4>1. \A v \in Urls : Size[v] \in Nat
        BY <1>1, SizeIs
      <4>2. Size'[u] = 0
        BY <1>1, <1>5 DEF Size
      <4>3. \A v \in Urls \ {u} : Size'[v] = Size[v]
        BY <2>2 DEF Size
      <4> QED
        BY <4>1, <4>2, <4>3
    <3>2. IsFiniteSet(Urls) /\ IsFiniteSet(Urls \ {u})
      BY Limits, FS_Subset
    <3> HIDE DEF f, g
    <3>3. SumFunctionOnSet(g, Urls) = g[u] + SumFunctionOnSet(g, Urls \ {u})
      BY <3>1, <3>2, SumTakeOut
    <3>4. SumFunctionOnSet(g, Urls \ {u}) = SumFunctionOnSet(f, Urls \ {u})
      BY <3>1, <3>2, SumSame
    <3>5. SumFunctionOnSet(f, Urls \ {u}) \in Nat
      BY <3>1, <3>2, SumNat
    <3>6. SumFunctionOnSet(g, Urls) = SumFunctionOnSet(f, Urls \ {u})
      BY <3>1, <3>3, <3>4, <3>5
    <3> QED
      BY <3>6 DEF Weight, f, g
  <2>5. CountedAndCapped'
    <3>1. Weight({u}) \in Nat /\ bytes = Weight({u}) + bytes'
      BY <1>1, <2>3, WeightIs
    <3> QED
      BY <1>1, <2>3, <2>4, <3>1 DEF CountedAndCapped
  <2>6. TypeOK'
    BY <1>2, <2>1, <2>3 DEF CacheInv, TypeOK
  <2>7. OnePlaceInLine'
    BY <1>2, <2>2 DEF CacheInv, OnePlaceInLine, Held
  <2>8. LinePlaces'
    <3>1. DOMAIN order = 1 .. Len(order)
      BY LineIs, LenProperties
    <3>2. SUFFICES ASSUME NEW i \in 1 .. Len(order), NEW j \in 1 .. Len(order), i <= j,
                          order[j] \notin Held', order[i] \in Held'
                   PROVE  Expired(order[i])'
      BY <1>2, <3>1 DEF LinePlaces
    <3>3. order[i] \in Held /\ order[i] # u /\ entries'[order[i]] = entries[order[i]]
      BY <2>2, <3>2 DEF Held
    <3>4. Expired(order[i])
      <4>1. CASE order[j] \notin Held
        BY <3>1, <3>2, <3>3, <4>1 DEF CacheInv, LinePlaces
      <4>2. CASE order[j] \in Held
        <5>1. order[j] = u /\ i # j /\ Expired(u)
          BY <1>5, <2>2, <3>2, <3>3, <4>2
        <5>2. entries[order[i]].made <= entries[u].made
          BY <3>2, <3>3, <4>2, <5>1, LineIs
        <5>3. entries[order[i]].made \in Nat /\ entries[u].made \in Nat
          BY <1>1, <3>3, <4>2, <5>1, HeldIs
        <5> QED
          BY <1>1, <5>1, <5>2, <5>3 DEF Expired
      <4> QED
        BY <4>1, <4>2
    <3> QED
      BY <1>2, <3>3, <3>4 DEF Expired
  <2> QED
    BY <2>5, <2>6, <2>7, <2>8 DEF CacheInv
<1> QED
  BY <1>3, <1>4, <1>5

\* An answer is kept with every place in line held, the newest last; or nothing changes.
LEMMA InsertKeeps ==
  ASSUME CacheInv, NEW r \in Requests, NEW size \in Nat, Insert(r, size)
  PROVE  CacheInv'
<1> DEFINE u == working[r]
<1>1. /\ TypeOK /\ now \in Nat /\ Capacity \in Nat /\ order \in Seq(Urls)
      /\ entries \in [Urls -> Entry \cup {None}]
  BY Limits DEF CacheInv, TypeOK
<1>2. u \in Urls /\ now' = now /\ working' = [working EXCEPT ![r] = None]
  BY DEF Insert, CacheInv, TypeOK
<1>3. working' \in [Requests -> Urls \cup {None}]
  BY <1>2 DEF CacheInv, TypeOK
<1>4. CASE UNCHANGED <<entries, order, bytes>>
  BY <1>1, <1>2, <1>3, <1>4 DEF CacheInv, TypeOK, CountedAndCapped, OnePlaceInLine, LinePlaces, Held,
     Expired, Weight, Size, Entry
<1>5. CASE size <= Capacity /\ Keep(u, size)
  <2> HIDE DEF u
  <2> DEFINE kept == (Held \ First(Dropped(size))) \ {u}
  <2>1. /\ entries' \in [Urls -> Entry \cup {None}]
        /\ entries'[u] = [size |-> size, made |-> now]
        /\ \A v \in Urls \ {u} : entries'[v] = IF v \in First(Dropped(size)) THEN None ELSE entries[v]
        /\ Held' = kept \cup {u}
    BY <1>2, <1>5, KeepHeld
  <2>2. bytes' \in Nat /\ CountedAndCapped'
    BY <1>2, <1>5, KeepCount
  <2>3. PICK line \in Seq(Urls) :
          /\ order' = Append(line, u) /\ Distinct(line)
          /\ \A i \in 1 .. Len(line) : line[i] \in kept
          /\ \A v \in kept : \E i \in 1 .. Len(line) : line[i] = v
          /\ \A i, j \in 1 .. Len(line) : i < j => entries[line[i]].made <= entries[line[j]].made
    BY <1>2, <1>5, KeepLine
  <2>4. /\ \A v \in kept : v \in Held /\ v \in Urls /\ v # u /\ entries'[v] = entries[v]
        /\ \A v \in kept : entries[v].made \in 0 .. now
    <3>1. \A v \in kept : v \in Held /\ v \in Urls /\ v # u /\ v \notin First(Dropped(size))
      BY DEF Held
    <3>2. \A v \in kept : entries[v].made \in 0 .. now
      BY <1>1, <3>1, HeldIs
    <3> QED
      BY <2>1, <3>1, <3>2
  <2> HIDE DEF kept
  <2>5. /\ order' \in Seq(Urls) /\ Len(order') = Len(line) + 1 /\ Len(line) \in Nat
        /\ DOMAIN order' = 1 .. (Len(line) + 1)
        /\ \A i \in 1 .. Len(line) : order'[i] = line[i]
        /\ order'[Len(line) + 1] = u
    BY <1>2, <2>3, AppendProperties, LenProperties
  <2>6. TypeOK'
    BY <1>1, <1>2, <1>3, <2>1, <2>2, <2>5 DEF TypeOK, CacheInv, Entry
  <2>7. \A i \in DOMAIN order' : order'[i] \in Held'
    BY <2>1, <2>3, <2>5
  <2>8. LinePlaces'
    BY <2>7 DEF LinePlaces
  <2>9. OnePlaceInLine'
    <3>1. IsInjective(order)'
      <4>1. Distinct(order')
        <5>1. \A i \in 1 .. Len(line) : line[i] # u
          BY <2>3, <2>4
        <5> QED
          BY <1>2, <2>3, <5>1, AppendKeepsDistinct
      <4> QED
        BY <2>5, <4>1 DEF IsInjective, Distinct
    <3>2. \A v \in Held' : \E i \in DOMAIN order' : order'[i] = v
      BY <2>1, <2>3, <2>5
    <3>3. ASSUME NEW i \in DOMAIN order', NEW j \in DOMAIN order', i < j
          PROVE  entries'[order'[i]].made <= entries'[order'[j]].made
      <4>1. i \in 1 .. Len(line) /\ order'[i] = line[i] /\ line[i] \in kept
        BY <2>3, <2>5, <3>3
      <4>2. CASE j \in 1 .. Len(line)
        <5>1. order'[j] = line[j] /\ line[j] \in kept /\ entries[line[i]].made <= entries[line[j]].made
          BY <2>3, <2>5, <3>3, <4>1, <4>2
        <5> QED
          BY <2>4, <4>1, <5>1
      <4>3. CASE j = Len(line) + 1
        BY <1>1, <2>1, <2>4, <2>5, <4>1, <4>3
      <4> QED
        BY <2>5, <4>2, <4>3
    <3> QED
      BY <3>1, <3>2, <3>3 DEF OnePlaceInLine
  <2> QED
    BY <2>2, <2>6, <2>8, <2>9 DEF CacheInv
<1> QED
  BY <1>4, <1>5 DEF Insert

\* An answer that has expired stays so, and nothing else depends on the clock.
LEMMA TickKeeps ==
  ASSUME CacheInv, Tick
  PROVE  CacheInv'
<1>1. /\ now' = now + 1 /\ now' \in 0 .. LastTime /\ UNCHANGED <<entries, order, bytes, working>>
      /\ now \in Nat /\ Ttl \in Nat /\ TypeOK
  BY Limits DEF Tick, CacheInv, TypeOK
<1>2. Entry \subseteq Entry' /\ Held' = Held
  BY <1>1 DEF Entry, Held
<1>3. TypeOK'
  BY <1>1, <1>2 DEF TypeOK
<1>4. CountedAndCapped' /\ OnePlaceInLine'
  BY <1>1, <1>2 DEF CacheInv, CountedAndCapped, OnePlaceInLine, Weight, Size
<1>5. \A v \in Held : Expired(v) => Expired(v)'
  <2>1. ASSUME NEW v \in Held, Expired(v) PROVE Expired(v)'
    <3>1. entries[v].made \in Nat /\ entries[v].made <= now
      BY <1>1, HeldIs
    <3> QED
      BY <1>1, <2>1, <3>1 DEF Expired
  <2> QED
    BY <2>1
<1>6. LinePlaces'
  BY <1>1, <1>2, <1>5 DEF CacheInv, LinePlaces
<1> QED
  BY <1>3, <1>4, <1>6 DEF CacheInv

\* Every step keeps what is held counted, within its limit and in line.
LEMMA NextCacheInv == CacheInv /\ [Next]_vars => CacheInv'
<1> SUFFICES ASSUME CacheInv, [Next]_vars PROVE CacheInv'
  OBVIOUS
<1>1. ASSUME UNCHANGED vars PROVE CacheInv'
  BY <1>1 DEF vars, CacheInv, TypeOK, CountedAndCapped, OnePlaceInLine, LinePlaces, Held, Expired,
     Weight, Size, Entry
<1>2. ASSUME NEW u \in Urls, Hit(u) PROVE CacheInv'
  BY <1>1, <1>2 DEF Hit
<1>3. ASSUME NEW r \in Requests, NEW size \in Sizes, Insert(r, size) PROVE CacheInv'
  BY <1>3, Limits, InsertKeeps
<1>4. ASSUME NEW r \in Requests, Fail(r) PROVE CacheInv'
  <2>1. UNCHANGED <<entries, order, bytes, now>> /\ working' \in [Requests -> Urls \cup {None}]
    BY <1>4 DEF Fail, CacheInv, TypeOK
  <2> QED
    BY <2>1 DEF CacheInv, TypeOK, CountedAndCapped, OnePlaceInLine, LinePlaces, Held, Expired,
       Weight, Size, Entry
<1> QED
  BY <1>1, <1>2, <1>3, <1>4, MissKeeps, TickKeeps DEF Next

\* The bytes counted are those held and within max_query_cache_bytes, and every answer held has
\* one place in line, the oldest first (Answers, Kept).
THEOREM CacheCorrect == Spec => []CacheInv
  BY InitCacheInv, NextCacheInv, PTL DEF Spec

-----------------------------------------------------------------------------
(* The file and its readers.                                               *)

\* Where a request can be, and the bodies it can be given.
Places == {"none", "asked", "looking", "missed", "read", "streamed", "file"}
Bodies == [of : Urls \cup {File}, versions : SUBSET Versions]

-----------------------------------------------------------------------------
(* What is read off the invariant more than once.                          *)

\* What the assumptions on the constants say of them.
LEMMA FileConstants ==
  /\ Plain \subseteq Urls /\ File \notin Urls /\ None \notin Urls /\ Timeout \in Nat
  /\ LastVersion \in Nat /\ Versions \subseteq Nat
  BY FilesAssumption, LimitsAssumption DEF Versions

\* The types, by variable.
LEMMA FileTypes ==
  ASSUME FilesInv
  PROVE  /\ version \in Versions /\ version \in Nat /\ now \in Nat
         /\ gone \in [Versions -> Nat \cup {None}]
         /\ reader \in [Requests -> [url : Urls \cup {None}, clean : BOOLEAN, got : SUBSET Bodies]]
         /\ request \in [Requests -> [at : Places, began : Nat, seen : Versions, rows : Versions]]
         /\ working \in [Requests -> Urls \cup {None}]
         /\ entries \in [Urls -> Entry \cup {None}]
  BY FileConstants, Limits DEF FilesInv, FilesTypeOK, CacheInv, TypeOK, Bodies, Places

\* A request at its place has a reader, a beginning and what it saw.
LEMMA RequestIs ==
  ASSUME FilesInv, NEW r \in Requests
  PROVE  /\ request[r].at \in Places /\ request[r].began \in Nat
         /\ request[r].seen \in Versions /\ request[r].rows \in Versions
         /\ reader[r].url \in Urls \cup {None} /\ reader[r].clean \in BOOLEAN
         /\ reader[r].got \in SUBSET Bodies
         /\ request[r].at # "none" => reader[r].url \in Urls
         /\ working[r] = IF request[r].at \in {"missed", "read"} THEN reader[r].url ELSE None
<1>1. /\ request[r] \in [at : Places, began : Nat, seen : Versions, rows : Versions]
      /\ reader[r] \in [url : Urls \cup {None}, clean : BOOLEAN, got : SUBSET Bodies]
  BY FileTypes
<1>2. /\ request[r].at # "none" => reader[r].url # None
      /\ working[r] = IF request[r].at \in {"missed", "read"} THEN reader[r].url ELSE None
  BY DEF FilesInv, InTime, At, Querying
<1> QED
  BY <1>1, <1>2

\* A change of one request shows in that request only.
LEMMA OneRequest ==
  ASSUME FilesInv, NEW r \in Requests, NEW new, request' = [request EXCEPT ![r] = new]
  PROVE  request'[r] = new /\ \A q \in Requests \ {r} : request'[q] = request[q]
  BY FileTypes

-----------------------------------------------------------------------------
(* The cache inside.                                                       *)

\* The cache is kept in order, whatever is read through it.
LEMMA CacheKept ==
  ASSUME FilesInv, [FilesNext]_fvars
  PROVE  CacheInv' /\ [Next]_vars
<1>1. CASE UNCHANGED fvars
  BY <1>1, NextCacheInv DEF fvars, FilesInv
<1>2. ASSUME NEW r \in Requests, NEW u \in Urls, Ask(r, u) PROVE UNCHANGED vars
  BY <1>2 DEF Ask
<1>3. ASSUME NEW r \in Requests, ReadFooter(r) \/ ReadRows(r) \/ AnswerStreamed(r) \/ AnswerFile(r)
                                 \/ Close(r) \/ AnswerHeld(r)
      PROVE  UNCHANGED vars
  BY <1>3 DEF ReadFooter, ReadRows, AnswerStreamed, AnswerFile, Close, AnswerHeld, Hit
<1>4. ASSUME NEW r \in Requests, FindNothing(r) PROVE Next
  <2>1. reader[r].url \in Urls
    BY <1>4, RequestIs DEF FindNothing, At
  <2> QED
    BY <1>4, <2>1 DEF FindNothing, Key, Next
<1>5. ASSUME NEW r \in Requests, NEW size \in Sizes, AnswerQuery(r, size) PROVE Next
  BY <1>5 DEF AnswerQuery, Next
<1>6. ASSUME NEW r \in Requests, EndRequest(r) PROVE Next \/ UNCHANGED vars
  BY <1>6 DEF EndRequest, Next
<1>7. ASSUME Replace PROVE UNCHANGED vars
  BY <1>7 DEF Replace
<1>8. ASSUME TimePasses PROVE Next
  BY <1>8 DEF TimePasses, Next
<1>9. [Next]_vars
  BY <1>1, <1>2, <1>3, <1>4, <1>5, <1>6, <1>7, <1>8 DEF FilesNext, fvars
<1> QED
  BY <1>9, NextCacheInv DEF FilesInv

\* A body held that was held before the step, and one that a request made of the rows it read.
Stayed(u) == u \in Held /\ entries'[u] = entries[u] /\ held'[u] = held[u]
MadeBy(r, u) ==
  /\ request[r].at = "read" /\ u = reader[r].url /\ entries'[u].made = now
  /\ held'[u] = Body(u, {request[r].seen, request[r].rows})
  /\ UNCHANGED <<now, version, gone>>

\* Nothing is held after a step but what was before it, or what the request that has read the rows
\* has made of them.
LEMMA HeldAfter ==
  ASSUME FilesInv, [FilesNext]_fvars
  PROVE  \A u \in Held' : u \in Urls /\ (Stayed(u) \/ \E r \in Requests : MadeBy(r, u))
<1> DEFINE Known == \A u \in Held' : u \in Urls /\ (Stayed(u) \/ \E r \in Requests : MadeBy(r, u))
<1>1. \A u \in Held' : u \in Urls /\ entries'[u] # None
  BY DEF Held
<1>2. ASSUME UNCHANGED <<entries, held>> PROVE Known
  BY <1>1, <1>2 DEF Held, Stayed
<1>3. ASSUME NEW r \in Requests, AnswerHeld(r) PROVE Known
  <2>1. UNCHANGED entries /\ held' = [u \in Urls |-> IF entries'[u] = None THEN None ELSE held[u]]
    BY <1>3 DEF AnswerHeld, Hit, vars, HeldBodies
  <2> QED
    BY <1>1, <2>1 DEF Held, Stayed
<1>4. ASSUME NEW r \in Requests, FindNothing(r) PROVE Known
  <2>1. /\ held' = [u \in Urls |-> IF entries'[u] = None THEN None ELSE held[u]]
        /\ entries' = entries \/ \E v : entries' = [entries EXCEPT ![v] = None]
    BY <1>4 DEF FindNothing, Miss, HeldBodies
  <2>2. \A u \in Held' : u \in Urls /\ entries'[u] = entries[u] /\ held'[u] = held[u]
    BY <1>1, <2>1, FileTypes
  <2> QED
    BY <1>1, <2>2 DEF Held, Stayed
<1>5. ASSUME NEW r \in Requests, NEW size \in Sizes, AnswerQuery(r, size) PROVE Known
  <2> DEFINE u == reader[r].url
             body == Body(u, {request[r].seen, request[r].rows})
  <2>1. request[r].at = "read" /\ u \in Urls /\ working[r] = u /\ size \in Nat
    BY <1>5, RequestIs, Limits DEF AnswerQuery, At
  <2>2. UNCHANGED <<now, version, gone>>
    BY <1>5 DEF AnswerQuery, Insert
  <2>3. CASE On /\ size <= Capacity
    <3>1. Keep(u, size)
      BY <1>5, <2>1, <2>3 DEF AnswerQuery, Insert
    <3>2. /\ entries'[u] = [size |-> size, made |-> now]
          /\ \A v \in Urls \ {u} : entries'[v] = None \/ entries'[v] = entries[v]
      BY <2>1, <2>2, <3>1, KeepHeld DEF FilesInv
    <3>3. held' = [v \in Urls |-> IF entries'[v] = None THEN None
                                  ELSE IF v = u THEN body ELSE held[v]]
      BY <1>5, <2>1, <2>3 DEF AnswerQuery, HeldBodies
    <3>4. u \in Held' => MadeBy(r, u)
      BY <1>1, <2>1, <2>2, <3>2, <3>3 DEF MadeBy
    <3>5. \A v \in Held' \ {u} : Stayed(v)
      BY <1>1, <3>2, <3>3 DEF Stayed, Held
    <3> QED
      BY <1>1, <3>4, <3>5
  <2>4. CASE ~ (On /\ size <= Capacity)
    <3>1. /\ UNCHANGED entries
          /\ held' = [v \in Urls |-> IF entries'[v] = None THEN None ELSE held[v]]
      BY <1>5, <2>4 DEF AnswerQuery, Insert, HeldBodies
    <3> QED
      BY <1>1, <3>1 DEF Held, Stayed
  <2> QED
    BY <2>3, <2>4
<1>6. \/ UNCHANGED <<entries, held>>
      \/ \E r \in Requests : AnswerHeld(r) \/ FindNothing(r) \/ \E size \in Sizes : AnswerQuery(r, size)
  BY DEF FilesNext, fvars, vars, Ask, ReadFooter, ReadRows, AnswerStreamed, AnswerFile, EndRequest, Fail,
         Close, Replace, TimePasses, Tick
<1>7. Known
  <2> HIDE DEF Known
  <2> QED
    BY <1>2, <1>3, <1>4, <1>5, <1>6
<1> QED
  BY <1>7

-----------------------------------------------------------------------------
(* What stays true.                                                        *)

\* How the requests and their readers change, apart from the step that made them.
LEMMA FileTypeKept ==
  ASSUME FilesInv, [FilesNext]_fvars
  PROVE  FilesTypeOK'
<1> DEFINE Readers == reader' \in [Requests -> [url : Urls \cup {None}, clean : BOOLEAN, got : SUBSET Bodies]]
           Asks == request' \in [Requests -> [at : Places, began : Nat, seen : Versions, rows : Versions]]
           File4 == /\ mount' \in {"disk", "store"} /\ version' \in Versions
                    /\ gone' \in [Versions -> Nat \cup {None}]
           Typed == Readers /\ Asks /\ File4
<1>1. /\ version \in Versions /\ version \in Nat /\ now \in Nat
      /\ gone \in [Versions -> Nat \cup {None}] /\ mount \in {"disk", "store"}
      /\ reader \in [Requests -> [url : Urls \cup {None}, clean : BOOLEAN, got : SUBSET Bodies]]
      /\ request \in [Requests -> [at : Places, began : Nat, seen : Versions, rows : Versions]]
  BY FileTypes DEF FilesInv, FilesTypeOK
<1>2. NoRequest \in [at : Places, began : Nat, seen : Versions, rows : Versions]
  BY FileConstants DEF NoRequest, Places, Versions
<1>3. NoReader \in [url : Urls \cup {None}, clean : BOOLEAN, got : SUBSET Bodies]
  BY DEF NoReader
<1>4. \A u \in Held' : held'[u] \in [of : {u}, versions : SUBSET Versions]
  <2>1. ASSUME NEW u \in Held' PROVE held'[u] \in [of : {u}, versions : SUBSET Versions]
    <3>1. CASE Stayed(u)
      BY <3>1 DEF Stayed, FilesInv, FilesTypeOK
    <3>2. CASE \E r \in Requests : MadeBy(r, u)
      BY <3>2, RequestIs DEF MadeBy, Body
    <3> QED
      BY <3>1, <3>2, HeldAfter
  <2> QED
    BY <2>1
<1>5. ASSUME NEW r \in Requests, NEW body \in Bodies, Answered(r, body)
      PROVE  Readers /\ Asks
  <2>1. [reader[r] EXCEPT !.got = IF reader[r].clean THEN reader[r].got \cup {body} ELSE {}]
          \in [url : Urls \cup {None}, clean : BOOLEAN, got : SUBSET Bodies]
    BY <1>1
  <2>2. reader' = [reader EXCEPT ![r] = [reader[r] EXCEPT !.got =
                      IF reader[r].clean THEN reader[r].got \cup {body} ELSE {}]]
    BY <1>1, <1>5 DEF Answered
  <2>3. Readers
    BY <1>1, <2>1, <2>2
  <2> QED
    BY <1>1, <1>2, <1>5, <2>3 DEF Answered
<1>6. CASE UNCHANGED fvars
  BY <1>1, <1>4, <1>6 DEF fvars, FilesTypeOK, Bodies, Places
<1>7. ASSUME NEW r \in Requests, NEW u \in Urls, Ask(r, u) PROVE Typed
  <2>1. [url |-> u, got |-> {}, clean |-> ~OlderAbout(r, u)]
          \in [url : Urls \cup {None}, clean : BOOLEAN, got : SUBSET Bodies]
    BY DEF OlderAbout
  <2>2. [at |-> IF u \in Plain THEN "file" ELSE "asked", began |-> now, seen |-> version, rows |-> 0]
          \in [at : Places, began : Nat, seen : Versions, rows : Versions]
    BY <1>1, FileConstants DEF Places, Versions
  <2>3. Readers
    BY <1>1, <1>7, <2>1 DEF Ask
  <2>4. Asks
    BY <1>1, <1>7, <2>2 DEF Ask
  <2>5. File4
    BY <1>1, <1>7 DEF Ask
  <2> QED
    BY <2>3, <2>4, <2>5
<1>8. ASSUME NEW r \in Requests, ReadFooter(r) \/ ReadRows(r) PROVE Typed
  <2>1. CASE ReadFooter(r)
    <3> DEFINE next == IF version \in Whole[reader[r].url] THEN "file"
                       ELSE IF reader[r].url \in Streaming THEN "streamed" ELSE "looking"
               new == [request[r] EXCEPT !.at = next,
                                         !.seen = IF next = "file" THEN request[r].seen ELSE version]
    <3>1. request' = [request EXCEPT ![r] = new]
      BY <1>1, <2>1 DEF ReadFooter
    <3>2. new \in [at : Places, began : Nat, seen : Versions, rows : Versions]
      <4>1. next \in Places
        BY DEF Places
      <4> HIDE DEF next
      <4> QED
        BY <1>1, <4>1
    <3> HIDE DEF new
    <3>3. Asks
      BY <1>1, <3>1, <3>2
    <3> QED
      BY <1>1, <2>1, <3>3 DEF ReadFooter
  <2>2. CASE ReadRows(r)
    <3>1. request' = [request EXCEPT ![r] = [request[r] EXCEPT !.at = "read", !.rows = version]]
      BY <1>1, <2>2 DEF ReadRows
    <3>2. [request[r] EXCEPT !.at = "read", !.rows = version]
            \in [at : Places, began : Nat, seen : Versions, rows : Versions]
      BY <1>1 DEF Places
    <3>3. Asks
      BY <1>1, <3>1, <3>2
    <3> QED
      BY <1>1, <2>2, <3>3 DEF ReadRows
  <2> QED
    BY <1>8, <2>1, <2>2
<1>9. ASSUME NEW r \in Requests, AnswerHeld(r) PROVE Typed
  <2>1. reader[r].url \in Held
    BY <1>9 DEF AnswerHeld, Hit, Key
  <2>2. held[reader[r].url] \in Bodies
    BY <2>1 DEF FilesInv, FilesTypeOK, Bodies, Held
  <2>3. Answered(r, held[reader[r].url]) /\ UNCHANGED <<mount, version, gone>>
    BY <1>9 DEF AnswerHeld, Key
  <2> QED
    BY <1>1, <1>5, <2>2, <2>3
<1>10. ASSUME NEW r \in Requests, FindNothing(r) PROVE Typed
  <2>1. request' = [request EXCEPT ![r] = [request[r] EXCEPT !.at = "missed"]]
    BY <1>1, <1>10 DEF FindNothing
  <2>2. [request[r] EXCEPT !.at = "missed"] \in [at : Places, began : Nat, seen : Versions, rows : Versions]
    BY <1>1 DEF Places
  <2> QED
    BY <1>1, <1>10, <2>1, <2>2 DEF FindNothing
<1>11. ASSUME NEW r \in Requests, NEW size \in Sizes, AnswerQuery(r, size) PROVE Typed
  <2>1. Body(reader[r].url, {request[r].seen, request[r].rows}) \in Bodies
    BY <1>11, RequestIs DEF AnswerQuery, At, Body, Bodies
  <2> QED
    BY <1>1, <1>5, <1>11, <2>1 DEF AnswerQuery
<1>12. ASSUME NEW r \in Requests, AnswerStreamed(r) PROVE Typed
  <2>1. Body(reader[r].url, {request[r].seen, version}) \in Bodies
    BY <1>1, <1>12, RequestIs DEF AnswerStreamed, At, Body, Bodies
  <2> QED
    BY <1>1, <1>5, <1>12, <2>1 DEF AnswerStreamed
<1>13. ASSUME NEW r \in Requests, AnswerFile(r) PROVE Typed
  <2>1. Body(File, {version} \cup IF mount = "store" THEN {request[r].seen} ELSE {}) \in Bodies
    BY <1>1, RequestIs DEF Body, Bodies
  <2> QED
    BY <1>1, <1>5, <1>13, <2>1 DEF AnswerFile
<1>14. ASSUME NEW r \in Requests, EndRequest(r) PROVE Typed
  BY <1>1, <1>2, <1>14 DEF EndRequest
<1>15. ASSUME NEW r \in Requests, Close(r) PROVE Typed
  BY <1>1, <1>3, <1>15 DEF Close
<1>16. ASSUME Replace PROVE Typed
  <2>1. \A r \in Requests : [reader[r] EXCEPT !.clean = FALSE, !.got = {}]
                              \in [url : Urls \cup {None}, clean : BOOLEAN, got : SUBSET Bodies]
    BY <1>1
  <2>2. version' \in Versions
    <3>1. version' = version + 1 /\ version < LastVersion
      BY <1>16 DEF Replace
    <3>2. LastVersion \in Nat
      BY FileConstants
    <3> QED
      BY <1>1, <3>1, <3>2 DEF Versions
  <2>3. Readers
    BY <1>1, <1>16, <2>1 DEF Replace
  <2> QED
    BY <1>1, <1>16, <2>2, <2>3 DEF Replace
<1>17. ASSUME TimePasses PROVE Typed
  BY <1>1, <1>17 DEF TimePasses
<1>18. CASE FilesNext
  <2> HIDE DEF Typed
  <2>1. Typed
    BY <1>7, <1>8, <1>9, <1>10, <1>11, <1>12, <1>13, <1>14, <1>15, <1>16, <1>17, <1>18 DEF FilesNext
  <2> QED
    BY <1>4, <2>1 DEF Typed, FilesTypeOK, Bodies, Places
<1> QED
  BY <1>6, <1>18

\* A request has time left and has seen what was there since it began, through every step of it,
\* every replacement of the file and every tick it has time for.
LEMMA InTimeKept ==
  ASSUME FilesInv, [FilesNext]_fvars
  PROVE  InTime'
<1> DEFINE There(v, time) == v = version' \/ (v < version' /\ gone'[v] >= time)
           Timely(q) ==
             /\ request'[q].at # "none" =>
                  /\ reader'[q].url # None
                  /\ request'[q].began <= now' /\ now' <= request'[q].began + Timeout
                  /\ There(request'[q].seen, request'[q].began)
             /\ request'[q].at = "read" =>
                  /\ request'[q].seen <= request'[q].rows
                  /\ There(request'[q].rows, request'[q].began)
           Counts(q) == working'[q] = IF request'[q].at \in {"missed", "read"} THEN reader'[q].url ELSE None
           Gone == \A v \in Versions : v < version' => gone'[v] \in 0..now'
           Good == Gone /\ \A q \in Requests : Timely(q) /\ Counts(q)
<1> SUFFICES Good
  BY DEF InTime, ThereAt, At, Querying
<1>1. /\ version \in Versions /\ version \in Nat /\ now \in Nat /\ Timeout \in Nat
      /\ gone \in [Versions -> Nat \cup {None}] /\ Versions \subseteq Nat
      /\ reader \in [Requests -> [url : Urls \cup {None}, clean : BOOLEAN, got : SUBSET Bodies]]
      /\ request \in [Requests -> [at : Places, began : Nat, seen : Versions, rows : Versions]]
      /\ working \in [Requests -> Urls \cup {None}]
  BY FileTypes, FileConstants
<1>2. /\ \A v \in Versions : v < version => gone[v] \in 0..now
      /\ \A q \in Requests :
           /\ request[q].at # "none" =>
                /\ reader[q].url # None
                /\ request[q].began <= now /\ now <= request[q].began + Timeout
                /\ \/ request[q].seen = version
                   \/ request[q].seen < version /\ gone[request[q].seen] >= request[q].began
           /\ request[q].at = "read" =>
                /\ request[q].seen <= request[q].rows
                /\ \/ request[q].rows = version
                   \/ request[q].rows < version /\ gone[request[q].rows] >= request[q].began
           /\ working[q] = IF request[q].at \in {"missed", "read"} THEN reader[q].url ELSE None
  BY DEF FilesInv, InTime, ThereAt, At, Querying
\* A step of one request.
<1>3. ASSUME NEW r \in Requests, UNCHANGED <<now, version, gone>>,
             \A q \in Requests \ {r} :
               request'[q] = request[q] /\ reader'[q] = reader[q] /\ working'[q] = working[q],
             Timely(r), Counts(r)
      PROVE  Good
  BY <1>1, <1>2, <1>3
<1>4. ASSUME NEW r \in Requests, NEW new, request' = [request EXCEPT ![r] = new]
      PROVE  request'[r] = new /\ \A q \in Requests \ {r} : request'[q] = request[q]
  BY <1>4, OneRequest
<1>5. NoRequest.at = "none"
  BY DEF NoRequest
<1>6. CASE UNCHANGED fvars
  BY <1>1, <1>2, <1>6 DEF fvars, vars
<1>7. ASSUME NEW r \in Requests, NEW u \in Urls, Ask(r, u) PROVE Good
  <2>1. /\ UNCHANGED <<now, version, gone, working>> /\ request[r].at = "none"
        /\ request' = [request EXCEPT ![r] = [at |-> IF u \in Plain THEN "file" ELSE "asked",
                                              began |-> now, seen |-> version, rows |-> 0]]
    BY <1>7 DEF Ask, At, vars
  <2>2. reader'[r].url = u /\ \A q \in Requests \ {r} : reader'[q] = reader[q]
    BY <1>1, <1>7 DEF Ask
  <2>3. Timely(r) /\ Counts(r)
    BY <1>1, <1>2, <1>4, <2>1, <2>2, FileConstants
  <2> QED
    BY <1>3, <1>4, <2>1, <2>2, <2>3
<1>8. ASSUME NEW r \in Requests, ReadFooter(r) PROVE Good
  <2> DEFINE next == IF version \in Whole[reader[r].url] THEN "file"
                     ELSE IF reader[r].url \in Streaming THEN "streamed" ELSE "looking"
             new == [request[r] EXCEPT !.at = next,
                                       !.seen = IF next = "file" THEN request[r].seen ELSE version]
  <2>1. /\ UNCHANGED <<now, version, gone, working, reader>> /\ request[r].at = "asked"
        /\ request' = [request EXCEPT ![r] = new]
    BY <1>8 DEF ReadFooter, At, vars
  <2>2. /\ new.at \in {"file", "streamed", "looking"} /\ new.began = request[r].began
        /\ new.seen = request[r].seen \/ new.seen = version
    BY <1>1
  <2> HIDE DEF new
  <2>3. Timely(r) /\ Counts(r)
    BY <1>1, <1>2, <1>4, <2>1, <2>2
  <2> QED
    BY <1>3, <1>4, <2>1, <2>3
<1>9. ASSUME NEW r \in Requests, ReadRows(r) PROVE Good
  <2> DEFINE new == [request[r] EXCEPT !.at = "read", !.rows = version]
  <2>1. /\ UNCHANGED <<now, version, gone, working, reader>> /\ request[r].at = "missed"
        /\ request' = [request EXCEPT ![r] = new]
    BY <1>9 DEF ReadRows, At, vars
  <2>2. /\ new.at = "read" /\ new.began = request[r].began /\ new.seen = request[r].seen
        /\ new.rows = version
    BY <1>1
  <2> HIDE DEF new
  <2>3. request[r].seen <= version
    <3>1. request[r].seen = version \/ request[r].seen < version
      BY <1>2, <2>1
    <3>2. request[r].seen \in Nat
      BY <1>1
    <3> QED
      BY <1>1, <3>1, <3>2
  <2>4. Timely(r) /\ Counts(r)
    BY <1>1, <1>2, <1>4, <2>1, <2>2, <2>3
  <2> QED
    BY <1>3, <1>4, <2>1, <2>4
<1>10. ASSUME NEW r \in Requests, FindNothing(r) PROVE Good
  <2> DEFINE new == [request[r] EXCEPT !.at = "missed"]
  <2>1. /\ UNCHANGED <<now, version, gone, reader>> /\ request[r].at = "looking"
        /\ request' = [request EXCEPT ![r] = new]
        /\ working' = [working EXCEPT ![r] = reader[r].url]
    BY <1>1, <1>10 DEF FindNothing, Miss, Key, At
  <2>2. /\ new.at = "missed" /\ new.began = request[r].began /\ new.seen = request[r].seen
    BY <1>1
  <2> HIDE DEF new
  <2>3. Timely(r) /\ Counts(r)
    BY <1>1, <1>2, <1>4, <2>1, <2>2
  <2> QED
    BY <1>1, <1>3, <1>4, <2>1, <2>3
\* A request that ends has nothing to be in time for.
<1>11. ASSUME NEW r \in Requests, request' = [request EXCEPT ![r] = NoRequest],
              UNCHANGED <<now, version, gone>>,
              \A q \in Requests \ {r} : reader'[q] = reader[q] /\ working'[q] = working[q],
              working'[r] = None
       PROVE  Good
  <2>1. Timely(r) /\ Counts(r)
    BY <1>4, <1>5, <1>11
  <2> QED
    BY <1>3, <1>4, <1>11, <2>1
<1>12. ASSUME NEW r \in Requests, NEW body, Answered(r, body)
       PROVE  /\ request' = [request EXCEPT ![r] = NoRequest]
              /\ \A q \in Requests \ {r} : reader'[q] = reader[q]
  BY <1>1, <1>12 DEF Answered
<1>13. ASSUME NEW r \in Requests, AnswerHeld(r) \/ AnswerStreamed(r) \/ AnswerFile(r) PROVE Good
  <2>1. /\ UNCHANGED <<now, version, gone, working>> /\ request[r].at \in {"looking", "streamed", "file"}
        /\ \E body : Answered(r, body)
    BY <1>13 DEF AnswerHeld, AnswerStreamed, AnswerFile, Hit, At, vars
  <2>2. working'[r] = None
    BY <1>2, <2>1
  <2> QED
    BY <1>11, <1>12, <2>1, <2>2
<1>14. ASSUME NEW r \in Requests, NEW size \in Sizes, AnswerQuery(r, size) PROVE Good
  <2>1. /\ UNCHANGED <<now, version, gone>> /\ working' = [working EXCEPT ![r] = None]
        /\ \E body : Answered(r, body)
    BY <1>14 DEF AnswerQuery, Insert
  <2>2. working'[r] = None /\ \A q \in Requests \ {r} : working'[q] = working[q]
    BY <1>1, <2>1
  <2> QED
    BY <1>11, <1>12, <2>1, <2>2
<1>15. ASSUME NEW r \in Requests, EndRequest(r) PROVE Good
  <2>1. /\ UNCHANGED <<now, version, gone, reader>>
        /\ request' = [request EXCEPT ![r] = NoRequest]
        /\ IF Querying(r) THEN working' = [working EXCEPT ![r] = None] ELSE working' = working
    BY <1>15 DEF EndRequest, Fail, vars
  <2>2. working'[r] = None /\ \A q \in Requests \ {r} : working'[q] = working[q]
    BY <1>1, <1>2, <2>1 DEF Querying, At
  <2> QED
    BY <1>11, <2>1, <2>2
<1>16. ASSUME NEW r \in Requests, Close(r) PROVE Good
  <2>1. /\ UNCHANGED <<now, version, gone, working, request>> /\ request[r].at = "none"
        /\ reader' = [reader EXCEPT ![r] = NoReader]
    BY <1>16 DEF Close, At, vars
  <2>2. \A q \in Requests \ {r} : reader'[q] = reader[q]
    BY <1>1, <2>1
  <2>3. Timely(r) /\ Counts(r)
    BY <1>2, <2>1
  <2> QED
    BY <1>3, <2>1, <2>2, <2>3
<1>17. ASSUME Replace PROVE Good
  <2>1. /\ version' = version + 1 /\ UNCHANGED <<now, working, request>>
        /\ gone' = [gone EXCEPT ![version] = now]
    BY <1>17 DEF Replace, vars
  <2>2. /\ gone'[version] = now
        /\ \A v \in Versions : v < version => gone'[v] = gone[v]
    BY <1>1, <2>1
  <2>3. \A q \in Requests : reader'[q].url = reader[q].url
    BY <1>1, <1>17 DEF Replace
  <2>4. \A v \in Versions : v < version' => v = version \/ v < version
    BY <1>1, <2>1
  <2>5. Gone
    BY <1>1, <1>2, <2>1, <2>2, <2>4
  <2>6. ASSUME NEW q \in Requests PROVE Timely(q) /\ Counts(q)
    <3>1. request[q].seen \in Versions /\ request[q].rows \in Versions /\ request[q].began \in Nat
      BY RequestIs
    <3>2. ASSUME NEW v \in Versions, request[q].at # "none",
                 v = version \/ (v < version /\ gone[v] >= request[q].began)
          PROVE  There(v, request[q].began)
      BY <1>1, <1>2, <2>1, <2>2, <3>1, <3>2
    <3> QED
      BY <1>2, <2>1, <2>3, <3>1, <3>2
  <2> QED
    BY <2>5, <2>6
<1>18. ASSUME TimePasses PROVE Good
  <2>1. /\ now' = now + 1 /\ UNCHANGED <<version, gone, working, request, reader>>
        /\ \A q \in Requests : request[q].at = "none" \/ now < request[q].began + Timeout
    BY <1>18 DEF TimePasses, Tick, At
  <2>2. \A q \in Requests : request[q].began \in Nat
    BY RequestIs
  <2>3. Gone
    BY <1>1, <1>2, <2>1
  <2>4. \A q \in Requests : Timely(q) /\ Counts(q)
    BY <1>1, <1>2, <2>1, <2>2
  <2> QED
    BY <2>3, <2>4
<1>19. CASE FilesNext
  <2> HIDE DEF Good
  <2> QED
    BY <1>7, <1>8, <1>9, <1>10, <1>13, <1>14, <1>15, <1>16, <1>17, <1>18, <1>19 DEF FilesNext
<1> QED
  BY <1>6, <1>19

\* What is held stays made of what was there a request's time before: an answer is made within
\* the time of its request, of what that has seen.
LEMMA MadeOfRecentKept ==
  ASSUME FilesInv, [FilesNext]_fvars
  PROVE  MadeOfRecent'
<1>1. /\ version \in Nat /\ now \in Nat /\ Timeout \in Nat /\ Versions \subseteq Nat
      /\ version \in Versions /\ gone \in [Versions -> Nat \cup {None}] /\ TypeOK
  BY FileTypes, FileConstants DEF FilesInv, CacheInv
<1> SUFFICES ASSUME NEW u \in Held', NEW v \in Versions, v \in held'[u].versions
             PROVE  v = version' \/ (v < version' /\ gone'[v] + Timeout >= entries'[u].made)
  BY DEF MadeOfRecent
<1>2. u \in Urls /\ (Stayed(u) \/ \E r \in Requests : MadeBy(r, u))
  BY HeldAfter
<1>3. CASE Stayed(u)
  <2>1. v = version \/ (v < version /\ gone[v] + Timeout >= entries[u].made)
    BY <1>3 DEF Stayed, FilesInv, MadeOfRecent
  <2>2. entries'[u] = entries[u] /\ entries[u].made \in 0 .. now
    BY <1>1, <1>3, HeldIs DEF Stayed
  <2>3. \/ UNCHANGED <<version, gone>>
        \/ version' = version + 1 /\ gone' = [gone EXCEPT ![version] = now]
    BY DEF FilesNext, fvars, Ask, ReadFooter, AnswerHeld, FindNothing, ReadRows, AnswerQuery,
           AnswerStreamed, AnswerFile, EndRequest, Close, Replace, TimePasses
  <2> QED
    BY <1>1, <2>1, <2>2, <2>3
<1>4. ASSUME NEW r \in Requests, MadeBy(r, u)
      PROVE  v = version' \/ (v < version' /\ gone'[v] + Timeout >= entries'[u].made)
  <2>1. /\ request[r].at = "read" /\ entries'[u].made = now /\ UNCHANGED <<version, gone>>
        /\ v = request[r].seen \/ v = request[r].rows
    BY <1>4 DEF MadeBy, Body
  <2>2. /\ now <= request[r].began + Timeout /\ request[r].began \in Nat
        /\ v = version \/ (v < version /\ gone[v] >= request[r].began)
    BY <2>1, RequestIs DEF FilesInv, InTime, ThereAt, At
  <2>3. v < version => gone[v] \in Nat
    BY <1>1 DEF FilesInv, InTime
  <2> QED
    BY <1>1, <2>1, <2>2, <2>3
<1> QED
  BY <1>2, <1>3, <1>4

-----------------------------------------------------------------------------
(* A file that holds still.                                                *)

\* A reader for whom the file holds still is given nothing else than its url promises: what is
\* held and what is on the way for the url was and stays made of the version that is there.
LEMMA HoldsStillKept ==
  ASSUME FilesInv, [FilesNext]_fvars
  PROVE  HoldsStill'
<1> DEFINE Due(u) == Body(IF u \in Plain \/ version' \in Whole[u] THEN File ELSE u, {version'})
           Still(q) ==
             LET u == reader'[q].url
             IN  /\ u = None => reader'[q].got = {} /\ request'[q].at = "none"
                 /\ u \in Plain => request'[q].at \in {"none", "file"}
                 /\ u # None /\ reader'[q].clean =>
                      /\ reader'[q].got \subseteq {Due(u)}
                      /\ request'[q].at = "file" => u \in Plain \/ version' \in Whole[u]
                      /\ request'[q].at \in {"looking", "missed", "read", "streamed"} => version' \notin Whole[u]
                      /\ request'[q].at # "none" => request'[q].seen = version'
           Same(q) ==
             LET u == reader'[q].url
             IN  u # None /\ reader'[q].clean /\ u \in Held' => held'[u].versions = {version'}
           Meets(q, s) ==
             LET u == reader'[q].url
             IN  /\ u # None /\ reader'[q].clean
                 /\ request'[s].at \in {"looking", "missed", "read"} /\ reader'[s].url = u
                 => request'[s].seen = version'
           All == \A q \in Requests : Still(q) /\ Same(q) /\ \A s \in Requests : Meets(q, s)
<1> SUFFICES All
  BY DEF HoldsStill, At, Asking, Promised
<1>1. /\ version \in Versions /\ version \in Nat /\ Versions \subseteq Nat
      /\ reader \in [Requests -> [url : Urls \cup {None}, clean : BOOLEAN, got : SUBSET Bodies]]
      /\ request \in [Requests -> [at : Places, began : Nat, seen : Versions, rows : Versions]]
  BY FileTypes, FileConstants
<1>2. \A q \in Requests :
        LET u == reader[q].url
        IN  /\ u = None => reader[q].got = {} /\ request[q].at = "none"
            /\ u \in Plain => request[q].at \in {"none", "file"}
            /\ u # None /\ reader[q].clean =>
                 /\ reader[q].got \subseteq {Promised(u)}
                 /\ request[q].at = "file" => u \in Plain \/ version \in Whole[u]
                 /\ request[q].at \in {"looking", "missed", "read", "streamed"} => version \notin Whole[u]
                 /\ request[q].at # "none" => request[q].seen = version
  BY DEF FilesInv, HoldsStill, At
<1>3. \A q \in Requests : reader[q].url # None /\ reader[q].clean =>
        /\ reader[q].url \in Held => held[reader[q].url].versions = {version}
        /\ \A s \in Requests :
             request[s].at \in {"looking", "missed", "read"} /\ reader[s].url = reader[q].url =>
               request[s].seen = version
  BY DEF FilesInv, HoldsStill, At, Asking
\* An answer that is made for somebody whose request has seen the version there is made of it.
<1>4. ASSUME NEW u \in Held', Stayed(u) \/ \E r \in Requests : MadeBy(r, u),
             u \in Held => held[u].versions = {version},
             \A s \in Requests : request[s].at = "read" /\ reader[s].url = u => request[s].seen = version
      PROVE  held'[u].versions = {version}
  <2>1. CASE Stayed(u)
    BY <1>4, <2>1 DEF Stayed
  <2>2. ASSUME NEW r \in Requests, MadeBy(r, u) PROVE held'[u].versions = {version}
    <3>1. request[r].at = "read" /\ request[r].seen = version
      BY <1>4, <2>2 DEF MadeBy
    <3>2. request[r].seen <= request[r].rows /\ (request[r].rows = version \/ request[r].rows < version)
      BY <3>1 DEF FilesInv, InTime, ThereAt, At
    <3>3. request[r].rows \in Nat
      BY <1>1
    <3>4. request[r].rows = version
      BY <1>1, <3>1, <3>2, <3>3
    <3> QED
      BY <2>2, <3>1, <3>4 DEF MadeBy, Body
  <2> QED
    BY <1>4, <2>1, <2>2
<1>5. \A u \in Held' : u \in Urls /\ (Stayed(u) \/ \E r \in Requests : MadeBy(r, u))
  BY HeldAfter
\* A step of one request that leaves the file as it is and its reader clean only if it was: what is
\* held stays what it must be, and it is enough to look at the request.
<1>6. ASSUME NEW r \in Requests, version' = version,
             \A q \in Requests \ {r} : request'[q] = request[q] /\ reader'[q] = reader[q],
             reader'[r].url = reader[r].url \/ request'[r].at \in {"none", "asked", "file"},
             reader'[r].url # None /\ reader'[r].clean =>
               \/ reader[r].url = reader'[r].url /\ reader[r].clean
               \/ /\ reader'[r].url \in Held => held[reader'[r].url].versions = {version}
                  /\ \A s \in Requests \ {r} :
                       request[s].at \in {"looking", "missed", "read"} /\ reader[s].url = reader'[r].url =>
                         request[s].seen = version
                  /\ request[r].at = "none",
             request'[r].at \in {"looking", "missed", "read"} =>
               request'[r].seen = version \/ (request[r].at \in {"looking", "missed", "read"}
                                              /\ request'[r].seen = request[r].seen),
             Still(r)
      PROVE  All
  <2>1. \A q \in Requests \ {r} : Still(q)
    BY <1>2, <1>6 DEF Promised
  <2>2. ASSUME NEW q \in Requests, reader'[q].url # None, reader'[q].clean
        PROVE  /\ reader'[q].url \in Held => held[reader'[q].url].versions = {version}
               /\ \A s \in Requests : request[s].at \in {"looking", "missed", "read"}
                                      /\ reader[s].url = reader'[q].url => request[s].seen = version
    <3>1. CASE q # r
      BY <1>3, <1>6, <2>2, <3>1
    <3>2. CASE q = r
      BY <1>3, <1>6, <2>2, <3>2
    <3> QED
      BY <3>1, <3>2
  <2>3. \A q \in Requests : Same(q)
    BY <1>4, <1>5, <1>6, <2>2
  <2>4. ASSUME NEW q \in Requests, NEW s \in Requests, reader'[q].url # None, reader'[q].clean,
               request'[s].at \in {"looking", "missed", "read"}, reader'[s].url = reader'[q].url
        PROVE  request'[s].seen = version'
    <3>1. CASE s # r
      BY <1>6, <2>2, <2>4, <3>1
    <3>2. CASE s = r
      BY <1>6, <2>2, <2>4, <3>2
    <3> QED
      BY <3>1, <3>2
  <2> QED
    BY <1>6, <2>1, <2>3, <2>4
<1>7. CASE UNCHANGED fvars
  BY <1>2, <1>3, <1>7 DEF fvars, vars, Promised, Held
<1>8. ASSUME NEW r \in Requests, NEW new, request' = [request EXCEPT ![r] = new]
      PROVE  request'[r] = new /\ \A q \in Requests \ {r} : request'[q] = request[q]
  BY <1>8, OneRequest
<1>9. ASSUME NEW r \in Requests, NEW u \in Urls, Ask(r, u) PROVE All
  <2>1. /\ UNCHANGED version /\ request[r].at = "none"
        /\ reader[r].url \in {None, u}
        /\ request' = [request EXCEPT ![r] = [at |-> IF u \in Plain THEN "file" ELSE "asked",
                                              began |-> now, seen |-> version, rows |-> 0]]
    BY <1>9 DEF Ask, At
  <2>2. /\ request'[r].at = IF u \in Plain THEN "file" ELSE "asked"
        /\ request'[r].seen = version
        /\ \A q \in Requests \ {r} : request'[q] = request[q]
    <3> DEFINE new == [at |-> IF u \in Plain THEN "file" ELSE "asked",
                       began |-> now, seen |-> version, rows |-> 0]
    <3>1. request' = [request EXCEPT ![r] = new]
      BY <2>1
    <3>2. new.at = (IF u \in Plain THEN "file" ELSE "asked") /\ new.seen = version
      OBVIOUS
    <3> HIDE DEF new
    <3> QED
      BY <1>8, <3>1, <3>2
  <2>3. /\ \A q \in Requests \ {r} : reader'[q] = reader[q]
        /\ reader'[r].url = u /\ u # None
        /\ \/ reader'[r] = reader[r]
           \/ reader'[r].got = {} /\ (reader'[r].clean => ~ OlderAbout(r, u))
    BY <1>1, <1>9, FileConstants DEF Ask
  <2>4. ~ OlderAbout(r, u) =>
          /\ u \in Held => held[u].versions = {version}
          /\ \A s \in Requests \ {r} :
               request[s].at \in {"looking", "missed", "read"} /\ reader[s].url = u =>
                 request[s].seen = version
    BY DEF OlderAbout, Asking, At
  <2>5. Still(r)
    <3>1. CASE reader'[r] = reader[r]
      <4>1. reader[r].clean => reader[r].got \subseteq {Promised(u)}
        BY <1>2, <2>3, <3>1
      <4>2. Due(u) = Promised(u)
        BY <2>1 DEF Promised
      <4>3. reader'[r].clean => reader'[r].got \subseteq {Due(u)}
        BY <3>1, <4>1, <4>2
      <4> HIDE DEF Due
      <4> QED
        BY <2>1, <2>2, <2>3, <4>3
    <3>2. CASE reader'[r].got = {}
      BY <2>1, <2>2, <2>3, <3>2
    <3> QED
      BY <2>3, <3>1, <3>2
  <2> HIDE DEF Still, All
  <2> QED
    BY <1>6, <2>1, <2>2, <2>3, <2>4, <2>5
<1>10. ASSUME NEW r \in Requests, ReadFooter(r) PROVE All
  <2> DEFINE next == IF version \in Whole[reader[r].url] THEN "file"
                     ELSE IF reader[r].url \in Streaming THEN "streamed" ELSE "looking"
             new == [request[r] EXCEPT !.at = next,
                                       !.seen = IF next = "file" THEN request[r].seen ELSE version]
  <2>1. /\ UNCHANGED <<version, reader>> /\ request[r].at = "asked"
        /\ request' = [request EXCEPT ![r] = new]
    BY <1>10 DEF ReadFooter, At
  <2>2. /\ new.at = next
        /\ new.seen = IF next = "file" THEN request[r].seen ELSE version
    BY <1>1
  <2> HIDE DEF new
  <2>3. request'[r] = new /\ \A q \in Requests \ {r} : request'[q] = request[q]
    BY <1>8, <2>1
  <2>4. Still(r)
    BY <1>2, <2>1, <2>2, <2>3 DEF Promised
  <2>5. request'[r].at \in {"looking", "missed", "read"} => request'[r].seen = version
    BY <2>2, <2>3
  <2> HIDE DEF Still, All, next
  <2> QED
    BY <1>6, <2>1, <2>3, <2>4, <2>5
<1>11. ASSUME NEW r \in Requests, FindNothing(r) \/ ReadRows(r) PROVE All
  <2>1. /\ UNCHANGED <<version, reader>>
        /\ \E new : /\ request' = [request EXCEPT ![r] = new]
                    /\ request[r].at \in {"looking", "missed"} /\ new.at \in {"missed", "read"}
                    /\ new.seen = request[r].seen
    <3>1. CASE FindNothing(r)
      <4> DEFINE new == [request[r] EXCEPT !.at = "missed"]
      <4>1. /\ UNCHANGED <<version, reader>> /\ request' = [request EXCEPT ![r] = new]
            /\ request[r].at = "looking"
        BY <1>1, <3>1 DEF FindNothing, At
      <4>2. new.at = "missed" /\ new.seen = request[r].seen
        BY <1>1
      <4> QED
        BY <4>1, <4>2
    <3>2. CASE ReadRows(r)
      <4> DEFINE new == [request[r] EXCEPT !.at = "read", !.rows = version]
      <4>1. /\ UNCHANGED <<version, reader>> /\ request' = [request EXCEPT ![r] = new]
            /\ request[r].at = "missed"
        BY <1>1, <3>2 DEF ReadRows, At
      <4>2. new.at = "read" /\ new.seen = request[r].seen
        BY <1>1
      <4> QED
        BY <4>1, <4>2
    <3> QED
      BY <1>11, <3>1, <3>2
  <2>2. /\ request[r].at \in {"looking", "missed"} /\ request'[r].at \in {"missed", "read"}
        /\ request'[r].seen = request[r].seen
        /\ \A q \in Requests \ {r} : request'[q] = request[q]
    BY <1>8, <2>1
  <2>3. Still(r)
    BY <1>2, <2>1, <2>2 DEF Promised
  <2> HIDE DEF Still, All
  <2> QED
    BY <1>6, <2>1, <2>2, <2>3
\* A request is answered with what the url of its reader promises, if that is clean.
<1>12. ASSUME NEW r \in Requests, NEW body, Answered(r, body), version' = version,
              request[r].at # "none", reader[r].clean => body = Promised(reader[r].url)
       PROVE  All
  <2>1. /\ request'[r].at = "none" /\ \A q \in Requests \ {r} : request'[q] = request[q]
        /\ reader'[r].url = reader[r].url /\ reader'[r].clean = reader[r].clean
        /\ reader'[r].got = (IF reader[r].clean THEN reader[r].got \cup {body} ELSE {})
        /\ \A q \in Requests \ {r} : reader'[q] = reader[q]
    BY <1>1, <1>12 DEF Answered, NoRequest
  <2>2. reader[r].url # None
    BY <1>2, <1>12
  <2>3. Still(r)
    BY <1>2, <1>12, <2>1, <2>2 DEF Promised
  <2> HIDE DEF Still, All
  <2> QED
    BY <1>6, <1>12, <2>1, <2>3
<1>13. ASSUME NEW r \in Requests, AnswerHeld(r) PROVE All
  <2>1. /\ request[r].at = "looking" /\ version' = version /\ reader[r].url \in Held
        /\ Answered(r, held[reader[r].url])
    BY <1>13 DEF AnswerHeld, Hit, Key, At
  <2>2. held[reader[r].url] \in [of : {reader[r].url}, versions : SUBSET Versions]
    BY <2>1 DEF FilesInv, FilesTypeOK
  <2>3. reader[r].clean => held[reader[r].url].versions = {version}
    BY <1>2, <1>3, <2>1
  <2>4. reader[r].clean => held[reader[r].url] = Body(reader[r].url, {version})
    BY <2>2, <2>3 DEF Body
  <2>5. reader[r].clean => held[reader[r].url] = Promised(reader[r].url)
    BY <1>2, <2>1, <2>4 DEF Promised
  <2> QED
    BY <1>12, <2>1, <2>5
<1>14. ASSUME NEW r \in Requests, NEW size \in Sizes, AnswerQuery(r, size) PROVE All
  <2>1. /\ request[r].at = "read" /\ version' = version
        /\ Answered(r, Body(reader[r].url, {request[r].seen, request[r].rows}))
    BY <1>14 DEF AnswerQuery, At
  <2>2. reader[r].clean => request[r].seen = version
    BY <1>2, <2>1
  <2>3. request[r].seen <= request[r].rows /\ (request[r].rows = version \/ request[r].rows < version)
    BY <2>1 DEF FilesInv, InTime, ThereAt, At
  <2>4. request[r].rows \in Nat /\ request[r].seen \in Nat
    BY <1>1
  <2>5. reader[r].clean => request[r].rows = version
    BY <1>1, <2>2, <2>3, <2>4
  <2>6. reader[r].clean =>
          Body(reader[r].url, {request[r].seen, request[r].rows}) = Promised(reader[r].url)
    BY <1>2, <2>1, <2>2, <2>5 DEF Promised
  <2> QED
    BY <1>12, <2>1, <2>6
<1>15. ASSUME NEW r \in Requests, AnswerStreamed(r) PROVE All
  <2>1. /\ request[r].at = "streamed" /\ version' = version
        /\ Answered(r, Body(reader[r].url, {request[r].seen, version}))
    BY <1>15 DEF AnswerStreamed, At
  <2>2. reader[r].clean => Body(reader[r].url, {request[r].seen, version}) = Promised(reader[r].url)
    BY <1>2, <2>1 DEF Promised
  <2> QED
    BY <1>12, <2>1, <2>2
<1>16. ASSUME NEW r \in Requests, AnswerFile(r) PROVE All
  <2> DEFINE versions == {version} \cup IF mount = "store" THEN {request[r].seen} ELSE {}
  <2>1. request[r].at = "file" /\ version' = version /\ Answered(r, Body(File, versions))
    BY <1>16 DEF AnswerFile, At
  <2>2. reader[r].clean => versions = {version}
    BY <1>2, <2>1
  <2> HIDE DEF versions
  <2>3. reader[r].clean => Body(File, versions) = Promised(reader[r].url)
    BY <1>2, <2>1, <2>2 DEF Promised
  <2> QED
    BY <1>12, <2>1, <2>3
<1>17. ASSUME NEW r \in Requests, EndRequest(r) PROVE All
  <2>1. UNCHANGED <<version, reader>> /\ request' = [request EXCEPT ![r] = NoRequest]
    BY <1>17 DEF EndRequest
  <2>2. request'[r].at = "none" /\ \A q \in Requests \ {r} : request'[q] = request[q]
    <3>1. request'[r] = NoRequest /\ \A q \in Requests \ {r} : request'[q] = request[q]
      BY <1>8, <2>1
    <3> QED
      BY <3>1 DEF NoRequest
  <2>3. Still(r)
    BY <1>2, <2>1, <2>2 DEF Promised
  <2> HIDE DEF Still, All
  <2> QED
    BY <1>6, <2>1, <2>2, <2>3
<1>18. ASSUME NEW r \in Requests, Close(r) PROVE All
  <2>1. /\ UNCHANGED <<version, request>> /\ request[r].at = "none"
        /\ reader'[r] = NoReader /\ \A q \in Requests \ {r} : reader'[q] = reader[q]
    BY <1>1, <1>18 DEF Close, At
  <2>2. reader'[r].url = None /\ reader'[r].got = {}
    BY <2>1 DEF NoReader
  <2>3. Still(r)
    BY <2>1, <2>2, FileConstants
  <2> HIDE DEF Still, All
  <2> QED
    BY <1>6, <2>1, <2>2, <2>3
\* A file that is replaced holds still for nobody.
<1>19. ASSUME Replace PROVE All
  <2>1. /\ request' = request
        /\ \A q \in Requests : reader'[q].url = reader[q].url
        /\ \A q \in Requests : IF reader[q].url = None THEN reader'[q] = reader[q]
                               ELSE ~ reader'[q].clean
    BY <1>1, <1>19 DEF Replace
  <2> QED
    BY <1>2, <2>1
<1>20. ASSUME TimePasses PROVE All
  BY <1>2, <1>3, <1>20 DEF TimePasses, Tick, Promised, Held
<1>21. CASE FilesNext
  <2> HIDE DEF All
  <2> QED
    BY <1>9, <1>10, <1>11, <1>13, <1>14, <1>15, <1>16, <1>17, <1>18, <1>19, <1>20, <1>21 DEF FilesNext
<1> QED
  BY <1>7, <1>21

-----------------------------------------------------------------------------
(* Together.                                                               *)

\* At first nothing is held, read or asked for.
LEMMA InitFilesInv == FilesInit => FilesInv
<1> SUFFICES ASSUME FilesInit PROVE FilesInv
  OBVIOUS
<1>1. CacheInv
  BY InitCacheInv DEF FilesInit
<1>2. Held = {} /\ now = 0 /\ version = 0 /\ \A r \in Requests : working[r] = None
  BY DEF FilesInit, Init, Held
<1>3. \A r \in Requests : reader[r] = NoReader /\ request[r] = NoRequest
  BY DEF FilesInit
<1>4. FilesTypeOK
  BY <1>2, FileConstants DEF FilesInit, FilesTypeOK, NoReader, NoRequest, Versions
<1>5. InTime
  <2>1. \A v \in Versions : ~ (v < version)
    BY <1>2, FileConstants
  <2>2. \A r \in Requests : request[r].at = "none" /\ working[r] = None
    BY <1>2, <1>3 DEF NoRequest
  <2> QED
    BY <2>1, <2>2 DEF InTime, At, Querying
<1>6. MadeOfRecent
  BY <1>2 DEF MadeOfRecent
<1>7. HoldsStill
  BY <1>3, FileConstants DEF HoldsStill, NoReader, NoRequest, At
<1> QED
  BY <1>1, <1>4, <1>5, <1>6, <1>7 DEF FilesInv

\* Every step keeps every conjunct, by the lemmas above.
LEMMA NextFilesInv == FilesInv /\ [FilesNext]_fvars => FilesInv'
  BY CacheKept, FileTypeKept, InTimeKept, MadeOfRecentKept, HoldsStillKept DEF FilesInv

\* The cache is in order under every reader of the file, and what is held, asked for and given is of
\* the versions it may be of (Answers, query_file, serve_object).
THEOREM FilesCorrect == FilesSpec => []FilesInv
  BY InitFilesInv, NextFilesInv, PTL DEF FilesSpec

\* Slices put together are of one body, the one the reader's url promises, for as long as the file
\* holds still (query_file, serve_object, Asked::new).
THEOREM SlicesAlwaysAgree == FilesSpec => []SlicesAgree
<1>1. FilesInv => SlicesAgree
  <2> SUFFICES ASSUME FilesInv, NEW r \in Requests, reader[r].clean
               PROVE  \A b, c \in reader[r].got : b = c /\ b.of \in {reader[r].url, File}
    BY DEF SlicesAgree
  <2>1. reader[r].got = {} \/ reader[r].got \subseteq {Promised(reader[r].url)}
    BY DEF FilesInv, HoldsStill
  <2> QED
    BY <2>1 DEF Promised, Body
<1> QED
  BY <1>1, FilesCorrect, PTL

\* Nothing held outlives the file it was made of by more than the time it is held for and the time
\* a request may take (Answers::get, Answers::insert).
THEOREM NothingIsStaleForLong == FilesSpec => []NothingStaleForLong
<1>1. FilesInv => NothingStaleForLong
  <2> SUFFICES ASSUME FilesInv, NEW u \in Held, ~ Expired(u), NEW v \in held[u].versions \ {version}
               PROVE  now - gone[v] < Ttl + Timeout
    BY DEF NothingStaleForLong
  <2>1. v \in Versions
    BY DEF FilesInv, FilesTypeOK
  <2>2. v < version /\ gone[v] + Timeout >= entries[u].made /\ gone[v] \in 0..now
    BY <2>1 DEF FilesInv, MadeOfRecent, InTime
  <2>3. entries[u].made \in Nat /\ now \in Nat /\ Ttl \in Nat /\ Timeout \in Nat
    BY FileTypes, FileConstants, Limits, HeldIs DEF FilesInv, CacheInv
  <2> QED
    BY <2>2, <2>3 DEF Expired
<1> QED
  BY <1>1, FilesCorrect, PTL
==============================================================================
