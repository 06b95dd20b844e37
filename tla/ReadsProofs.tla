------------------------------ MODULE ReadsProofs ------------------------------
(***************************************************************************)
(* The safety of the reads of a catalog, for every catalog, request and    *)
(* bounds, and whatever order the concurrent reads of partitions end in:   *)
(* ReadsInv holds initially and is kept by every step, and what a request  *)
(* is promised follows from it.                                            *)
(*                                                                         *)
(* First what the rows of a catalog are, whole or the first of them; then  *)
(* what a step does to the types and to what was chosen and yielded; then, *)
(* for a collected read, a streamed one and a scan, what the rows let out  *)
(* so far come to, and that the way each ends is the one promised.         *)
(***************************************************************************)
EXTENDS CatalogReads, DataLemmas

-----------------------------------------------------------------------------
(* The first of a list.                                                    *)

\* All of a list, or as many of it as asked for.
LEMMA FirstIs ==
  ASSUME NEW S, NEW s \in Seq(S)
  PROVE  /\ First(s, NoLimit) = s
         /\ \A m \in Nat :
              /\ First(s, m) \in Seq(S)
              /\ m <= Len(s) =>
                   Len(First(s, m)) = m /\ \A j \in 1 .. m : First(s, m)[j] = s[j]
              /\ Len(s) <= m => First(s, m) = s
<1>1. Len(s) \in Nat /\ \A j \in 1 .. Len(s) : s[j] \in S
  BY LenProperties, ElementOfSeq
<1>2. First(s, NoLimit) = s
  BY DEF First
<1>3. ASSUME NEW m \in Nat
      PROVE  /\ First(s, m) \in Seq(S)
             /\ m <= Len(s) =>
                  Len(First(s, m)) = m /\ \A j \in 1 .. m : First(s, m)[j] = s[j]
             /\ Len(s) <= m => First(s, m) = s
  <2>1. m # NoLimit
    BY PartitionReadsAssumption
  <2>2. CASE m > Len(s)
    BY <1>1, <2>1, <2>2 DEF First
  <2>3. CASE ~ m > Len(s)
    <3>1. First(s, m) = SubSeq(s, 1, m)
      BY <2>1, <2>3 DEF First
    <3>2. \A j \in 1 .. m : s[j] \in S
      BY <1>1, <2>3
    <3>3. /\ SubSeq(s, 1, m) \in Seq(S) /\ Len(SubSeq(s, 1, m)) = m
          /\ \A j \in 1 .. m : SubSeq(s, 1, m)[j] = s[j]
      BY <1>1, <3>2, SubSeqProperties
    <3>4. Len(s) <= m => SubSeq(s, 1, m) = s
      BY <1>1, <2>3, SubSeqFull
    <3> QED
      BY <3>1, <3>3, <3>4
  <2> QED
    BY <2>2, <2>3
<1> QED
  BY <1>2, <1>3

\* Nobody who takes the first m of either can tell one from the other.
SameUpTo(s, t, m) ==
  \/ s = t
  \/ m <= Len(s) /\ m <= Len(t) /\ \A j \in 1 .. m : s[j] = t[j]

\* Two lists that are the same up to the m-th have the same first m.
LEMMA SameFirst ==
  ASSUME NEW S, NEW s \in Seq(S), NEW t \in Seq(S), NEW m \in Nat, SameUpTo(s, t, m)
  PROVE  First(s, m) = First(t, m)
<1>1. CASE s = t
  BY <1>1
<1>2. CASE m <= Len(s) /\ m <= Len(t) /\ \A j \in 1 .. m : s[j] = t[j]
  <2>1. /\ First(s, m) \in Seq(S) /\ Len(First(s, m)) = m
        /\ \A j \in 1 .. m : First(s, m)[j] = s[j]
    BY <1>2, FirstIs
  <2>2. /\ First(t, m) \in Seq(S) /\ Len(First(t, m)) = m
        /\ \A j \in 1 .. m : First(t, m)[j] = t[j]
    BY <1>2, FirstIs
  <2>3. \A j \in 1 .. m : First(s, m)[j] = First(t, m)[j]
    BY <1>2, <2>1, <2>2
  <2> QED
    BY <2>1, <2>2, <2>3, SeqEqual
<1> QED
  BY <1>1, <1>2 DEF SameUpTo

\* The first m of a list are the same as it up to the m-th.
LEMMA FirstSame ==
  ASSUME NEW S, NEW s \in Seq(S), NEW m \in Nat
  PROVE  SameUpTo(First(s, m), s, m)
<1>1. Len(s) \in Nat
  BY LenProperties
<1>2. CASE Len(s) <= m
  BY <1>2, FirstIs DEF SameUpTo
<1>3. CASE m <= Len(s)
  <2>1. Len(First(s, m)) = m /\ \A j \in 1 .. m : First(s, m)[j] = s[j]
    BY <1>3, FirstIs
  <2> QED
    BY <1>1, <1>3, <2>1 DEF SameUpTo
<1> QED
  BY <1>1, <1>2, <1>3

\* Lists that are the same up to the m-th are so end to end.
LEMMA ConcatSame ==
  ASSUME NEW S, NEW s \in Seq(S), NEW t \in Seq(S), NEW u \in Seq(S), NEW w \in Seq(S),
         NEW m \in Nat, SameUpTo(s, t, m), SameUpTo(u, w, m)
  PROVE  SameUpTo(s \o u, t \o w, m)
<1> DEFINE su == s \o u
           tw == t \o w
<1>1. /\ Len(s) \in Nat /\ Len(u) \in Nat /\ Len(su) = Len(s) + Len(u)
      /\ \A x \in 1 .. Len(s) : su[x] = s[x]
      /\ \A j \in 1 .. Len(u) : su[Len(s) + j] = u[j]
  BY ConcatPlaces
<1>2. /\ Len(t) \in Nat /\ Len(w) \in Nat /\ Len(tw) = Len(t) + Len(w)
      /\ \A x \in 1 .. Len(t) : tw[x] = t[x]
      /\ \A j \in 1 .. Len(w) : tw[Len(t) + j] = w[j]
  BY ConcatPlaces
<1>3. CASE s = t /\ u = w
  BY <1>3 DEF SameUpTo
<1> HIDE DEF su, tw
<1>4. CASE s = t /\ u # w
  <2>1. m <= Len(u) /\ m <= Len(w) /\ \A j \in 1 .. m : u[j] = w[j]
    BY <1>4 DEF SameUpTo
  <2>2. m <= Len(su) /\ m <= Len(tw)
    BY <1>1, <1>2, <2>1
  <2>3. ASSUME NEW j \in 1 .. m PROVE su[j] = tw[j]
    <3>1. CASE j <= Len(s)
      BY <1>1, <1>2, <1>4, <3>1
    <3>2. CASE ~ j <= Len(s)
      <4> DEFINE i == j - Len(s)
      <4>1. i \in 1 .. m /\ i \in 1 .. Len(u) /\ i \in 1 .. Len(w) /\ j = Len(s) + i
        BY <1>1, <1>2, <2>1, <3>2
      <4> HIDE DEF i
      <4>2. su[Len(s) + i] = u[i] /\ tw[Len(s) + i] = w[i]
        BY <1>1, <1>2, <1>4, <4>1
      <4> QED
        BY <2>1, <4>1, <4>2
    <3> QED
      BY <3>1, <3>2
  <2> QED
    BY <2>2, <2>3 DEF SameUpTo, su, tw
<1>5. CASE s # t
  <2>1. m <= Len(s) /\ m <= Len(t) /\ \A j \in 1 .. m : s[j] = t[j]
    BY <1>5 DEF SameUpTo
  <2>2. m <= Len(su) /\ m <= Len(tw)
    BY <1>1, <1>2, <2>1
  <2>3. ASSUME NEW j \in 1 .. m PROVE su[j] = tw[j]
    <3>1. j \in 1 .. Len(s) /\ j \in 1 .. Len(t)
      BY <1>1, <1>2, <2>1
    <3>2. su[j] = s[j] /\ tw[j] = t[j]
      BY <1>1, <1>2, <3>1
    <3> QED
      BY <2>1, <3>2
  <2> QED
    BY <2>2, <2>3 DEF SameUpTo, su, tw
<1> QED
  BY <1>3, <1>4, <1>5 DEF su, tw

\* What goes on after the first m of a list is as good as what goes on after the list.
LEMMA FirstGoesOn ==
  ASSUME NEW S, NEW s \in Seq(S), NEW t \in Seq(S), NEW m \in Nat
  PROVE  First(First(s, m) \o t, m) = First(s \o t, m)
<1> DEFINE a == First(s, m)
<1>1. a \in Seq(S) /\ SameUpTo(a, s, m)
  BY FirstIs, FirstSame
<1> HIDE DEF a
<1>2. SameUpTo(t, t, m)
  BY DEF SameUpTo
<1>3. SameUpTo(a \o t, s \o t, m) /\ a \o t \in Seq(S) /\ s \o t \in Seq(S)
  BY <1>1, <1>2, ConcatSame, ConcatProperties
<1> QED
  BY <1>3, SameFirst DEF a

\* Where there is enough, more makes no difference.
LEMMA FirstEnough ==
  ASSUME NEW S, NEW s \in Seq(S), NEW t \in Seq(S), NEW m \in Nat, m <= Len(s)
  PROVE  First(s \o t, m) = First(s, m)
<1>1. /\ Len(s) \in Nat /\ Len(t) \in Nat /\ Len(s \o t) = Len(s) + Len(t) /\ s \o t \in Seq(S)
      /\ \A x \in 1 .. Len(s) : (s \o t)[x] = s[x]
  BY ConcatPlaces
<1> DEFINE st == s \o t
<1> HIDE DEF st
<1>2. SameUpTo(st, s, m)
  BY <1>1 DEF SameUpTo, st
<1> QED
  BY <1>1, <1>2, SameFirst DEF st

\* The first m of less are where the first m of more begin.
LEMMA FirstBegins ==
  ASSUME NEW S, NEW s \in Seq(S), NEW t \in Seq(S), NEW m \in Nat
  PROVE  IsPrefix(First(s, m), First(s \o t, m))
<1> DEFINE st == s \o t
           a == First(s, m)
           b == First(st, m)
<1>1. /\ Len(s) \in Nat /\ Len(t) \in Nat /\ Len(st) = Len(s) + Len(t) /\ st \in Seq(S)
      /\ \A x \in 1 .. Len(s) : st[x] = s[x]
  BY ConcatPlaces
<1> HIDE DEF st
<1>2. /\ a \in Seq(S) /\ (m <= Len(s) => Len(a) = m /\ \A j \in 1 .. m : a[j] = s[j])
      /\ Len(s) <= m => a = s
  BY FirstIs
<1>3. /\ b \in Seq(S) /\ (m <= Len(st) => Len(b) = m /\ \A j \in 1 .. m : b[j] = st[j])
      /\ Len(st) <= m => b = st
  BY <1>1, FirstIs
<1> HIDE DEF a, b
<1>4. Len(a) \in Nat /\ Len(b) \in Nat /\ Len(a) <= Len(b) /\ \A j \in 1 .. Len(a) : a[j] = b[j]
  BY <1>1, <1>2, <1>3
<1>5. SubSeq(a, 1, Len(a)) = SubSeq(b, 1, Len(a))
  <2>1. \A j \in 1 .. Len(a) : a[j] \in S /\ b[j] \in S
    BY <1>2, <1>3, <1>4, ElementOfSeq
  <2>2. SubSeq(a, 1, Len(a)) = a
    BY <1>2, SubSeqFull
  <2>3. /\ SubSeq(b, 1, Len(a)) \in Seq(S) /\ Len(SubSeq(b, 1, Len(a))) = Len(a)
        /\ \A j \in 1 .. Len(a) : SubSeq(b, 1, Len(a))[j] = b[j]
    BY <1>3, <1>4, <2>1, SubSeqProperties
  <2> QED
    BY <1>2, <1>4, <2>2, <2>3, SeqEqual
<1> QED
  BY <1>4, <1>5 DEF IsPrefix, a, b, st

\* Lists whose first m are the same come to lists whose first m are the same.
LEMMA FlattenSame ==
  ASSUME NEW S, NEW a \in Seq(Seq(S)), NEW b \in Seq(Seq(S)), NEW m \in Nat,
         Len(a) = Len(b), \A i \in 1 .. Len(a) : SameUpTo(a[i], b[i], m)
  PROVE  SameUpTo(FlattenSeq(a), FlattenSeq(b), m)
<1> DEFINE n == Len(a)
           F(i) == FlattenSeq(Leading(a, i))
           G(i) == FlattenSeq(Leading(b, i))
           T == {i \in 0 .. n : SameUpTo(F(i), G(i), m)}
<1>1. n \in Nat /\ \A i \in 1 .. n : a[i] \in Seq(S) /\ b[i] \in Seq(S) /\ SameUpTo(a[i], b[i], m)
  BY LenProperties, ElementOfSeq
<1>2. /\ F(0) = <<>> /\ F(n) = FlattenSeq(a)
      /\ \A i \in 0 .. n : F(i) \in Seq(S) /\ (i < n => F(i + 1) = F(i) \o a[i + 1])
  <2>1. 0 \in 0 .. Len(a) /\ n \in 0 .. Len(a)
    BY <1>1
  <2>2. F(0) = <<>>
    BY <2>1, FlattenUpTo
  <2>3. F(n) = FlattenSeq(a)
    BY <2>1, FlattenUpTo
  <2>4. \A i \in 0 .. n : F(i) \in Seq(S) /\ (i < n => F(i + 1) = F(i) \o a[i + 1])
    BY FlattenUpTo
  <2> QED
    BY <2>2, <2>3, <2>4
<1>3. /\ G(0) = <<>> /\ G(n) = FlattenSeq(b)
      /\ \A i \in 0 .. n : G(i) \in Seq(S) /\ (i < n => G(i + 1) = G(i) \o b[i + 1])
  <2>1. 0 \in 0 .. Len(b) /\ n \in 0 .. Len(b) /\ n = Len(b)
    BY <1>1
  <2>2. G(0) = <<>>
    BY <2>1, FlattenUpTo
  <2>3. G(n) = FlattenSeq(b)
    BY <2>1, FlattenUpTo
  <2>4. \A i \in 0 .. Len(b) : G(i) \in Seq(S) /\ (i < Len(b) => G(i + 1) = G(i) \o b[i + 1])
    BY FlattenUpTo
  <2> QED
    BY <2>1, <2>2, <2>3, <2>4
<1> HIDE DEF n, F, G
<1>4. 0 \in T
  BY <1>1, <1>2, <1>3 DEF SameUpTo
<1>5. ASSUME NEW i \in 0 .. (n - 1), i \in T PROVE i + 1 \in T
  <2>1. i + 1 \in 0 .. n /\ i \in 0 .. n /\ i < n /\ i + 1 \in 1 .. n
    BY <1>1
  <2>2. F(i + 1) = F(i) \o a[i + 1] /\ G(i + 1) = G(i) \o b[i + 1]
    BY <1>2, <1>3, <2>1
  <2>3. F(i) \in Seq(S) /\ G(i) \in Seq(S) /\ a[i + 1] \in Seq(S) /\ b[i + 1] \in Seq(S)
    BY <1>1, <1>2, <1>3, <2>1
  <2>4. SameUpTo(F(i), G(i), m) /\ SameUpTo(a[i + 1], b[i + 1], m)
    BY <1>1, <1>5, <2>1
  <2>5. SameUpTo(F(i + 1), G(i + 1), m)
    BY <2>2, <2>3, <2>4, ConcatSame
  <2> QED
    BY <2>1, <2>5
<1> HIDE DEF T
<1>6. n \in T
  <2>1. \A i \in 0 .. n : i \in T
    BY <1>1, <1>4, <1>5, CountingUp
  <2> QED
    BY <1>1, <2>1
<1> QED
  BY <1>2, <1>3, <1>6 DEF T

-----------------------------------------------------------------------------
(* The rows of a catalog.                                                  *)

LimitOrNone == Nat \cup {NoLimit}

\* The catalog, the request and the bounds are of the kinds they should be.
LEMMA AskedTyped ==
  ASSUME TypeOK
  PROVE  /\ catalog.partitions \in Seq([files : Seq(Nat), bytes : Nat, fails : BOOLEAN,
                                        reached : BOOLEAN, named : BOOLEAN])
         /\ catalog.indexBytes \in Nat /\ catalog.common \in BOOLEAN
         /\ \A p \in DOMAIN catalog.partitions :
              ~ Partition(p).named => \A f \in DOMAIN Partition(p).files : Partition(p).files[f] = 0
         /\ request.limit \in LimitOrNone
         /\ request.how \in Queries \cup Scans
         /\ request.how \in Scans => request.limit # 0
         /\ bounds.bytes \in Nat /\ bounds.rows \in Nat /\ bounds.partitions \in Nat
         /\ bounds.concurrency \in Nat
<1>1. catalog \in Catalogs /\ request \in Requests /\ bounds \in Bounds
  BY DEF TypeOK
<1>2. /\ catalog.partitions \in Seq([files : Seq(Nat), bytes : Nat, fails : BOOLEAN,
                                     reached : BOOLEAN, named : BOOLEAN])
      /\ catalog.indexBytes \in Nat /\ catalog.common \in BOOLEAN
  BY <1>1, CatalogsAssumption
<1>3. \A p \in DOMAIN catalog.partitions :
        ~ Partition(p).named => \A f \in DOMAIN Partition(p).files : Partition(p).files[f] = 0
  <2>1. \A q \in Range(catalog.partitions) : ~ q.named => \A f \in DOMAIN q.files : q.files[f] = 0
    BY <1>1, CatalogsAssumption
  <2> QED
    BY <2>1 DEF Range, Partition
<1>4. /\ request.limit \in LimitOrNone
      /\ request.how \in Queries \cup Scans
      /\ request.how \in Scans => request.limit # 0
  BY <1>1, RequestsAssumption DEF LimitOrNone
<1>5. /\ bounds.bytes \in Nat /\ bounds.rows \in Nat /\ bounds.partitions \in Nat
      /\ bounds.concurrency \in Nat
  BY <1>1, BoundsAssumption
<1> QED
  BY <1>2, <1>3, <1>4, <1>5

\* What the record of a partition holds.
LEMMA PartitionTyped ==
  ASSUME TypeOK, NEW p \in DOMAIN catalog.partitions
  PROVE  /\ p \in Nat /\ Partition(p).files \in Seq(Nat) /\ Partition(p).bytes \in Nat
         /\ Partition(p).fails \in BOOLEAN
         /\ Len(Partition(p).files) \in Nat
         /\ DOMAIN Partition(p).files = 1 .. Len(Partition(p).files)
         /\ \A f \in DOMAIN Partition(p).files : Partition(p).files[f] \in Nat
<1>1. catalog.partitions \in Seq([files : Seq(Nat), bytes : Nat, fails : BOOLEAN,
                                  reached : BOOLEAN, named : BOOLEAN])
  BY AskedTyped
<1>2. p \in 1 .. Len(catalog.partitions) /\ Len(catalog.partitions) \in Nat
  BY <1>1, LenProperties
<1>3. catalog.partitions[p] \in [files : Seq(Nat), bytes : Nat, fails : BOOLEAN,
                                  reached : BOOLEAN, named : BOOLEAN]
  BY <1>1, <1>2, ElementOfSeq
<1>4. Partition(p).files \in Seq(Nat) /\ Partition(p).bytes \in Nat /\ Partition(p).fails \in BOOLEAN
  BY <1>3 DEF Partition
<1> QED
  BY <1>2, <1>4, LenProperties, ElementOfSeq

\* The rows of one file.
LEMMA FileRowsAre ==
  ASSUME TypeOK, NEW p \in DOMAIN catalog.partitions, NEW f \in DOMAIN Partition(p).files
  PROVE  /\ FileRows(p, f, NoLimit) \in Seq(Places)
         /\ Len(FileRows(p, f, NoLimit)) = Partition(p).files[f]
         /\ \A k \in 1 .. Partition(p).files[f] : FileRows(p, f, NoLimit)[k] = <<p, f, k>>
         /\ \A m \in Nat : /\ FileRows(p, f, m) \in Seq(Places)
                           /\ SameUpTo(FileRows(p, f, m), FileRows(p, f, NoLimit), m)
<1> DEFINE n == Partition(p).files[f]
           s == [k \in 1 .. n |-> <<p, f, k>>]
<1>1. n \in Nat /\ p \in Nat /\ f \in Nat
  BY PartitionTyped
<1>2. s \in Seq(Places) /\ Len(s) = n /\ \A k \in 1 .. n : s[k] = <<p, f, k>>
  <2>1. \A k \in 1 .. n : <<p, f, k>> \in Places
    BY <1>1 DEF Places
  <2> HIDE DEF n
  <2> QED
    BY <1>1, <2>1
<1>3. \A m : FileRows(p, f, m) = First(s, m)
  BY DEF FileRows
<1> HIDE DEF s, n
<1>4. FileRows(p, f, NoLimit) = s
  BY <1>2, <1>3, FirstIs
<1>5. \A m \in Nat : First(s, m) \in Seq(Places) /\ SameUpTo(First(s, m), s, m)
  BY <1>2, FirstIs, FirstSame
<1> QED
  BY <1>2, <1>3, <1>4, <1>5 DEF n

\* The rows of one partition: those of each of its files.
LEMMA PartitionRowsAre ==
  ASSUME TypeOK, NEW p \in DOMAIN catalog.partitions
  PROVE  /\ PartitionRows(p, NoLimit) \in Seq(Places)
         /\ \A m \in Nat : /\ PartitionRows(p, m) \in Seq(Places)
                           /\ SameUpTo(PartitionRows(p, m), PartitionRows(p, NoLimit), m)
<1> DEFINE D == DOMAIN Partition(p).files
           Files(m) == [f \in D |-> FileRows(p, f, m)]
<1>1. Len(Partition(p).files) \in Nat /\ D = 1 .. Len(Partition(p).files)
  BY PartitionTyped
<1>2. \A f \in D : FileRows(p, f, NoLimit) \in Seq(Places)
  BY FileRowsAre
<1>3. \A f \in D : \A m \in Nat :
        FileRows(p, f, m) \in Seq(Places) /\ SameUpTo(FileRows(p, f, m), FileRows(p, f, NoLimit), m)
  BY FileRowsAre
<1> HIDE DEF D
<1>4. Files(NoLimit) \in Seq(Seq(Places)) /\ Len(Files(NoLimit)) = Len(Partition(p).files)
  BY <1>1, <1>2
<1>5. PartitionRows(p, NoLimit) = FlattenSeq(Files(NoLimit))
  BY DEF PartitionRows, D
<1>6. ASSUME NEW m \in Nat
      PROVE  /\ PartitionRows(p, m) \in Seq(Places)
             /\ SameUpTo(PartitionRows(p, m), PartitionRows(p, NoLimit), m)
  <2>1. Files(m) \in Seq(Seq(Places)) /\ Len(Files(m)) = Len(Partition(p).files)
    BY <1>1, <1>3
  <2>2. \A f \in 1 .. Len(Files(m)) : SameUpTo(Files(m)[f], Files(NoLimit)[f], m)
    BY <1>1, <1>3, <2>1
  <2>3. PartitionRows(p, m) = FlattenSeq(Files(m))
    BY DEF PartitionRows, D
  <2> HIDE DEF Files
  <2>4. SameUpTo(FlattenSeq(Files(m)), FlattenSeq(Files(NoLimit)), m)
    BY <1>4, <2>1, <2>2, FlattenSame
  <2>5. FlattenSeq(Files(m)) \in Seq(Places)
    BY <2>1, FlattenIs
  <2> QED
    BY <1>5, <2>3, <2>4, <2>5
<1> HIDE DEF Files
<1>7. FlattenSeq(Files(NoLimit)) \in Seq(Places)
  BY <1>4, FlattenIs
<1> QED
  BY <1>5, <1>6, <1>7

\* What is made of those of a list that are in a set is made of each of the list, or nothing.
LEMMA ThoseAre ==
  ASSUME NEW D, NEW s \in Seq(D), NEW P
  PROVE  /\ Those(s, P) \in Seq(D)
         /\ \A i \in DOMAIN Those(s, P) : Those(s, P)[i] \in P
         /\ \A A, f : (\A x \in D : f[x] \in Seq(A)) =>
              FlattenSeq(Each(f, Those(s, P)))
                = FlattenSeq([i \in 1 .. Len(s) |-> IF s[i] \in P THEN f[s[i]] ELSE <<>>])
<1> DEFINE n == Len(s)
           seqs == [i \in 1 .. n |-> IF s[i] \in P THEN <<s[i]>> ELSE <<>>]
<1>1. n \in Nat /\ DOMAIN s = 1 .. n /\ \A i \in 1 .. n : s[i] \in D
  BY LenProperties, ElementOfSeq
<1>2. /\ seqs \in Seq(Seq(D)) /\ Len(seqs) = n
      /\ \A i \in 1 .. n : seqs[i] = IF s[i] \in P THEN <<s[i]>> ELSE <<>>
  <2>1. \A i \in 1 .. n : (IF s[i] \in P THEN <<s[i]>> ELSE <<>>) \in Seq(D)
    BY <1>1
  <2> HIDE DEF n
  <2> QED
    BY <1>1, <2>1
<1>3. Those(s, P) = FlattenSeq(seqs)
  BY <1>1 DEF Those
<1> HIDE DEF seqs, n
<1>4. Those(s, P) \in Seq(D)
  BY <1>2, <1>3, FlattenIs
<1>5. ASSUME NEW k \in DOMAIN Those(s, P) PROVE Those(s, P)[k] \in P
  <2>1. k \in 1 .. Len(FlattenSeq(seqs))
    BY <1>3, <1>4, <1>5, LenProperties
  <2>2. PICK i \in 1 .. Len(seqs) : \E j \in 1 .. Len(seqs[i]) : FlattenSeq(seqs)[k] = seqs[i][j]
    BY <1>2, <2>1, FlattenIs
  <2>3. PICK j \in 1 .. Len(seqs[i]) : FlattenSeq(seqs)[k] = seqs[i][j]
    BY <2>2
  <2>4. CASE s[i] \in P
    <3>1. seqs[i] = <<s[i]>>
      BY <1>2, <2>4
    <3>2. j = 1
      BY <2>3, <3>1
    <3> QED
      BY <1>3, <2>3, <2>4, <3>1, <3>2
  <2>5. CASE s[i] \notin P
    <3>1. seqs[i] = <<>> /\ Len(seqs[i]) = 0
      BY <1>2, <2>5
    <3> QED
      BY <2>3, <3>1
  <2> QED
    BY <2>4, <2>5
<1>6. ASSUME NEW A, NEW f, \A x \in D : f[x] \in Seq(A)
      PROVE  FlattenSeq(Each(f, Those(s, P)))
               = FlattenSeq([i \in 1 .. n |-> IF s[i] \in P THEN f[s[i]] ELSE <<>>])
  <2> DEFINE g == [x \in D |-> f[x]]
             inner == [i \in 1 .. n |-> FlattenSeq(Each(g, seqs[i]))]
             given == [i \in 1 .. n |-> IF s[i] \in P THEN f[s[i]] ELSE <<>>]
  <2>1. g \in [D -> Seq(A)] /\ \A x \in D : g[x] = f[x]
    BY <1>6
  <2>2. Each(g, Those(s, P)) = Each(f, Those(s, P))
    <3>1. \A i \in 1 .. Len(Those(s, P)) : Those(s, P)[i] \in D
      BY <1>4, ElementOfSeq
    <3>2. \A i \in 1 .. Len(Those(s, P)) : g[Those(s, P)[i]] = f[Those(s, P)[i]]
      BY <2>1, <3>1
    <3> HIDE DEF g
    <3> QED
      BY <3>2 DEF Each
  <2> HIDE DEF g
  <2>3. FlattenSeq(Each(g, FlattenSeq(seqs))) = FlattenSeq(inner)
    <3>1. g \in [D -> Seq(A)] /\ seqs \in Seq(Seq(D)) /\ Len(seqs) = n
      BY <1>2, <2>1
    <3>2. FlattenSeq(Each(g, FlattenSeq(seqs)))
            = FlattenSeq([i \in 1 .. Len(seqs) |-> FlattenSeq(Each(g, seqs[i]))])
      BY ONLY <3>1, FlattenEach
    <3> QED
      BY <3>1, <3>2
  <2>4. ASSUME NEW i \in 1 .. n PROVE inner[i] = given[i]
    <3>1. CASE s[i] \in P
      <4>1. seqs[i] = <<s[i]>> /\ s[i] \in D
        BY <1>1, <1>2, <3>1
      <4>2. Each(g, <<s[i]>>) = <<g[s[i]]>>
        BY DEF Each
      <4>3. FlattenSeq(<<g[s[i]]>>) = g[s[i]]
        <5>1. g[s[i]] \in Seq(A)
          BY <2>1, <4>1
        <5> QED
          BY <5>1, FlattenOne
      <4> QED
        BY <2>1, <3>1, <4>1, <4>2, <4>3
    <3>2. CASE s[i] \notin P
      <4>1. seqs[i] = <<>>
        BY <1>2, <3>2
      <4>2. Each(g, <<>>) = <<>>
        BY EmptySeq DEF Each
      <4>3. FlattenSeq(<<>>) = <<>>
        BY EmptySeq DEF FlattenSeq
      <4> QED
        BY <3>2, <4>1, <4>2, <4>3
    <3> QED
      BY <3>1, <3>2
  <2>5. inner = given
    BY <2>4
  <2> QED
    BY <1>3, <2>2, <2>3, <2>5
<1> QED
  BY <1>4, <1>5, <1>6 DEF n

\* What is made of those in a set is what is made of all of them, the others making nothing.
LEMMA ThoseEach ==
  ASSUME NEW D, NEW s \in Seq(D), NEW P, NEW A, NEW f, \A x \in D : f[x] \in Seq(A)
  PROVE  FlattenSeq(Each(f, Those(s, P)))
           = FlattenSeq([i \in 1 .. Len(s) |-> IF s[i] \in P THEN f[s[i]] ELSE <<>>])
<1>1. \A B, g : (\A x \in D : g[x] \in Seq(B)) =>
        FlattenSeq(Each(g, Those(s, P)))
          = FlattenSeq([i \in 1 .. Len(s) |-> IF s[i] \in P THEN g[s[i]] ELSE <<>>])
  BY ThoseAre
<1> QED
  BY <1>1

\* Those of a list that are in a set are in the order of the list.
LEMMA ThoseInOrder ==
  ASSUME NEW D, NEW s \in Seq(D), NEW P, NEW R, OrderedBy(s, R)
  PROVE  OrderedBy(Those(s, P), R)
<1> DEFINE n == Len(s)
           seqs == [i \in 1 .. n |-> IF s[i] \in P THEN <<s[i]>> ELSE <<>>]
<1>1. n \in Nat /\ DOMAIN s = 1 .. n /\ \A i \in 1 .. n : s[i] \in D
  BY LenProperties, ElementOfSeq
<1>2. /\ seqs \in Seq(Seq(D)) /\ Len(seqs) = n
      /\ \A i \in 1 .. n : seqs[i] = IF s[i] \in P THEN <<s[i]>> ELSE <<>>
  <2>1. \A i \in 1 .. n : (IF s[i] \in P THEN <<s[i]>> ELSE <<>>) \in Seq(D)
    BY <1>1
  <2> HIDE DEF n
  <2> QED
    BY <1>1, <2>1
<1>3. Those(s, P) = FlattenSeq(seqs)
  BY <1>1 DEF Those
<1>4. \A i, j \in 1 .. n : i < j => <<s[i], s[j]>> \in R
  BY DEF OrderedBy
<1> HIDE DEF seqs, n
<1>5. \A i \in 1 .. n : \A x \in 1 .. Len(seqs[i]) : x = 1 /\ Len(seqs[i]) = 1 /\ seqs[i][x] = s[i]
  <2> TAKE i \in 1 .. n
  <2>1. CASE s[i] \in P
    <3>1. seqs[i] = <<s[i]>>
      BY <1>2, <2>1
    <3> QED
      BY <3>1
  <2>2. CASE s[i] \notin P
    <3>1. seqs[i] = <<>> /\ Len(seqs[i]) = 0
      BY <1>2, <2>2
    <3> QED
      BY <3>1
  <2> QED
    BY <2>1, <2>2
<1>6. \A i \in 1 .. Len(seqs) : OrderedBy(seqs[i], R)
  BY <1>2, <1>5 DEF OrderedBy
<1>7. \A i, j \in 1 .. Len(seqs) : i < j => AllBefore(seqs[i], seqs[j], R)
  <2> TAKE i, j \in 1 .. Len(seqs)
  <2> HAVE i < j
  <2>1. <<s[i], s[j]>> \in R
    BY <1>2, <1>4
  <2>2. \A x \in 1 .. Len(seqs[i]) : seqs[i][x] = s[i]
    BY <1>2, <1>5
  <2>3. \A y \in 1 .. Len(seqs[j]) : seqs[j][y] = s[j]
    BY <1>2, <1>5
  <2> QED
    BY <2>1, <2>2, <2>3 DEF AllBefore
<1> QED
  BY <1>2, <1>3, <1>6, <1>7, FlattenInOrder

Upwards == {pair \in Nat \X Nat : pair[1] < pair[2]}

\* The partitions a request is left with are some of the reached ones in the catalog's order, and
\* what is made of them is made of all the reached ones, where the unnamed make nothing.
LEMMA LeftIs ==
  ASSUME TypeOK
  PROVE  /\ Left \in Seq(DOMAIN catalog.partitions)
         /\ OrderedBy(Left, Upwards)
         /\ \A i \in DOMAIN Left : Partition(Left[i]).reached
         /\ \A A, f : /\ \A x \in DOMAIN catalog.partitions : f[x] \in Seq(A)
                      /\ \A x \in DOMAIN catalog.partitions : ~ Partition(x).named => f[x] = <<>>
              => FlattenSeq(Each(f, Left))
                   = FlattenSeq([p \in DOMAIN catalog.partitions |->
                                   IF Partition(p).reached THEN f[p] ELSE <<>>])
<1> DEFINE D == DOMAIN catalog.partitions
           n == Len(catalog.partitions)
           id == [p \in D |-> p]
           reach == Those(id, Reached)
<1>1. n \in Nat /\ D = 1 .. n
  BY AskedTyped, LenProperties
<1>2. id \in Seq(D) /\ Len(id) = n /\ \A p \in 1 .. n : id[p] = p
  <2> HIDE DEF n
  <2> QED
    BY <1>1
<1>3. OrderedBy(id, Upwards)
  BY <1>1, <1>2 DEF OrderedBy, Upwards
<1>4. Left = IF indexed THEN Those(reach, NamedByIndex) ELSE reach
  BY DEF Left
<1>5. Reached = {p \in D : Partition(p).reached} /\ NamedByIndex = {p \in D : Partition(p).named}
  BY DEF Reached, NamedByIndex
<1> HIDE DEF D, n, id
<1>6. /\ reach \in Seq(D)
      /\ \A i \in DOMAIN reach : reach[i] \in Reached
      /\ OrderedBy(reach, Upwards)
  BY <1>2, <1>3, ThoseAre, ThoseInOrder
<1>7. \A A, f : (\A x \in D : f[x] \in Seq(A)) =>
        FlattenSeq(Each(f, reach)) = FlattenSeq([p \in D |-> IF Partition(p).reached THEN f[p] ELSE <<>>])
  <2> TAKE A, f
  <2> HAVE \A x \in D : f[x] \in Seq(A)
  <2>1. FlattenSeq(Each(f, reach))
          = FlattenSeq([i \in 1 .. Len(id) |-> IF id[i] \in Reached THEN f[id[i]] ELSE <<>>])
    BY <1>2, ThoseAre
  <2>2. [i \in 1 .. Len(id) |-> IF id[i] \in Reached THEN f[id[i]] ELSE <<>>]
          = [p \in D |-> IF Partition(p).reached THEN f[p] ELSE <<>>]
    BY <1>1, <1>2, <1>5
  <2> QED
    BY <2>1, <2>2
<1> DEFINE named == Those(reach, NamedByIndex)
<1> HIDE DEF reach
<1>8. /\ named \in Seq(D)
      /\ OrderedBy(named, Upwards)
  BY <1>6, ThoseAre, ThoseInOrder
<1>9. \A i \in DOMAIN named : named[i] \in Reached
  <2> DEFINE Good == {p \in D : p \in Reached}
  <2>1. reach \in Seq(Good)
    <3>1. Len(reach) \in Nat /\ DOMAIN reach = 1 .. Len(reach) /\ \A i \in 1 .. Len(reach) : reach[i] \in D
      BY <1>6, LenProperties, ElementOfSeq
    <3>2. reach = [i \in 1 .. Len(reach) |-> reach[i]]
      BY <1>6
    <3>3. \A i \in 1 .. Len(reach) : reach[i] \in Good
      BY <1>6, <3>1
    <3> HIDE DEF Good
    <3> QED
      BY <3>1, <3>2, <3>3
  <2> HIDE DEF Good
  <2>2. named \in Seq(Good)
    BY <2>1, ThoseAre
  <2>3. \A i \in DOMAIN named : named[i] \in Good
    BY <2>2, LenProperties, ElementOfSeq
  <2> QED
    BY <2>3 DEF Good
<1>10. \A A, f : (\A x \in D : f[x] \in Seq(A)) /\ (\A x \in D : ~ Partition(x).named => f[x] = <<>>) =>
         FlattenSeq(Each(f, named)) = FlattenSeq(Each(f, reach))
  <2> TAKE A, f
  <2> HAVE (\A x \in D : f[x] \in Seq(A)) /\ (\A x \in D : ~ Partition(x).named => f[x] = <<>>)
  <2>1. FlattenSeq(Each(f, named))
          = FlattenSeq([i \in 1 .. Len(reach) |-> IF reach[i] \in NamedByIndex THEN f[reach[i]] ELSE <<>>])
    <3>1. reach \in Seq(D)
      BY <1>6
    <3>2. \A x \in D : f[x] \in Seq(A)
      OBVIOUS
    <3> HIDE DEF D
    <3>3. FlattenSeq(Each(f, Those(reach, NamedByIndex)))
            = FlattenSeq([i \in 1 .. Len(reach) |->
                            IF reach[i] \in NamedByIndex THEN f[reach[i]] ELSE <<>>])
      BY ONLY <3>1, <3>2, ThoseEach
    <3> QED
      BY ONLY <3>3
  <2>2. [i \in 1 .. Len(reach) |-> IF reach[i] \in NamedByIndex THEN f[reach[i]] ELSE <<>>]
          = Each(f, reach)
    <3>1. \A i \in 1 .. Len(reach) : reach[i] \in D
      BY <1>6, ElementOfSeq
    <3>2. \A i \in 1 .. Len(reach) :
            (IF reach[i] \in NamedByIndex THEN f[reach[i]] ELSE <<>>) = f[reach[i]]
      BY <3>1, <1>5
    <3> QED
      BY <3>2 DEF Each
  <2> QED
    BY <2>1, <2>2
<1> HIDE DEF named
<1>11. Left \in {reach, named}
  BY <1>4 DEF named
<1>12. Left \in Seq(D) /\ OrderedBy(Left, Upwards) /\ \A i \in DOMAIN Left : Left[i] \in Reached
  BY <1>6, <1>8, <1>9, <1>11
<1>13. \A A, f : /\ \A x \in D : f[x] \in Seq(A)
                 /\ \A x \in D : ~ Partition(x).named => f[x] = <<>>
         => FlattenSeq(Each(f, Left)) = FlattenSeq([p \in D |-> IF Partition(p).reached THEN f[p] ELSE <<>>])
  <2> TAKE A, f
  <2> HAVE /\ \A x \in D : f[x] \in Seq(A)
           /\ \A x \in D : ~ Partition(x).named => f[x] = <<>>
  <2>1. FlattenSeq(Each(f, reach)) = FlattenSeq([p \in D |-> IF Partition(p).reached THEN f[p] ELSE <<>>])
    BY <1>7
  <2>2. FlattenSeq(Each(f, named)) = FlattenSeq(Each(f, reach))
    BY <1>10
  <2> QED
    BY <1>11, <2>1, <2>2
<1>14. \A i \in DOMAIN Left : Partition(Left[i]).reached
  BY <1>5, <1>12
<1> QED
  BY <1>12, <1>13, <1>14 DEF D

\* A partition no index names has no row that answers.
LEMMA UnnamedIsEmpty ==
  ASSUME TypeOK, NEW p \in DOMAIN catalog.partitions, ~ Partition(p).named,
         NEW m \in LimitOrNone
  PROVE  PartitionRows(p, m) = <<>>
<1> DEFINE D == DOMAIN Partition(p).files
           Files == [f \in D |-> FileRows(p, f, m)]
           e == <<>>
<1>1. Len(Partition(p).files) \in Nat /\ D = 1 .. Len(Partition(p).files)
  BY PartitionTyped
<1>2. \A f \in D : Partition(p).files[f] = 0
  BY AskedTyped
<1>3. e \in Seq(Places) /\ Len(e) = 0
  BY EmptySeq
<1>4. \A f \in D : [k \in 1 .. Partition(p).files[f] |-> <<p, f, k>>] = e
  BY <1>2
<1>5. \A f \in D : FileRows(p, f, m) = First(e, m)
  BY <1>4 DEF FileRows
<1> HIDE DEF e, D
<1>6. First(e, m) = e
  <2>1. e \in Seq(Places)
    BY <1>3
  <2>2. First(e, NoLimit) = e /\ \A k \in Nat : Len(e) <= k => First(e, k) = e
    BY ONLY <2>1, FirstIs
  <2> QED
    BY <1>3, <2>2 DEF LimitOrNone
<1> DEFINE Z == Seq(Places)
<1>7. Files \in Seq(Seq(Places)) /\ Len(Files) = Len(Partition(p).files)
  <2>1. \A f \in D : FileRows(p, f, m) \in Z
    BY <1>3, <1>5, <1>6
  <2> HIDE DEF Z
  <2>2. Files \in Seq(Z) /\ Len(Files) = Len(Partition(p).files)
    BY <1>1, <2>1
  <2> QED
    BY <2>2 DEF Z
<1>8. \A i \in 1 .. Len(Files) : Len(Files[i]) = 0
  BY <1>1, <1>3, <1>5, <1>6, <1>7
<1>9. PartitionRows(p, m) = FlattenSeq(Files)
  BY DEF PartitionRows, D
<1> HIDE DEF Files
<1> QED
  BY <1>7, <1>8, <1>9, FlattenOfNone

\* Each partition's rows, read with a limit.
RowsOf(m) == [p \in DOMAIN catalog.partitions |-> PartitionRows(p, m)]

\* The rows of the reached partitions, each read with a limit.
ReachedRows(m) ==
  FlattenSeq([p \in DOMAIN catalog.partitions |->
                IF Partition(p).reached THEN RowsOf(m)[p] ELSE <<>>])

\* The rows of each partition, none where the index does not name it.
LEMMA RowsOfAre ==
  ASSUME TypeOK
  PROVE  \A m \in LimitOrNone : \A p \in DOMAIN catalog.partitions :
           /\ RowsOf(m)[p] = PartitionRows(p, m) /\ RowsOf(m)[p] \in Seq(Places)
           /\ ~ Partition(p).named => RowsOf(m)[p] = <<>>
<1> TAKE m \in LimitOrNone
<1> TAKE p \in DOMAIN catalog.partitions
<1>1. RowsOf(m)[p] = PartitionRows(p, m)
  BY DEF RowsOf
<1>2. PartitionRows(p, m) \in Seq(Places)
  BY PartitionRowsAre DEF LimitOrNone
<1>3. ~ Partition(p).named => PartitionRows(p, m) = <<>>
  BY UnnamedIsEmpty
<1> QED
  BY <1>1, <1>2, <1>3

\* Reading each partition with the whole limit loses none of the first `limit` rows.
LEMMA ReachedRowsAre ==
  ASSUME TypeOK
  PROVE  /\ AllRows = ReachedRows(NoLimit) /\ AllRows \in Seq(Places)
         /\ AnswerRows \in Seq(Places)
         /\ First(ReachedRows(request.limit), request.limit) = AnswerRows
         /\ FlattenSeq(Each(RowsOf(request.limit), Left)) = ReachedRows(request.limit)
         /\ FlattenSeq(Each(RowsOf(NoLimit), Left)) = AllRows
<1> DEFINE D == DOMAIN catalog.partitions
           n == Len(catalog.partitions)
           Rows(m) == [p \in D |-> IF Partition(p).reached THEN RowsOf(m)[p] ELSE <<>>]
<1>1. n \in Nat /\ D = 1 .. n
  BY AskedTyped, LenProperties
<1>2. \A m \in LimitOrNone : \A p \in D :
        /\ RowsOf(m)[p] = PartitionRows(p, m) /\ RowsOf(m)[p] \in Seq(Places)
        /\ ~ Partition(p).named => RowsOf(m)[p] = <<>>
  BY RowsOfAre
<1>3. \A m : ReachedRows(m) = FlattenSeq(Rows(m))
  BY DEF ReachedRows
<1>4. NoLimit \in LimitOrNone /\ request.limit \in LimitOrNone
  BY AskedTyped DEF LimitOrNone
<1>5. AllRows = ReachedRows(NoLimit)
  <2>1. \A p \in D : RowsOf(NoLimit)[p] = PartitionRows(p, NoLimit)
    BY <1>2, <1>4
  <2>2. [p \in D |-> IF Partition(p).reached THEN PartitionRows(p, NoLimit) ELSE <<>>] = Rows(NoLimit)
    BY <2>1
  <2> QED
    BY <1>3, <2>2 DEF AllRows
<1>6. \A m \in LimitOrNone : FlattenSeq(Each(RowsOf(m), Left)) = ReachedRows(m)
  <2> TAKE m \in LimitOrNone
  <2>1. /\ \A p \in D : RowsOf(m)[p] \in Seq(Places)
        /\ \A p \in D : ~ Partition(p).named => RowsOf(m)[p] = <<>>
    BY <1>2
  <2> QED
    BY <2>1, LeftIs DEF ReachedRows
<1> HIDE DEF D, n
<1>7. \A m \in LimitOrNone : Rows(m) \in Seq(Seq(Places)) /\ Len(Rows(m)) = n
  <2> TAKE m \in LimitOrNone
  <2>1. \A p \in D : (IF Partition(p).reached THEN RowsOf(m)[p] ELSE <<>>) \in Seq(Places)
    BY <1>2
  <2> QED
    BY <1>1, <2>1
<1>8. \A m \in LimitOrNone : ReachedRows(m) \in Seq(Places)
  <2> TAKE m \in LimitOrNone
  <2> HIDE DEF Rows
  <2>1. Rows(m) \in Seq(Seq(Places))
    BY <1>7
  <2>2. FlattenSeq(Rows(m)) \in Seq(Places)
    BY ONLY <2>1, FlattenIs
  <2> QED
    BY <1>3, <2>2
<1>9. \A m \in Nat : First(ReachedRows(m), m) = First(ReachedRows(NoLimit), m)
  <2> TAKE m \in Nat
  <2>1. m \in LimitOrNone
    BY DEF LimitOrNone
  <2>2. \A p \in D : SameUpTo(Rows(m)[p], Rows(NoLimit)[p], m)
    <3> TAKE p \in D
    <3>1. SameUpTo(PartitionRows(p, m), PartitionRows(p, NoLimit), m)
      BY PartitionRowsAre DEF D
    <3>2. RowsOf(m)[p] = PartitionRows(p, m) /\ RowsOf(NoLimit)[p] = PartitionRows(p, NoLimit)
      BY <1>2, <1>4, <2>1
    <3>3. CASE Partition(p).reached
      BY <3>1, <3>2, <3>3
    <3>4. CASE ~ Partition(p).reached
      BY <3>4 DEF SameUpTo
    <3> QED
      BY <3>3, <3>4
  <2> HIDE DEF Rows
  <2>3. /\ Rows(m) \in Seq(Seq(Places)) /\ Rows(NoLimit) \in Seq(Seq(Places))
        /\ Len(Rows(m)) = Len(Rows(NoLimit))
        /\ \A i \in 1 .. Len(Rows(m)) : SameUpTo(Rows(m)[i], Rows(NoLimit)[i], m)
    BY <1>1, <1>4, <1>7, <2>1, <2>2
  <2>4. SameUpTo(FlattenSeq(Rows(m)), FlattenSeq(Rows(NoLimit)), m)
    BY ONLY <2>3, m \in Nat, FlattenSame
  <2>5. SameUpTo(ReachedRows(m), ReachedRows(NoLimit), m)
    BY <1>3, <2>4
  <2> QED
    BY <1>4, <1>8, <2>1, <2>5, SameFirst
<1>10. First(ReachedRows(request.limit), request.limit) = AnswerRows
  BY <1>4, <1>5, <1>9 DEF LimitOrNone, AnswerRows
<1>11. AllRows \in Seq(Places)
  BY <1>4, <1>5, <1>8
<1>12. AnswerRows \in Seq(Places)
  BY <1>4, <1>11, FirstIs DEF LimitOrNone, AnswerRows
<1> QED
  BY <1>4, <1>5, <1>6, <1>10, <1>11, <1>12

\* What the chosen partitions are read for.
Asked == Each(RowsOf(request.limit), chosen)

\* The reads a request makes, one for each of the chosen.
LEMMA AskedAre ==
  ASSUME TypeOK
  PROVE  /\ Asked \in Seq(Seq(Places)) /\ Len(Asked) = Len(chosen) /\ Len(chosen) \in Nat
         /\ DOMAIN chosen = 1 .. Len(chosen)
         /\ \A i \in 1 .. Len(chosen) : Asked[i] = ReadNext(i) /\ ReadNext(i) \in Seq(Places)
                                        /\ chosen[i] \in DOMAIN catalog.partitions
<1> DEFINE D == DOMAIN catalog.partitions
<1>1. request.limit \in LimitOrNone
  BY AskedTyped
<1>2. \A p \in D : RowsOf(request.limit)[p] = PartitionRows(p, request.limit)
                   /\ RowsOf(request.limit)[p] \in Seq(Places)
  BY <1>1, RowsOfAre
<1>3. /\ chosen \in Seq(D) /\ Len(chosen) \in Nat /\ DOMAIN chosen = 1 .. Len(chosen)
      /\ \A i \in 1 .. Len(chosen) : chosen[i] \in D
  BY LenProperties, ElementOfSeq DEF TypeOK
<1>4. \A i \in 1 .. Len(chosen) : RowsOf(request.limit)[chosen[i]] = ReadNext(i)
                                  /\ ReadNext(i) \in Seq(Places)
  BY <1>2, <1>3 DEF ReadNext
<1> DEFINE Z == Seq(Places)
<1>5. \A i \in 1 .. Len(chosen) : ReadNext(i) \in Z
  BY <1>4
<1> HIDE DEF Z
<1>6. Asked = [i \in 1 .. Len(chosen) |-> ReadNext(i)]
  BY <1>4 DEF Asked, Each
<1>7. Asked \in Seq(Z) /\ Len(Asked) = Len(chosen) /\ \A i \in 1 .. Len(chosen) : Asked[i] = ReadNext(i)
  BY <1>3, <1>5, <1>6
<1> QED
  BY <1>3, <1>4, <1>7 DEF Z

\* The entries of one partition, each of them once, and what reading them answers.
LEMMA EntriesOf ==
  ASSUME TypeOK, NEW p \in DOMAIN catalog.partitions, NEW m, NEW G,
         NEW D, \A f \in DOMAIN Partition(p).files : <<p, f>> \in D /\ G[<<p, f>>] = FileRows(p, f, m)
  PROVE  /\ [f \in DOMAIN Partition(p).files |-> <<p, f>>] \in Seq(D)
         /\ FlattenSeq(Each(G, [f \in DOMAIN Partition(p).files |-> <<p, f>>])) = PartitionRows(p, m)
<1> DEFINE F == DOMAIN Partition(p).files
           n == Len(Partition(p).files)
           entries == [f \in F |-> <<p, f>>]
<1>1. n \in Nat /\ F = 1 .. n
  BY PartitionTyped
<1>2. \A f \in F : <<p, f>> \in D /\ G[<<p, f>>] = FileRows(p, f, m)
  OBVIOUS
<1>3. PartitionRows(p, m) = FlattenSeq([f \in F |-> FileRows(p, f, m)])
  BY DEF PartitionRows
<1> HIDE DEF F, n
<1>4. entries \in Seq(D) /\ Len(entries) = n /\ \A f \in 1 .. n : entries[f] = <<p, f>>
  BY <1>1, <1>2
<1>5. Each(G, entries) = [f \in F |-> FileRows(p, f, m)]
  <2> HIDE DEF entries
  <2>1. \A f \in 1 .. Len(entries) : G[entries[f]] = FileRows(p, f, m)
    BY <1>1, <1>2, <1>4
  <2>2. Each(G, entries) = [f \in 1 .. Len(entries) |-> FileRows(p, f, m)]
    BY <2>1 DEF Each
  <2> QED
    BY <1>1, <1>4, <2>2
<1> QED
  BY <1>3, <1>4, <1>5 DEF F

\* The entries read one by one are the partitions read one by one.
LEMMA PlanReads ==
  ASSUME TypeOK, Planned
  PROVE  PlanIsTheAnswer
<1> SUFFICES ASSUME answer.status \in {"plan", "refused"}, request.how \in Queries
             PROVE  First(FlattenSeq([e \in DOMAIN answer.plan |->
                            FileRows(answer.plan[e][1], answer.plan[e][2], request.limit)]),
                          request.limit) = AnswerRows
  BY DEF PlanIsTheAnswer
<1> DEFINE m == request.limit
           read == FlattenSeq([e \in DOMAIN answer.plan |->
                     FileRows(answer.plan[e][1], answer.plan[e][2], m)])
<1>1. chosen = Left /\ answer.plan = Entries
  BY DEF Planned
<1>2. m \in LimitOrNone
  BY AskedTyped
<1>3. CASE m = 0
  <2>1. Entries = <<>>
    BY <1>3 DEF Entries
  <2> DEFINE e == <<>>
  <2>2. read = FlattenSeq(e)
    <3>1. [x \in DOMAIN answer.plan |-> FileRows(answer.plan[x][1], answer.plan[x][2], m)] = e
      BY <1>1, <2>1
    <3> QED
      BY <3>1
  <2>3. FlattenSeq(e) = e /\ e \in Seq(Places) /\ Len(e) = 0
    BY EmptySeq DEF FlattenSeq
  <2>4. AllRows \in Seq(Places)
    BY ReachedRowsAre
  <2> HIDE DEF e
  <2>5. First(e, 0) = e
    <3>1. e \in Seq(Places) /\ Len(e) <= 0
      BY <2>3
    <3>2. \A k \in Nat : Len(e) <= k => First(e, k) = e
      BY ONLY <3>1, FirstIs
    <3> QED
      BY <3>1, <3>2
  <2>6. First(AllRows, 0) \in Seq(Places) /\ Len(First(AllRows, 0)) = 0
    <3>1. Len(AllRows) \in Nat
      BY <2>4, LenProperties
    <3> QED
      BY <2>4, <3>1, FirstIs
  <2>7. First(AllRows, 0) = e
    BY <2>6, EmptySeq DEF e
  <2>8. AnswerRows = e
    BY <1>3, <2>7 DEF AnswerRows
  <2>9. First(read, m) = e
    BY <1>3, <2>2, <2>3, <2>5
  <2> QED
    BY <2>8, <2>9
<1>4. CASE m # 0
  <2> DEFINE c == Len(chosen)
             E == [i \in DOMAIN chosen |-> [f \in DOMAIN Partition(chosen[i]).files |-> <<chosen[i], f>>]]
             D == {e \in Nat \X Nat : /\ e[1] \in DOMAIN catalog.partitions
                                      /\ e[2] \in DOMAIN Partition(e[1]).files}
             G == [e \in D |-> FileRows(e[1], e[2], m)]
  <2>1. /\ c \in Nat /\ DOMAIN chosen = 1 .. c
        /\ \A i \in 1 .. c : chosen[i] \in DOMAIN catalog.partitions /\ ReadNext(i) = PartitionRows(chosen[i], m)
    BY AskedAre DEF ReadNext
  <2>2. Entries = FlattenSeq(E)
    BY <1>4 DEF Entries
  <2>3. \A p \in DOMAIN catalog.partitions : \A f \in DOMAIN Partition(p).files :
          <<p, f>> \in D /\ G[<<p, f>>] = FileRows(p, f, m)
    <3> TAKE p \in DOMAIN catalog.partitions
    <3> TAKE f \in DOMAIN Partition(p).files
    <3>1. p \in Nat /\ f \in Nat
      BY PartitionTyped
    <3> QED
      BY <3>1
  <2>4. G \in [D -> Seq(Places)]
    <3>1. \A e \in D : FileRows(e[1], e[2], m) \in Seq(Places)
      BY <1>2, FileRowsAre DEF LimitOrNone
    <3> QED
      BY <3>1
  <2> HIDE DEF D, G
  <2>5. \A i \in 1 .. c : E[i] \in Seq(D) /\ FlattenSeq(Each(G, E[i])) = ReadNext(i)
    <3> TAKE i \in 1 .. c
    <3>1. chosen[i] \in DOMAIN catalog.partitions
      BY <2>1
    <3>2. /\ [f \in DOMAIN Partition(chosen[i]).files |-> <<chosen[i], f>>] \in Seq(D)
          /\ FlattenSeq(Each(G, [f \in DOMAIN Partition(chosen[i]).files |-> <<chosen[i], f>>]))
               = PartitionRows(chosen[i], m)
      BY <2>3, <3>1, EntriesOf
    <3> QED
      BY <2>1, <3>2
  <2>6. E \in Seq(Seq(D)) /\ Len(E) = c
    <3> DEFINE Z == Seq(D)
    <3>1. \A i \in 1 .. c : E[i] \in Z
      BY <2>5
    <3> HIDE DEF Z
    <3>2. E \in Seq(Z) /\ Len(E) = c
      <4>1. E = [i \in 1 .. c |-> E[i]]
        BY <2>1
      <4> HIDE DEF E, c
      <4> QED
        BY <2>1, <3>1, <4>1
    <3> QED
      BY <3>2 DEF Z
  <2> HIDE DEF E, c
  <2>7. FlattenSeq(Each(G, FlattenSeq(E))) = FlattenSeq([i \in 1 .. Len(E) |-> FlattenSeq(Each(G, E[i]))])
    <3>1. G \in [D -> Seq(Places)]
      BY <2>4
    <3>2. E \in Seq(Seq(D))
      BY <2>6
    <3>3. ASSUME NEW g \in [D -> Seq(Places)], NEW e \in Seq(Seq(D))
          PROVE  FlattenSeq(Each(g, FlattenSeq(e))) = FlattenSeq([i \in 1 .. Len(e) |-> FlattenSeq(Each(g, e[i]))])
      BY ONLY FlattenEach
    <3> QED
      BY ONLY <3>1, <3>2, <3>3
  <2>8. [i \in 1 .. Len(E) |-> FlattenSeq(Each(G, E[i]))] = Asked
    <3>1. \A i \in 1 .. c : FlattenSeq(Each(G, E[i])) = Asked[i]
      BY <2>5, AskedAre DEF c
    <3>2. Asked = [i \in 1 .. c |-> Asked[i]]
      BY AskedAre DEF c
    <3> QED
      BY <2>6, <3>1, <3>2
  <2>9. FlattenSeq(E) \in Seq(D)
    BY ONLY <2>6, FlattenIs
  <2>10. read = FlattenSeq(Each(G, FlattenSeq(E)))
    <3> DEFINE plan == FlattenSeq(E)
    <3>1. answer.plan = plan
      BY <1>1, <2>2
    <3> HIDE DEF plan
    <3>2. DOMAIN plan = 1 .. Len(plan) /\ \A e \in 1 .. Len(plan) : plan[e] \in D
      BY <2>9, LenProperties, ElementOfSeq DEF plan
    <3>3. \A e \in 1 .. Len(plan) : G[plan[e]] = FileRows(plan[e][1], plan[e][2], m)
      BY <3>2 DEF G
    <3>4. [e \in DOMAIN plan |-> FileRows(plan[e][1], plan[e][2], m)] = Each(G, plan)
      BY <3>2, <3>3 DEF Each
    <3> QED
      BY <3>1, <3>4 DEF plan
  <2>11. read = FlattenSeq(Asked)
    BY <2>7, <2>8, <2>10
  <2>12. FlattenSeq(Asked) = ReachedRows(m)
    BY <1>1, ReachedRowsAre DEF Asked
  <2>13. First(ReachedRows(m), m) = AnswerRows
    BY ReachedRowsAre
  <2> QED
    BY <2>11, <2>12, <2>13
<1> QED
  BY <1>3, <1>4

\* Nothing said of the catalog and the request changes while they stay.
LEMMA LeftStays ==
  ASSUME UNCHANGED <<asked, indexed>>
  PROVE  Left' = Left /\ Walked' = Walked
<1>1. catalog' = catalog /\ request' = request /\ indexed' = indexed
  BY DEF asked
<1>2. Left' = Left
  BY <1>1 DEF Left, Those, Reached, NamedByIndex, Partition
<1>3. Walked' = Walked
  BY <1>1, <1>2 DEF Walked
<1> QED
  BY <1>2, <1>3

\* Nor of the chosen.
LEMMA Stays ==
  ASSUME UNCHANGED <<asked, chosen, indexed>>
  PROVE  /\ Left' = Left /\ Walked' = Walked
         /\ AllRows' = AllRows /\ AnswerRows' = AnswerRows
         /\ Entries' = Entries /\ Describable' = Describable /\ IndexBytes' = IndexBytes
         /\ Limited' = Limited /\ Ordered' = Ordered /\ ScanLimit' = ScanLimit
         /\ TooManyPartitions' = TooManyPartitions
<1>1. /\ catalog' = catalog /\ request' = request /\ bounds' = bounds
      /\ chosen' = chosen /\ indexed' = indexed
  BY DEF asked
<1>2. Left' = Left
  BY <1>1 DEF Left, Those, Reached, NamedByIndex, Partition
<1>3. AllRows' = AllRows
  BY <1>1 DEF AllRows, PartitionRows, FileRows, First, Partition
<1>4. Entries' = Entries
  BY <1>1 DEF Entries, Partition
<1>5. /\ Limited' = Limited /\ Ordered' = Ordered /\ IndexBytes' = IndexBytes
      /\ TooManyPartitions' = TooManyPartitions
  BY <1>1 DEF Limited, Ordered, IndexBytes, TooManyPartitions
<1>6. Describable' = Describable
  BY <1>1 DEF Describable, Partition
<1>7. Walked' = Walked
  BY <1>1, <1>2 DEF Walked
<1>8. AnswerRows' = AnswerRows
  BY <1>1, <1>3 DEF AnswerRows, First
<1>9. ScanLimit' = ScanLimit
  BY <1>1, <1>5 DEF ScanLimit
<1> QED
  BY <1>2, <1>3, <1>4, <1>5, <1>6, <1>7, <1>8, <1>9

\* Nor does what the reads come to.
LEMMA ReadsStay ==
  ASSUME UNCHANGED <<asked, chosen, indexed>>
  PROVE  /\ \A i : ReadNext(i)' = ReadNext(i) /\ Fails(i)' = Fails(i)
         /\ \A i : BytesUpTo(i)' = BytesUpTo(i) /\ RowsUpTo(i)' = RowsUpTo(i)
         /\ \A p : ScanRows(p)' = ScanRows(p)
         /\ Verdict' = Verdict
<1>1. /\ catalog' = catalog /\ request' = request /\ bounds' = bounds
      /\ chosen' = chosen /\ indexed' = indexed
  BY DEF asked
<1>2. \A i : ReadNext(i)' = ReadNext(i) /\ Fails(i)' = Fails(i)
  BY <1>1 DEF ReadNext, Fails, PartitionRows, FileRows, First, Partition
<1>3. \A i : BytesUpTo(i)' = BytesUpTo(i)
  BY <1>1 DEF BytesUpTo, Partition
<1>4. \A i : RowsUpTo(i)' = RowsUpTo(i)
  BY <1>1 DEF RowsUpTo, ReadNext, PartitionRows, FileRows, First, Partition
<1>5. \A p : ScanRows(p)' = ScanRows(p)
  BY <1>1 DEF ScanRows, Ordered, ByIndex, Before, ScanLimit, PartitionRows, FileRows, First, Partition
<1>6. Verdict' = Verdict
  BY <1>1 DEF Verdict, TooManyPartitions, Limited, Needed, GoesOver, IndexBytes, BytesUpTo, RowsUpTo,
       Fails, ReadNext, PartitionRows, FileRows, First, Partition
<1> QED
  BY <1>2, <1>3, <1>4, <1>5, <1>6

\* The values the actions put into the variables are of the kinds they should be.
LEMMA EntriesTyped ==
  ASSUME TypeOK
  PROVE  Entries \in Seq(Nat \X Nat)
<1> DEFINE D == Nat \X Nat
           Z == Seq(D)
           E == [i \in DOMAIN chosen |-> [f \in DOMAIN Partition(chosen[i]).files |-> <<chosen[i], f>>]]
<1>1. CASE request.limit = 0
  BY <1>1, EmptySeq DEF Entries
<1>2. CASE request.limit # 0
  <2>1. \A i \in 1 .. Len(chosen) : E[i] \in Z
    <3> TAKE i \in 1 .. Len(chosen)
    <3>1. i \in DOMAIN chosen /\ chosen[i] \in DOMAIN catalog.partitions
      BY AskedAre
    <3>2. /\ Len(Partition(chosen[i]).files) \in Nat /\ chosen[i] \in Nat
          /\ DOMAIN Partition(chosen[i]).files = 1 .. Len(Partition(chosen[i]).files)
      BY <3>1, PartitionTyped
    <3>3. [f \in DOMAIN Partition(chosen[i]).files |-> <<chosen[i], f>>] \in Seq(D)
      BY <3>2
    <3> QED
      BY <3>1, <3>3
  <2> HIDE DEF Z
  <2>2. E \in Seq(Z)
    <3>1. E = [i \in 1 .. Len(chosen) |-> E[i]] /\ Len(chosen) \in Nat
      BY AskedAre
    <3> HIDE DEF E
    <3> QED
      BY <2>1, <3>1
  <2>3. FlattenSeq(E) \in Seq(D)
    <3>1. E \in Seq(Seq(D))
      BY <2>2 DEF Z
    <3> HIDE DEF E, D
    <3> QED
      BY ONLY <3>1, FlattenIs
  <2> QED
    BY <1>2, <2>3 DEF Entries
<1> QED
  BY <1>1, <1>2

\* The rows a limit leaves are of the kind it was given.
LEMMA FirstTyped ==
  ASSUME TypeOK, NEW S, NEW s \in Seq(S)
  PROVE  First(s, request.limit) \in Seq(S)
BY AskedTyped, FirstIs DEF LimitOrNone

\* The partitions a scan may read are some of the catalog's.
LEMMA ChosenFirst ==
  ASSUME TypeOK
  PROVE  First(IF request.how = "down" THEN Reverse(chosen) ELSE chosen, bounds.partitions)
           \in Seq(DOMAIN catalog.partitions)
<1> DEFINE D == DOMAIN catalog.partitions
<1>1. chosen \in Seq(D)
  BY DEF TypeOK
<1> HIDE DEF D
<1>2. Reverse(chosen) \in Seq(D)
  BY <1>1 DEF Reverse
<1>3. \A s \in Seq(D) : First(s, bounds.partitions) \in Seq(D)
  BY AskedTyped, FirstIs
<1> QED
  BY <1>1, <1>2, <1>3 DEF D

\* Rows that are cut are rows.
LEMMA CutIs ==
  ASSUME TypeOK, NEW rows \in Seq(Places)
  PROVE  Cut(rows) \in Seq(Places)
<1> DEFINE room == request.limit - Len(gathered)
           n == IF Len(rows) < room THEN Len(rows) ELSE room
<1>1. Len(rows) \in Nat /\ \A i \in 1 .. Len(rows) : rows[i] \in Places
  BY LenProperties, ElementOfSeq
<1>2. Len(gathered) \in Nat
  BY LenProperties DEF TypeOK
<1>3. CASE ~ Limited
  BY <1>3 DEF Cut
<1>4. CASE Limited
  <2>1. request.limit \in Nat
    BY <1>4, AskedTyped DEF Limited, LimitOrNone
  <2>2. n \in Int /\ n <= Len(rows)
    BY <1>1, <1>2, <2>1
  <2> HIDE DEF n
  <2>3. \A i \in 1 .. n : rows[i] \in Places
    BY <1>1, <2>2
  <2>4. Cut(rows) = SubSeq(rows, 1, n)
    BY <1>4 DEF Cut, n
  <2> QED
    BY <1>1, <2>2, <2>3, <2>4
<1> QED
  BY <1>3, <1>4

\* What was yielded and the read yielded next are reads of the chosen.
LEMMA AppendTaken ==
  ASSUME TypeOK, NEW i \in DOMAIN chosen
  PROVE  Append(taken, i) \in Seq(DOMAIN chosen)
BY AppendProperties DEF TypeOK

-----------------------------------------------------------------------------
(* The order of the index column.                                          *)

Ahead == {pair \in Places \X Places : Before(pair[1], pair[2])}

\* The order of the index is one: of two places one comes before the other, and not both.
LEMMA AheadOrders ==
  ASSUME NEW S \in SUBSET Places
  PROVE  Orders(Ahead, S)
<1>1. \A x \in Places : x[1] \in Nat /\ x[2] \in Nat /\ x[3] \in Nat /\ x = <<x[1], x[2], x[3]>>
  BY DEF Places
<1>2. \A x, y, z \in Places :
        /\ ~ Precedes(x, x)
        /\ Precedes(x, y) /\ Precedes(y, z) => Precedes(x, z)
  BY <1>1 DEF Precedes
<1>3. \A x, y \in Places : x = y \/ Precedes(x, y) \/ Precedes(y, x)
  <2> TAKE x, y \in Places
  <2>1. /\ x[1] \in Nat /\ x[2] \in Nat /\ x[3] \in Nat /\ x = <<x[1], x[2], x[3]>>
        /\ y[1] \in Nat /\ y[2] \in Nat /\ y[3] \in Nat /\ y = <<y[1], y[2], y[3]>>
    BY <1>1
  <2>2. CASE x[1] = y[1] /\ x[2] = y[2] /\ x[3] = y[3]
    <3>1. x = y
      BY <2>1, <2>2
    <3> QED
      BY <3>1
  <2>3. CASE ~ (x[1] = y[1] /\ x[2] = y[2] /\ x[3] = y[3])
    BY <2>1, <2>3 DEF Precedes
  <2> QED
    BY <2>2, <2>3
<1>4. \A x, y \in S : <<x, y>> \in Ahead <=> Before(x, y)
  BY DEF Ahead
<1>5. CASE request.how = "down"
  BY <1>2, <1>3, <1>4, <1>5 DEF Orders, Before
<1>6. CASE request.how # "down"
  BY <1>2, <1>3, <1>4, <1>6 DEF Orders, Before
<1> QED
  BY <1>5, <1>6

\* Rows sorted by the index are the same rows in its order.
LEMMA ByIndexIs ==
  ASSUME NEW rows \in Seq(Places)
  PROVE  /\ ByIndex(rows) = InOrder(Range(rows), Ahead)
         /\ ByIndex(rows) \in Seq(Range(rows)) /\ ByIndex(rows) \in Seq(Places)
         /\ OrderedBy(ByIndex(rows), Ahead)
         /\ Range(ByIndex(rows)) = Range(rows)
<1> DEFINE S == Range(rows)
<1>1. S \in SUBSET Places /\ IsFiniteSet(S)
  BY RangeIs
<1>2. Orders(Ahead, S)
  BY <1>1, AheadOrders
<1>3. ByIndex(rows) = InOrder(S, Ahead)
  <2>1. \A x \in S : {y \in S : Before(y, x)} = Lower(S, Ahead, x)
    BY <1>1 DEF Lower, Ahead
  <2>2. \A x \in S : Cardinality({y \in S : Before(y, x)}) = Rank(S, Ahead, x)
    BY <2>1 DEF Rank
  <2>3. \A r : (CHOOSE x \in S : Cardinality({y \in S : Before(y, x)}) = r - 1)
                 = (CHOOSE x \in S : Rank(S, Ahead, x) = r - 1)
    BY <2>2
  <2>4. ByIndex(rows)
          = [r \in 1 .. Cardinality(S) |->
               CHOOSE x \in S : Cardinality({y \in S : Before(y, x)}) = r - 1]
    BY DEF ByIndex
  <2>5. InOrder(S, Ahead) = [r \in 1 .. Cardinality(S) |-> CHOOSE x \in S : Rank(S, Ahead, x) = r - 1]
    BY DEF InOrder
  <2> HIDE DEF S
  <2> QED
    BY <2>3, <2>4, <2>5
<1>4. /\ InOrder(S, Ahead) \in Seq(S)
      /\ OrderedBy(InOrder(S, Ahead), Ahead)
      /\ \A x \in S : \E r \in 1 .. Len(InOrder(S, Ahead)) : InOrder(S, Ahead)[r] = x
  BY <1>1, <1>2, InOrderIs
<1>5. InOrder(S, Ahead) \in Seq(Places)
  BY <1>1, <1>4, SeqOfSubset
<1>6. Range(InOrder(S, Ahead)) = S
  <2>1. Range(InOrder(S, Ahead)) \in SUBSET S
    BY <1>4, RangeIs
  <2>2. \A i \in 1 .. Len(InOrder(S, Ahead)) : InOrder(S, Ahead)[i] \in Range(InOrder(S, Ahead))
    BY <1>4, RangeIs
  <2> QED
    BY <1>4, <2>1, <2>2
<1> QED
  BY <1>3, <1>4, <1>5, <1>6

\* What a scan reads of a partition is rows.
LEMMA ScanRowsAre ==
  ASSUME TypeOK, NEW p \in DOMAIN catalog.partitions
  PROVE  ScanRows(p) \in Seq(Places)
<1>1. PartitionRows(p, ScanLimit) \in Seq(Places)
  BY AskedTyped, PartitionRowsAre DEF ScanLimit, LimitOrNone
<1> QED
  BY <1>1, ByIndexIs DEF ScanRows

-----------------------------------------------------------------------------
(* Types.                                                                  *)

Answers == [status : {"none", "plan", "rows", "refused", "failed", "late"},
            rows : Seq(Places), plan : Seq(Nat \X Nat), named : BOOLEAN]
Items == [failed : BOOLEAN, rows : Seq(Places)]

AtMostOne == {s \in Seq(Items) : Len(s) <= 1}

\* No item or one is at most one.
LEMMA OneItem ==
  /\ <<>> \in AtMostOne
  /\ \A x \in Items : <<x>> \in AtMostOne
BY DEF AtMostOne

\* Every step leaves every variable what it should be.
LEMMA TypeStep ==
  ASSUME TypeOK, ChosenOnce, Next
  PROVE  TypeOK'
<1> DEFINE D == DOMAIN catalog.partitions
           N == DOMAIN chosen
<1>t. /\ catalog \in Catalogs /\ request \in Requests /\ bounds \in Bounds
      /\ at \in {"asked", "chosen", "ready", "reading", "first", "body", "scanning", "answered"}
      /\ chosen \in Seq(D) /\ indexed \in BOOLEAN
      /\ started \in Nat /\ landed \subseteq Nat /\ polling \in BOOLEAN
      /\ taken \in Seq(N) /\ answer \in Answers
      /\ counted \in [bytes : Nat, matched : Nat]
      /\ gathered \in Seq(Places) /\ sent \in Seq(Places) /\ pulled \in Seq(Places)
      /\ items \in Seq(Items) /\ Len(items) <= 1
      /\ rest \in {"reads", "describing", "nothing"}
      /\ done \in BOOLEAN /\ refused \in BOOLEAN /\ beyond \in BOOLEAN
      /\ writing \in {"none", "begin", "rows", "end"}
      /\ closed \in {"open", "whole", "short", "cut"}
  BY DEF TypeOK, Answers, Items
<1> DEFINE Keeps == UNCHANGED <<asked, chosen, indexed>>
           Pipe == started' \in Nat /\ landed' \subseteq Nat /\ polling' \in BOOLEAN /\ taken' \in Seq(N)
           Query == /\ counted' \in [bytes : Nat, matched : Nat] /\ gathered' \in Seq(Places)
                    /\ items' \in Seq(Items) /\ Len(items') <= 1
                    /\ rest' \in {"reads", "describing", "nothing"}
                    /\ done' \in BOOLEAN /\ refused' \in BOOLEAN
           Body == /\ sent' \in Seq(Places) /\ writing' \in {"none", "begin", "rows", "end"}
                   /\ closed' \in {"open", "whole", "short", "cut"}
           Ends == /\ at' \in {"asked", "chosen", "ready", "reading", "first", "body", "scanning", "answered"}
                   /\ answer' \in Answers
           Scan == pulled' \in Seq(Places) /\ beyond' \in BOOLEAN
<1>q. Keeps /\ Pipe /\ Query /\ Body /\ Ends /\ Scan => TypeOK'
  BY <1>t DEF asked, TypeOK, Answers, Items
<1>c. ASSUME UNCHANGED asked, chosen' \in Seq(D), indexed' \in BOOLEAN,
             taken = <<>>, UNCHANGED pipeline, Query, Body, Ends, Scan
      PROVE  TypeOK'
  <2>1. taken' = <<>> /\ <<>> \in Seq(DOMAIN chosen')
    BY <1>c DEF pipeline
  <2>2. taken' \in Seq(DOMAIN chosen')
    BY <2>1
  <2>3. chosen' \in Seq(DOMAIN catalog'.partitions)
    BY <1>c DEF asked
  <2> QED
    BY <1>t, <1>c, <2>2, <2>3 DEF asked, pipeline, TypeOK, Answers, Items
<1>k. /\ UNCHANGED pipeline => Pipe
      /\ UNCHANGED query => Query
      /\ UNCHANGED body => Body
      /\ UNCHANGED <<at, answer>> => Ends
      /\ UNCHANGED scan => Scan
  BY <1>t DEF pipeline, query, body, scan
<1>e. Entries \in Seq(Nat \X Nat) /\ <<>> \in Seq(Nat \X Nat) /\ <<>> \in Seq(Places)
      /\ <<>> \in Seq(D) /\ <<>> \in Seq(N)
  BY EntriesTyped
<1>i. /\ request.limit \in LimitOrNone /\ bounds.concurrency \in Nat /\ IndexBytes \in Nat
      /\ Describable \in BOOLEAN /\ AtOnce \in Nat /\ Len(chosen) \in Nat /\ Len(taken) \in Nat
  <2>1. IndexBytes \in Nat /\ AtOnce \in Nat
    BY AskedTyped DEF IndexBytes, AtOnce
  <2> QED
    BY <1>t, <2>1, AskedTyped, LenProperties DEF Describable
<1>p. Poll => Pipe
  BY <1>t, <1>i DEF Poll
<1>y. ASSUME NEW i \in N, NEW o \in BOOLEAN PROVE Yield(i, o) => Pipe
  BY <1>t, AppendTaken DEF Yield
<1>r. ASSUME NEW i \in N
      PROVE  /\ ReadNext(i) \in Seq(Places) /\ Partition(chosen[i]).bytes \in Nat
             /\ Len(ReadNext(i)) \in Nat
             /\ Cut(ReadNext(i)) \in Seq(Places)
             /\ ScanRows(chosen[i]) \in Seq(Places)
  <2>1. chosen[i] \in D /\ ReadNext(i) \in Seq(Places)
    BY AskedAre
  <2> QED
    BY <2>1, PartitionTyped, CutIs, ScanRowsAre, LenProperties
<1> HIDE DEF Pipe, Query, Body, Ends, Scan, D, N, Answers, Items
<1>1. CASE Choosing
  <2>1. CASE Resolve
    <3>1. Those([p \in D |-> p], Reached) \in Seq(D)
      <4>1. Len(catalog.partitions) \in Nat /\ D = 1 .. Len(catalog.partitions)
        BY AskedTyped, LenProperties DEF D
      <4>2. [p \in D |-> p] \in Seq(D)
        BY <4>1
      <4> QED
        BY <4>2, ThoseAre
    <3>2. taken = <<>>
      BY <2>1 DEF Resolve, ChosenOnce
    <3>3. chosen' \in Seq(D) /\ indexed' \in BOOLEAN
      BY <1>t, <2>1, <3>1 DEF Resolve, D
    <3>4. Ends
      BY <1>t, <2>1 DEF Resolve, Ends
    <3>5. UNCHANGED <<asked, pipeline, query, body, scan>>
      BY <1>1, <2>1 DEF Choosing, Resolve
    <3> QED
      BY <1>c, <1>k, <3>2, <3>3, <3>4, <3>5
  <2>2. CASE ResolveFails
    <3>1. Ends
      BY <1>e, <2>2 DEF ResolveFails, Ends, Answer, Answers
    <3>2. Keeps /\ UNCHANGED <<pipeline, query, body, scan>>
      BY <1>1, <2>2 DEF Choosing, ResolveFails
    <3> QED
      BY <1>q, <1>k, <3>1, <3>2
  <2>3. CASE Consult
    <3>1. Those(chosen, NamedByIndex) \in Seq(D)
      BY <1>t, ThoseAre
    <3>2. taken = <<>>
      BY <2>3 DEF Consult, ChosenOnce
    <3>3. chosen' \in Seq(D) /\ indexed' \in BOOLEAN
      BY <1>t, <2>3, <3>1 DEF Consult
    <3>4. Ends
      BY <1>t, <2>3 DEF Consult, Ends
    <3>5. UNCHANGED <<asked, pipeline, query, body, scan>>
      BY <1>1, <2>3 DEF Choosing, Consult
    <3> QED
      BY <1>c, <1>k, <3>2, <3>3, <3>4, <3>5
  <2> QED
    BY <1>1, <2>1, <2>2, <2>3 DEF Choosing
<1>2. CASE Lands
  <2>1. PICK i \in 1 .. Len(chosen) : Land(i) /\ UNCHANGED <<query, body, scan>>
    BY <1>2 DEF Lands
  <2>2. Pipe
    BY <1>t, <1>i, <2>1 DEF Land, Pipe
  <2>3. Keeps /\ UNCHANGED <<at, answer>>
    BY <2>1 DEF Land
  <2> QED
    BY <1>q, <1>k, <2>1, <2>2, <2>3
<1>3. CASE Querying
  <2>1. CASE Plan
    <3>1. Ends
      BY <1>e, <2>1 DEF Plan, Ends, Answer, Answers
    <3> QED
      BY <1>q, <1>k, <1>3, <2>1, <3>1 DEF Plan, Querying
  <2>2. CASE AnswerColumns
    <3>1. Ends
      BY <1>e, <2>2 DEF AnswerColumns, Ends, Answer, Answers
    <3> QED
      BY <1>q, <1>k, <1>3, <2>2, <3>1 DEF AnswerColumns, Querying
  <2>3. CASE StartCollecting
    <3>1. Ends
      <4>1. CASE Refuse
        BY <1>e, <4>1 DEF Refuse, Ends, Answer, Answers
      <4>2. CASE at' \in {"reading", "first"} /\ UNCHANGED answer
        BY <1>t, <4>2 DEF Ends
      <4> QED
        BY <2>3, <4>1, <4>2 DEF StartCollecting
    <3>2. Query
      BY <1>t, <1>i, <2>3 DEF StartCollecting, Query
    <3> QED
      BY <1>q, <1>k, <1>3, <2>3, <3>1, <3>2 DEF StartCollecting, Querying
  <2>4. CASE AwaitRead
    <3> QED
      BY <1>q, <1>k, <1>p, <1>3, <2>4 DEF AwaitRead, Querying
  <2>5. CASE CollectedAll
    <3>1. First(gathered, request.limit) \in Seq(Places)
      BY <1>t, FirstTyped
    <3>2. (SaysColumns(Range(taken)) \/ Describable) \in BOOLEAN
      BY DEF SaysColumns, Describable
    <3>3. Ends
      BY <1>e, <2>5, <3>1, <3>2 DEF CollectedAll, Gathered, Ends, Answer, Answers
    <3> QED
      BY <1>q, <1>k, <1>3, <2>5, <3>3 DEF CollectedAll, Querying
  <2>6. ASSUME NEW i \in DOMAIN chosen, Collect(i) PROVE TypeOK'
    <3> DEFINE rows == gathered \o ReadNext(i)
               after == [bytes |-> counted.bytes + Partition(chosen[i]).bytes,
                         matched |-> counted.matched + Len(ReadNext(i))]
    <3>1. rows \in Seq(Places) /\ after \in [bytes : Nat, matched : Nat]
      <4>1. ReadNext(i) \in Seq(Places) /\ Partition(chosen[i]).bytes \in Nat /\ Len(ReadNext(i)) \in Nat
        BY <1>r DEF N
      <4> QED
        BY <1>t, <4>1, ConcatProperties
    <3>2. First(rows, request.limit) \in Seq(Places)
      BY <3>1, FirstTyped
    <3>3. (SaysColumns(Range(taken')) \/ Describable) \in BOOLEAN
      BY DEF SaysColumns, Describable
    <3> HIDE DEF rows, after
    <3>4. /\ Yield(i, TRUE)
          /\ \/ Answer("failed", <<>>, <<>>, FALSE) /\ UNCHANGED <<counted, gathered>>
             \/ /\ counted' = after /\ gathered' = rows
                /\ \/ Refuse
                   \/ Gathered(taken', rows)
                   \/ UNCHANGED <<at, answer>>
          /\ UNCHANGED <<asked, chosen, indexed, items, rest, done, refused, body>>
      BY <2>6 DEF Collect, rows, after
    <3>5. Pipe
      BY <1>y, <3>4 DEF N
    <3>6. Query
      BY <1>t, <3>1, <3>4 DEF Query
    <3>7. Ends
      <4>1. CASE Answer("failed", <<>>, <<>>, FALSE)
        BY <1>e, <4>1 DEF Ends, Answer, Answers
      <4>2. CASE Refuse
        BY <1>e, <4>2 DEF Ends, Refuse, Answer, Answers
      <4>3. CASE Gathered(taken', rows)
        BY <1>e, <3>2, <3>3, <4>3 DEF Ends, Gathered, Answer, Answers
      <4>4. CASE UNCHANGED <<at, answer>>
        BY <1>k, <4>4
      <4> QED
        BY <3>4, <4>1, <4>2, <4>3, <4>4
    <3> QED
      BY <1>q, <1>k, <1>3, <3>4, <3>5, <3>6, <3>7 DEF Querying
  <2>7. ASSUME NEW i \in DOMAIN chosen, Walk(i) PROVE TypeOK'
    <3> DEFINE p == Partition(chosen[i])
               rows == ReadNext(i)
               after == [bytes |-> counted.bytes + p.bytes, matched |-> counted.matched + Len(rows)]
               later == [counted EXCEPT !.bytes = after.bytes]
    <3>1. rows \in Seq(Places) /\ after \in [bytes : Nat, matched : Nat] /\ Cut(rows) \in Seq(Places)
          /\ later \in [bytes : Nat, matched : Nat]
      <4>1. rows \in Seq(Places) /\ p.bytes \in Nat /\ Len(rows) \in Nat /\ Cut(rows) \in Seq(Places)
        BY <1>r DEF N
      <4>2. counted.bytes \in Nat /\ counted.matched \in Nat
        BY <1>t
      <4>3. after \in [bytes : Nat, matched : Nat] /\ after.bytes \in Nat
        BY <4>1, <4>2
      <4> HIDE DEF after
      <4>4. later \in [bytes : Nat, matched : Nat]
        BY <1>t, <4>3
      <4> QED
        BY <4>1, <4>3, <4>4
    <3>2. Failure \in Items /\ Batch(Cut(rows)) \in Items
      BY <1>e, <3>1 DEF Failure, Batch, Items
    <3>3. gathered \o Cut(rows) \in Seq(Places)
      BY <1>t, <3>1, ConcatProperties
    <3> HIDE DEF p, rows, after, later
    <3>4. Yield(i, Limited) /\ UNCHANGED <<asked, at, chosen, indexed, answer, body>>
      BY <2>7 DEF Walk
    <3>5. \/ /\ rest' = "describing"
             /\ UNCHANGED <<counted, gathered, items, done, refused>>
          \/ Counted(i) /\ UNCHANGED rest
      BY <2>7 DEF Walk
    <3>6. Query
      <4>1. CASE rest' = "describing" /\ UNCHANGED <<counted, gathered, items, done, refused>>
        BY <1>t, <4>1 DEF Query
      <4>2. CASE Counted(i) /\ UNCHANGED rest
        <5>1. \/ /\ items' = <<Failure>> /\ done' = TRUE
                 /\ UNCHANGED <<counted, gathered, refused>>
              \/ /\ refused' = TRUE /\ done' = TRUE
                 /\ counted' = later
                 /\ UNCHANGED <<gathered, items>>
              \/ /\ counted' = after /\ gathered' = gathered \o Cut(rows)
                 /\ (items' = <<>> \/ items' = <<Batch(Cut(rows))>>)
                 /\ done' = Enough(Len(gathered'))
                 /\ UNCHANGED refused
          BY <4>2 DEF Counted, BoundReached, p, rows, after, later
        <5>2. Enough(Len(gathered')) \in BOOLEAN
          BY DEF Enough
        <5>3. <<>> \in AtMostOne /\ <<Failure>> \in AtMostOne /\ <<Batch(Cut(rows))>> \in AtMostOne
          BY <3>2, OneItem
        <5>4. items' \in AtMostOne
          <6>1. items \in AtMostOne
            BY <1>t DEF AtMostOne
          <6> QED
            BY <5>1, <5>3, <6>1
        <5>5. counted' \in [bytes : Nat, matched : Nat] /\ gathered' \in Seq(Places)
          BY <1>t, <3>1, <3>3, <5>1
        <5>6. done' \in BOOLEAN /\ refused' \in BOOLEAN
          BY <1>t, <5>1, <5>2
        <5> QED
          BY <1>t, <4>2, <5>4, <5>5, <5>6 DEF Query, AtMostOne
      <4> QED
        BY <3>5, <4>1, <4>2
    <3>7. Pipe
      <4>1. Limited \in BOOLEAN
        BY DEF Limited
      <4> QED
        BY <1>y, <3>4, <4>1 DEF N
    <3> QED
      BY <1>q, <1>k, <1>3, <3>4, <3>6, <3>7 DEF Querying
  <2>8. CASE StartStreaming
    <3>1. Ends
      <4>1. CASE Refuse
        BY <1>e, <4>1 DEF Refuse, Ends, Answer, Answers
      <4>2. CASE at' \in {"reading", "first"} /\ UNCHANGED answer
        BY <1>t, <4>2 DEF Ends
      <4> QED
        BY <2>8, <4>1, <4>2 DEF StartStreaming
    <3>2. Query
      BY <1>t, <1>i, <2>8 DEF StartStreaming, Query
    <3> QED
      BY <1>q, <1>k, <1>3, <2>8, <3>1, <3>2 DEF StartStreaming, Querying
  <2>9. CASE AwaitLanding
    BY <1>q, <1>k, <1>p, <1>3, <2>9 DEF AwaitLanding, Querying
  <2>10. CASE WalkEnds
    <3>1. Pipe /\ Query
      BY <1>t, <2>10 DEF WalkEnds, Pipe, Query
    <3> QED
      BY <1>q, <1>k, <1>3, <2>10, <3>1 DEF WalkEnds, Querying
  <2>11. CASE Describe
    <3>1. Query
      BY <1>t, <2>11 DEF Describe, Query
    <3>2. Ends
      <4>1. (Said \/ Describable) \in BOOLEAN
        BY DEF Said, Describable, SaysColumns
      <4> QED
        BY <1>t, <2>11, <4>1 DEF Describe, Ends, Answers
    <3> QED
      BY <1>q, <1>k, <1>3, <2>11, <3>1, <3>2 DEF Describe, Querying
  <2>12. CASE FirstItem
    <3>1. Body
      BY <1>t, <2>12 DEF FirstItem, Begin, Body, body
    <3>2. Ends
      <4>1. CASE Answer("failed", <<>>, <<>>, FALSE)
        BY <1>e, <4>1 DEF Ends, Answer, Answers
      <4>2. CASE /\ at' = "body"
                 /\ answer' = [answer EXCEPT !.status = "rows", !.named = @ \/ SaysColumns(Range(taken))]
        <5>1. (answer.named \/ SaysColumns(Range(taken))) \in BOOLEAN
          BY <1>t DEF Answers, SaysColumns
        <5>2. answer' \in Answers
          <6> DEFINE named == answer.named \/ SaysColumns(Range(taken))
          <6>1. answer' = [answer EXCEPT !.status = "rows", !.named = named]
            BY <4>2
          <6>2. named \in BOOLEAN
            BY <5>1
          <6> HIDE DEF named
          <6> QED
            BY <1>t, <6>1, <6>2 DEF Answers
        <5> QED
          BY <4>2, <5>2 DEF Ends
      <4> QED
        BY <2>12, <4>1, <4>2 DEF FirstItem
    <3> QED
      BY <1>q, <1>k, <1>3, <2>12, <3>1, <3>2 DEF FirstItem, Querying
  <2>13. CASE WriteHead
    <3>1. Body
      BY <1>t, <2>13 DEF WriteHead, SendHead, Body
    <3> QED
      BY <1>q, <1>k, <1>3, <2>13, <3>1 DEF WriteHead, Querying
  <2>14. CASE WriteItem
    <3>1. Head(items) \in Items /\ Tail(items) \in Seq(Items) /\ Len(Tail(items)) <= 1
      <4>1. items # <<>>
        BY <2>14 DEF WriteItem
      <4> QED
        BY <1>t, <4>1, HeadTailProperties
    <3>2. sent \o Head(items).rows \in Seq(Places)
      <4>1. Head(items).rows \in Seq(Places)
        BY <3>1 DEF Items
      <4> QED
        BY <1>t, <4>1, ConcatProperties
    <3>3. Query
      BY <1>t, <2>14, <3>1 DEF WriteItem, Query
    <3>4. Body
      BY <1>t, <2>14, <3>2 DEF WriteItem, FinishBody, SendRows, Close, Body
    <3> QED
      BY <1>q, <1>k, <1>3, <2>14, <3>3, <3>4 DEF WriteItem, Querying
  <2>15. CASE WriteEnd
    <3>1. Body
      BY <1>t, <2>15 DEF WriteEnd, FinishBody, Close, Body
    <3> QED
      BY <1>q, <1>k, <1>3, <2>15, <3>1 DEF WriteEnd, Querying
  <2> QED
    BY <1>3, <2>1, <2>2, <2>3, <2>4, <2>5, <2>6, <2>7, <2>8, <2>9, <2>10, <2>11, <2>12, <2>13,
       <2>14, <2>15 DEF Querying
<1>4. CASE Scanning
  <2>1. CASE StartScan
    <3>1. chosen' \in Seq(D) /\ indexed' \in BOOLEAN
      BY <1>t, <2>1, ChosenFirst DEF StartScan, D
    <3>2. taken = <<>>
      BY <2>1 DEF StartScan, ChosenOnce
    <3>3. Ends
      BY <1>t, <2>1 DEF StartScan, Ends
    <3>4. Scan
      BY <1>t, <2>1 DEF StartScan, Scan
    <3> QED
      BY <1>c, <1>k, <1>4, <2>1, <3>1, <3>2, <3>3, <3>4 DEF StartScan, Scanning
  <2>2. CASE PullNext
    BY <1>q, <1>k, <1>p, <1>4, <2>2 DEF PullNext, Scanning
  <2>3. CASE ScanEnds
    <3>1. Ends
      BY <1>e, <1>t, <2>3 DEF ScanEnds, Ends, Answer, Answers
    <3> QED
      BY <1>q, <1>k, <1>4, <2>3, <3>1 DEF ScanEnds, Scanning
  <2>4. ASSUME NEW i \in DOMAIN chosen, Pull(i) PROVE TypeOK'
    <3> DEFINE rows == First(pulled \o ScanRows(chosen[i]), request.limit)
    <3>1. rows \in Seq(Places)
      <4>1. pulled \o ScanRows(chosen[i]) \in Seq(Places)
        <5>1. ScanRows(chosen[i]) \in Seq(Places)
          BY <1>r DEF N
        <5> QED
          BY <1>t, <5>1, ConcatProperties
      <4> QED
        BY <4>1, FirstTyped
    <3> HIDE DEF rows
    <3>2. /\ Yield(i, TRUE)
          /\ \/ Answer("failed", <<>>, <<>>, TRUE) /\ UNCHANGED pulled
             \/ /\ pulled' = rows
                /\ Answer("rows", pulled', <<>>, TRUE) \/ UNCHANGED <<at, answer>>
          /\ UNCHANGED <<asked, chosen, indexed, beyond>>
      BY <2>4 DEF Pull, rows
    <3>3. Scan
      BY <1>t, <3>1, <3>2 DEF Scan
    <3>4. Pipe
      BY <1>y, <3>2 DEF N
    <3>5. Ends
      <4>1. CASE Answer("failed", <<>>, <<>>, TRUE)
        BY <1>e, <4>1 DEF Ends, Answer, Answers
      <4>2. CASE pulled' = rows /\ Answer("rows", pulled', <<>>, TRUE)
        BY <1>e, <3>1, <4>2 DEF Ends, Answer, Answers
      <4>3. CASE UNCHANGED <<at, answer>>
        BY <1>k, <4>3
      <4> QED
        BY <3>2, <4>1, <4>2, <4>3
    <3> QED
      BY <1>q, <1>k, <1>4, <3>2, <3>3, <3>4, <3>5 DEF Scanning
  <2> QED
    BY <1>4, <2>1, <2>2, <2>3, <2>4 DEF Scanning
<1>5. CASE OutOfTime
  <2>1. CASE BodyCutOff
    <3>1. Body
      BY <1>t, <2>1 DEF BodyCutOff, CutOff, Close, Body
    <3> QED
      BY <1>q, <1>k, <1>5, <2>1, <3>1 DEF BodyCutOff, OutOfTime
  <2>2. CASE TimeIsUp
    <3>1. Ends
      BY <1>e, <2>2 DEF TimeIsUp, Ends, Answer, Answers
    <3> QED
      BY <1>q, <1>k, <1>5, <2>2, <3>1 DEF TimeIsUp, OutOfTime
  <2> QED
    BY <1>5, <2>1, <2>2 DEF OutOfTime
<1> QED
  BY <1>1, <1>2, <1>3, <1>4, <1>5 DEF Next

\* Every step keeps what was chosen, or is the one that chooses.
LEMMA ChosenStep ==
  ASSUME TypeOK, ChosenOnce, Next
  PROVE  ChosenOnce'
<1>s. UNCHANGED <<asked, chosen, indexed>> => Left' = Left /\ Walked' = Walked
  BY LeftStays
<1>f. UNCHANGED asked /\ Walked' = Walked =>
        /\ First(Walked, bounds.partitions)' = First(Walked, bounds.partitions)
        /\ (Len(Walked) > bounds.partitions)' = (Len(Walked) > bounds.partitions)
  BY DEF asked, First
<1> USE DEF ChosenOnce, InitQuery, InitScan, InitBody, Answer, asked, pipeline, query, body, scan
<1>l. CASE Lands
  BY <1>s, <1>f, <1>l DEF Lands, Land
<1>1. CASE Plan /\ UNCHANGED scan
  BY <1>1, <1>s, <1>f DEF Plan
<1>2. CASE AnswerColumns /\ UNCHANGED scan
  BY <1>2, <1>s, <1>f DEF AnswerColumns
<1>3. CASE StartCollecting /\ UNCHANGED scan
  BY <1>3, <1>s, <1>f DEF StartCollecting, Refuse
<1>4. CASE AwaitRead /\ UNCHANGED scan
  BY <1>4, <1>s, <1>f DEF AwaitRead, Poll
<1>5. CASE CollectedAll /\ UNCHANGED scan
  BY <1>5, <1>s, <1>f DEF CollectedAll, Gathered, Dry
<1>6. CASE StartStreaming /\ UNCHANGED scan
  BY <1>6, <1>s, <1>f DEF StartStreaming, Refuse
<1>7. CASE AwaitLanding /\ UNCHANGED scan
  BY <1>7, <1>s, <1>f DEF AwaitLanding, Poll, Wanting
<1>8. CASE WalkEnds /\ UNCHANGED scan
  BY <1>8, <1>s, <1>f DEF WalkEnds, Wanting, Dry
<1>9. CASE Describe /\ UNCHANGED scan
  BY <1>9, <1>s, <1>f DEF Describe, Wanting
<1>10. CASE FirstItem /\ UNCHANGED scan
  BY <1>10, <1>s, <1>f DEF FirstItem, Begin
<1>11. CASE WriteHead /\ UNCHANGED scan
  BY <1>11, <1>s, <1>f DEF WriteHead, SendHead
<1>12. CASE WriteItem /\ UNCHANGED scan
  BY <1>12, <1>s, <1>f DEF WriteItem, FinishBody, SendRows, Close
<1>13. CASE WriteEnd /\ UNCHANGED scan
  BY <1>13, <1>s, <1>f DEF WriteEnd, FinishBody, Close
<1>14. ASSUME NEW i \in DOMAIN chosen, Collect(i) /\ UNCHANGED scan PROVE ChosenOnce'
  BY <1>14, <1>s, <1>f DEF Collect, Yield, Refuse, Gathered
<1>15. ASSUME NEW i \in DOMAIN chosen, Walk(i) /\ UNCHANGED scan PROVE ChosenOnce'
  BY <1>15, <1>s, <1>f DEF Walk, Wanting, Yield
<1>q. CASE Querying
  BY <1>q, <1>1, <1>2, <1>3, <1>4, <1>5, <1>6, <1>7, <1>8, <1>9, <1>10, <1>11, <1>12, <1>13, <1>14, <1>15 DEF Querying
<1>16. CASE PullNext /\ UNCHANGED <<query, body>>
  BY <1>16, <1>s, <1>f DEF PullNext, Poll
<1>17. CASE ScanEnds /\ UNCHANGED <<query, body>>
  BY <1>17, <1>s, <1>f DEF ScanEnds, Dry
<1>18. ASSUME NEW i \in DOMAIN chosen, Pull(i) /\ UNCHANGED <<query, body>> PROVE ChosenOnce'
  BY <1>18, <1>s, <1>f DEF Pull, Yield
<1>19. CASE ResolveFails /\ UNCHANGED <<query, body, scan>>
  BY <1>19, <1>s, <1>f DEF ResolveFails
<1>20. CASE BodyCutOff /\ UNCHANGED scan
  BY <1>20, <1>s, <1>f DEF BodyCutOff, CutOff, Close
<1>21. CASE TimeIsUp /\ UNCHANGED scan
  BY <1>21, <1>s, <1>f DEF TimeIsUp
<1>a. CASE StartScan /\ UNCHANGED <<query, body>>
  <2>1. chosen = Left /\ taken = <<>> /\ answer = Nothing /\ InitBody /\ request.how \in Scans
    BY <1>a DEF StartScan, ChosenOnce
  <2>2. Left' = Left /\ Walked' = Walked
    BY <1>a, LeftStays DEF StartScan
  <2>3. chosen' = First(Walked, bounds.partitions)
    BY <1>a, <2>1 DEF StartScan, Walked
  <2>4. Len(chosen) = Len(Walked)
    BY <2>1 DEF Walked, Reverse
  <2> QED
    BY <1>a, <1>f, <2>1, <2>2, <2>3, <2>4 DEF StartScan
<1>b. CASE Resolve /\ UNCHANGED <<query, body, scan>>
  <2>1. ~ indexed' /\ catalog' = catalog
    BY <1>b DEF Resolve, ChosenOnce, asked
  <2>2. chosen' = Left'
    BY <1>b, <2>1 DEF Resolve, Left, Those, Reached, NamedByIndex, Partition
  <2> QED
    BY <1>b, <2>1, <2>2 DEF Resolve
<1>c. CASE Consult /\ UNCHANGED <<query, body, scan>>
  <2>1. ~ indexed /\ catalog' = catalog /\ chosen = Left
    BY <1>c DEF Consult, ChosenOnce, asked
  <2>2. chosen' = Left'
    BY <1>c, <2>1 DEF Consult, Left, Those, Reached, NamedByIndex, Partition
  <2> QED
    BY <1>c, <2>2 DEF Consult
<1> QED
  BY <1>l, <1>q, <1>a, <1>b, <1>c, <1>16, <1>17, <1>18, <1>19, <1>20, <1>21 DEF Next, Choosing, Scanning, OutOfTime

\* One more yielded.
LEMMA TakenOneMore ==
  ASSUME TypeOK, TakenInTurn, NEW i \in DOMAIN chosen, NEW o \in BOOLEAN, Yield(i, o)
  PROVE  /\ taken' = Append(taken, i)
         /\ Len(taken) \in Nat /\ Len(taken') = Len(taken) + 1 /\ DOMAIN taken = 1 .. Len(taken)
         /\ DOMAIN taken' = 1 .. (Len(taken) + 1)
         /\ \A j \in 1 .. Len(taken) : taken'[j] = taken[j] /\ taken[j] # i
         /\ taken'[Len(taken) + 1] = i
         /\ o = TRUE => i = Len(taken) + 1
         /\ \A j, k \in DOMAIN taken' : taken'[j] = taken'[k] => j = k
         /\ o = TRUE /\ (\A j \in DOMAIN taken : taken[j] = j) => \A j \in DOMAIN taken' : taken'[j] = j
<1>1. /\ taken' = Append(taken, i) /\ i \notin Range(taken)
      /\ o = TRUE => i = Len(taken) + 1
  BY DEF Yield, InTurn
<1>2. taken \in Seq(DOMAIN chosen) /\ Len(taken) \in Nat /\ DOMAIN taken = 1 .. Len(taken)
  BY LenProperties DEF TypeOK
<1>3. \A j \in 1 .. Len(taken) : taken[j] # i
  BY <1>1, <1>2 DEF Range
<1> DEFINE D == DOMAIN chosen
<1> HIDE DEF D
<1>4. /\ Len(taken') = Len(taken) + 1 /\ DOMAIN taken' = 1 .. (Len(taken) + 1)
      /\ \A j \in 1 .. Len(taken) : taken'[j] = taken[j]
      /\ taken'[Len(taken) + 1] = i
  <2>1. taken \in Seq(D) /\ i \in D
    BY <1>2 DEF D
  <2>2. Append(taken, i) \in Seq(D)
    BY <2>1, AppendProperties
  <2> QED
    BY <1>1, <1>2, <2>1, <2>2, AppendProperties, LenProperties
<1>5. \A j, k \in DOMAIN taken : taken[j] = taken[k] => j = k
  BY DEF TakenInTurn
<1>6. \A j, k \in DOMAIN taken' : taken'[j] = taken'[k] => j = k
  <2> TAKE j, k \in DOMAIN taken'
  <2> HAVE taken'[j] = taken'[k]
  <2>1. j \in 1 .. (Len(taken) + 1) /\ k \in 1 .. (Len(taken) + 1)
    BY <1>4
  <2>2. CASE j = Len(taken) + 1 \/ k = Len(taken) + 1
    BY <1>2, <1>3, <1>4, <2>1, <2>2
  <2>3. CASE j # Len(taken) + 1 /\ k # Len(taken) + 1
    BY <1>2, <1>4, <1>5, <2>1, <2>3
  <2> QED
    BY <2>2, <2>3
<1>7. o = TRUE /\ (\A j \in DOMAIN taken : taken[j] = j) => \A j \in DOMAIN taken' : taken'[j] = j
  <2> HAVE o = TRUE /\ (\A j \in DOMAIN taken : taken[j] = j)
  <2> TAKE j \in DOMAIN taken'
  <2>1. j \in 1 .. (Len(taken) + 1)
    BY <1>4
  <2>2. CASE j = Len(taken) + 1
    BY <1>1, <1>4, <2>2
  <2>3. CASE j # Len(taken) + 1
    BY <1>2, <1>4, <2>1, <2>3
  <2> QED
    BY <2>2, <2>3
<1> QED
  BY <1>1, <1>2, <1>3, <1>4, <1>6, <1>7

\* Every step yields no read twice, and each in its turn where the order matters.
LEMMA TakenStep ==
  ASSUME TypeOK, ChosenOnce, TakenInTurn, Next
  PROVE  TakenInTurn'
<1>1. ASSUME taken = <<>>, UNCHANGED taken PROVE TakenInTurn'
  BY <1>1 DEF TakenInTurn
<1>2. ASSUME UNCHANGED <<asked, taken>>, at' \in {"reading", "scanning"} => at' = at
      PROVE  TakenInTurn'
  BY <1>2 DEF TakenInTurn, Limited, asked
<1>3. ASSUME NEW i \in DOMAIN chosen, NEW o \in BOOLEAN, Yield(i, o), UNCHANGED asked,
             at' \in {"reading", "scanning"} => at' = at,
             at \in {"reading", "scanning"} \/ Limited => o = TRUE
      PROVE  TakenInTurn'
  <2>1. \A j, k \in DOMAIN taken' : taken'[j] = taken'[k] => j = k
    BY <1>3, TakenOneMore
  <2>2. ASSUME at' \in {"reading", "scanning"} \/ Limited' PROVE \A j \in DOMAIN taken' : taken'[j] = j
    <3>1. at \in {"reading", "scanning"} \/ Limited
      BY <1>3, <2>2 DEF Limited, asked
    <3>2. o = TRUE /\ \A j \in DOMAIN taken : taken[j] = j
      BY <1>3, <3>1 DEF TakenInTurn
    <3>3. /\ Len(taken) \in Nat /\ DOMAIN taken = 1 .. Len(taken)
          /\ DOMAIN taken' = 1 .. (Len(taken) + 1)
          /\ \A j \in 1 .. Len(taken) : taken'[j] = taken[j]
      BY <1>3, TakenOneMore
    <3>4. taken'[Len(taken) + 1] = i
      BY <1>3, TakenOneMore
    <3>5. i = Len(taken) + 1
      BY <1>3, <3>2 DEF Yield, InTurn
    <3> QED
      BY <3>2, <3>3, <3>4, <3>5
  <2> QED
    BY <2>1, <2>2 DEF TakenInTurn
<1>4. CASE Choosing
  BY <1>1, <1>2, <1>4 DEF Choosing, Resolve, ResolveFails, Consult, ChosenOnce, Answer, pipeline
<1>5. CASE Lands
  BY <1>2, <1>5 DEF Lands, Land
<1>6. CASE OutOfTime
  BY <1>2, <1>6 DEF OutOfTime, BodyCutOff, TimeIsUp, Answer, pipeline
<1>7. CASE Scanning
  <2>1. CASE StartScan
    BY <1>1, <2>1 DEF StartScan, ChosenOnce, pipeline
  <2>2. CASE PullNext \/ ScanEnds
    BY <1>2, <2>2 DEF PullNext, ScanEnds, Poll, Answer, pipeline
  <2>3. ASSUME NEW i \in DOMAIN chosen, Pull(i) PROVE TakenInTurn'
    <3>1. /\ Yield(i, TRUE) /\ UNCHANGED asked
          /\ at' \in {"reading", "scanning"} => at' = at
      BY <2>3 DEF Pull, Answer
    <3> QED
      BY <1>3, <3>1
  <2> QED
    BY <1>7, <2>1, <2>2, <2>3 DEF Scanning
<1>8. CASE Querying
  <2>1. CASE StartCollecting
    BY <1>1, <2>1 DEF StartCollecting, ChosenOnce, pipeline
  <2>2. CASE Plan \/ AnswerColumns \/ AwaitRead \/ CollectedAll
    BY <1>2, <2>2 DEF Plan, AnswerColumns, AwaitRead, CollectedAll, Gathered, Poll, Answer, pipeline
  <2>3. CASE StartStreaming
    BY <1>2, <2>3 DEF StartStreaming, Refuse, Answer, pipeline
  <2>4. CASE AwaitLanding \/ WalkEnds \/ Describe
    BY <1>2, <2>4 DEF AwaitLanding, WalkEnds, Describe, Poll, pipeline
  <2>5. CASE FirstItem
    BY <1>2, <2>5 DEF FirstItem, Answer, pipeline
  <2>6. CASE WriteHead \/ WriteItem \/ WriteEnd
    BY <1>2, <2>6 DEF WriteHead, WriteItem, WriteEnd, pipeline
  <2>7. ASSUME NEW i \in DOMAIN chosen, Collect(i) PROVE TakenInTurn'
    <3>1. /\ Yield(i, TRUE) /\ UNCHANGED asked
          /\ at' \in {"reading", "scanning"} => at' = at
      BY <2>7 DEF Collect, Answer, Refuse, Gathered
    <3> QED
      BY <1>3, <3>1
  <2>8. ASSUME NEW i \in DOMAIN chosen, Walk(i) PROVE TakenInTurn'
    <3>1. /\ Yield(i, Limited) /\ UNCHANGED <<asked, at>> /\ Limited \in BOOLEAN
      BY <2>8 DEF Walk, Limited
    <3>2. at \notin {"reading", "scanning"}
      BY <2>8 DEF Walk, Wanting, ChosenOnce, InitBody
    <3> QED
      BY <1>3, <3>1, <3>2
  <2> QED
    BY <1>8, <2>1, <2>2, <2>3, <2>4, <2>5, <2>6, <2>7, <2>8 DEF Querying
<1> QED
  BY <1>4, <1>5, <1>6, <1>7, <1>8 DEF Next

\* Every plan an answer carries is of what was chosen.
LEMMA PlannedStep ==
  ASSUME TypeOK, ChosenOnce, Planned, Next
  PROVE  Planned'
<1>1. ASSUME UNCHANGED <<asked, chosen, indexed>>,
             \/ answer'.status = answer.status /\ answer'.plan = answer.plan
             \/ answer'.status \notin {"plan", "refused"}
             \/ at \in {"ready", "reading", "first"} /\ answer'.plan = Entries
             \/ request.how \notin Queries
      PROVE  Planned'
  <2>1. Left' = Left /\ Entries' = Entries /\ chosen' = chosen /\ request' = request
    BY <1>1, Stays DEF asked
  <2>2. at \in {"ready", "reading", "first"} => chosen = Left
    BY DEF ChosenOnce
  <2> QED
    BY <1>1, <2>1, <2>2 DEF Planned
<1>2. ASSUME UNCHANGED asked, answer' = answer, answer = Nothing PROVE Planned'
  BY <1>2 DEF Planned, Nothing
<1>a. ASSUME NEW st, NEW rw, NEW pl, NEW nm, Answer(st, rw, pl, nm)
      PROVE  answer'.status = st /\ answer'.plan = pl
  BY <1>a DEF Answer
<1>4. CASE Choosing
  <2>1. CASE Resolve \/ Consult
    BY <1>2, <2>1 DEF Resolve, Consult, ChosenOnce
  <2>2. CASE ResolveFails
    BY <1>1, <1>a, <2>2 DEF ResolveFails
  <2> QED
    BY <1>4, <2>1, <2>2 DEF Choosing
<1>5. CASE Lands
  BY <1>1, <1>5 DEF Lands, Land
<1>6. CASE OutOfTime
  BY <1>1, <1>a, <1>6 DEF OutOfTime, BodyCutOff, TimeIsUp
<1>7. CASE Scanning
  <2>1. CASE StartScan
    BY <1>2, <2>1 DEF StartScan, ChosenOnce
  <2>2. CASE PullNext
    BY <1>1, <2>2 DEF PullNext
  <2>3. CASE ScanEnds
    <3>1. request.how \notin Queries /\ UNCHANGED <<asked, chosen, indexed>>
      BY <2>3 DEF ScanEnds, ChosenOnce, Scans, Queries, Streams
    <3> QED
      BY <1>1, <3>1
  <2>4. ASSUME NEW i \in DOMAIN chosen, Pull(i) PROVE Planned'
    BY <1>1, <1>a, <2>4 DEF Pull
  <2> QED
    BY <1>7, <2>1, <2>2, <2>3, <2>4 DEF Scanning
<1>8. CASE Querying
  <2>1. CASE Plan
    BY <1>1, <1>a, <2>1 DEF Plan
  <2>2. CASE AnswerColumns
    BY <1>1, <1>a, <2>2 DEF AnswerColumns
  <2>3. CASE StartCollecting
    BY <1>1, <1>a, <2>3 DEF StartCollecting, Refuse
  <2>4. CASE AwaitRead \/ AwaitLanding \/ WalkEnds \/ WriteHead \/ WriteItem \/ WriteEnd
    BY <1>1, <2>4 DEF AwaitRead, AwaitLanding, WalkEnds, WriteHead, WriteItem, WriteEnd
  <2>5. CASE CollectedAll
    BY <1>1, <1>a, <2>5 DEF CollectedAll, Gathered
  <2>6. CASE StartStreaming
    BY <1>1, <1>a, <2>6 DEF StartStreaming, Refuse
  <2>7. CASE Describe
    BY <1>1, <2>7 DEF Describe, TypeOK
  <2>8. CASE FirstItem
    <3>1. answer'.status \notin {"plan", "refused"}
      <4>1. CASE answer' = [answer EXCEPT !.status = "rows", !.named = @ \/ SaysColumns(Range(taken))]
        BY <4>1 DEF TypeOK
      <4>2. CASE Answer("failed", <<>>, <<>>, FALSE)
        BY <1>a, <4>2
      <4> QED
        BY <2>8, <4>1, <4>2 DEF FirstItem
    <3> QED
      BY <1>1, <2>8, <3>1 DEF FirstItem
  <2>9. ASSUME NEW i \in DOMAIN chosen, Collect(i) PROVE Planned'
    <3>1. at = "reading" /\ UNCHANGED <<asked, chosen, indexed>>
      BY <2>9 DEF Collect
    <3>2. \/ Answer("failed", <<>>, <<>>, FALSE)
          \/ Refuse
          \/ \E rows, named : Answer("rows", rows, <<>>, named)
          \/ UNCHANGED answer
      BY <2>9 DEF Collect, Gathered
    <3> QED
      BY <1>1, <1>a, <3>1, <3>2 DEF Refuse
  <2>10. ASSUME NEW i \in DOMAIN chosen, Walk(i) PROVE Planned'
    BY <1>1, <2>10 DEF Walk
  <2> QED
    BY <1>8, <2>1, <2>2, <2>3, <2>4, <2>5, <2>6, <2>7, <2>8, <2>9, <2>10 DEF Querying
<1> QED
  BY <1>4, <1>5, <1>6, <1>7, <1>8 DEF Next

-----------------------------------------------------------------------------
(* What reads come to.                                                     *)

RowCounts == [j \in 1 .. Len(chosen) |-> Len(ReadNext(j))]
ByteCounts == [j \in 1 .. Len(chosen) |-> Partition(chosen[j]).bytes]

\* Rows and bytes are counted in naturals.
LEMMA CountsTyped ==
  ASSUME TypeOK
  PROVE  \A j \in 1 .. Len(chosen) :
           /\ RowCounts[j] = Len(ReadNext(j)) /\ RowCounts[j] \in Nat
           /\ ByteCounts[j] = Partition(chosen[j]).bytes /\ ByteCounts[j] \in Nat
<1> TAKE j \in 1 .. Len(chosen)
<1>1. ReadNext(j) \in Seq(Places) /\ chosen[j] \in DOMAIN catalog.partitions
  BY AskedAre
<1>2. Len(ReadNext(j)) \in Nat /\ Partition(chosen[j]).bytes \in Nat
  BY <1>1, LenProperties, PartitionTyped
<1> QED
  BY <1>2 DEF RowCounts, ByteCounts

\* The first k of the chosen.
LEMMA UpToAre ==
  ASSUME TypeOK, NEW k \in 0 .. Len(chosen)
  PROVE  /\ RowsUpTo(k) = SumFunctionOnSet(RowCounts, 1 .. k) /\ RowsUpTo(k) \in Nat
         /\ BytesUpTo(k) = SumFunctionOnSet(ByteCounts, 1 .. k) /\ BytesUpTo(k) \in Nat
         /\ RowsUpTo(k) = Len(FlattenSeq(Leading(Asked, k)))
         /\ FlattenSeq(Leading(Asked, k)) \in Seq(Places)
         /\ k = 0 => RowsUpTo(k) = 0 /\ BytesUpTo(k) = 0 /\ FlattenSeq(Leading(Asked, k)) = <<>>
         /\ k < Len(chosen) => /\ RowsUpTo(k + 1) = RowsUpTo(k) + Len(ReadNext(k + 1))
                               /\ BytesUpTo(k + 1) = BytesUpTo(k) + Partition(chosen[k + 1]).bytes
                               /\ FlattenSeq(Leading(Asked, k + 1))
                                    = FlattenSeq(Leading(Asked, k)) \o ReadNext(k + 1)
<1> DEFINE n == Len(chosen)
<1>1. /\ Asked \in Seq(Seq(Places)) /\ Len(Asked) = n /\ n \in Nat
      /\ \A i \in 1 .. n : Asked[i] = ReadNext(i)
  BY AskedAre
<1>2. \A j \in 1 .. n : /\ RowCounts[j] = Len(ReadNext(j)) /\ RowCounts[j] \in Nat
                        /\ ByteCounts[j] = Partition(chosen[j]).bytes /\ ByteCounts[j] \in Nat
  BY CountsTyped
<1> HIDE DEF n
<1>3. \A i \in 0 .. n : /\ RowsUpTo(i) = SumFunction([j \in 1 .. i |-> RowCounts[j]])
                        /\ BytesUpTo(i) = SumFunction([j \in 1 .. i |-> ByteCounts[j]])
  <2> TAKE i \in 0 .. n
  <2>1. \A j \in 1 .. i : j \in 1 .. n
    BY <1>1
  <2>2. [j \in 1 .. i |-> Len(ReadNext(j))] = [j \in 1 .. i |-> RowCounts[j]]
    BY <1>2, <2>1
  <2>3. [j \in 1 .. i |-> Partition(chosen[j]).bytes] = [j \in 1 .. i |-> ByteCounts[j]]
    BY <1>2, <2>1
  <2> QED
    BY <2>2, <2>3 DEF RowsUpTo, BytesUpTo
<1>4. \A i \in 0 .. n :
        /\ SumFunction([j \in 1 .. i |-> RowCounts[j]]) = SumFunctionOnSet(RowCounts, 1 .. i)
        /\ SumFunctionOnSet(RowCounts, 1 .. i) \in Nat
        /\ i = 0 => SumFunctionOnSet(RowCounts, 1 .. i) = 0
        /\ i < n => SumFunctionOnSet(RowCounts, 1 .. (i + 1))
                      = SumFunctionOnSet(RowCounts, 1 .. i) + RowCounts[i + 1]
  <2>1. n \in Nat /\ \A j \in 1 .. n : RowCounts[j] \in Nat
    BY <1>1, <1>2
  <2> QED
    BY ONLY <2>1, SumsUpTo
<1>5. \A i \in 0 .. n :
        /\ SumFunction([j \in 1 .. i |-> ByteCounts[j]]) = SumFunctionOnSet(ByteCounts, 1 .. i)
        /\ SumFunctionOnSet(ByteCounts, 1 .. i) \in Nat
        /\ i = 0 => SumFunctionOnSet(ByteCounts, 1 .. i) = 0
        /\ i < n => SumFunctionOnSet(ByteCounts, 1 .. (i + 1))
                      = SumFunctionOnSet(ByteCounts, 1 .. i) + ByteCounts[i + 1]
  <2>1. n \in Nat /\ \A j \in 1 .. n : ByteCounts[j] \in Nat
    BY <1>1, <1>2
  <2> QED
    BY ONLY <2>1, SumsUpTo
<1>6. /\ FlattenSeq(Leading(Asked, k)) \in Seq(Places)
      /\ k = 0 => FlattenSeq(Leading(Asked, k)) = <<>>
      /\ k < n => FlattenSeq(Leading(Asked, k + 1)) = FlattenSeq(Leading(Asked, k)) \o ReadNext(k + 1)
  <2>1. k \in 0 .. Len(Asked)
    BY <1>1 DEF n
  <2>2. /\ FlattenSeq(Leading(Asked, k)) \in Seq(Places)
        /\ k = 0 => FlattenSeq(Leading(Asked, k)) = <<>>
        /\ k < Len(Asked) => FlattenSeq(Leading(Asked, k + 1)) = FlattenSeq(Leading(Asked, k)) \o Asked[k + 1]
    BY <1>1, <2>1, FlattenUpTo
  <2>3. k < n => Asked[k + 1] = ReadNext(k + 1)
    BY <1>1, <2>1
  <2> QED
    BY <1>1, <2>2, <2>3
<1>7. RowsUpTo(k) = Len(FlattenSeq(Leading(Asked, k)))
  <2>1. k \in 0 .. Len(Asked)
    BY <1>1 DEF n
  <2>2. Len(FlattenSeq(Leading(Asked, k)))
          = SumFunctionOnSet([j \in 1 .. Len(Asked) |-> Len(Asked[j])], 1 .. k)
    BY <1>1, <2>1, FlattenLength
  <2>3. [j \in 1 .. Len(Asked) |-> Len(Asked[j])] = RowCounts
    BY <1>1 DEF RowCounts, n
  <2>4. k \in 0 .. n
    BY <1>1, <2>1
  <2> QED
    BY <1>3, <1>4, <2>2, <2>3, <2>4
<1>8. k \in 0 .. n /\ (k < n => k + 1 \in 0 .. n /\ k + 1 \in 1 .. n)
  BY <1>1 DEF n
<1>9. /\ RowsUpTo(k) = SumFunctionOnSet(RowCounts, 1 .. k) /\ RowsUpTo(k) \in Nat
      /\ BytesUpTo(k) = SumFunctionOnSet(ByteCounts, 1 .. k) /\ BytesUpTo(k) \in Nat
      /\ k = 0 => RowsUpTo(k) = 0 /\ BytesUpTo(k) = 0
  <2>1. k \in 0 .. n
    BY <1>8
  <2>2. /\ RowsUpTo(k) = SumFunctionOnSet(RowCounts, 1 .. k) /\ RowsUpTo(k) \in Nat
        /\ k = 0 => RowsUpTo(k) = 0
    BY <1>3, <1>4, <2>1
  <2>3. /\ BytesUpTo(k) = SumFunctionOnSet(ByteCounts, 1 .. k) /\ BytesUpTo(k) \in Nat
        /\ k = 0 => BytesUpTo(k) = 0
    BY <1>3, <1>5, <2>1
  <2> QED
    BY <2>2, <2>3
<1>10. k < n => /\ RowsUpTo(k + 1) = RowsUpTo(k) + Len(ReadNext(k + 1))
                /\ BytesUpTo(k + 1) = BytesUpTo(k) + Partition(chosen[k + 1]).bytes
  <2> HAVE k < n
  <2>1. k + 1 \in 0 .. n /\ k + 1 \in 1 .. n /\ k \in 0 .. n
    BY <1>8
  <2>2. /\ RowsUpTo(k + 1) = SumFunctionOnSet(RowCounts, 1 .. (k + 1))
        /\ BytesUpTo(k + 1) = SumFunctionOnSet(ByteCounts, 1 .. (k + 1))
    BY <1>3, <1>4, <1>5, <2>1
  <2>3. /\ SumFunctionOnSet(RowCounts, 1 .. (k + 1)) = RowsUpTo(k) + RowCounts[k + 1]
        /\ SumFunctionOnSet(ByteCounts, 1 .. (k + 1)) = BytesUpTo(k) + ByteCounts[k + 1]
    BY <1>4, <1>5, <1>9, <2>1
  <2>4. RowCounts[k + 1] = Len(ReadNext(k + 1)) /\ ByteCounts[k + 1] = Partition(chosen[k + 1]).bytes
    BY <1>2, <2>1
  <2> QED
    BY <2>2, <2>3, <2>4
<1> QED
  BY <1>6, <1>7, <1>9, <1>10 DEF n

\* The first k yielded in order are the first k of the chosen.
LEMMA InOrderTaken ==
  ASSUME TypeOK, \A j \in DOMAIN taken : taken[j] = j
  PROVE  /\ Len(taken) \in 0 .. Len(chosen)
         /\ \A k \in 0 .. Len(taken) :
              /\ TakenReads(k) = FlattenSeq(Leading(Asked, k))
              /\ TakenRows(k) = RowsUpTo(k) /\ TakenBytes(k) = BytesUpTo(k)
<1>1. /\ taken \in Seq(DOMAIN chosen) /\ Len(taken) \in Nat /\ DOMAIN taken = 1 .. Len(taken)
      /\ \A j \in 1 .. Len(taken) : taken[j] \in 1 .. Len(chosen)
  BY AskedAre, LenProperties, ElementOfSeq DEF TypeOK
<1>2. Len(chosen) \in Nat /\ Len(Asked) = Len(chosen) /\ \A i \in 1 .. Len(chosen) : Asked[i] = ReadNext(i)
  BY AskedAre
<1>3. Len(taken) \in 0 .. Len(chosen)
  <2>1. CASE Len(taken) = 0
    BY <1>2, <2>1
  <2>2. CASE Len(taken) # 0
    <3>1. Len(taken) \in 1 .. Len(taken)
      BY <1>1, <2>2
    <3>2. taken[Len(taken)] = Len(taken)
      BY <1>1, <3>1
    <3> QED
      BY <1>1, <1>2, <3>1, <3>2
  <2> QED
    BY <2>1, <2>2
<1>4. ASSUME NEW k \in 0 .. Len(taken)
      PROVE  /\ TakenReads(k) = FlattenSeq(Leading(Asked, k))
             /\ TakenRows(k) = RowsUpTo(k) /\ TakenBytes(k) = BytesUpTo(k)
  <2>1. \A j \in 1 .. k : taken[j] = j /\ j \in 1 .. Len(chosen)
    BY <1>1, <1>2, <1>3
  <2>2. \A j \in 1 .. k : ReadNext(taken[j]) = Asked[j]
    BY <1>2, <2>1
  <2>3. Leading(Asked, k) = [j \in 1 .. k |-> ReadNext(taken[j])]
    BY <2>2 DEF Leading
  <2>4. \A j \in 1 .. k : /\ ReadNext(taken[j]) = ReadNext(j)
                          /\ Partition(chosen[taken[j]]).bytes = Partition(chosen[j]).bytes
    BY <2>1
  <2>5. /\ [j \in 1 .. k |-> Len(ReadNext(taken[j]))] = [j \in 1 .. k |-> Len(ReadNext(j))]
        /\ [j \in 1 .. k |-> Partition(chosen[taken[j]]).bytes] = [j \in 1 .. k |-> Partition(chosen[j]).bytes]
    BY <2>4
  <2> QED
    BY <2>3, <2>5 DEF TakenReads, TakenRows, TakenBytes, RowsUpTo, BytesUpTo
<1> QED
  BY <1>3, <1>4

-----------------------------------------------------------------------------
(* The verdict.                                                            *)

FineUpTo(k) == \A j \in 1 .. k : ~ Fails(j) /\ ~ GoesOver(j) /\ ~ Enough(RowsUpTo(j))

AsksNoRow == request.limit = 0 /\ catalog.common /\ request.how = "collected"

\* The first of the chosen that fails, goes over a bound or is enough says what the request comes to.
LEMMA VerdictAt ==
  ASSUME TypeOK, ~ TooManyPartitions, ~ AsksNoRow, NEW k \in 1 .. Len(chosen), FineUpTo(k - 1)
  PROVE  /\ Fails(k) => Verdict = "failed"
         /\ ~ Fails(k) /\ GoesOver(k) => Verdict = "refused"
         /\ ~ Fails(k) /\ ~ GoesOver(k) /\ Enough(RowsUpTo(k)) => Verdict = "rows"
<1> DEFINE n == Len(chosen)
           stops == {i \in Needed : Fails(i) \/ GoesOver(i)}
<1>1. n \in Nat /\ DOMAIN chosen = 1 .. n /\ k \in 1 .. n
  BY AskedAre
<1>2. Verdict = IF stops = {} THEN "rows" ELSE IF Fails(Min(stops)) THEN "failed" ELSE "refused"
  BY DEF Verdict, AsksNoRow
<1>3. \A j \in 1 .. (k - 1) : ~ Fails(j) /\ ~ GoesOver(j) /\ ~ Enough(RowsUpTo(j))
  BY DEF FineUpTo
<1>4. k \in Needed
  <2>1. \A j \in 1 .. (k - 1) : Limited => RowsUpTo(j) < request.limit
    <3> TAKE j \in 1 .. (k - 1)
    <3> HAVE Limited
    <3>1. ~ (RowsUpTo(j) >= request.limit)
      BY <1>3 DEF Enough
    <3>2. RowsUpTo(j) \in Nat
      <4>1. j \in 0 .. Len(chosen)
        BY <1>1
      <4> QED
        BY <4>1, UpToAre
    <3>3. request.limit \in Nat
      BY AskedTyped DEF Limited, LimitOrNone
    <3> QED
      BY <3>1, <3>2, <3>3
  <2> QED
    BY <1>1, <2>1 DEF Needed
<1>5. \A i \in stops : i \in 1 .. n /\ ~ (i < k)
  <2> TAKE i \in stops
  <2>1. i \in 1 .. n /\ (Fails(i) \/ GoesOver(i))
    BY <1>1 DEF Needed
  <2>2. CASE i < k
    <3>1. i \in 1 .. (k - 1)
      BY <1>1, <2>1, <2>2
    <3> QED
      BY <1>3, <2>1, <3>1
  <2> QED
    BY <2>1, <2>2
<1>6. ASSUME Fails(k) \/ GoesOver(k) PROVE stops # {} /\ Min(stops) = k
  <2>1. k \in stops
    BY <1>4, <1>6
  <2>2. \A i \in stops : i \in Nat /\ k <= i
    BY <1>1, <1>5
  <2> HIDE DEF stops
  <2>3. stops \in SUBSET Nat
    BY <2>2
  <2>4. Min(stops) \in stops /\ \A i \in stops : Min(stops) <= i
    BY <2>1, <2>3, MinIs
  <2>5. Min(stops) <= k /\ k <= Min(stops) /\ Min(stops) \in Nat
    BY <2>1, <2>2, <2>4
  <2> QED
    BY <1>1, <2>1, <2>5
<1>7. ASSUME ~ Fails(k), ~ GoesOver(k), Enough(RowsUpTo(k)) PROVE stops = {}
  <2> SUFFICES ASSUME NEW i \in stops PROVE FALSE
    OBVIOUS
  <2>1. i \in 1 .. n /\ ~ (i < k) /\ i # k
    BY <1>5, <1>7
  <2>2. k \in 1 .. (i - 1)
    BY <1>1, <2>1
  <2>3. Limited => RowsUpTo(k) < request.limit
    BY <2>2 DEF Needed
  <2>4. Limited /\ RowsUpTo(k) >= request.limit
    BY <1>7 DEF Enough
  <2>5. RowsUpTo(k) \in Nat /\ request.limit \in Nat
    <3>1. k \in 0 .. Len(chosen)
      BY <1>1
    <3> QED
      BY <2>4, <3>1, UpToAre, AskedTyped DEF Limited, LimitOrNone
  <2> QED
    BY <2>3, <2>4, <2>5
<1> HIDE DEF stops
<1>8. CASE Fails(k)
  BY <1>2, <1>6, <1>8
<1>9. CASE ~ Fails(k) /\ GoesOver(k)
  BY <1>2, <1>6, <1>9
<1>10. CASE ~ Fails(k) /\ ~ GoesOver(k)
  BY <1>2, <1>7, <1>10
<1> QED
  BY <1>8, <1>9, <1>10

\* Where none of them does, the request comes to rows.
LEMMA VerdictAll ==
  ASSUME TypeOK, ~ TooManyPartitions, FineUpTo(Len(chosen))
  PROVE  Verdict = "rows"
<1>1. DOMAIN chosen = 1 .. Len(chosen)
  BY AskedAre
<1>2. {i \in Needed : Fails(i) \/ GoesOver(i)} = {}
  BY <1>1 DEF Needed, FineUpTo
<1> QED
  BY <1>2 DEF Verdict

-----------------------------------------------------------------------------
(* Reads in order.                                                         *)

\* A limit is a number, or there is none.
LEMMA LimitIs ==
  ASSUME TypeOK
  PROVE  (Limited /\ request.limit \in Nat) \/ (~ Limited /\ request.limit = NoLimit)
BY AskedTyped DEF Limited, LimitOrNone

\* Once the rows are enough, or all the chosen were read, they begin with the answer.
LEMMA EnoughIsTheAnswer ==
  ASSUME TypeOK, chosen = Left, NEW k \in 0 .. Len(chosen),
         Enough(RowsUpTo(k)) \/ k = Len(chosen)
  PROVE  First(FlattenSeq(Leading(Asked, k)), request.limit) = AnswerRows
<1>1. /\ Asked \in Seq(Seq(Places)) /\ Len(Asked) = Len(chosen) /\ Len(chosen) \in Nat
  BY AskedAre
<1>2. First(FlattenSeq(Asked), request.limit) = AnswerRows
  BY ReachedRowsAre DEF Asked
<1>3. Leading(Asked, Len(Asked)) = Asked
  <2>1. Len(Asked) \in 0 .. Len(Asked)
    BY <1>1
  <2> QED
    BY <1>1, <2>1, FlattenUpTo
<1>4. CASE k = Len(chosen)
  BY <1>1, <1>2, <1>3, <1>4
<1>5. CASE Enough(RowsUpTo(k))
  <2>1. k \in 0 .. Len(Asked) /\ Len(Asked) \in k .. Len(Asked)
    BY <1>1
  <2>2. PICK t \in Seq(Places) : FlattenSeq(Leading(Asked, Len(Asked))) = FlattenSeq(Leading(Asked, k)) \o t
    <3>1. \E t \in Seq(Places) : FlattenSeq(Leading(Asked, Len(Asked))) = FlattenSeq(Leading(Asked, k)) \o t
      BY ONLY <1>1, <2>1, FlattenBegins
    <3> QED
      BY <3>1
  <2>3. FlattenSeq(Leading(Asked, k)) \in Seq(Places) /\ RowsUpTo(k) = Len(FlattenSeq(Leading(Asked, k)))
        /\ RowsUpTo(k) \in Nat
    BY UpToAre
  <2>4. request.limit \in Nat /\ request.limit <= Len(FlattenSeq(Leading(Asked, k)))
    BY <1>5, <2>3, LimitIs DEF Enough
  <2>5. First(FlattenSeq(Leading(Asked, k)) \o t, request.limit) = First(FlattenSeq(Leading(Asked, k)), request.limit)
    BY <2>2, <2>3, <2>4, FirstEnough
  <2> QED
    BY <1>2, <1>3, <2>2, <2>5
<1> QED
  BY <1>4, <1>5

\* In order, the reads yielded go over where the chosen do.
LEMMA OverInOrder ==
  ASSUME TypeOK, \A j \in DOMAIN taken : taken[j] = j
  PROVE  /\ \A k \in 1 .. Len(taken) : (Over(k) <=> GoesOver(k)) /\ (Fails(taken[k]) <=> Fails(k))
         /\ \A k \in 0 .. Len(taken) : Going(k) => FineUpTo(k)
<1>1. /\ Len(taken) \in 0 .. Len(chosen) /\ Len(chosen) \in Nat
      /\ \A k \in 0 .. Len(taken) : TakenRows(k) = RowsUpTo(k) /\ TakenBytes(k) = BytesUpTo(k)
  BY InOrderTaken, AskedAre
<1>2. DOMAIN taken = 1 .. Len(taken)
  BY LenProperties DEF TypeOK
<1>3. ASSUME NEW k \in 1 .. Len(taken) PROVE (Over(k) <=> GoesOver(k)) /\ (Fails(taken[k]) <=> Fails(k))
  <2>1. TakenRows(k) = RowsUpTo(k) /\ TakenBytes(k) = BytesUpTo(k) /\ taken[k] = k
    BY <1>1, <1>2
  <2>2. Over(k) <=> GoesOver(k)
    BY <2>1 DEF Over, Exceeded, GoesOver
  <2>3. Fails(taken[k]) <=> Fails(k)
    BY <2>1
  <2> QED
    BY <2>2, <2>3
<1>4. ASSUME NEW k \in 0 .. Len(taken), Going(k) PROVE FineUpTo(k)
  <2> SUFFICES ASSUME NEW j \in 1 .. k PROVE ~ Fails(j) /\ ~ GoesOver(j) /\ ~ Enough(RowsUpTo(j))
    BY DEF FineUpTo
  <2>1. j \in 1 .. Len(taken) /\ j \in 0 .. Len(taken)
    BY <1>1
  <2>2. ~ Fails(taken[j]) /\ ~ Over(j) /\ ~ Enough(TakenRows(j))
    BY <1>4 DEF Going
  <2> QED
    BY <1>1, <1>3, <2>1, <2>2
<1> QED
  BY <1>3, <1>4

\* What was yielded comes to the same while nothing more is.
LEMMA TakenStays ==
  ASSUME UNCHANGED <<asked, chosen, indexed, taken>>
  PROVE  /\ \A k : TakenReads(k)' = TakenReads(k) /\ TakenRows(k)' = TakenRows(k)
                   /\ TakenBytes(k)' = TakenBytes(k) /\ Over(k)' = Over(k) /\ Going(k)' = Going(k)
         /\ TakenReads(Len(taken))' = TakenReads(Len(taken))
         /\ Going(Len(taken))' = Going(Len(taken))
         /\ UNCHANGED counted => CountedSoFar' = CountedSoFar
<1>1. /\ catalog' = catalog /\ request' = request /\ bounds' = bounds
      /\ chosen' = chosen /\ indexed' = indexed /\ taken' = taken
  BY DEF asked
<1>2. \A k : TakenReads(k)' = TakenReads(k) /\ TakenRows(k)' = TakenRows(k) /\ TakenBytes(k)' = TakenBytes(k)
  BY <1>1 DEF TakenReads, TakenRows, TakenBytes, ReadNext, PartitionRows, FileRows, First, Partition
<1>3. \A k : Over(k)' = Over(k)
  BY <1>1, <1>2 DEF Over, Exceeded, IndexBytes, Limited
<1>4. \A k : Going(k)' = Going(k)
  BY <1>1, <1>2, <1>3 DEF Going, Fails, Partition, Enough, Limited
<1>5. TakenReads(Len(taken))' = TakenReads(Len(taken))
  BY <1>1 DEF TakenReads, ReadNext, PartitionRows, FileRows, First, Partition
<1>6. Going(Len(taken))' = Going(Len(taken))
  BY <1>1, <1>2, <1>3 DEF Going, Fails, Partition, Enough, Limited
<1>7. UNCHANGED counted => CountedSoFar' = CountedSoFar
  BY <1>1 DEF CountedSoFar, TakenBytes, TakenRows, ReadNext, PartitionRows, FileRows, First, Partition, IndexBytes
<1> QED
  BY <1>2, <1>3, <1>4, <1>5, <1>6, <1>7

\* What comes of reads yielded in order, after a step.
LEMMA InOrderLater ==
  ASSUME TypeOK, UNCHANGED <<asked, chosen, indexed>>,
         NEW m \in 0 .. Len(chosen), Len(taken') = m, \A j \in 1 .. m : taken'[j] = j
  PROVE  /\ TakenReads(Len(taken))' = FlattenSeq(Leading(Asked, m))
         /\ TakenRows(Len(taken))' = RowsUpTo(m)
         /\ TakenBytes(Len(taken))' = BytesUpTo(m)
         /\ FineUpTo(m) => Going(Len(taken))'
<1>1. /\ catalog' = catalog /\ request' = request /\ bounds' = bounds
      /\ chosen' = chosen /\ indexed' = indexed
  BY DEF asked
<1>2. /\ Len(chosen) \in Nat /\ \A i \in 1 .. Len(chosen) : Asked[i] = ReadNext(i)
      /\ \A i : ReadNext(i)' = ReadNext(i) /\ Fails(i)' = Fails(i)
  BY AskedAre, ReadsStay
<1>3. \A k \in 0 .. m : /\ FlattenSeq([j \in 1 .. k |-> ReadNext(taken'[j])]) = FlattenSeq(Leading(Asked, k))
                        /\ SumFunction([j \in 1 .. k |-> Len(ReadNext(taken'[j]))]) = RowsUpTo(k)
                        /\ SumFunction([j \in 1 .. k |-> Partition(chosen[taken'[j]]).bytes]) = BytesUpTo(k)
  <2> TAKE k \in 0 .. m
  <2>1. \A j \in 1 .. k : taken'[j] = j /\ j \in 1 .. Len(chosen)
    BY <1>2
  <2>2. Leading(Asked, k) = [j \in 1 .. k |-> ReadNext(taken'[j])]
    BY <1>2, <2>1 DEF Leading
  <2>3. [j \in 1 .. k |-> Len(ReadNext(taken'[j]))] = [j \in 1 .. k |-> Len(ReadNext(j))]
    BY <2>1
  <2>4. [j \in 1 .. k |-> Partition(chosen[taken'[j]]).bytes] = [j \in 1 .. k |-> Partition(chosen[j]).bytes]
    BY <2>1
  <2> QED
    BY <2>2, <2>3, <2>4 DEF RowsUpTo, BytesUpTo
<1>4. \A k : /\ TakenReads(k)' = FlattenSeq([j \in 1 .. k |-> ReadNext(taken'[j])])
             /\ TakenRows(k)' = SumFunction([j \in 1 .. k |-> Len(ReadNext(taken'[j]))])
             /\ TakenBytes(k)' = SumFunction([j \in 1 .. k |-> Partition(chosen[taken'[j]]).bytes])
  BY <1>1 DEF TakenReads, TakenRows, TakenBytes, ReadNext, PartitionRows, FileRows, First, Partition
<1>5. \A k \in 0 .. m : /\ TakenReads(k)' = FlattenSeq(Leading(Asked, k))
                        /\ TakenRows(k)' = RowsUpTo(k) /\ TakenBytes(k)' = BytesUpTo(k)
  BY <1>3, <1>4
<1>6. \A k \in 1 .. m : Over(k)' <=> GoesOver(k)
  <2> TAKE k \in 1 .. m
  <2>1. TakenRows(k)' = RowsUpTo(k) /\ TakenBytes(k)' = BytesUpTo(k)
    BY <1>5
  <2> QED
    BY <1>1, <2>1 DEF Over, Exceeded, GoesOver, IndexBytes, Limited
<1>7. ASSUME FineUpTo(m) PROVE Going(m)'
  <2> SUFFICES ASSUME NEW j \in 1 .. m
               PROVE  ~ Fails(taken[j])' /\ ~ Over(j)' /\ ~ Enough(TakenRows(j))'
    BY DEF Going
  <2>1. j \in 0 .. m /\ taken'[j] = j
    OBVIOUS
  <2>2. ~ Fails(j) /\ ~ GoesOver(j) /\ ~ Enough(RowsUpTo(j))
    BY <1>7 DEF FineUpTo
  <2>3. ~ Fails(taken[j])'
    BY <1>1, <2>1, <2>2 DEF Fails, Partition
  <2>4. TakenRows(j)' = RowsUpTo(j)
    BY <1>5, <2>1
  <2>5. ~ Enough(TakenRows(j))'
    BY <1>1, <2>2, <2>4 DEF Enough, Limited
  <2> QED
    BY <1>6, <2>2, <2>3, <2>5
<1>8. Going(Len(taken))' = Going(m)'
  BY DEF Going
<1>9. /\ TakenReads(Len(taken))' = TakenReads(m)' /\ TakenRows(Len(taken))' = TakenRows(m)'
      /\ TakenBytes(Len(taken))' = TakenBytes(m)'
  BY DEF TakenReads, TakenRows, TakenBytes
<1>10. m \in 0 .. m
  BY <1>2
<1> QED
  BY <1>5, <1>7, <1>8, <1>9, <1>10

-----------------------------------------------------------------------------
(* A collected read.                                                       *)

\* While it goes on, its reads are the first of the chosen.
LEMMA CollectingIs ==
  ASSUME TypeOK, ChosenOnce, TakenInTurn, Collecting, at = "reading"
  PROVE  /\ request.how = "collected" /\ chosen = Left
         /\ ~ TooManyPartitions /\ ~ AsksNoRow
         /\ \A j \in DOMAIN taken : taken[j] = j
         /\ Len(taken) \in 0 .. Len(chosen) /\ Len(chosen) \in Nat
         /\ FineUpTo(Len(taken))
         /\ counted.bytes = IndexBytes + BytesUpTo(Len(taken))
         /\ counted.matched = RowsUpTo(Len(taken))
         /\ gathered = FlattenSeq(Leading(Asked, Len(taken)))
<1>1. /\ request.how = "collected" /\ chosen = Left
      /\ ~ TooManyPartitions /\ ~ AsksNoRow
      /\ \A j \in DOMAIN taken : taken[j] = j
  BY DEF ChosenOnce, Collecting, TakenInTurn, AsksNoRow
<1>2. /\ Len(taken) \in 0 .. Len(chosen) /\ Len(chosen) \in Nat
      /\ Len(taken) \in 0 .. Len(taken)
  BY <1>1, InOrderTaken, AskedAre
<1>3. /\ TakenReads(Len(taken)) = FlattenSeq(Leading(Asked, Len(taken)))
      /\ TakenRows(Len(taken)) = RowsUpTo(Len(taken)) /\ TakenBytes(Len(taken)) = BytesUpTo(Len(taken))
  BY <1>1, <1>2, InOrderTaken
<1>4. FineUpTo(Len(taken))
  BY <1>1, <1>2, OverInOrder DEF Collecting
<1>5. /\ counted.bytes = IndexBytes + BytesUpTo(Len(taken))
      /\ counted.matched = RowsUpTo(Len(taken))
      /\ gathered = FlattenSeq(Leading(Asked, Len(taken)))
  BY <1>3 DEF Collecting, CountedSoFar
<1> QED
  BY <1>1, <1>2, <1>4, <1>5

\* What one more read makes of it.
LEMMA CollectEffect ==
  ASSUME TypeOK, ChosenOnce, TakenInTurn, Collecting, NEW i \in DOMAIN chosen, Collect(i)
  PROVE  /\ i = Len(taken) + 1 /\ i \in 1 .. Len(chosen)
         /\ Len(taken') = i /\ \A j \in 1 .. i : taken'[j] = j
         /\ UNCHANGED <<asked, chosen, indexed>> /\ at = "reading"
         /\ \/ Fails(i) /\ Answer("failed", <<>>, <<>>, FALSE)
            \/ /\ ~ Fails(i)
               /\ counted' = [bytes |-> IndexBytes + BytesUpTo(i), matched |-> RowsUpTo(i)]
               /\ gathered' = FlattenSeq(Leading(Asked, i))
               /\ \/ GoesOver(i) /\ Refuse
                  \/ ~ GoesOver(i) /\ Enough(RowsUpTo(i)) /\ Gathered(taken', gathered')
                  \/ ~ GoesOver(i) /\ ~ Enough(RowsUpTo(i)) /\ UNCHANGED <<at, answer>>
<1> DEFINE k == Len(taken) + 1
           rows == gathered \o ReadNext(i)
           after == [bytes |-> counted.bytes + Partition(chosen[i]).bytes,
                     matched |-> counted.matched + Len(ReadNext(i))]
           over == Exceeded(after.bytes, after.matched, Len(taken) + 1)
<1>1. at = "reading" /\ Yield(i, TRUE) /\ UNCHANGED <<asked, chosen, indexed>>
  BY DEF Collect
<1>2. /\ \A j \in DOMAIN taken : taken[j] = j
      /\ Len(taken) \in 0 .. Len(chosen) /\ Len(chosen) \in Nat
      /\ counted.bytes = IndexBytes + BytesUpTo(Len(taken))
      /\ counted.matched = RowsUpTo(Len(taken))
      /\ gathered = FlattenSeq(Leading(Asked, Len(taken)))
  BY <1>1, CollectingIs
<1>3. i = k /\ i \in 1 .. Len(chosen) /\ Len(taken) < Len(chosen)
  <2>1. i = Len(taken) + 1
    BY <1>1 DEF Yield, InTurn
  <2>2. i \in 1 .. Len(chosen)
    BY AskedAre
  <2> QED
    BY <1>2, <2>1, <2>2
<1>4. /\ Len(taken') = k /\ DOMAIN taken = 1 .. Len(taken)
      /\ \A j \in 1 .. Len(taken) : taken'[j] = taken[j]
      /\ taken'[Len(taken) + 1] = i
  BY <1>1, TakenOneMore
<1>5. \A j \in 1 .. i : taken'[j] = j
  BY <1>2, <1>3, <1>4
<1>6. /\ RowsUpTo(k) = RowsUpTo(Len(taken)) + Len(ReadNext(k))
      /\ BytesUpTo(k) = BytesUpTo(Len(taken)) + Partition(chosen[k]).bytes
      /\ FlattenSeq(Leading(Asked, k)) = FlattenSeq(Leading(Asked, Len(taken))) \o ReadNext(k)
      /\ BytesUpTo(Len(taken)) \in Nat
  BY <1>2, <1>3, UpToAre
<1>7. FlattenSeq(Leading(Asked, k)) = rows
  BY <1>2, <1>3, <1>6
<1>8. RowsUpTo(k) = Len(rows)
  <2>1. k \in 0 .. Len(chosen)
    BY <1>2, <1>3
  <2> QED
    BY <1>7, <2>1, UpToAre
<1>9. after = [bytes |-> IndexBytes + BytesUpTo(k), matched |-> RowsUpTo(k)]
  <2>1. IndexBytes \in Nat /\ Partition(chosen[i]).bytes \in Nat
    <3>1. chosen[i] \in DOMAIN catalog.partitions
      BY <1>3, AskedAre
    <3> QED
      BY <3>1, AskedTyped, PartitionTyped DEF IndexBytes
  <2>2. counted.bytes + Partition(chosen[i]).bytes = IndexBytes + BytesUpTo(k)
    BY <1>2, <1>3, <1>6, <2>1
  <2>3. counted.matched + Len(ReadNext(i)) = RowsUpTo(k)
    BY <1>2, <1>3, <1>6
  <2> QED
    BY <2>2, <2>3
<1>10. over <=> GoesOver(k)
  BY <1>9 DEF Exceeded, GoesOver
<1>11. \/ /\ Fails(i)
          /\ Answer("failed", <<>>, <<>>, FALSE)
       \/ /\ ~ Fails(i)
          /\ counted' = after /\ gathered' = rows
          /\ \/ over /\ Refuse
             \/ ~ over /\ Enough(Len(rows)) /\ Gathered(taken', rows)
             \/ ~ over /\ ~ Enough(Len(rows)) /\ UNCHANGED <<at, answer>>
  BY DEF Collect, Fails
<1> HIDE DEF k, rows, after, over
<1>12. \/ Fails(i) /\ Answer("failed", <<>>, <<>>, FALSE)
       \/ /\ ~ Fails(i)
          /\ counted' = [bytes |-> IndexBytes + BytesUpTo(i), matched |-> RowsUpTo(i)]
          /\ gathered' = FlattenSeq(Leading(Asked, i))
          /\ \/ GoesOver(i) /\ Refuse
             \/ ~ GoesOver(i) /\ Enough(RowsUpTo(i)) /\ Gathered(taken', gathered')
             \/ ~ GoesOver(i) /\ ~ Enough(RowsUpTo(i)) /\ UNCHANGED <<at, answer>>
  BY <1>3, <1>7, <1>8, <1>9, <1>10, <1>11
<1> QED
  BY <1>1, <1>3, <1>4, <1>5, <1>12 DEF k

\* Every step of a collected read counts and gathers what was yielded so far.
LEMMA CollectingStep ==
  ASSUME TypeOK, ChosenOnce, TakenInTurn, Collecting, Next
  PROVE  Collecting'
<1>1. ASSUME UNCHANGED <<asked, at, chosen, indexed, taken, counted, gathered>> PROVE Collecting'
  <2>1. SUFFICES ASSUME at = "reading"
                 PROVE  /\ ~ TooManyPartitions' /\ ~ (request'.limit = 0 /\ catalog'.common)
                        /\ Going(Len(taken))' /\ CountedSoFar'
                        /\ gathered' = TakenReads(Len(taken))'
    BY <1>1 DEF Collecting
  <2>2. TooManyPartitions' = TooManyPartitions /\ request' = request /\ catalog' = catalog
    BY <1>1, Stays DEF asked
  <2>3. /\ TakenReads(Len(taken))' = TakenReads(Len(taken))
        /\ Going(Len(taken))' = Going(Len(taken)) /\ CountedSoFar' = CountedSoFar
    BY <1>1, TakenStays
  <2> QED
    BY <1>1, <2>1, <2>2, <2>3 DEF Collecting
<1>2. ASSUME at' # "reading" PROVE Collecting'
  BY <1>2 DEF Collecting
<1>3. at = "reading" => InitBody
  BY DEF ChosenOnce
<1>4. CASE Choosing
  BY <1>2, <1>4 DEF Choosing, Resolve, ResolveFails, Consult, Answer
<1>5. CASE Lands
  BY <1>1, <1>5 DEF Lands, Land, query
<1>6. CASE OutOfTime
  BY <1>1, <1>2, <1>6 DEF OutOfTime, BodyCutOff, TimeIsUp, Answer, pipeline, query
<1>7. CASE Scanning
  <2>1. CASE StartScan
    BY <1>2, <2>1 DEF StartScan
  <2>2. CASE PullNext \/ ScanEnds
    BY <1>2, <2>2 DEF PullNext, ScanEnds, Answer
  <2>3. ASSUME NEW i \in DOMAIN chosen, Pull(i) PROVE Collecting'
    BY <1>2, <2>3 DEF Pull, Answer
  <2> QED
    BY <1>7, <2>1, <2>2, <2>3 DEF Scanning
<1>8. CASE Querying
  <2>1. CASE StartCollecting
    <3>1. CASE Refuse
      BY <1>2, <3>1 DEF Refuse, Answer
    <3>2. CASE /\ ~ TooManyPartitions
               /\ at' = "reading"
               /\ counted' = [counted EXCEPT !.bytes = IndexBytes]
      <4>1. /\ UNCHANGED <<asked, chosen, indexed, taken, gathered>>
            /\ ~ (request.limit = 0 /\ catalog.common)
            /\ taken = <<>> /\ counted = [bytes |-> 0, matched |-> 0] /\ gathered = <<>>
        BY <2>1 DEF StartCollecting, pipeline, ChosenOnce, InitQuery
      <4>2. Len(taken') = 0 /\ 0 \in 0 .. Len(chosen) /\ \A j \in 1 .. 0 : taken'[j] = j
        BY <4>1, AskedAre
      <4>3. /\ TakenReads(Len(taken))' = FlattenSeq(Leading(Asked, 0))
            /\ TakenRows(Len(taken))' = RowsUpTo(0)
            /\ TakenBytes(Len(taken))' = BytesUpTo(0)
            /\ FineUpTo(0) => Going(Len(taken))'
        BY <4>1, <4>2, InOrderLater
      <4>4. RowsUpTo(0) = 0 /\ BytesUpTo(0) = 0 /\ FlattenSeq(Leading(Asked, 0)) = <<>>
        BY <4>2, UpToAre
      <4>5. FineUpTo(0)
        BY DEF FineUpTo
      <4>6. TooManyPartitions' = TooManyPartitions /\ IndexBytes' = IndexBytes
            /\ request' = request /\ catalog' = catalog /\ IndexBytes \in Nat
        BY <4>1, Stays, AskedTyped DEF asked, IndexBytes
      <4>7. CountedSoFar'
        <5>1. counted' = [bytes |-> IndexBytes, matched |-> 0]
          BY <3>2, <4>1
        <5> QED
          BY <4>3, <4>4, <4>6, <5>1 DEF CountedSoFar
      <4> QED
        BY <3>2, <4>1, <4>3, <4>4, <4>5, <4>6, <4>7 DEF Collecting
    <3> QED
      BY <2>1, <3>1, <3>2 DEF StartCollecting
  <2>2. CASE AwaitRead
    BY <1>1, <2>2 DEF AwaitRead, Poll, query
  <2>3. CASE Plan \/ AnswerColumns \/ CollectedAll
    BY <1>2, <2>3 DEF Plan, AnswerColumns, CollectedAll, Gathered, Answer
  <2>4. CASE StartStreaming \/ FirstItem
    BY <1>2, <2>4 DEF StartStreaming, FirstItem, Refuse, Answer
  <2>5. CASE AwaitLanding \/ WalkEnds \/ Describe
    BY <1>2, <1>3, <2>5 DEF AwaitLanding, WalkEnds, Describe, Wanting, InitBody
  <2>6. CASE WriteHead \/ WriteItem \/ WriteEnd
    BY <1>2, <1>3, <2>6 DEF WriteHead, WriteItem, WriteEnd, SendHead, FinishBody, SendRows, InitBody
  <2>7. ASSUME NEW i \in DOMAIN chosen, Collect(i) PROVE Collecting'
    <3>1. /\ i = Len(taken) + 1 /\ i \in 1 .. Len(chosen)
          /\ Len(taken') = i /\ \A j \in 1 .. i : taken'[j] = j
          /\ UNCHANGED <<asked, chosen, indexed>> /\ at = "reading"
          /\ \/ Fails(i) /\ Answer("failed", <<>>, <<>>, FALSE)
             \/ /\ ~ Fails(i)
                /\ counted' = [bytes |-> IndexBytes + BytesUpTo(i), matched |-> RowsUpTo(i)]
                /\ gathered' = FlattenSeq(Leading(Asked, i))
                /\ \/ GoesOver(i) /\ Refuse
                   \/ ~ GoesOver(i) /\ Enough(RowsUpTo(i)) /\ Gathered(taken', gathered')
                   \/ ~ GoesOver(i) /\ ~ Enough(RowsUpTo(i)) /\ UNCHANGED <<at, answer>>
      BY <2>7, CollectEffect
    <3>2. CASE /\ ~ Fails(i) /\ ~ GoesOver(i) /\ ~ Enough(RowsUpTo(i)) /\ UNCHANGED <<at, answer>>
               /\ counted' = [bytes |-> IndexBytes + BytesUpTo(i), matched |-> RowsUpTo(i)]
               /\ gathered' = FlattenSeq(Leading(Asked, i))
      <4>1. FineUpTo(Len(taken)) /\ ~ TooManyPartitions /\ ~ (request.limit = 0 /\ catalog.common)
            /\ Len(taken) \in Nat
        <5>1. Len(taken) \in Nat
          BY LenProperties DEF TypeOK
        <5> QED
          BY <3>1, <5>1, CollectingIs DEF Collecting
      <4>2. FineUpTo(i)
        BY <3>1, <3>2, <4>1 DEF FineUpTo
      <4>3. i \in 0 .. Len(chosen)
        BY <3>1
      <4>4. /\ TakenReads(Len(taken))' = FlattenSeq(Leading(Asked, i))
            /\ TakenRows(Len(taken))' = RowsUpTo(i)
            /\ TakenBytes(Len(taken))' = BytesUpTo(i)
            /\ FineUpTo(i) => Going(Len(taken))'
        BY <3>1, <4>3, InOrderLater
      <4>5. TooManyPartitions' = TooManyPartitions /\ IndexBytes' = IndexBytes
            /\ request' = request /\ catalog' = catalog
        BY <3>1, Stays DEF asked
      <4>6. CountedSoFar'
        BY <3>2, <4>4, <4>5 DEF CountedSoFar
      <4> QED
        BY <3>2, <4>1, <4>2, <4>4, <4>5, <4>6 DEF Collecting
    <3>3. CASE at' = "answered"
      BY <1>2, <3>3
    <3>4. (\E rows, named : Answer("rows", rows, <<>>, named)) \/ Answer("failed", <<>>, <<>>, FALSE) \/ Refuse
          => at' = "answered"
      BY DEF Answer, Refuse
    <3> QED
      BY <3>1, <3>2, <3>3, <3>4 DEF Gathered
  <2>8. ASSUME NEW i \in DOMAIN chosen, Walk(i) PROVE Collecting'
    BY <1>2, <1>3, <2>8 DEF Walk, Wanting, InitBody
  <2> QED
    BY <1>8, <2>1, <2>2, <2>3, <2>4, <2>5, <2>6, <2>7, <2>8 DEF Querying
<1> QED
  BY <1>4, <1>5, <1>6, <1>7, <1>8 DEF Next

\* Each way a collected read ends is the one the catalog and the request say.
LEMMA CollectedStep ==
  ASSUME TypeOK, ChosenOnce, TakenInTurn, Collecting, CollectedAsAsked, Next
  PROVE  CollectedAsAsked'
<1>0. ASSUME UNCHANGED asked,
             request.how = "collected" /\ chosen' # <<>>
               /\ answer'.status \in {"rows", "refused", "failed"} =>
                 /\ UNCHANGED <<chosen, indexed>>
                 /\ at \notin {"asked", "chosen"}
                 /\ \/ /\ UNCHANGED answer
                    \/ /\ answer'.status = Verdict
                       /\ answer'.status = "rows" =>
                            answer'.rows = AnswerRows /\ (answer'.named \/ ~ Describable)
      PROVE  CollectedAsAsked'
  <2> SUFFICES ASSUME request'.how = "collected", Chose', answer'.status \in {"rows", "refused", "failed"}
               PROVE  /\ answer'.status = Verdict'
                      /\ answer'.status = "rows" => answer'.rows = AnswerRows' /\ Named'
    BY DEF CollectedAsAsked
  <2>1. /\ UNCHANGED <<asked, chosen, indexed>> /\ at \notin {"asked", "chosen"} /\ chosen # <<>>
        /\ request' = request
        /\ \/ /\ UNCHANGED answer
           \/ /\ answer'.status = Verdict
              /\ answer'.status = "rows" =>
                   answer'.rows = AnswerRows /\ (answer'.named \/ ~ Describable)
    BY <1>0 DEF Chose, asked
  <2>2. Verdict' = Verdict /\ AnswerRows' = AnswerRows /\ Describable' = Describable
    BY <2>1, Stays, ReadsStay
  <2>3. Named' <=> (answer'.named \/ ~ Describable)
    BY <2>2 DEF Named
  <2>4. CASE UNCHANGED answer
    <3>1. /\ answer.status = Verdict
          /\ answer.status = "rows" => answer.rows = AnswerRows /\ Named
      BY <2>1, <2>4 DEF CollectedAsAsked, Chose
    <3> QED
      BY <2>2, <2>3, <2>4, <3>1 DEF Named
  <2>5. CASE /\ answer'.status = Verdict
             /\ answer'.status = "rows" =>
                  answer'.rows = AnswerRows /\ (answer'.named \/ ~ Describable)
    BY <2>2, <2>3, <2>5
  <2> QED
    BY <2>1, <2>4, <2>5
<1>a. ASSUME NEW st, NEW rw, NEW pl, NEW nm, Answer(st, rw, pl, nm)
      PROVE  answer'.status = st /\ answer'.rows = rw /\ answer'.named = nm
  BY <1>a DEF Answer
<1>k. ASSUME UNCHANGED <<asked, chosen, indexed, answer>> PROVE CollectedAsAsked'
  <2>1. answer.status \in {"rows", "refused", "failed"} => at \notin {"asked", "chosen"}
    BY DEF ChosenOnce, Nothing
  <2> QED
    BY <1>0, <1>k, <2>1
<1>n. ASSUME UNCHANGED asked, answer' = Nothing PROVE CollectedAsAsked'
  BY <1>0, <1>n DEF Nothing
<1>h. ASSUME UNCHANGED asked, request.how # "collected" PROVE CollectedAsAsked'
  BY <1>0, <1>h
<1>4. CASE Choosing
  <2>1. CASE Resolve \/ Consult
    BY <1>n, <2>1 DEF Resolve, Consult, ChosenOnce
  <2>2. CASE ResolveFails
    <3>1. chosen' = <<>> /\ UNCHANGED asked
      BY <2>2 DEF ResolveFails, ChosenOnce
    <3> QED
      BY <1>0, <3>1
  <2> QED
    BY <1>4, <2>1, <2>2 DEF Choosing
<1>5. CASE Lands
  BY <1>k, <1>5 DEF Lands, Land
<1>6. CASE OutOfTime
  <2>1. CASE BodyCutOff
    BY <1>k, <2>1 DEF BodyCutOff
  <2>2. CASE TimeIsUp
    <3>1. answer'.status = "late" /\ UNCHANGED asked
      BY <1>a, <2>2 DEF TimeIsUp
    <3> QED
      BY <1>0, <3>1
  <2> QED
    BY <1>6, <2>1, <2>2 DEF OutOfTime
<1>7. CASE Scanning
  <2>1. request.how # "collected" /\ UNCHANGED asked
    <3>1. request.how \in Scans => request.how # "collected"
      BY DEF Scans
    <3>2. \A i : Pull(i) => at = "scanning" /\ UNCHANGED asked
      BY DEF Pull
    <3> QED
      BY <1>7, <3>1, <3>2 DEF Scanning, StartScan, PullNext, ScanEnds, ChosenOnce
  <2> QED
    BY <1>h, <2>1
<1>8. CASE Querying
  <2>1. CASE Plan
    BY <1>h, <2>1 DEF Plan
  <2>2. CASE AnswerColumns
    <3>1. /\ UNCHANGED <<asked, chosen, indexed>> /\ at = "ready"
          /\ request.limit = 0 /\ catalog.common /\ request.how = "collected"
          /\ answer'.status = "rows" /\ answer'.rows = <<>> /\ answer'.named = TRUE
      BY <1>a, <2>2 DEF AnswerColumns
    <3>2. Verdict = "rows"
      BY <3>1 DEF Verdict
    <3>3. AnswerRows = <<>>
      <4>1. AllRows \in Seq(Places) /\ Len(AllRows) \in Nat
        BY ReachedRowsAre, LenProperties
      <4>2. First(AllRows, 0) \in Seq(Places) /\ Len(First(AllRows, 0)) = 0
        BY <4>1, FirstIs
      <4>3. First(AllRows, 0) = <<>>
        BY <4>2, EmptySeq
      <4> QED
        BY <3>1, <4>3 DEF AnswerRows
    <3> QED
      BY <1>0, <3>1, <3>2, <3>3
  <2>3. CASE StartCollecting
    <3>1. CASE TooManyPartitions /\ Refuse
      <4>1. Verdict = "refused"
        BY <2>3, <3>1 DEF Verdict, StartCollecting
      <4>2. answer'.status = "refused"
        BY <1>a, <3>1 DEF Refuse
      <4>3. UNCHANGED <<asked, chosen, indexed>> /\ at = "ready"
        BY <2>3 DEF StartCollecting
      <4> QED
        BY <1>0, <4>1, <4>2, <4>3
    <3>2. CASE UNCHANGED answer
      BY <1>k, <2>3, <3>2 DEF StartCollecting
    <3> QED
      BY <2>3, <3>1, <3>2 DEF StartCollecting
  <2>4. CASE AwaitRead
    BY <1>k, <2>4 DEF AwaitRead
  <2>5. CASE CollectedAll
    <3>1. at = "reading" /\ Len(taken) = Len(chosen) /\ Gathered(taken, gathered)
          /\ UNCHANGED <<asked, chosen, indexed>>
      BY <2>5 DEF CollectedAll, Dry
    <3>2. /\ chosen = Left /\ ~ TooManyPartitions
          /\ Len(taken) \in 0 .. Len(chosen)
          /\ FineUpTo(Len(taken)) /\ gathered = FlattenSeq(Leading(Asked, Len(taken)))
      BY <3>1, CollectingIs
    <3>3. Verdict = "rows"
      BY <3>1, <3>2, VerdictAll
    <3>4. First(gathered, request.limit) = AnswerRows
      BY <3>1, <3>2, EnoughIsTheAnswer
    <3>5. /\ answer'.status = "rows" /\ answer'.rows = AnswerRows
          /\ answer'.named \/ ~ Describable
      BY <1>a, <3>1, <3>4 DEF Gathered
    <3> QED
      BY <1>0, <3>1, <3>3, <3>5
  <2>6. ASSUME NEW i \in DOMAIN chosen, Collect(i) PROVE CollectedAsAsked'
    <3>1. /\ i = Len(taken) + 1 /\ i \in 1 .. Len(chosen)
          /\ Len(taken') = i /\ \A j \in 1 .. i : taken'[j] = j
          /\ UNCHANGED <<asked, chosen, indexed>> /\ at = "reading"
          /\ \/ Fails(i) /\ Answer("failed", <<>>, <<>>, FALSE)
             \/ /\ ~ Fails(i)
                /\ counted' = [bytes |-> IndexBytes + BytesUpTo(i), matched |-> RowsUpTo(i)]
                /\ gathered' = FlattenSeq(Leading(Asked, i))
                /\ \/ GoesOver(i) /\ Refuse
                   \/ ~ GoesOver(i) /\ Enough(RowsUpTo(i)) /\ Gathered(taken', gathered')
                   \/ ~ GoesOver(i) /\ ~ Enough(RowsUpTo(i)) /\ UNCHANGED <<at, answer>>
      BY <2>6, CollectEffect
    <3>2. chosen = Left /\ ~ TooManyPartitions /\ ~ AsksNoRow /\ FineUpTo(Len(taken)) /\ Len(taken) \in Nat
      <4>1. Len(taken) \in Nat
        BY LenProperties DEF TypeOK
      <4> QED
        BY <3>1, <4>1, CollectingIs
    <3>3. FineUpTo(i - 1)
      BY <3>1, <3>2
    <3>4. /\ Fails(i) => Verdict = "failed"
          /\ ~ Fails(i) /\ GoesOver(i) => Verdict = "refused"
          /\ ~ Fails(i) /\ ~ GoesOver(i) /\ Enough(RowsUpTo(i)) => Verdict = "rows"
      BY <3>1, <3>2, <3>3, VerdictAt
    <3>5. CASE Fails(i) /\ Answer("failed", <<>>, <<>>, FALSE)
      <4>1. answer'.status = "failed"
        BY <1>a, <3>5
      <4> QED
        BY <1>0, <3>1, <3>4, <3>5, <4>1
    <3>6. CASE ~ Fails(i) /\ GoesOver(i) /\ Refuse
      <4>1. answer'.status = "refused"
        BY <1>a, <3>6 DEF Refuse
      <4> QED
        BY <1>0, <3>1, <3>4, <3>6, <4>1
    <3>7. CASE /\ ~ Fails(i) /\ ~ GoesOver(i) /\ Enough(RowsUpTo(i)) /\ Gathered(taken', gathered')
               /\ gathered' = FlattenSeq(Leading(Asked, i))
      <4>1. i \in 0 .. Len(chosen)
        BY <3>1
      <4>2. First(FlattenSeq(Leading(Asked, i)), request.limit) = AnswerRows
        BY <3>2, <3>7, <4>1, EnoughIsTheAnswer
      <4>3. First(gathered', request.limit) = AnswerRows
        BY <3>7, <4>2
      <4>4. /\ answer'.status = "rows" /\ answer'.rows = AnswerRows
            /\ answer'.named \/ ~ Describable
        BY <1>a, <3>7, <4>3 DEF Gathered
      <4> QED
        BY <1>0, <3>1, <3>4, <3>7, <4>4
    <3>8. CASE UNCHANGED answer
      BY <1>k, <3>1, <3>8
    <3> QED
      BY <3>1, <3>5, <3>6, <3>7, <3>8
  <2>7. CASE StartStreaming \/ AwaitLanding \/ WalkEnds \/ Describe \/ FirstItem
    <3>1. request.how # "collected" /\ UNCHANGED asked
      <4>1. request.how \in Streams => request.how # "collected"
        BY DEF Streams
      <4>2. Wanting => request.how \in Streams
        BY DEF Wanting, ChosenOnce, InitBody
      <4> QED
        BY <2>7, <4>1, <4>2 DEF StartStreaming, AwaitLanding, WalkEnds, Describe, FirstItem, ChosenOnce
    <3> QED
      BY <1>h, <3>1
  <2>8. CASE WriteHead \/ WriteItem \/ WriteEnd
    BY <1>k, <2>8 DEF WriteHead, WriteItem, WriteEnd
  <2>9. ASSUME NEW i \in DOMAIN chosen, Walk(i) PROVE CollectedAsAsked'
    BY <1>k, <2>9 DEF Walk
  <2> QED
    BY <1>8, <2>1, <2>2, <2>3, <2>4, <2>5, <2>6, <2>7, <2>8, <2>9 DEF Querying
<1> QED
  BY <1>4, <1>5, <1>6, <1>7, <1>8 DEF Next

-----------------------------------------------------------------------------
(* Reads in any order.                                                     *)

\* What the first m of the reads t come to.
ReadsBy(t, m) == FlattenSeq([j \in 1 .. m |-> ReadNext(t[j])])
RowsBy(t, m) == SumFunction([j \in 1 .. m |-> Len(ReadNext(t[j]))])
BytesBy(t, m) == SumFunction([j \in 1 .. m |-> Partition(chosen[t[j]]).bytes])

\* What the first m reads of t come to, read in the order of t, and with one more of them.
LEMMA ByAre ==
  ASSUME TypeOK, NEW t \in Seq(DOMAIN chosen), NEW m \in 0 .. Len(t)
  PROVE  /\ ReadsBy(t, m) \in Seq(Places)
         /\ RowsBy(t, m) = Len(ReadsBy(t, m)) /\ RowsBy(t, m) \in Nat /\ BytesBy(t, m) \in Nat
         /\ m = 0 => ReadsBy(t, m) = <<>> /\ RowsBy(t, m) = 0 /\ BytesBy(t, m) = 0
         /\ m < Len(t) => /\ ReadsBy(t, m + 1) = ReadsBy(t, m) \o ReadNext(t[m + 1])
                          /\ RowsBy(t, m + 1) = RowsBy(t, m) + Len(ReadNext(t[m + 1]))
                          /\ BytesBy(t, m + 1) = BytesBy(t, m) + Partition(chosen[t[m + 1]]).bytes
<1> DEFINE n == Len(t)
           reads == [j \in 1 .. n |-> ReadNext(t[j])]
           rows == [j \in 1 .. n |-> Len(ReadNext(t[j]))]
           bytes == [j \in 1 .. n |-> Partition(chosen[t[j]]).bytes]
<1>1. n \in Nat /\ \A j \in 1 .. n : t[j] \in DOMAIN chosen
  BY LenProperties, ElementOfSeq
<1>2. \A j \in 1 .. n : /\ ReadNext(t[j]) \in Seq(Places) /\ Len(ReadNext(t[j])) \in Nat
                        /\ Partition(chosen[t[j]]).bytes \in Nat
  <2> TAKE j \in 1 .. n
  <2>1. ReadNext(t[j]) \in Seq(Places) /\ chosen[t[j]] \in DOMAIN catalog.partitions
    BY <1>1, AskedAre
  <2> QED
    BY <2>1, LenProperties, PartitionTyped
<1> DEFINE Z == Seq(Places)
<1>3. reads \in Seq(Seq(Places)) /\ Len(reads) = n /\ \A j \in 1 .. n : reads[j] = ReadNext(t[j])
  <2>1. \A j \in 1 .. n : ReadNext(t[j]) \in Z
    BY <1>2
  <2> HIDE DEF Z, n
  <2>2. reads \in Seq(Z) /\ Len(reads) = n /\ \A j \in 1 .. n : reads[j] = ReadNext(t[j])
    BY <1>1, <2>1
  <2> QED
    BY <2>2 DEF Z
<1>4. \A j \in 1 .. n : rows[j] = Len(ReadNext(t[j])) /\ rows[j] \in Nat
                        /\ bytes[j] = Partition(chosen[t[j]]).bytes /\ bytes[j] \in Nat
  BY <1>2
<1>5. \A i \in 0 .. n : /\ ReadsBy(t, i) = FlattenSeq(Leading(reads, i))
                        /\ RowsBy(t, i) = SumFunction([j \in 1 .. i |-> rows[j]])
                        /\ BytesBy(t, i) = SumFunction([j \in 1 .. i |-> bytes[j]])
  <2> TAKE i \in 0 .. n
  <2>1. \A j \in 1 .. i : j \in 1 .. n
    BY <1>1
  <2>2. Leading(reads, i) = [j \in 1 .. i |-> ReadNext(t[j])]
    BY <1>3, <2>1 DEF Leading
  <2>3. [j \in 1 .. i |-> rows[j]] = [j \in 1 .. i |-> Len(ReadNext(t[j]))]
    BY <1>4, <2>1
  <2>4. [j \in 1 .. i |-> bytes[j]] = [j \in 1 .. i |-> Partition(chosen[t[j]]).bytes]
    BY <1>4, <2>1
  <2> QED
    BY <2>2, <2>3, <2>4 DEF ReadsBy, RowsBy, BytesBy
<1>l. Len(FlattenSeq(Leading(reads, m))) = SumFunctionOnSet(rows, 1 .. m)
  <2>1. m \in 0 .. Len(reads)
    BY <1>3
  <2>2. Len(FlattenSeq(Leading(reads, m))) = SumFunctionOnSet([j \in 1 .. Len(reads) |-> Len(reads[j])], 1 .. m)
    BY <1>3, <2>1, FlattenLength
  <2>3. [j \in 1 .. Len(reads) |-> Len(reads[j])] = rows
    BY <1>3
  <2> QED
    BY <2>2, <2>3
<1>m. m \in 0 .. n /\ m \in Nat
  BY <1>1
<1> HIDE DEF reads, rows, bytes, n
<1>6. \A i \in 0 .. n :
        /\ SumFunction([j \in 1 .. i |-> rows[j]]) = SumFunctionOnSet(rows, 1 .. i)
        /\ SumFunctionOnSet(rows, 1 .. i) \in Nat
        /\ i = 0 => SumFunctionOnSet(rows, 1 .. i) = 0
        /\ i < n => SumFunctionOnSet(rows, 1 .. (i + 1)) = SumFunctionOnSet(rows, 1 .. i) + rows[i + 1]
  <2>1. n \in Nat /\ \A j \in 1 .. n : rows[j] \in Nat
    BY <1>1, <1>4
  <2> QED
    BY ONLY <2>1, SumsUpTo
<1>7. \A i \in 0 .. n :
        /\ SumFunction([j \in 1 .. i |-> bytes[j]]) = SumFunctionOnSet(bytes, 1 .. i)
        /\ SumFunctionOnSet(bytes, 1 .. i) \in Nat
        /\ i = 0 => SumFunctionOnSet(bytes, 1 .. i) = 0
        /\ i < n => SumFunctionOnSet(bytes, 1 .. (i + 1)) = SumFunctionOnSet(bytes, 1 .. i) + bytes[i + 1]
  <2>1. n \in Nat /\ \A j \in 1 .. n : bytes[j] \in Nat
    BY <1>1, <1>4
  <2> QED
    BY ONLY <2>1, SumsUpTo
<1>8. /\ FlattenSeq(Leading(reads, m)) \in Seq(Places)
      /\ m = 0 => FlattenSeq(Leading(reads, m)) = <<>>
      /\ m < n => FlattenSeq(Leading(reads, m + 1)) = FlattenSeq(Leading(reads, m)) \o reads[m + 1]
  <2>1. m \in 0 .. Len(reads) /\ Len(reads) = n
    BY <1>3, <1>m
  <2>2. reads \in Seq(Seq(Places))
    BY <1>3
  <2>3. /\ FlattenSeq(Leading(reads, m)) \in Seq(Places)
        /\ m = 0 => FlattenSeq(Leading(reads, m)) = <<>>
        /\ m < Len(reads) => FlattenSeq(Leading(reads, m + 1)) = FlattenSeq(Leading(reads, m)) \o reads[m + 1]
    <3>1. ASSUME NEW r \in Seq(Seq(Places)), NEW q \in 0 .. Len(r)
          PROVE  /\ FlattenSeq(Leading(r, q)) \in Seq(Places)
                 /\ q = 0 => FlattenSeq(Leading(r, q)) = <<>>
                 /\ q < Len(r) => FlattenSeq(Leading(r, q + 1)) = FlattenSeq(Leading(r, q)) \o r[q + 1]
      BY FlattenUpTo
    <3> QED
      BY ONLY <2>1, <2>2, <3>1
  <2> QED
    BY <2>1, <2>3
<1>9. RowsBy(t, m) = SumFunctionOnSet(rows, 1 .. m) /\ BytesBy(t, m) = SumFunctionOnSet(bytes, 1 .. m)
      /\ ReadsBy(t, m) = FlattenSeq(Leading(reads, m))
  BY <1>5, <1>6, <1>7, <1>m
<1>10. ASSUME m < n
       PROVE  /\ ReadsBy(t, m + 1) = ReadsBy(t, m) \o ReadNext(t[m + 1])
              /\ RowsBy(t, m + 1) = RowsBy(t, m) + Len(ReadNext(t[m + 1]))
              /\ BytesBy(t, m + 1) = BytesBy(t, m) + Partition(chosen[t[m + 1]]).bytes
  <2>1. m + 1 \in 0 .. n /\ m + 1 \in 1 .. n
    BY <1>1, <1>10, <1>m
  <2>2. ReadsBy(t, m + 1) = ReadsBy(t, m) \o ReadNext(t[m + 1])
    BY <1>3, <1>5, <1>8, <1>9, <1>10, <2>1
  <2>3. RowsBy(t, m + 1) = RowsBy(t, m) + Len(ReadNext(t[m + 1]))
    <3>1. RowsBy(t, m + 1) = SumFunctionOnSet(rows, 1 .. (m + 1))
      BY <1>5, <1>6, <2>1
    <3>2. SumFunctionOnSet(rows, 1 .. (m + 1)) = SumFunctionOnSet(rows, 1 .. m) + rows[m + 1]
      BY <1>6, <1>10, <1>m
    <3> QED
      BY <1>4, <1>9, <2>1, <3>1, <3>2
  <2>4. BytesBy(t, m + 1) = BytesBy(t, m) + Partition(chosen[t[m + 1]]).bytes
    <3>1. BytesBy(t, m + 1) = SumFunctionOnSet(bytes, 1 .. (m + 1))
      BY <1>5, <1>7, <2>1
    <3>2. SumFunctionOnSet(bytes, 1 .. (m + 1)) = SumFunctionOnSet(bytes, 1 .. m) + bytes[m + 1]
      BY <1>7, <1>10, <1>m
    <3> QED
      BY <1>4, <1>9, <2>1, <3>1, <3>2
  <2> QED
    BY <2>2, <2>3, <2>4
<1>11. RowsBy(t, m) = Len(ReadsBy(t, m)) /\ RowsBy(t, m) \in Nat /\ BytesBy(t, m) \in Nat
       /\ (m = 0 => RowsBy(t, m) = 0 /\ BytesBy(t, m) = 0)
  BY <1>6, <1>7, <1>9, <1>l, <1>m
<1> QED
  BY <1>8, <1>9, <1>10, <1>11 DEF n

\* They are the same of any list that begins the same.
LEMMA BySame ==
  ASSUME NEW t, NEW u, NEW m \in Nat, \A j \in 1 .. m : t[j] = u[j]
  PROVE  ReadsBy(t, m) = ReadsBy(u, m) /\ RowsBy(t, m) = RowsBy(u, m) /\ BytesBy(t, m) = BytesBy(u, m)
<1>1. \A j \in 1 .. m : /\ ReadNext(t[j]) = ReadNext(u[j])
                        /\ Partition(chosen[t[j]]).bytes = Partition(chosen[u[j]]).bytes
  OBVIOUS
<1>2. /\ [j \in 1 .. m |-> ReadNext(t[j])] = [j \in 1 .. m |-> ReadNext(u[j])]
      /\ [j \in 1 .. m |-> Len(ReadNext(t[j]))] = [j \in 1 .. m |-> Len(ReadNext(u[j]))]
      /\ [j \in 1 .. m |-> Partition(chosen[t[j]]).bytes] = [j \in 1 .. m |-> Partition(chosen[u[j]]).bytes]
  BY <1>1
<1> QED
  BY <1>2 DEF ReadsBy, RowsBy, BytesBy

\* What was yielded so far is such a t, now and after a step.
LEMMA TakenBy ==
  /\ \A m : TakenReads(m) = ReadsBy(taken, m) /\ TakenRows(m) = RowsBy(taken, m)
            /\ TakenBytes(m) = BytesBy(taken, m)
  /\ UNCHANGED <<asked, chosen, indexed>> =>
       \A m : TakenReads(m)' = ReadsBy(taken', m) /\ TakenRows(m)' = RowsBy(taken', m)
              /\ TakenBytes(m)' = BytesBy(taken', m)
<1>1. \A m : TakenReads(m) = ReadsBy(taken, m) /\ TakenRows(m) = RowsBy(taken, m)
             /\ TakenBytes(m) = BytesBy(taken, m)
  BY DEF TakenReads, TakenRows, TakenBytes, ReadsBy, RowsBy, BytesBy
<1>2. ASSUME UNCHANGED <<asked, chosen, indexed>>
      PROVE  \A m : TakenReads(m)' = ReadsBy(taken', m) /\ TakenRows(m)' = RowsBy(taken', m)
                    /\ TakenBytes(m)' = BytesBy(taken', m)
  BY <1>2 DEF asked, TakenReads, TakenRows, TakenBytes, ReadsBy, RowsBy, BytesBy, ReadNext,
        PartitionRows, FileRows, First, Partition
<1> QED
  BY <1>1, <1>2

\* What is yielded later changes nothing of what the reads before came to.
LEMMA TakenNext ==
  ASSUME TypeOK, TakenInTurn, UNCHANGED <<asked, chosen, indexed>>,
         NEW i \in DOMAIN chosen, NEW o \in BOOLEAN, Yield(i, o), NEW k, k = Len(taken) + 1
  PROVE  /\ \A m \in 0 .. Len(taken) : /\ TakenReads(m)' = TakenReads(m)
                                       /\ Going(m)' = Going(m)
         /\ \A m \in 1 .. Len(taken) : /\ Over(m)' = Over(m) /\ TakenRows(m)' = TakenRows(m)
                                       /\ Fails(taken[m])' = Fails(taken[m])
         /\ TakenReads(k)' = TakenReads(Len(taken)) \o ReadNext(i)
         /\ TakenRows(k)' = TakenRows(Len(taken)) + Len(ReadNext(i))
         /\ TakenBytes(k)' = TakenBytes(Len(taken)) + Partition(chosen[i]).bytes
         /\ Fails(taken[k])' = Fails(i)
<1> DEFINE n == Len(taken)
<1>1. /\ taken' = Append(taken, i)
      /\ n \in Nat /\ Len(taken') = n + 1
      /\ \A j \in 1 .. n : taken'[j] = taken[j]
      /\ taken'[n + 1] = i
  BY TakenOneMore
<1>2. taken' \in Seq(DOMAIN chosen)
  BY <1>1, AppendTaken
<1>3. /\ catalog' = catalog /\ request' = request /\ bounds' = bounds /\ chosen' = chosen /\ indexed' = indexed
  BY DEF asked
<1> HIDE DEF n
<1>4. \A m \in 0 .. n : /\ ReadsBy(taken', m) = ReadsBy(taken, m) /\ RowsBy(taken', m) = RowsBy(taken, m)
                        /\ BytesBy(taken', m) = BytesBy(taken, m)
  <2> TAKE m \in 0 .. n
  <2>1. m \in Nat /\ \A j \in 1 .. m : taken'[j] = taken[j]
    BY <1>1
  <2> QED
    BY <2>1, BySame
<1>5. \A m : /\ TakenReads(m) = ReadsBy(taken, m) /\ TakenRows(m) = RowsBy(taken, m)
             /\ TakenBytes(m) = BytesBy(taken, m)
             /\ TakenReads(m)' = ReadsBy(taken', m) /\ TakenRows(m)' = RowsBy(taken', m)
             /\ TakenBytes(m)' = BytesBy(taken', m)
  BY TakenBy
<1>6. \A m \in 0 .. n : /\ TakenReads(m)' = TakenReads(m) /\ TakenRows(m)' = TakenRows(m)
                        /\ TakenBytes(m)' = TakenBytes(m)
  BY <1>4, <1>5
<1>7. \A m \in 1 .. n : Over(m)' = Over(m) /\ Fails(taken[m])' = Fails(taken[m])
  <2> TAKE m \in 1 .. n
  <2>1. TakenRows(m)' = TakenRows(m) /\ TakenBytes(m)' = TakenBytes(m)
    BY <1>1, <1>6
  <2>2. Over(m)' = Over(m)
    BY <1>3, <2>1 DEF Over, Exceeded, IndexBytes, Limited
  <2>3. Fails(taken[m])' = Fails(taken[m])
    BY <1>1, <1>3 DEF Fails, Partition
  <2> QED
    BY <2>2, <2>3
<1>8. \A m \in 0 .. n : Going(m)' = Going(m)
  <2> TAKE m \in 0 .. n
  <2>1. \A j \in 1 .. m : /\ Over(j)' = Over(j) /\ Fails(taken[j])' = Fails(taken[j])
                          /\ Enough(TakenRows(j))' = Enough(TakenRows(j))
    <3> TAKE j \in 1 .. m
    <3>1. j \in 1 .. n /\ j \in 0 .. n
      BY <1>1
    <3>2. TakenRows(j)' = TakenRows(j)
      BY <1>6, <3>1
    <3>3. Enough(TakenRows(j))' = Enough(TakenRows(j))
      BY <1>3, <3>2 DEF Enough, Limited
    <3> QED
      BY <1>7, <3>1, <3>3
  <2> QED
    BY <2>1 DEF Going
<1>9. /\ ReadsBy(taken', k) = ReadsBy(taken', n) \o ReadNext(i)
      /\ RowsBy(taken', k) = RowsBy(taken', n) + Len(ReadNext(i))
      /\ BytesBy(taken', k) = BytesBy(taken', n) + Partition(chosen[i]).bytes
  <2>1. n \in 0 .. Len(taken') /\ n < Len(taken') /\ taken'[n + 1] = i /\ k = n + 1
    BY <1>1 DEF n
  <2> QED
    BY <1>2, <2>1, ByAre
<1>10. n \in 0 .. n
  BY <1>1
<1>11. Fails(taken[k])' = Fails(i)
  <2>1. taken'[k] = i
    BY <1>1 DEF n
  <2> QED
    BY <1>3, <2>1 DEF Fails, Partition
<1>12. \A m \in 1 .. n : TakenRows(m)' = TakenRows(m)
  BY <1>1, <1>6
<1>13. /\ TakenReads(k)' = TakenReads(n) \o ReadNext(i)
       /\ TakenRows(k)' = TakenRows(n) + Len(ReadNext(i))
       /\ TakenBytes(k)' = TakenBytes(n) + Partition(chosen[i]).bytes
  BY <1>4, <1>5, <1>9, <1>10
<1> QED
  BY <1>6, <1>7, <1>8, <1>11, <1>12, <1>13 DEF n

-----------------------------------------------------------------------------
(* Rows that are all different.                                            *)

Apart == {pair \in Places \X Places : pair[1] # pair[2]}

\* Two different places are apart.
LEMMA ApartIs ==
  ASSUME NEW a \in Places, NEW b \in Places, a # b
  PROVE  <<a, b>> \in Apart
BY DEF Apart

\* As many rows as places they are in.
LEMMA ApartCount ==
  ASSUME NEW s \in Seq(Places), OrderedBy(s, Apart)
  PROVE  Cardinality(Range(s)) = Len(s)
<1> DEFINE T == Range(s)
<1>1. Len(s) \in Nat /\ (\A j \in 1 .. Len(s) : s[j] \in T) /\ \A t \in T : \E j \in 1 .. Len(s) : s[j] = t
  BY RangeIs, LenProperties
<1>2. \A i, j \in 1 .. Len(s) : i < j => s[i] # s[j]
  BY DEF OrderedBy, Apart
<1>3. \A i, j \in 1 .. Len(s) : s[i] = s[j] => i = j
  <2> SUFFICES ASSUME NEW i \in 1 .. Len(s), NEW j \in 1 .. Len(s), s[i] = s[j], i # j PROVE FALSE
    OBVIOUS
  <2>1. i < j \/ j < i
    BY <1>1
  <2> QED
    BY <1>2, <2>1
<1> HIDE DEF T
<1>4. Cardinality(T) = Len(s)
  BY ONLY <1>1, <1>3, CountPlaces
<1> QED
  BY <1>4 DEF T

\* The rows of a partition are its own, each once.
LEMMA RowsOfOne ==
  ASSUME TypeOK, NEW p \in DOMAIN catalog.partitions
  PROVE  /\ OrderedBy(PartitionRows(p, NoLimit), Apart)
         /\ \A k \in 1 .. Len(PartitionRows(p, NoLimit)) :
              /\ PartitionRows(p, NoLimit)[k] \in Places
              /\ PartitionRows(p, NoLimit)[k][1] = p
<1> DEFINE n == Len(Partition(p).files)
           rows == [f \in 1 .. n |-> FileRows(p, f, NoLimit)]
<1>1. n \in Nat /\ DOMAIN Partition(p).files = 1 .. n /\ p \in Nat
      /\ \A f \in 1 .. n : Partition(p).files[f] \in Nat
  BY PartitionTyped
<1>2. \A f \in 1 .. n : /\ rows[f] \in Seq(Places) /\ Len(rows[f]) = Partition(p).files[f]
                        /\ \A k \in 1 .. Len(rows[f]) : rows[f][k] = <<p, f, k>> /\ <<p, f, k>> \in Places
  <2> TAKE f \in 1 .. n
  <2>1. /\ FileRows(p, f, NoLimit) \in Seq(Places)
        /\ Len(FileRows(p, f, NoLimit)) = Partition(p).files[f]
        /\ \A k \in 1 .. Partition(p).files[f] : FileRows(p, f, NoLimit)[k] = <<p, f, k>>
    BY <1>1, FileRowsAre
  <2>2. \A k \in 1 .. Partition(p).files[f] : <<p, f, k>> \in Places
    BY <1>1 DEF Places
  <2> QED
    BY <2>1, <2>2
<1>3. rows \in Seq(Seq(Places)) /\ Len(rows) = n
  <2> DEFINE Z == Seq(Places)
  <2>1. \A f \in 1 .. n : rows[f] \in Z
    BY <1>2
  <2>2. rows = [f \in 1 .. n |-> rows[f]]
    OBVIOUS
  <2> HIDE DEF Z, rows, n
  <2>3. rows \in Seq(Z) /\ Len(rows) = n
    BY <1>1, <2>1, <2>2
  <2> QED
    BY <2>3 DEF Z
<1>4. PartitionRows(p, NoLimit) = FlattenSeq(rows)
  BY <1>1 DEF PartitionRows
<1> HIDE DEF rows, n
<1>5. \A f \in 1 .. n : OrderedBy(rows[f], Apart)
  <2> SUFFICES ASSUME NEW f \in 1 .. n, NEW i \in 1 .. Len(rows[f]), NEW j \in 1 .. Len(rows[f]), i < j
               PROVE  <<rows[f][i], rows[f][j]>> \in Apart
    BY DEF OrderedBy
  <2>1. rows[f][i] = <<p, f, i>> /\ rows[f][j] = <<p, f, j>> /\ <<p, f, i>> \in Places /\ <<p, f, j>> \in Places
    BY <1>2
  <2>2. i # j
    BY <1>1, <1>2
  <2> QED
    BY <2>1, <2>2, ApartIs
<1>6. \A f, g \in 1 .. n : f < g => AllBefore(rows[f], rows[g], Apart)
  <2> SUFFICES ASSUME NEW f \in 1 .. n, NEW g \in 1 .. n, f < g,
                      NEW i \in 1 .. Len(rows[f]), NEW j \in 1 .. Len(rows[g])
               PROVE  <<rows[f][i], rows[g][j]>> \in Apart
    BY DEF AllBefore
  <2>1. rows[f][i] = <<p, f, i>> /\ rows[g][j] = <<p, g, j>> /\ <<p, f, i>> \in Places /\ <<p, g, j>> \in Places
    BY <1>2
  <2>2. f # g
    BY <1>1
  <2> QED
    BY <2>1, <2>2, ApartIs
<1>7. OrderedBy(FlattenSeq(rows), Apart)
  BY <1>3, <1>5, <1>6, FlattenInOrder
<1>8. \A k \in 1 .. Len(FlattenSeq(rows)) :
        FlattenSeq(rows)[k] \in Places /\ FlattenSeq(rows)[k][1] = p
  <2> TAKE k \in 1 .. Len(FlattenSeq(rows))
  <2>1. PICK f \in 1 .. n : \E j \in 1 .. Len(rows[f]) : FlattenSeq(rows)[k] = rows[f][j]
    BY <1>3, FlattenIs
  <2>2. PICK j \in 1 .. Len(rows[f]) : FlattenSeq(rows)[k] = rows[f][j]
    BY <2>1
  <2>3. rows[f][j] = <<p, f, j>> /\ <<p, f, j>> \in Places
    BY <1>2
  <2> QED
    BY <2>2, <2>3
<1> QED
  BY <1>4, <1>7, <1>8

\* No two of the partitions left are one.
LEMMA LeftApart ==
  ASSUME TypeOK, NEW i \in 1 .. Len(Left), NEW j \in 1 .. Len(Left), i # j
  PROVE  Left[i] # Left[j]
<1>1. Left \in Seq(DOMAIN catalog.partitions) /\ OrderedBy(Left, Upwards)
  BY LeftIs
<1>2. Len(Left) \in Nat
  BY <1>1, LenProperties
<1>3. i < j \/ j < i
  BY <1>2
<1>4. \A a, b : <<a, b>> \in Upwards => a # b
  BY DEF Upwards
<1> QED
  BY <1>1, <1>3, <1>4 DEF OrderedBy

\* Lists of rows, each of a partition of its own, come to rows that are all different.
LEMMA ApartTogether ==
  ASSUME NEW seqs \in Seq(Seq(Places)), \A i \in 1 .. Len(seqs) : OrderedBy(seqs[i], Apart),
         NEW p, \A i \in 1 .. Len(seqs) : \A k \in 1 .. Len(seqs[i]) : seqs[i][k][1] = p[i],
         \A i, j \in 1 .. Len(seqs) : i # j => p[i] # p[j]
  PROVE  OrderedBy(FlattenSeq(seqs), Apart)
<1>1. Len(seqs) \in Nat /\ \A i \in 1 .. Len(seqs) : seqs[i] \in Seq(Places)
  BY LenProperties, ElementOfSeq
<1>2. \A i, j \in 1 .. Len(seqs) : i < j => AllBefore(seqs[i], seqs[j], Apart)
  <2> SUFFICES ASSUME NEW i \in 1 .. Len(seqs), NEW j \in 1 .. Len(seqs), i < j,
                      NEW x \in 1 .. Len(seqs[i]), NEW y \in 1 .. Len(seqs[j])
               PROVE  <<seqs[i][x], seqs[j][y]>> \in Apart
    BY DEF AllBefore
  <2>1. i # j
    BY <1>1
  <2>2. seqs[i][x][1] # seqs[j][y][1]
    BY <2>1
  <2>3. seqs[i][x] \in Places /\ seqs[j][y] \in Places
    BY <1>1, ElementOfSeq
  <2> QED
    BY <2>2, <2>3, ApartIs
<1> QED
  BY <1>2, FlattenInOrder

\* Read without a limit and in any order, the reads are rows of the answer, each once.
LEMMA ReadsApart ==
  ASSUME TypeOK, chosen = Left, ~ Limited, NEW t \in Seq(DOMAIN chosen), Distinct(t),
         NEW m \in 0 .. Len(t)
  PROVE  /\ OrderedBy(ReadsBy(t, m), Apart)
         /\ \A k \in 1 .. Len(ReadsBy(t, m)) : \E j \in 1 .. Len(AllRows) : AllRows[j] = ReadsBy(t, m)[k]
         /\ \A j \in 1 .. m : \A k \in 1 .. Len(ReadNext(t[j])) :
              \E x \in 1 .. Len(ReadsBy(t, m)) : ReadsBy(t, m)[x] = ReadNext(t[j])[k]
<1> DEFINE reads == [j \in 1 .. m |-> ReadNext(t[j])]
           p == [j \in 1 .. m |-> chosen[t[j]]]
<1>1. m \in Nat /\ Len(t) \in Nat /\ DOMAIN chosen = 1 .. Len(chosen)
      /\ \A j \in 1 .. m : j \in 1 .. Len(t) /\ t[j] \in 1 .. Len(chosen) /\ chosen[t[j]] \in DOMAIN catalog.partitions
  <2>1. Len(t) \in Nat /\ \A j \in 1 .. Len(t) : t[j] \in DOMAIN chosen
    BY LenProperties, ElementOfSeq
  <2>2. \A j \in 1 .. m : j \in 1 .. Len(t)
    BY <2>1
  <2> QED
    BY <2>1, <2>2, AskedAre
<1>2. request.limit = NoLimit
  BY LimitIs
<1>3. \A j \in 1 .. m : /\ reads[j] = PartitionRows(p[j], NoLimit) /\ reads[j] = ReadNext(t[j])
                        /\ reads[j] \in Seq(Places) /\ p[j] \in DOMAIN catalog.partitions
  <2> TAKE j \in 1 .. m
  <2>1. reads[j] = PartitionRows(p[j], NoLimit) /\ reads[j] = ReadNext(t[j])
    BY <1>2 DEF ReadNext
  <2>2. p[j] \in DOMAIN catalog.partitions
    BY <1>1
  <2>3. PartitionRows(p[j], NoLimit) \in Seq(Places)
    BY <2>2, PartitionRowsAre
  <2> QED
    BY <2>1, <2>2, <2>3
<1>4. reads \in Seq(Seq(Places)) /\ Len(reads) = m
  <2> DEFINE Z == Seq(Places)
  <2>1. \A f \in 1 .. m : reads[f] \in Z
    BY <1>3
  <2>2. reads = [f \in 1 .. m |-> reads[f]]
    OBVIOUS
  <2>3. m \in Nat
    BY <1>1
  <2> HIDE DEF Z, reads
  <2>4. reads \in Seq(Z) /\ Len(reads) = m
    BY ONLY <2>1, <2>2, <2>3
  <2> QED
    BY <2>4 DEF Z
<1>5. ReadsBy(t, m) = FlattenSeq(reads)
  BY DEF ReadsBy
<1>6. \A i, j \in 1 .. m : i # j => p[i] # p[j]
  <2> SUFFICES ASSUME NEW i \in 1 .. m, NEW j \in 1 .. m, i # j PROVE p[i] # p[j]
    OBVIOUS
  <2>1. t[i] # t[j]
    BY <1>1 DEF Distinct
  <2> QED
    BY <1>1, <2>1, LeftApart
<1> HIDE DEF reads, p
<1>7. \A j \in 1 .. m : OrderedBy(reads[j], Apart) /\ \A k \in 1 .. Len(reads[j]) : reads[j][k][1] = p[j]
  BY <1>3, RowsOfOne
<1>8. OrderedBy(FlattenSeq(reads), Apart)
  <2>1. /\ \A j \in 1 .. Len(reads) : OrderedBy(reads[j], Apart)
        /\ \A j \in 1 .. Len(reads) : \A k \in 1 .. Len(reads[j]) : reads[j][k][1] = p[j]
        /\ \A i, j \in 1 .. Len(reads) : i # j => p[i] # p[j]
    BY <1>4, <1>6, <1>7
  <2> QED
    BY ONLY <1>4, <2>1, ApartTogether
<1>9. AllRows = FlattenSeq(Asked) /\ Asked \in Seq(Seq(Places)) /\ Len(Asked) = Len(chosen)
      /\ \A i \in 1 .. Len(chosen) : Asked[i] = ReadNext(i)
  <2>1. AllRows = FlattenSeq(Asked)
    BY <1>2, ReachedRowsAre DEF Asked
  <2> QED
    BY <2>1, AskedAre
<1>10. \A k \in 1 .. Len(FlattenSeq(reads)) : \E j \in 1 .. Len(AllRows) : AllRows[j] = FlattenSeq(reads)[k]
  <2> TAKE k \in 1 .. Len(FlattenSeq(reads))
  <2>1. PICK i \in 1 .. m : \E j \in 1 .. Len(reads[i]) : FlattenSeq(reads)[k] = reads[i][j]
    BY <1>4, FlattenIs
  <2>2. t[i] \in 1 .. Len(Asked) /\ Asked[t[i]] = reads[i]
    BY <1>1, <1>3, <1>9
  <2>3. \A j \in 1 .. Len(Asked[t[i]]) : \E x \in 1 .. Len(FlattenSeq(Asked)) : FlattenSeq(Asked)[x] = Asked[t[i]][j]
    BY <1>9, <2>2, FlattenIs
  <2> QED
    BY <1>9, <2>1, <2>2, <2>3
<1>11. \A j \in 1 .. m : \A k \in 1 .. Len(ReadNext(t[j])) :
         \E x \in 1 .. Len(FlattenSeq(reads)) : FlattenSeq(reads)[x] = ReadNext(t[j])[k]
  <2>1. \A j \in 1 .. Len(reads) : \A k \in 1 .. Len(reads[j]) :
          \E x \in 1 .. Len(FlattenSeq(reads)) : FlattenSeq(reads)[x] = reads[j][k]
    BY <1>4, FlattenIs
  <2>2. \A j \in 1 .. m : reads[j] = ReadNext(t[j])
    BY <1>3
  <2> QED
    BY ONLY <1>4, <2>1, <2>2
<1> QED
  BY <1>5, <1>8, <1>10, <1>11

-----------------------------------------------------------------------------
(* Counted in any order.                                                   *)

\* Fewer come to less.
LEMMA UpToGrows ==
  ASSUME TypeOK, NEW k \in 0 .. Len(chosen)
  PROVE  RowsUpTo(k) <= RowsUpTo(Len(chosen)) /\ BytesUpTo(k) <= BytesUpTo(Len(chosen))
<1> DEFINE n == Len(chosen)
<1>1. n \in Nat /\ n \in 0 .. n /\ k \in 0 .. n
  BY AskedAre
<1>2. \A j \in 1 .. n : RowCounts[j] \in Nat /\ ByteCounts[j] \in Nat
  BY CountsTyped
<1>3. /\ RowsUpTo(k) = SumFunctionOnSet(RowCounts, 1 .. k) /\ RowsUpTo(n) = SumFunctionOnSet(RowCounts, 1 .. n)
      /\ BytesUpTo(k) = SumFunctionOnSet(ByteCounts, 1 .. k) /\ BytesUpTo(n) = SumFunctionOnSet(ByteCounts, 1 .. n)
  BY <1>1, UpToAre
<1> HIDE DEF n
<1>4. SumFunctionOnSet(RowCounts, 1 .. k) <= SumFunctionOnSet(RowCounts, 1 .. n)
  BY <1>1, <1>2, SumUpTo
<1>5. SumFunctionOnSet(ByteCounts, 1 .. k) <= SumFunctionOnSet(ByteCounts, 1 .. n)
  BY <1>1, <1>2, SumUpTo
<1> QED
  BY <1>3, <1>4, <1>5 DEF n

\* What some of the reads come to is no more than what all do.
LEMMA TakenSums ==
  ASSUME TypeOK, NEW t \in Seq(DOMAIN chosen), Distinct(t), NEW m \in 0 .. Len(t)
  PROVE  /\ RowsBy(t, m) <= RowsUpTo(Len(chosen)) /\ BytesBy(t, m) <= BytesUpTo(Len(chosen))
         /\ m = Len(chosen) => /\ RowsBy(t, m) = RowsUpTo(Len(chosen))
                               /\ BytesBy(t, m) = BytesUpTo(Len(chosen))
                               /\ \A i \in 1 .. Len(chosen) : \E j \in 1 .. m : t[j] = i
<1> DEFINE n == Len(chosen)
<1>1. n \in Nat /\ n \in 0 .. n /\ DOMAIN chosen = 1 .. n
  BY AskedAre
<1>2. \A j \in 1 .. n : /\ RowCounts[j] \in Nat /\ RowCounts[j] = Len(ReadNext(j))
                        /\ ByteCounts[j] \in Nat /\ ByteCounts[j] = Partition(chosen[j]).bytes
  BY CountsTyped
<1>3. RowsUpTo(n) = SumFunctionOnSet(RowCounts, 1 .. n) /\ BytesUpTo(n) = SumFunctionOnSet(ByteCounts, 1 .. n)
  BY <1>1, UpToAre
<1>4. t \in Seq(1 .. n) /\ Len(t) \in Nat
  BY <1>1, LenProperties
<1> HIDE DEF n
<1>5. \A j \in 1 .. m : t[j] \in 1 .. n
  <2>1. \A j \in 1 .. m : j \in 1 .. Len(t)
    BY <1>4
  <2>2. \A j \in 1 .. Len(t) : t[j] \in 1 .. n
    BY ONLY <1>4, ElementOfSeq
  <2> QED
    BY ONLY <2>1, <2>2
<1>6. /\ [j \in 1 .. m |-> Len(ReadNext(t[j]))] = [j \in 1 .. m |-> RowCounts[t[j]]]
      /\ [j \in 1 .. m |-> Partition(chosen[t[j]]).bytes] = [j \in 1 .. m |-> ByteCounts[t[j]]]
  BY <1>2, <1>5
<1>7. /\ SumFunction([j \in 1 .. m |-> RowCounts[t[j]]]) <= SumFunctionOnSet(RowCounts, 1 .. n)
      /\ m = n => SumFunction([j \in 1 .. m |-> RowCounts[t[j]]]) = SumFunctionOnSet(RowCounts, 1 .. n)
  <2>1. \A j \in 1 .. n : RowCounts[j] \in Nat
    BY <1>2
  <2> QED
    BY <1>1, <1>4, <2>1, TakenAdds
<1>8. /\ SumFunction([j \in 1 .. m |-> ByteCounts[t[j]]]) <= SumFunctionOnSet(ByteCounts, 1 .. n)
      /\ m = n => SumFunction([j \in 1 .. m |-> ByteCounts[t[j]]]) = SumFunctionOnSet(ByteCounts, 1 .. n)
  <2>1. \A j \in 1 .. n : ByteCounts[j] \in Nat
    BY <1>2
  <2> QED
    BY <1>1, <1>4, <2>1, TakenAdds
<1>9. m = n => \A i \in 1 .. n : \E j \in 1 .. m : t[j] = i
  <2>1. m = n => {t[j] : j \in 1 .. m} = 1 .. n
    BY <1>1, <1>4, AllTaken
  <2> QED
    BY <2>1
<1> QED
  BY <1>3, <1>6, <1>7, <1>8, <1>9 DEF n, RowsBy, BytesBy

-----------------------------------------------------------------------------
(* Without a limit.                                                        *)

OverAt(t, k) == IndexBytes + BytesBy(t, k) > bounds.bytes \/ RowsBy(t, k) > bounds.rows

\* What a request without a limit comes to, whichever order its reads were looked at in.
LEMMA VerdictAny ==
  ASSUME TypeOK, ~ Limited, ~ TooManyPartitions, NEW t \in Seq(DOMAIN chosen), Distinct(t)
  PROVE  /\ \A k \in 1 .. Len(t) : Fails(t[k]) \/ OverAt(t, k) => Verdict # "rows"
         /\ (/\ Len(t) = Len(chosen)
             /\ \A k \in 1 .. Len(t) : ~ Fails(t[k]) /\ ~ OverAt(t, k)) => Verdict = "rows"
<1> DEFINE n == Len(chosen)
           stops == {i \in Needed : Fails(i) \/ GoesOver(i)}
<1>1. n \in Nat /\ DOMAIN chosen = 1 .. n /\ n \in 0 .. n /\ Len(t) \in Nat
      /\ \A k \in 1 .. Len(t) : t[k] \in 1 .. n
  <2>1. Len(t) \in Nat /\ \A k \in 1 .. Len(t) : t[k] \in DOMAIN chosen
    BY LenProperties, ElementOfSeq
  <2> QED
    BY <2>1, AskedAre
<1>2. Needed = 1 .. n
  BY <1>1 DEF Needed
<1>3. ~ (request.limit = 0 /\ catalog.common /\ request.how = "collected")
  BY LimitIs, PartitionReadsAssumption
<1>4. \A i \in 1 .. n : GoesOver(i) <=> IndexBytes + BytesUpTo(i) > bounds.bytes \/ RowsUpTo(i) > bounds.rows
  BY DEF GoesOver
<1>5. IndexBytes \in Nat /\ bounds.bytes \in Nat /\ bounds.rows \in Nat
  BY AskedTyped DEF IndexBytes
<1>6. \A k \in 0 .. n : /\ RowsUpTo(k) \in Nat /\ BytesUpTo(k) \in Nat
                        /\ RowsUpTo(k) <= RowsUpTo(n) /\ BytesUpTo(k) <= BytesUpTo(n)
  BY UpToAre, UpToGrows
<1>7. \A k \in 0 .. Len(t) :
        /\ RowsBy(t, k) \in Nat /\ BytesBy(t, k) \in Nat
        /\ RowsBy(t, k) <= RowsUpTo(n) /\ BytesBy(t, k) <= BytesUpTo(n)
        /\ k = n => /\ RowsBy(t, k) = RowsUpTo(n) /\ BytesBy(t, k) = BytesUpTo(n)
                    /\ \A i \in 1 .. n : \E j \in 1 .. k : t[j] = i
  BY ByAre, TakenSums
<1>8. /\ stops # {} => Verdict # "rows"
      /\ stops = {} => Verdict = "rows"
  BY <1>3 DEF Verdict
<1>9. ASSUME NEW k \in 1 .. Len(t), Fails(t[k]) \/ OverAt(t, k) PROVE stops # {}
  <2>1. CASE Fails(t[k])
    <3>1. t[k] \in stops
      BY <1>1, <1>2, <2>1
    <3> QED
      BY <3>1
  <2>2. CASE OverAt(t, k)
    <3>1. n \in 1 .. n /\ k \in 0 .. Len(t)
      BY <1>1
    <3>2. IndexBytes + BytesUpTo(n) > bounds.bytes \/ RowsUpTo(n) > bounds.rows
      <4>1. /\ RowsBy(t, k) \in Nat /\ BytesBy(t, k) \in Nat
            /\ RowsBy(t, k) <= RowsUpTo(n) /\ BytesBy(t, k) <= BytesUpTo(n)
        BY <1>7, <3>1
      <4>2. RowsUpTo(n) \in Nat /\ BytesUpTo(n) \in Nat
        BY <1>1, <1>6
      <4>3. IndexBytes + BytesBy(t, k) > bounds.bytes \/ RowsBy(t, k) > bounds.rows
        BY <2>2 DEF OverAt
      <4> HIDE DEF n
      <4> QED
        BY <1>5, <4>1, <4>2, <4>3
    <3>3. n \in stops
      BY <1>2, <1>4, <3>1, <3>2
    <3> QED
      BY <3>3
  <2> QED
    BY <1>9, <2>1, <2>2
<1>10. ASSUME Len(t) = n, \A k \in 1 .. Len(t) : ~ Fails(t[k]) /\ ~ OverAt(t, k) PROVE stops = {}
  <2> SUFFICES ASSUME NEW i \in stops PROVE FALSE
    OBVIOUS
  <2>1. i \in 1 .. n /\ (Fails(i) \/ GoesOver(i)) /\ i \in 0 .. n
    BY <1>1, <1>2
  <2>2. n \in 1 .. n /\ n \in 0 .. Len(t)
    BY <1>1, <1>10, <2>1
  <2>3. ~ Fails(i)
    <3>1. PICK j \in 1 .. n : t[j] = i
      BY <1>7, <1>10, <2>1, <2>2
    <3> QED
      BY <1>10, <3>1
  <2>4. ~ (IndexBytes + BytesUpTo(n) > bounds.bytes) /\ ~ (RowsUpTo(n) > bounds.rows)
    BY <1>7, <1>10, <2>2 DEF OverAt
  <2>5. ~ (IndexBytes + BytesUpTo(i) > bounds.bytes) /\ ~ (RowsUpTo(i) > bounds.rows)
    BY <1>1, <1>5, <1>6, <2>1, <2>4
  <2> QED
    BY <1>4, <2>1, <2>3, <2>5
<1> QED
  BY <1>8, <1>9, <1>10

-----------------------------------------------------------------------------
(* A streamed read.                                                        *)

InStream == at \in {"first", "body"} /\ writing # "end"

\* Rows that may have been sent: the first of the answer, or some of it.
Sound(s) ==
  IF Limited THEN IsPrefix(s, AnswerRows)
  ELSE Range(s) \subseteq Range(AnswerRows) /\ Cardinality(Range(s)) = Len(s)

\* What is so of every streamed read that has not ended.
LEMMA StreamIs ==
  ASSUME TypeOK, ChosenOnce, TakenInTurn, Streaming, InStream
  PROVE  /\ request.how \in Streams /\ chosen = Left /\ ~ TooManyPartitions /\ ~ AsksNoRow
         /\ taken \in Seq(DOMAIN chosen) /\ Distinct(taken) /\ Len(taken) \in Nat
         /\ DOMAIN taken = 1 .. Len(taken)
         /\ Limited => \A j \in DOMAIN taken : taken[j] = j
         /\ WalkGoes \/ \E k \in DOMAIN taken : WalkEndedAt(k)
         /\ \E m \in 0 .. Len(taken) : gathered = First(TakenReads(m), request.limit)
<1>1. /\ request.how \in Streams /\ chosen = Left /\ ~ TooManyPartitions
      /\ WalkGoes \/ \E k \in DOMAIN taken : WalkEndedAt(k)
  BY DEF InStream, ChosenOnce, Streaming
<1>2. ~ AsksNoRow
  BY <1>1 DEF AsksNoRow, Streams
<1>3. taken \in Seq(DOMAIN chosen) /\ Len(taken) \in Nat /\ DOMAIN taken = 1 .. Len(taken)
  BY LenProperties DEF TypeOK
<1>4. Distinct(taken) /\ (Limited => \A j \in DOMAIN taken : taken[j] = j)
  BY <1>3 DEF TakenInTurn, Distinct
<1>5. \E m \in 0 .. Len(taken) : gathered = First(TakenReads(m), request.limit)
  <2>1. CASE WalkGoes
    <3>1. Len(taken) \in 0 .. Len(taken) /\ gathered = First(TakenReads(Len(taken)), request.limit)
      BY <1>3, <2>1 DEF WalkGoes
    <3> QED
      BY <3>1
  <2>2. CASE \E k \in DOMAIN taken : WalkEndedAt(k)
    <3>1. PICK k \in 1 .. Len(taken) : WalkEndedAt(k)
      BY <1>3, <2>2
    <3>2. k - 1 \in 0 .. Len(taken) /\ k \in 0 .. Len(taken)
      BY <1>3
    <3> QED
      BY <3>1, <3>2 DEF WalkEndedAt
  <2> QED
    BY <1>1, <2>1, <2>2
<1> QED
  BY <1>1, <1>2, <1>3, <1>4, <1>5

\* All the rows let out so far may be sent.
LEMMA GatheredSound ==
  ASSUME TypeOK, ChosenOnce, TakenInTurn, Streaming, InStream
  PROVE  Sound(gathered)
<1>1. /\ chosen = Left
      /\ taken \in Seq(DOMAIN chosen) /\ Distinct(taken)
      /\ Limited => \A j \in DOMAIN taken : taken[j] = j
  BY StreamIs
<1>2. PICK m \in 0 .. Len(taken) : gathered = First(TakenReads(m), request.limit)
  BY StreamIs
<1>3. CASE Limited
  <2> DEFINE n == Len(chosen)
             a == FlattenSeq(Leading(Asked, m))
             b == FlattenSeq(Leading(Asked, n))
  <2>1. /\ Len(taken) \in 0 .. n /\ TakenReads(m) = a
    BY <1>1, <1>3, InOrderTaken
  <2>2. Asked \in Seq(Seq(Places)) /\ Len(Asked) = n /\ n \in Nat
    BY AskedAre
  <2>3. m \in 0 .. Len(Asked) /\ Len(Asked) \in m .. Len(Asked) /\ m \in 0 .. n /\ n \in 0 .. n
    BY <2>1, <2>2
  <2>4. a \in Seq(Places)
    BY <2>2, <2>3, FlattenUpTo
  <2>5. PICK t \in Seq(Places) : b = a \o t
    <3>1. \E t \in Seq(Places) : FlattenSeq(Leading(Asked, Len(Asked))) = FlattenSeq(Leading(Asked, m)) \o t
      BY <2>2, <2>3, FlattenBegins
    <3> QED
      BY <2>2, <3>1
  <2>6. First(b, request.limit) = AnswerRows
    BY <1>1, <2>3, EnoughIsTheAnswer
  <2>7. request.limit \in Nat
    BY <1>3, LimitIs
  <2> HIDE DEF a, b
  <2>8. IsPrefix(First(a, request.limit), First(a \o t, request.limit))
    BY <2>4, <2>7, FirstBegins
  <2> QED
    BY <1>2, <1>3, <2>1, <2>5, <2>6, <2>8 DEF Sound
<1>4. CASE ~ Limited
  <2> DEFINE r == ReadsBy(taken, m)
  <2>1. request.limit = NoLimit
    BY <1>4, LimitIs
  <2>2. r \in Seq(Places) /\ TakenReads(m) = r
    BY <1>1, ByAre, TakenBy
  <2>3. gathered = r /\ AnswerRows = AllRows /\ AllRows \in Seq(Places)
    <3>1. AllRows \in Seq(Places)
      BY ReachedRowsAre
    <3> QED
      BY <1>2, <2>1, <2>2, <3>1, FirstIs DEF AnswerRows
  <2>4. /\ OrderedBy(r, Apart)
        /\ \A k \in 1 .. Len(r) : \E j \in 1 .. Len(AllRows) : AllRows[j] = r[k]
    BY <1>1, <1>4, ReadsApart
  <2> HIDE DEF r
  <2>5. Cardinality(Range(r)) = Len(r)
    BY <2>2, <2>4, ApartCount
  <2>6. Range(r) \subseteq Range(AllRows)
    <3>1. \A x \in Range(r) : \E i \in 1 .. Len(r) : r[i] = x
      BY <2>2, RangeIs
    <3>2. \A i \in 1 .. Len(AllRows) : AllRows[i] \in Range(AllRows)
      BY <2>3, RangeIs
    <3> QED
      BY <2>4, <3>1, <3>2
  <2> QED
    BY <1>4, <2>3, <2>5, <2>6 DEF Sound
<1> QED
  BY <1>3, <1>4

\* The read a walk ended at says what the request comes to.
LEMMA StoppedIs ==
  ASSUME TypeOK, ChosenOnce, TakenInTurn, Streaming, InStream,
         NEW k \in DOMAIN taken, Going(k - 1)
  PROVE  /\ Fails(taken[k]) \/ Over(k) => Verdict # "rows"
         /\ ~ Fails(taken[k]) /\ ~ Over(k) /\ Enough(TakenRows(k)) =>
              Verdict = "rows" /\ First(TakenReads(k), request.limit) = AnswerRows
<1>1. /\ chosen = Left /\ ~ TooManyPartitions /\ ~ AsksNoRow
      /\ taken \in Seq(DOMAIN chosen) /\ Distinct(taken)
      /\ Len(taken) \in Nat /\ DOMAIN taken = 1 .. Len(taken)
      /\ Limited => \A j \in DOMAIN taken : taken[j] = j
  BY StreamIs
<1>2. CASE Limited
  <2>1. \A j \in DOMAIN taken : taken[j] = j
    BY <1>1, <1>2
  <2>2. Len(taken) \in 0 .. Len(chosen) /\ TakenReads(k) = FlattenSeq(Leading(Asked, k)) /\ TakenRows(k) = RowsUpTo(k)
    <3>1. k \in 0 .. Len(taken)
      BY <1>1
    <3> QED
      BY <2>1, <3>1, InOrderTaken
  <2>3. k \in 1 .. Len(chosen) /\ k \in 0 .. Len(chosen) /\ k - 1 \in 0 .. Len(taken) /\ k \in 1 .. Len(taken)
    <3>1. Len(chosen) \in Nat
      BY AskedAre
    <3> QED
      BY <1>1, <2>2, <3>1
  <2>4. (Over(k) <=> GoesOver(k)) /\ (Fails(taken[k]) <=> Fails(k)) /\ FineUpTo(k - 1)
    BY <2>1, <2>3, OverInOrder
  <2>5. /\ Fails(k) => Verdict = "failed"
        /\ ~ Fails(k) /\ GoesOver(k) => Verdict = "refused"
        /\ ~ Fails(k) /\ ~ GoesOver(k) /\ Enough(RowsUpTo(k)) => Verdict = "rows"
    BY <1>1, <2>3, <2>4, VerdictAt
  <2>6. Enough(RowsUpTo(k)) => First(FlattenSeq(Leading(Asked, k)), request.limit) = AnswerRows
    BY <1>1, <2>3, EnoughIsTheAnswer
  <2> QED
    BY <2>2, <2>4, <2>5, <2>6
<1>3. CASE ~ Limited
  <2>1. Over(k) <=> OverAt(taken, k)
    BY <1>3, TakenBy DEF Over, OverAt, Exceeded
  <2>2. Fails(taken[k]) \/ OverAt(taken, k) => Verdict # "rows"
    BY <1>1, <1>3, VerdictAny
  <2>3. ~ Enough(TakenRows(k))
    BY <1>3 DEF Enough
  <2> QED
    BY <2>1, <2>2, <2>3
<1> QED
  BY <1>2, <1>3

\* A walk that came to the end of the chosen let out the answer.
LEMMA DryIs ==
  ASSUME TypeOK, ChosenOnce, TakenInTurn, Streaming, InStream,
         WalkGoes, Len(taken) = Len(chosen)
  PROVE  /\ Verdict = "rows"
         /\ Len(gathered) = Len(AnswerRows) /\ Range(gathered) = Range(AnswerRows)
<1> DEFINE n == Len(taken)
<1>1. /\ chosen = Left /\ ~ TooManyPartitions
      /\ taken \in Seq(DOMAIN chosen) /\ Distinct(taken)
      /\ n \in Nat /\ DOMAIN taken = 1 .. n /\ n \in 0 .. n /\ n = Len(chosen)
      /\ Limited => \A j \in DOMAIN taken : taken[j] = j
  BY StreamIs
<1>2. Going(n) /\ gathered = First(TakenReads(n), request.limit)
  BY DEF WalkGoes
<1>3. CASE Limited
  <2>1. \A j \in DOMAIN taken : taken[j] = j
    BY <1>1, <1>3
  <2>2. TakenReads(n) = FlattenSeq(Leading(Asked, n)) /\ FineUpTo(n)
    BY <1>1, <1>2, <2>1, InOrderTaken, OverInOrder
  <2>3. Verdict = "rows"
    BY <1>1, <2>2, VerdictAll
  <2>4. gathered = AnswerRows
    BY <1>1, <1>2, <2>2, EnoughIsTheAnswer
  <2> QED
    BY <2>3, <2>4
<1>4. CASE ~ Limited
  <2> DEFINE r == ReadsBy(taken, n)
  <2>1. request.limit = NoLimit
    BY <1>4, LimitIs
  <2>2. r \in Seq(Places) /\ TakenReads(n) = r /\ RowsBy(taken, n) = Len(r)
    BY <1>1, ByAre, TakenBy
  <2>3. AllRows \in Seq(Places) /\ AllRows = FlattenSeq(Asked)
    BY <1>1, <2>1, ReachedRowsAre DEF Asked
  <2>4. gathered = r /\ AnswerRows = AllRows
    BY <1>2, <2>1, <2>2, <2>3, FirstIs DEF AnswerRows
  <2>5. \A k \in 1 .. n : ~ Fails(taken[k]) /\ ~ OverAt(taken, k)
    <3> TAKE k \in 1 .. n
    <3>1. ~ Fails(taken[k]) /\ ~ Over(k)
      BY <1>2 DEF Going
    <3>2. Over(k) <=> OverAt(taken, k)
      BY <1>4, TakenBy DEF Over, OverAt, Exceeded
    <3> QED
      BY <3>1, <3>2
  <2>6. Verdict = "rows"
    BY <1>1, <1>4, <2>5, VerdictAny
  <2>7. /\ Asked \in Seq(Seq(Places)) /\ Len(Asked) = n
        /\ \A i \in 1 .. n : Asked[i] = ReadNext(i)
    BY <1>1, AskedAre
  <2>8. Len(AllRows) = RowsUpTo(n)
    <3>1. n \in 0 .. Len(chosen) /\ n \in 0 .. Len(Asked)
      BY <1>1, <2>7
    <3>2. RowsUpTo(n) = Len(FlattenSeq(Leading(Asked, n)))
      BY <3>1, UpToAre
    <3>3. Leading(Asked, n) = Asked
      BY <2>7, <3>1, FlattenUpTo
    <3> QED
      BY <2>3, <3>2, <3>3
  <2>9. RowsBy(taken, n) = RowsUpTo(n) /\ \A i \in 1 .. n : \E j \in 1 .. n : taken[j] = i
    <3>1. n \in 0 .. Len(taken) /\ n = Len(chosen)
      BY <1>1
    <3>2. /\ RowsBy(taken, n) = RowsUpTo(Len(chosen))
          /\ \A i \in 1 .. Len(chosen) : \E j \in 1 .. n : taken[j] = i
      BY ONLY TypeOK, <1>1, <3>1, TakenSums
    <3> QED
      BY <3>1, <3>2
  <2>10. \A k \in 1 .. Len(r) : \E j \in 1 .. Len(AllRows) : AllRows[j] = r[k]
    BY <1>1, <1>4, ReadsApart
  <2>11. \A j \in 1 .. n : \A k \in 1 .. Len(ReadNext(taken[j])) :
           \E x \in 1 .. Len(r) : r[x] = ReadNext(taken[j])[k]
    BY <1>1, <1>4, ReadsApart
  <2> HIDE DEF n, r
  <2>12. \A k \in 1 .. Len(AllRows) : \E x \in 1 .. Len(r) : r[x] = AllRows[k]
    <3> TAKE k \in 1 .. Len(AllRows)
    <3>1. PICK i \in 1 .. Len(Asked) : \E j \in 1 .. Len(Asked[i]) : FlattenSeq(Asked)[k] = Asked[i][j]
      BY <2>3, <2>7, FlattenIs
    <3>2. PICK j \in 1 .. n : taken[j] = i
      BY <2>7, <2>9, <3>1
    <3>3. PICK y \in 1 .. Len(Asked[i]) : FlattenSeq(Asked)[k] = Asked[i][y]
      BY <3>1
    <3>4. Asked[i] = ReadNext(taken[j])
      BY <2>7, <3>2
    <3>5. \E x \in 1 .. Len(r) : r[x] = ReadNext(taken[j])[y]
      BY <2>11, <3>4
    <3> QED
      BY <2>3, <3>3, <3>4, <3>5
  <2>13. Range(r) = Range(AllRows)
    <3>1. /\ \A x \in Range(r) : \E i \in 1 .. Len(r) : r[i] = x
          /\ \A i \in 1 .. Len(r) : r[i] \in Range(r)
      BY <2>2, RangeIs
    <3>2. /\ \A x \in Range(AllRows) : \E i \in 1 .. Len(AllRows) : AllRows[i] = x
          /\ \A i \in 1 .. Len(AllRows) : AllRows[i] \in Range(AllRows)
      BY <2>3, RangeIs
    <3>3. ASSUME NEW x \in Range(r) PROVE x \in Range(AllRows)
      BY <2>10, <3>1, <3>2
    <3>4. ASSUME NEW x \in Range(AllRows) PROVE x \in Range(r)
      BY <2>12, <3>1, <3>2
    <3> QED
      BY <3>3, <3>4
  <2> QED
    BY <2>2, <2>4, <2>6, <2>8, <2>9, <2>13
<1> QED
  BY <1>3, <1>4

\* Rows cut to the room left are the next of the first.
LEMMA CutGoesOn ==
  ASSUME TypeOK, NEW t \in Seq(Places), gathered = First(t, request.limit), NEW r \in Seq(Places)
  PROVE  /\ Cut(r) \in Seq(Places)
         /\ gathered \o Cut(r) = First(t \o r, request.limit)
         /\ r = <<>> => Cut(r) = <<>>
         /\ Enough(Len(First(t \o r, request.limit))) <=> Enough(Len(t) + Len(r))
<1>1. /\ t \o r \in Seq(Places) /\ Len(t \o r) = Len(t) + Len(r) /\ Len(t) \in Nat /\ Len(r) \in Nat
      /\ First(t \o r, NoLimit) = t \o r /\ First(t, NoLimit) = t
  <2>1. t \o r \in Seq(Places) /\ Len(t \o r) = Len(t) + Len(r) /\ Len(t) \in Nat /\ Len(r) \in Nat
    BY ConcatPlaces
  <2> QED
    BY <2>1, FirstIs
<1>2. Cut(r) \in Seq(Places)
  BY CutIs
<1>3. CASE ~ Limited
  BY <1>1, <1>2, <1>3, LimitIs DEF Cut, Enough
<1>4. CASE Limited
  <2> DEFINE g == gathered
             L == request.limit
             room == L - Len(g)
             c == First(r, room)
  <2>1. L \in Nat
    BY <1>4, LimitIs
  <2>2. g \in Seq(Places) /\ Len(g) \in Nat /\ Len(g) <= L
    <3>1. First(t, L) \in Seq(Places) /\ Len(First(t, L)) <= L /\ Len(First(t, L)) \in Nat
      <4>1. /\ First(t, L) \in Seq(Places)
            /\ L <= Len(t) => Len(First(t, L)) = L
            /\ Len(t) <= L => First(t, L) = t
        BY <2>1, FirstIs
      <4> HIDE DEF L
      <4> QED
        BY <1>1, <2>1, <4>1, LenProperties
    <3> QED
      BY <3>1
  <2>3. room \in Nat
    BY <2>1, <2>2
  <2>4. /\ c \in Seq(Places)
        /\ room <= Len(r) => Len(c) = room /\ \A j \in 1 .. room : c[j] = r[j]
        /\ Len(r) <= room => c = r
    BY <2>3, FirstIs
  <2>5. Cut(r) = c
    <3>1. CASE Len(r) < room
      <4>1. Cut(r) = SubSeq(r, 1, Len(r))
        BY <1>4, <3>1 DEF Cut
      <4> QED
        BY <1>1, <2>3, <2>4, <3>1, <4>1, SubSeqFull
    <3>2. CASE ~ Len(r) < room
      <4>1. Cut(r) = SubSeq(r, 1, room)
        BY <1>4, <3>2 DEF Cut
      <4>2. room # NoLimit /\ ~ room > Len(r)
        BY <1>1, <2>3, <3>2, PartitionReadsAssumption
      <4> QED
        BY <4>1, <4>2 DEF First
    <3> QED
      BY <3>1, <3>2
  <2> HIDE DEF c, room, g, L
  <2>6. First(g \o r, L) = First(t \o r, L)
    BY <2>1, FirstGoesOn DEF g, L
  <2>7. /\ g \o r \in Seq(Places) /\ Len(g \o r) = Len(g) + Len(r)
        /\ First(g \o r, L) \in Seq(Places)
        /\ L <= Len(g \o r) => /\ Len(First(g \o r, L)) = L
                               /\ \A j \in 1 .. L : First(g \o r, L)[j] = (g \o r)[j]
        /\ Len(g \o r) <= L => First(g \o r, L) = g \o r
    <3>1. g \o r \in Seq(Places) /\ Len(g \o r) = Len(g) + Len(r)
      BY <2>2, ConcatPlaces
    <3> QED
      BY <2>1, <3>1, FirstIs
  <2>8. g \o c = First(g \o r, L)
    <3>1. CASE Len(r) <= room
      <4>1. Len(g \o r) <= L
        BY <1>1, <2>1, <2>2, <2>7, <3>1 DEF room
      <4> QED
        BY <2>4, <2>7, <3>1, <4>1
    <3>2. CASE room <= Len(r)
      <4>1. L <= Len(g \o r)
        BY <1>1, <2>1, <2>2, <2>7, <3>2 DEF room
      <4>2. /\ g \o c \in Seq(Places) /\ Len(g \o c) = Len(g) + Len(c)
            /\ \A x \in 1 .. Len(g) : (g \o c)[x] = g[x]
            /\ \A x \in 1 .. Len(g \o c) : ~ x <= Len(g) =>
                 x - Len(g) \in 1 .. Len(c) /\ (g \o c)[x] = c[x - Len(g)]
        BY <2>2, <2>4, ConcatPlaces
      <4>3. /\ \A x \in 1 .. Len(g) : (g \o r)[x] = g[x]
            /\ \A x \in 1 .. Len(g \o r) : ~ x <= Len(g) =>
                 x - Len(g) \in 1 .. Len(r) /\ (g \o r)[x] = r[x - Len(g)]
        BY <2>2, ConcatPlaces
      <4>4. Len(g \o c) = L /\ Len(c) = room
        BY <2>1, <2>2, <2>4, <3>2, <4>2 DEF room
      <4>5. \A x \in 1 .. L : (g \o c)[x] = (g \o r)[x]
        <5> TAKE x \in 1 .. L
        <5>1. CASE x <= Len(g)
          <6>1. x \in 1 .. Len(g)
            BY <2>1, <2>2, <5>1
          <6> QED
            BY <4>2, <4>3, <6>1
        <5>2. CASE ~ x <= Len(g)
          <6>1. x \in 1 .. Len(g \o c) /\ x \in 1 .. Len(g \o r)
            BY <1>1, <2>1, <2>2, <2>7, <4>1, <4>4
          <6>2. x - Len(g) \in 1 .. room
            BY <4>2, <4>4, <5>2, <6>1
          <6> QED
            BY <2>4, <3>2, <4>2, <4>3, <5>2, <6>1, <6>2
        <5> QED
          BY <5>1, <5>2
      <4>6. \A x \in 1 .. Len(g \o c) : (g \o c)[x] = First(g \o r, L)[x]
        BY <2>7, <4>1, <4>4, <4>5
      <4>7. Len(First(g \o r, L)) = Len(g \o c)
        BY <2>7, <4>1, <4>4
      <4> QED
        BY <2>7, <4>2, <4>6, <4>7, SeqEqual
    <3> QED
      BY <1>1, <2>3, <3>1, <3>2
  <2>9. r = <<>> => c = <<>>
    BY <1>1, <2>3, <2>4
  <2>10. Enough(Len(First(t \o r, L))) <=> Enough(Len(t) + Len(r))
    <3>1. /\ L <= Len(t \o r) => Len(First(t \o r, L)) = L
          /\ Len(t \o r) <= L => First(t \o r, L) = t \o r
      BY <1>1, <2>1, FirstIs
    <3> QED
      BY <1>1, <2>1, <3>1 DEF Enough, L
  <2> QED
    BY <1>2, <2>5, <2>6, <2>8, <2>9, <2>10 DEF g, L
<1> QED
  BY <1>3, <1>4

\* A partition with rows has files.
LEMMA RowsSayColumns ==
  ASSUME TypeOK, NEW i \in DOMAIN chosen, ReadNext(i) # <<>>
  PROVE  Partition(chosen[i]).files # <<>>
<1> SUFFICES ASSUME Partition(chosen[i]).files = <<>> PROVE ReadNext(i) = <<>>
  OBVIOUS
<1> DEFINE p == chosen[i]
<1>1. DOMAIN Partition(p).files = {}
  BY EmptySeq
<1>2. [f \in DOMAIN Partition(p).files |-> FileRows(p, f, request.limit)] = <<>>
  BY <1>1
<1>3. FlattenSeq(<<>>) = <<>>
  BY EmptySeq DEF FlattenSeq
<1> QED
  BY <1>2, <1>3 DEF ReadNext, PartitionRows

\* The walk goes on, or a read ended it.
Walking == WalkGoes \/ \E k \in DOMAIN taken : WalkEndedAt(k)

\* What a walk that goes on makes of one more read.
LEMMA WalkEffect ==
  ASSUME TypeOK, ChosenOnce, TakenInTurn, Streaming, InStream, ~ done,
         NEW i \in DOMAIN chosen, Walk(i)
  PROVE  /\ Walking'
         /\ gathered' = IF items' = <<>> THEN sent ELSE sent \o Head(items').rows
         /\ items' # <<>> => Head(items') = Failure
                             \/ (~ Head(items').failed /\ SaysColumns(Range(taken))')
<1>0. PICK n : n = Len(taken)
  OBVIOUS
<1>k. PICK k : k = n + 1
  OBVIOUS
<1>t. PICK t : t = TakenReads(n)
  OBVIOUS
<1>r. PICK rows : rows = ReadNext(i)
  OBVIOUS
<1>b. PICK bytes : bytes = Partition(chosen[i]).bytes
  OBVIOUS
<1>l. PICK L : L = request.limit
  OBVIOUS
<1> USE <1>0, <1>k, <1>t, <1>r, <1>b, <1>l
<1> DEFINE after == [bytes |-> counted.bytes + bytes, matched |-> counted.matched + Len(rows)]
<1>1. /\ items = <<>> /\ rest = "reads" /\ rest' = "reads" /\ Yield(i, Limited) /\ Limited \in BOOLEAN
      /\ UNCHANGED <<asked, at, chosen, indexed, answer, body>> /\ Counted(i)
      /\ catalog' = catalog /\ request' = request /\ bounds' = bounds /\ chosen' = chosen
      /\ sent' = sent
  BY DEF Walk, Wanting, asked, body, Limited
<1>2. WalkGoes
  <2>1. WalkGoes \/ \E j \in DOMAIN taken : WalkEndedAt(j)
    BY StreamIs
  <2> QED
    BY <2>1 DEF WalkEndedAt
<1>3. /\ ~ refused /\ Going(n) /\ CountedSoFar /\ gathered = First(t, L) /\ items # <<Failure>>
  BY <1>2 DEF WalkGoes
<1>4. gathered = sent
  BY <1>1 DEF Streaming, InStream
<1>5. taken \in Seq(DOMAIN chosen) /\ n \in Nat /\ DOMAIN taken = 1 .. n
  BY StreamIs
<1>6. /\ taken' = Append(taken, i) /\ Len(taken') = k /\ DOMAIN taken' = 1 .. k
      /\ \A j \in 1 .. n : taken'[j] = taken[j]
      /\ taken'[k] = i
  BY <1>1, TakenOneMore
<1>7. /\ \A m \in 0 .. n : /\ TakenReads(m)' = TakenReads(m)
                           /\ Going(m)' = Going(m)
      /\ TakenReads(k)' = t \o rows
      /\ TakenRows(k)' = TakenRows(n) + Len(rows)
      /\ TakenBytes(k)' = TakenBytes(n) + bytes
      /\ Fails(taken[k])' = Fails(i)
  BY <1>1, TakenNext
<1>8. /\ t \in Seq(Places) /\ TakenRows(n) = Len(t) /\ TakenRows(n) \in Nat /\ TakenBytes(n) \in Nat
  <2>1. n \in 0 .. Len(taken)
    BY <1>5
  <2> QED
    BY <1>5, <2>1, ByAre, TakenBy
<1>9. rows \in Seq(Places) /\ bytes \in Nat /\ Len(rows) \in Nat /\ IndexBytes \in Nat
      /\ counted.bytes = IndexBytes + TakenBytes(n) /\ counted.matched = TakenRows(n)
  <2>1. rows \in Seq(Places) /\ chosen[i] \in DOMAIN catalog.partitions
    BY AskedAre
  <2>2. counted.bytes = IndexBytes + TakenBytes(n) /\ counted.matched = TakenRows(n)
    BY <1>3 DEF CountedSoFar
  <2> QED
    BY <2>1, <2>2, PartitionTyped, AskedTyped, LenProperties DEF IndexBytes
<1>10. IndexBytes' = IndexBytes /\ Limited' = Limited
  BY <1>1, Stays
<1>11. /\ after.bytes = IndexBytes + TakenBytes(k)' /\ after.matched = TakenRows(k)'
       /\ TakenRows(k)' = Len(t) + Len(rows)
  BY <1>7, <1>8, <1>9
<1>12. Over(k)' <=> Exceeded(after.bytes, after.matched, k)
  BY <1>1, <1>10, <1>11 DEF Over, Exceeded
<1>13. /\ Cut(rows) \in Seq(Places) /\ gathered \o Cut(rows) = First(t \o rows, L)
       /\ rows = <<>> => Cut(rows) = <<>>
       /\ Enough(Len(First(t \o rows, L))) <=> Enough(Len(t) + Len(rows))
  BY <1>3, <1>8, <1>9, CutGoesOn
<1>14. Enough(TakenRows(k))' <=> Enough(Len(t) + Len(rows))
  BY <1>1, <1>10, <1>11 DEF Enough
<1>15. First(TakenReads(k), request.limit)' = First(t \o rows, L)
       /\ First(TakenReads(n), L)' = First(t, L)
  <2>1. n \in 0 .. n
    BY <1>5
  <2> QED
    BY <1>1, <1>7, <2>1 DEF First
<1>16. k - 1 = n /\ k \in 1 .. k
  BY <1>5
<1>17. /\ IF Partition(chosen[i]).fails
          THEN /\ items' = <<Failure>> /\ done' = TRUE
               /\ UNCHANGED <<counted, gathered, refused>>
          ELSE IF Exceeded(after.bytes, after.matched, k)
          THEN /\ refused' = TRUE /\ done' = TRUE
               /\ UNCHANGED <<gathered, items>>
          ELSE /\ counted' = after
               /\ gathered' = gathered \o Cut(rows)
               /\ items' = IF Cut(rows) = <<>> THEN <<>> ELSE <<Batch(Cut(rows))>>
               /\ done' = Enough(Len(gathered'))
               /\ UNCHANGED refused
  BY <1>1 DEF Counted, BoundReached
<1> HIDE DEF after
<1>18. Going(n)'
  <2>1. n \in 0 .. n
    BY <1>5
  <2> QED
    BY <1>3, <1>7, <2>1
<1>19. ASSUME WalkEndedAt(k)' PROVE Walking'
  BY <1>6, <1>16, <1>19 DEF Walking
<1>f. CASE Fails(i)
  <2>1. items' = <<Failure>> /\ done' = TRUE /\ gathered' = gathered /\ refused' = refused
    BY <1>17, <1>f DEF Fails
  <2>2. WalkEndedAt(k)'
    <3>1. /\ done' /\ Going(k - 1)' /\ Fails(taken[k])' /\ items' = <<Failure>> /\ ~ refused'
          /\ gathered' = First(TakenReads(k - 1), request.limit)'
      BY <1>1, <1>3, <1>7, <1>15, <1>16, <1>18, <1>f, <2>1
    <3> QED
      BY <3>1 DEF WalkEndedAt, Failure
  <2>3. sent \o Failure.rows = sent
    BY ConcatEmptySeq DEF TypeOK, Failure
  <2>4. items' # <<>> /\ Head(items') = Failure
    BY <2>1
  <2> QED
    BY <1>4, <1>19, <2>1, <2>2, <2>3, <2>4
<1>o. CASE ~ Fails(i) /\ Exceeded(after.bytes, after.matched, k)
  <2>1. refused' = TRUE /\ done' = TRUE /\ gathered' = gathered /\ items' = items
    BY <1>17, <1>o DEF Fails
  <2>2. WalkEndedAt(k)'
    <3>1. /\ done' /\ Going(k - 1)' /\ ~ Fails(taken[k])' /\ Over(k)' /\ items' # <<Failure>> /\ refused'
          /\ gathered' = First(TakenReads(k - 1), request.limit)'
      BY <1>1, <1>3, <1>7, <1>12, <1>15, <1>16, <1>18, <1>o, <2>1
    <3> QED
      BY <3>1 DEF WalkEndedAt, Failure
  <2> QED
    BY <1>1, <1>4, <1>19, <2>1, <2>2
<1>c. CASE ~ Fails(i) /\ ~ Exceeded(after.bytes, after.matched, k)
  <2>1. /\ counted' = after
        /\ gathered' = gathered \o Cut(rows)
        /\ items' = IF Cut(rows) = <<>> THEN <<>> ELSE <<Batch(Cut(rows))>>
        /\ done' = Enough(Len(gathered'))
        /\ refused' = refused
    BY <1>17, <1>c DEF Fails
  <2>2. /\ gathered' = First(TakenReads(k), request.limit)'
        /\ done' <=> Enough(TakenRows(k))'
        /\ ~ refused' /\ ~ Fails(taken[k])' /\ ~ Over(k)' /\ items' # <<Failure>>
    <3>1. items' # <<Failure>>
      BY <2>1 DEF Failure, Batch
    <3> QED
      BY <1>3, <1>7, <1>12, <1>13, <1>14, <1>15, <1>c, <2>1, <3>1
  <2>3. Walking'
    <3>1. CASE done'
      <4>1. WalkEndedAt(k)'
        BY <1>16, <1>18, <2>2, <3>1 DEF WalkEndedAt, Failure
      <4> QED
        BY <1>19, <4>1
    <3>2. CASE ~ done'
      <4>1. Going(k)'
        <5>1. \A j \in 1 .. n : /\ ~ Fails(taken[j])' /\ ~ Over(j)' /\ ~ Enough(TakenRows(j))'
          BY <1>18 DEF Going
        <5>2. ~ Fails(taken[k])' /\ ~ Over(k)' /\ ~ Enough(TakenRows(k))'
          BY <2>2, <3>2
        <5>3. \A j \in 1 .. k : j \in 1 .. n \/ j = k
          BY <1>5
        <5> QED
          BY <5>1, <5>2, <5>3 DEF Going
      <4>2. Going(Len(taken))'
        BY <1>6, <4>1 DEF Going
      <4>3. CountedSoFar'
        <5>1. counted' = [bytes |-> IndexBytes + TakenBytes(k)', matched |-> TakenRows(k)']
          BY <1>11, <2>1 DEF after
        <5> QED
          BY <1>6, <1>10, <5>1 DEF CountedSoFar, TakenBytes, TakenRows
      <4>4. First(TakenReads(Len(taken)), request.limit)' = First(TakenReads(k), request.limit)'
        <5> QED
          BY <1>6 DEF TakenReads
      <4>5. WalkGoes'
        BY <1>1, <2>2, <3>2, <4>2, <4>3, <4>4 DEF WalkGoes, Failure
      <4> QED
        BY <4>5 DEF Walking
    <3> QED
      BY <3>1, <3>2
  <2>4. CASE Cut(rows) = <<>>
    <3>1. gathered \o Cut(rows) = gathered
      BY <2>4, ConcatEmptySeq DEF TypeOK
    <3> QED
      BY <1>4, <2>1, <2>3, <2>4, <3>1
  <2>5. CASE Cut(rows) # <<>>
    <3>1. items' = <<Batch(Cut(rows))>> /\ items' # <<>> /\ Head(items') = Batch(Cut(rows))
      BY <2>1, <2>5
    <3>2. Batch(Cut(rows)).rows = Cut(rows) /\ ~ Batch(Cut(rows)).failed
      BY DEF Batch
    <3>3. Partition(chosen[i]).files # <<>>
      BY <1>13, <2>5, RowsSayColumns
    <3>4. SaysColumns(Range(taken))'
      <4>1. taken' \in Seq(DOMAIN chosen)
        BY <1>6, AppendTaken
      <4>2. k \in DOMAIN taken' /\ taken'[k] = i
        BY <1>6, <1>16
      <4>3. i \in Range(taken')
        BY <4>2 DEF Range
      <4> QED
        BY <1>1, <3>3, <4>3 DEF SaysColumns, Partition, Range
    <3> QED
      BY <1>4, <2>1, <2>3, <3>1, <3>2, <3>4
  <2> QED
    BY <2>4, <2>5
<1> QED
  BY <1>f, <1>o, <1>c

\* It stays where it was while nothing is yielded.
LEMMA WalkingStays ==
  ASSUME UNCHANGED <<asked, chosen, indexed, taken, counted, gathered, done, refused>>, Walking,
         items' = items \/ (items # <<Failure>> /\ items' # <<Failure>>),
         (rest = "reads" \/ Len(taken) = Len(chosen)) => (rest' = "reads" \/ Len(taken) = Len(chosen))
  PROVE  Walking'
<1>1. /\ catalog' = catalog /\ request' = request /\ bounds' = bounds
      /\ chosen' = chosen /\ indexed' = indexed /\ taken' = taken /\ Limited' = Limited
      /\ done' = done /\ refused' = refused /\ gathered' = gathered
  BY DEF asked, Limited
<1>2. /\ \A k : TakenReads(k)' = TakenReads(k) /\ TakenRows(k)' = TakenRows(k)
                /\ Over(k)' = Over(k) /\ Going(k)' = Going(k)
      /\ TakenReads(Len(taken))' = TakenReads(Len(taken))
      /\ Going(Len(taken))' = Going(Len(taken))
      /\ CountedSoFar' = CountedSoFar
  BY TakenStays
<1>3. /\ \A k : First(TakenReads(k), request.limit)' = First(TakenReads(k), request.limit)
      /\ First(TakenReads(Len(taken)), request.limit)' = First(TakenReads(Len(taken)), request.limit)
  BY <1>1, <1>2 DEF First
<1>4. \A k : Fails(taken[k])' = Fails(taken[k]) /\ Enough(TakenRows(k))' = Enough(TakenRows(k))
  BY <1>1, <1>2 DEF Fails, Partition, Enough
<1>5. Failure' = Failure
  BY DEF Failure
<1>6. CASE WalkGoes
  <2>1. WalkGoes'
    BY <1>1, <1>2, <1>3, <1>5, <1>6 DEF WalkGoes
  <2> QED
    BY <2>1 DEF Walking
<1>7. CASE \E k \in DOMAIN taken : WalkEndedAt(k)
  <2>1. PICK k \in DOMAIN taken : WalkEndedAt(k)
    BY <1>7
  <2>2. WalkEndedAt(k)'
    BY <1>1, <1>2, <1>3, <1>4, <1>5, <2>1 DEF WalkEndedAt
  <2> QED
    BY <1>1, <2>2 DEF Walking
<1> QED
  BY <1>6, <1>7 DEF Walking

\* A read yielded to a walk that is done is let go of.
LEMMA WalkDone ==
  ASSUME TypeOK, ChosenOnce, TakenInTurn, Streaming, InStream, done,
         NEW i \in DOMAIN chosen, Walk(i)
  PROVE  Walking'
<1>1. /\ UNCHANGED <<asked, chosen, indexed, counted, gathered, items, done, refused>>
      /\ Yield(i, Limited) /\ Limited \in BOOLEAN
      /\ request' = request /\ Limited' = Limited
  BY DEF Walk, asked, Limited
<1>2. PICK k \in 1 .. Len(taken) : WalkEndedAt(k)
  <2>1. /\ WalkGoes \/ \E j \in DOMAIN taken : WalkEndedAt(j)
        /\ DOMAIN taken = 1 .. Len(taken)
    BY StreamIs
  <2> QED
    BY <2>1 DEF WalkGoes
<1>0. PICK n : n = Len(taken)
  OBVIOUS
<1>3. n \in Nat /\ DOMAIN taken' = 1 .. (n + 1)
  BY <1>0, <1>1, TakenOneMore
<1>4. /\ \A m \in 0 .. n : TakenReads(m)' = TakenReads(m) /\ Going(m)' = Going(m)
      /\ \A m \in 1 .. n : /\ Over(m)' = Over(m) /\ TakenRows(m)' = TakenRows(m)
                           /\ Fails(taken[m])' = Fails(taken[m])
  <2>1. PICK l : l = Len(taken) + 1
    OBVIOUS
  <2> QED
    BY <1>0, <1>1, <2>1, TakenNext
<1>5. k \in 1 .. n /\ k \in 0 .. n /\ k - 1 \in 0 .. n /\ k \in 1 .. (n + 1)
  BY <1>0, <1>3
<1>6. /\ TakenReads(k)' = TakenReads(k) /\ TakenReads(k - 1)' = TakenReads(k - 1)
      /\ Going(k - 1)' = Going(k - 1) /\ Over(k)' = Over(k) /\ TakenRows(k)' = TakenRows(k)
      /\ Fails(taken[k])' = Fails(taken[k])
  BY <1>4, <1>5
<1>7. WalkEndedAt(k)'
  <2>1. /\ First(TakenReads(k), request.limit)' = First(TakenReads(k), request.limit)
        /\ First(TakenReads(k - 1), request.limit)' = First(TakenReads(k - 1), request.limit)
        /\ Enough(TakenRows(k))' = Enough(TakenRows(k))
    BY <1>1, <1>6 DEF First, Enough
  <2> QED
    BY <1>1, <1>2, <1>6, <2>1 DEF WalkEndedAt, Failure
<1> QED
  BY <1>3, <1>5, <1>7 DEF Walking

\* Every step of a streamed read keeps what was let out in step with what was read.
LEMMA StreamingStep ==
  ASSUME TypeOK, ChosenOnce, TakenInTurn, Streaming, Next
  PROVE  Streaming'
<1>v. ASSUME at' \notin {"first", "body"} \/ writing' = "end" PROVE Streaming'
  BY <1>v DEF Streaming
<1>s. ASSUME UNCHANGED <<asked, chosen, indexed>>, ~ TooManyPartitions, Walking',
             gathered' = IF items' = <<>> THEN sent' ELSE sent' \o Head(items').rows,
             items' # <<>> => Head(items') = Failure
                              \/ (~ Head(items').failed /\ SaysColumns(Range(taken))'),
             rest' = "nothing" => answer'.named \/ ~ Describable
      PROVE  Streaming'
  <2>1. TooManyPartitions' = TooManyPartitions /\ Describable' = Describable
    BY <1>s, Stays
  <2> QED
    BY <1>s, <2>1 DEF Streaming, Walking, Named, Failure
<1>i. InStream => /\ ~ TooManyPartitions /\ Walking
                  /\ gathered = IF items = <<>> THEN sent ELSE sent \o Head(items).rows
                  /\ items # <<>> => Head(items) = Failure
                                     \/ (~ Head(items).failed /\ SaysColumns(Range(taken)))
                  /\ rest = "nothing" => answer.named \/ ~ Describable
  BY DEF InStream, Streaming, Walking, Named
<1>c. ASSUME UNCHANGED <<asked, chosen, indexed, taken>>
      PROVE  SaysColumns(Range(taken))' = SaysColumns(Range(taken))
  BY <1>c DEF asked, SaysColumns, Partition, Range
<1>k. ASSUME UNCHANGED <<asked, chosen, indexed, taken, query, sent>>,
             answer' = answer \/ answer'.named \/ rest # "nothing", InStream
      PROVE  Streaming'
  <2>1. UNCHANGED <<counted, gathered, items, rest, done, refused>>
    BY <1>k DEF query
  <2>2. Walking'
    BY <1>i, <1>k, <2>1, WalkingStays
  <2> QED
    BY <1>c, <1>i, <1>k, <1>s, <2>1, <2>2
<1>4. CASE Choosing
  BY <1>v, <1>4 DEF Choosing, Resolve, ResolveFails, Consult, Answer
<1>5. CASE Lands
  <2>1. UNCHANGED <<asked, at, chosen, indexed, taken, query, body, answer>>
    BY <1>5 DEF Lands, Land
  <2>2. CASE InStream
    BY <1>k, <2>1, <2>2 DEF body
  <2>3. CASE ~ InStream
    BY <1>v, <2>1, <2>3 DEF InStream, body
  <2> QED
    BY <2>2, <2>3
<1>6. CASE Scanning
  <2>1. \A i : Pull(i) => at' \notin {"first", "body"}
    BY DEF Pull, Answer
  <2> QED
    BY <1>v, <1>6, <2>1 DEF Scanning, StartScan, PullNext, ScanEnds, Answer
<1>7. CASE OutOfTime
  BY <1>v, <1>7 DEF OutOfTime, BodyCutOff, TimeIsUp, CutOff, Close, Answer
<1>8. CASE Querying
  <2>1. CASE Plan \/ AnswerColumns \/ StartCollecting \/ AwaitRead \/ CollectedAll
    BY <1>v, <2>1 DEF Plan, AnswerColumns, StartCollecting, AwaitRead, CollectedAll, Gathered, Refuse, Answer
  <2>2. ASSUME NEW i \in DOMAIN chosen, Collect(i) PROVE Streaming'
    BY <1>v, <2>2 DEF Collect, Gathered, Refuse, Answer
  <2>3. CASE StartStreaming
    <3>1. CASE TooManyPartitions
      BY <1>v, <2>3, <3>1 DEF StartStreaming, Refuse, Answer
    <3>2. CASE ~ TooManyPartitions
      <4>1. /\ at = "ready" /\ counted' = [counted EXCEPT !.bytes = IndexBytes]
            /\ UNCHANGED <<asked, chosen, indexed, pipeline, gathered, items, rest, done, refused, body>>
            /\ taken' = taken /\ sent' = sent /\ items' = items /\ rest' = rest /\ gathered' = gathered
            /\ done' = done /\ refused' = refused
        BY <2>3, <3>2 DEF StartStreaming, pipeline, body
      <4>2. taken = <<>> /\ gathered = <<>> /\ items = <<>> /\ rest = "reads" /\ ~ done /\ ~ refused
            /\ sent = <<>> /\ counted = [bytes |-> 0, matched |-> 0]
        BY <4>1 DEF ChosenOnce, InitQuery, InitBody
      <4>3. taken \in Seq(DOMAIN chosen) /\ 0 \in 0 .. Len(taken) /\ Len(taken) = 0 /\ taken' = taken
        BY <4>1, <4>2, EmptySeq DEF TypeOK
      <4>4. ReadsBy(taken, 0) = <<>> /\ RowsBy(taken, 0) = 0 /\ BytesBy(taken, 0) = 0
        BY <4>3, ByAre
      <4>5. /\ UNCHANGED <<asked, chosen, indexed, taken>>
            /\ TakenReads(0) = <<>> /\ TakenRows(0) = 0 /\ TakenBytes(0) = 0
        BY <4>1, <4>4, TakenBy DEF pipeline
      <4>6. /\ \A k : TakenReads(k)' = TakenReads(k) /\ TakenRows(k)' = TakenRows(k)
                      /\ TakenBytes(k)' = TakenBytes(k)
            /\ IndexBytes' = IndexBytes
        BY <4>5, TakenStays, Stays
      <4>7. Going(Len(taken))'
        BY <4>3 DEF Going
      <4>8. Len(taken)' = 0
        BY <4>3
      <4>9. CountedSoFar'
        <5>1. IndexBytes \in Nat
          BY AskedTyped DEF IndexBytes
        <5>2. counted' = [bytes |-> IndexBytes, matched |-> 0]
          BY <4>1, <4>2
        <5>3. TakenBytes(Len(taken))' = 0 /\ TakenRows(Len(taken))' = 0
          <6>1. TakenBytes(0)' = 0 /\ TakenRows(0)' = 0
            BY <4>5, <4>6
          <6> QED
            BY <4>8, <6>1 DEF TakenBytes, TakenRows
        <5> QED
          BY <4>6, <5>1, <5>2, <5>3 DEF CountedSoFar
      <4>10. gathered' = First(TakenReads(Len(taken)), request.limit)'
        <5>1. TakenReads(Len(taken))' = <<>>
          <6>1. TakenReads(0)' = <<>>
            BY <4>5, <4>6
          <6> QED
            BY <4>8, <6>1 DEF TakenReads
        <5>2. First(<<>>, request'.limit) = <<>>
          <6>1. request'.limit = NoLimit \/ request'.limit \in Nat
            <7>1. request' = request
              BY <4>1 DEF asked
            <7> QED
              BY <7>1, AskedTyped DEF LimitOrNone
          <6>2. <<>> \in Seq(Places) /\ Len(<<>>) = 0
            BY EmptySeq
          <6>3. First(<<>>, NoLimit) = <<>> /\ \A m \in Nat : 0 <= m => First(<<>>, m) = <<>>
            BY ONLY <6>2, FirstIs
          <6> QED
            BY <6>1, <6>3
        <5> QED
          BY <4>1, <4>2, <5>1, <5>2
      <4>11. Walking'
        BY <4>1, <4>2, <4>7, <4>9, <4>10 DEF Walking, WalkGoes, Failure
      <4> QED
        BY <1>s, <3>2, <4>1, <4>2, <4>11
    <3> QED
      BY <3>1, <3>2
  <2>w. Wanting => InStream
    BY DEF Wanting, InStream, ChosenOnce, InitBody
  <2>4. CASE AwaitLanding
    BY <1>k, <2>4, <2>w DEF AwaitLanding, Poll, body
  <2>5. CASE WalkEnds
    <3>1. /\ InStream /\ rest' = "describing" /\ Len(taken) = Len(chosen)
          /\ UNCHANGED <<asked, chosen, indexed, taken, counted, gathered, items, done, refused, sent>>
      BY <2>5, <2>w DEF WalkEnds, Dry, body
    <3>2. Walking'
      BY <1>i, <3>1, WalkingStays
    <3> QED
      BY <1>c, <1>i, <1>s, <3>1, <3>2
  <2>6. CASE Describe
    <3>1. /\ InStream /\ rest = "describing" /\ rest' = "nothing"
          /\ UNCHANGED <<asked, chosen, indexed, taken, counted, gathered, items, done, refused, sent>>
      BY <2>6, <2>w DEF Describe, body, pipeline
    <3>2. Walking'
      BY <1>i, <3>1, WalkingStays
    <3>3. answer'.named = (Said \/ Describable)
      BY <2>6 DEF Describe, TypeOK
    <3> QED
      BY <1>c, <1>i, <1>s, <3>1, <3>2, <3>3
  <2>7. CASE FirstItem
    <3>1. CASE at' = "body"
      <4>1. /\ InStream /\ UNCHANGED <<asked, chosen, indexed, taken, query, sent>>
            /\ answer' = [answer EXCEPT !.status = "rows", !.named = @ \/ SaysColumns(Range(taken))]
        BY <2>7, <3>1 DEF FirstItem, InStream, Begin, pipeline, Answer
      <4>2. answer'.named = (answer.named \/ SaysColumns(Range(taken)))
        BY <4>1 DEF TypeOK
      <4>3. UNCHANGED <<counted, gathered, items, rest, done, refused>>
        BY <4>1 DEF query
      <4>4. Walking'
        BY <1>i, <4>1, <4>3, WalkingStays
      <4> QED
        BY <1>c, <1>i, <1>s, <4>1, <4>2, <4>3, <4>4
    <3>2. CASE at' # "body"
      BY <1>v, <2>7, <3>2 DEF FirstItem, Answer
    <3> QED
      BY <3>1, <3>2
  <2>b. writing \in {"begin", "rows"} => InStream
    BY DEF InStream, ChosenOnce, InitBody
  <2>8. CASE WriteHead
    BY <1>k, <2>8, <2>b DEF WriteHead, SendHead, pipeline
  <2>9. CASE WriteItem
    <3>1. CASE writing' = "end"
      BY <1>v, <3>1
    <3>2. CASE writing' # "end"
      <4>1. ~ Head(items).failed /\ SendRows(Head(items).rows) /\ items # <<>> /\ items' = Tail(items)
            /\ UNCHANGED <<asked, chosen, indexed, taken, counted, gathered, done, refused>> /\ rest' = rest
            /\ answer' = answer
        BY <2>9, <3>2 DEF WriteItem, FinishBody, Close, pipeline
      <4>2. InStream /\ sent' = sent \o Head(items).rows
        BY <2>b, <3>2, <4>1 DEF SendRows, Close
      <4>3. items' = <<>> /\ items # <<Failure>>
        <5>1. items \in Seq(Items) /\ Len(items) <= 1
          BY DEF TypeOK, Items
        <5>2. Tail(items) \in Seq(Items) /\ Len(Tail(items)) = Len(items) - 1 /\ Len(items) \in Nat
          BY <4>1, <5>1, HeadTailProperties, LenProperties
        <5>3. Len(Tail(items)) = 0
          BY <4>1, <5>1, <5>2, LenProperties
        <5>4. Tail(items) = <<>>
          BY <5>2, <5>3, EmptySeq
        <5>5. Head(<<Failure>>).failed
          BY DEF Failure
        <5> QED
          BY <4>1, <5>4, <5>5
      <4>4. Walking'
        BY <1>i, <4>1, <4>2, <4>3, WalkingStays
      <4> QED
        BY <1>i, <1>s, <4>1, <4>2, <4>3, <4>4
    <3> QED
      BY <3>1, <3>2
  <2>10. CASE WriteEnd
    BY <1>v, <2>10 DEF WriteEnd, FinishBody, Close
  <2>11. ASSUME NEW i \in DOMAIN chosen, Walk(i) PROVE Streaming'
    <3>1. /\ InStream /\ UNCHANGED <<asked, chosen, indexed, answer>> /\ sent' = sent
          /\ items = <<>> /\ rest = "reads"
      BY <2>11, <2>w DEF Walk, Wanting, body
    <3>2. CASE done
      <4>1. Walking'
        BY <2>11, <3>1, <3>2, WalkDone
      <4>2. items' = items /\ gathered' = gathered /\ rest' = "describing"
        BY <2>11, <3>2 DEF Walk
      <4> QED
        BY <1>i, <1>s, <3>1, <4>1, <4>2
    <3>3. CASE ~ done
      <4>1. /\ Walking'
            /\ gathered' = IF items' = <<>> THEN sent ELSE sent \o Head(items').rows
            /\ items' # <<>> => Head(items') = Failure
                                \/ (~ Head(items').failed /\ SaysColumns(Range(taken))')
        BY <2>11, <3>1, <3>3, WalkEffect
      <4>2. rest' = rest
        BY <2>11, <3>3 DEF Walk
      <4> QED
        BY <1>i, <1>s, <3>1, <4>1, <4>2
    <3> QED
      BY <3>2, <3>3
  <2> QED
    BY <1>8, <2>1, <2>2, <2>3, <2>4, <2>5, <2>6, <2>7, <2>8, <2>9, <2>10, <2>11 DEF Querying
<1> QED
  BY <1>4, <1>5, <1>6, <1>7, <1>8 DEF Next

\* The answer of a request stays as long as the catalog and the request do.
LEMMA AnswerStays ==
  ASSUME UNCHANGED asked
  PROVE  AnswerRows' = AnswerRows /\ Limited' = Limited /\ request' = request
<1>1. catalog' = catalog /\ request' = request
  BY DEF asked
<1>2. AllRows' = AllRows
  BY <1>1 DEF AllRows, PartitionRows, FileRows, First, Partition
<1> QED
  BY <1>1, <1>2 DEF AnswerRows, First, Limited

\* An item that failed is all there is.
LEMMA OneFailure ==
  ASSUME TypeOK, items # <<>>
  PROVE  (items = <<Failure>> <=> Head(items) = Failure) /\ (Head(items).failed => items # <<>>)
<1>1. items \in Seq(Items) /\ Len(items) <= 1 /\ Len(items) \in Nat
  BY LenProperties DEF TypeOK, Items
<1>2. Len(items) = 1
  <2>1. PICK l \in Nat : l = Len(items)
    BY <1>1
  <2>2. l <= 1 /\ l # 0
    BY <1>1, <2>1, EmptySeq
  <2>3. l = 1
    BY ONLY <2>2
  <2> QED
    BY <2>1, <2>3
<1>4. Head(items) = items[1]
  BY <1>1, <1>2
<1>3. items = <<items[1]>>
  BY <1>1, <1>2
<1> QED
  BY <1>2, <1>3, <1>4

\* How a body ends says what the request came to.
LEMMA EndedIs ==
  ASSUME TypeOK, ChosenOnce, TakenInTurn, Streaming, InStream, items = <<>>, rest = "nothing"
  PROVE  /\ refused => Verdict # "rows"
         /\ ~ refused => /\ Verdict = "rows"
                         /\ Len(sent) = Len(AnswerRows) /\ Range(sent) = Range(AnswerRows)
<1>1. gathered = sent
  BY DEF Streaming, InStream
<1>2. WalkGoes \/ \E k \in DOMAIN taken : WalkEndedAt(k)
  BY StreamIs
<1>3. CASE WalkGoes
  BY <1>1, <1>3, DryIs DEF WalkGoes
<1>4. CASE \E k \in DOMAIN taken : WalkEndedAt(k)
  <2>1. PICK k \in DOMAIN taken : WalkEndedAt(k)
    BY <1>4
  <2>2. /\ Fails(taken[k]) \/ Over(k) => Verdict # "rows"
        /\ ~ Fails(taken[k]) /\ ~ Over(k) /\ Enough(TakenRows(k)) =>
             Verdict = "rows" /\ First(TakenReads(k), request.limit) = AnswerRows
    BY <2>1, StoppedIs DEF WalkEndedAt
  <2> QED
    BY <1>1, <2>1, <2>2 DEF WalkEndedAt
<1> QED
  BY <1>2, <1>3, <1>4

\* A failure that is written is one the request comes to.
LEMMA FailureIs ==
  ASSUME TypeOK, ChosenOnce, TakenInTurn, Streaming, InStream, items # <<>>, Head(items).failed
  PROVE  Verdict # "rows"
<1>1. items = <<Failure>>
  BY OneFailure DEF Streaming, InStream
<1>2. PICK k \in DOMAIN taken : WalkEndedAt(k)
  BY <1>1, StreamIs DEF WalkGoes
<1>3. Fails(taken[k]) /\ Going(k - 1)
  BY <1>1, <1>2 DEF WalkEndedAt
<1> QED
  BY <1>3, StoppedIs

\* Every step of a streamed read keeps its promise.
LEMMA ShortStep ==
  ASSUME TypeOK, ChosenOnce, TakenInTurn, Streaming, NothingQuietlyShort, Next
  PROVE  NothingQuietlyShort'
<1>0. ASSUME UNCHANGED asked, request.how \in Streams =>
               /\ sent' = sent \/ Sound(sent')
               /\ (closed' \in {"whole", "short"} \/ answer'.status = "rows") => UNCHANGED <<chosen, indexed>>
               /\ closed' = "whole" =>
                    \/ closed' = closed /\ sent' = sent
                    \/ Len(sent') = Len(AnswerRows) /\ Range(sent') = Range(AnswerRows) /\ Verdict = "rows"
               /\ closed' = "short" => closed' = closed \/ Verdict # "rows"
               /\ answer'.status = "rows" =>
                    \/ answer'.named \/ ~ Describable
                    \/ answer.status = "rows" /\ answer'.named = answer.named
      PROVE  NothingQuietlyShort'
  <2> SUFFICES ASSUME request'.how \in Streams
               PROVE  /\ closed' = "whole" =>
                           /\ Len(sent') = Len(AnswerRows') /\ Range(sent') = Range(AnswerRows')
                           /\ Verdict' = "rows"
                      /\ answer'.status = "rows" => Named'
                      /\ closed' = "short" => Verdict' # "rows"
                      /\ IF Limited' THEN IsPrefix(sent', AnswerRows')
                         ELSE /\ Range(sent') \subseteq Range(AnswerRows')
                              /\ Cardinality(Range(sent')) = Len(sent')
    BY DEF NothingQuietlyShort, Streams, Range, IsPrefix
  <2>1. AnswerRows' = AnswerRows /\ Limited' = Limited /\ request' = request
    BY <1>0, AnswerStays
  <2>2. /\ sent' = sent \/ Sound(sent')
        /\ (closed' \in {"whole", "short"} \/ answer'.status = "rows") => UNCHANGED <<chosen, indexed>>
        /\ closed' = "whole" =>
             \/ closed' = closed /\ sent' = sent
             \/ Len(sent') = Len(AnswerRows) /\ Range(sent') = Range(AnswerRows) /\ Verdict = "rows"
        /\ closed' = "short" => closed' = closed \/ Verdict # "rows"
        /\ answer'.status = "rows" =>
             \/ answer'.named \/ ~ Describable
             \/ answer.status = "rows" /\ answer'.named = answer.named
    BY <1>0, <2>1
  <2>3. /\ closed = "whole" =>
             Len(sent) = Len(AnswerRows) /\ Range(sent) = Range(AnswerRows) /\ Verdict = "rows"
        /\ answer.status = "rows" => answer.named \/ ~ Describable
        /\ closed = "short" => Verdict # "rows"
        /\ Sound(sent)
    BY <2>1 DEF NothingQuietlyShort, Sound, Named
  <2>4. UNCHANGED <<chosen, indexed>> => Verdict' = Verdict /\ Describable' = Describable
    BY <1>0, Stays, ReadsStay
  <2>5. Sound(sent')
    BY <2>2, <2>3
  <2>6. closed' = "whole" => /\ Len(sent') = Len(AnswerRows') /\ Range(sent') = Range(AnswerRows')
                             /\ Verdict' = "rows"
    BY <2>1, <2>2, <2>3, <2>4
  <2>7. closed' = "short" => Verdict' # "rows"
    BY <2>2, <2>3, <2>4
  <2>8. answer'.status = "rows" => Named'
    BY <2>2, <2>3, <2>4 DEF Named
  <2> QED
    BY <2>1, <2>5, <2>6, <2>7, <2>8 DEF Sound
<1>h. ASSUME UNCHANGED asked, request.how \notin Streams PROVE NothingQuietlyShort'
  BY <1>0, <1>h
<1>k. ASSUME UNCHANGED <<asked, chosen, indexed, answer, sent, closed>> PROVE NothingQuietlyShort'
  BY <1>0, <1>k
<1>e. ASSUME UNCHANGED <<asked, sent, closed>>, closed = "open", answer'.status # "rows"
      PROVE NothingQuietlyShort'
  BY <1>0, <1>e
<1>b. at # "body" => closed = "open"
  BY DEF ChosenOnce, InitBody
<1>c. \A how : how \in Scans \/ how = "collected" \/ how = "plan" => how \notin Streams
  BY DEF Scans, Streams
<1>4. CASE Choosing
  BY <1>b, <1>e, <1>4 DEF Choosing, Resolve, ResolveFails, Consult, Answer, body, ChosenOnce, Nothing
<1>5. CASE Lands
  BY <1>k, <1>5 DEF Lands, Land, body
<1>6. CASE Scanning
  <2>1. request.how \notin Streams /\ UNCHANGED asked
    <3>1. \A i : Pull(i) => at = "scanning" /\ UNCHANGED asked
      BY DEF Pull
    <3> QED
      BY <1>6, <1>c, <3>1 DEF Scanning, StartScan, PullNext, ScanEnds, ChosenOnce
  <2> QED
    BY <1>h, <2>1
<1>7. CASE OutOfTime
  <2>1. CASE BodyCutOff
    <3>1. UNCHANGED <<asked, chosen, indexed, answer, sent>> /\ closed' = "cut"
      BY <2>1 DEF BodyCutOff, CutOff, Close
    <3> QED
      BY <1>0, <3>1
  <2>2. CASE TimeIsUp
    BY <1>b, <1>e, <2>2 DEF TimeIsUp, Answer, body
  <2> QED
    BY <1>7, <2>1, <2>2 DEF OutOfTime
<1>8. CASE Querying
  <2>1. CASE Plan \/ AnswerColumns \/ StartCollecting \/ AwaitRead \/ CollectedAll
    BY <1>c, <1>h, <2>1 DEF Plan, AnswerColumns, StartCollecting, AwaitRead, CollectedAll, ChosenOnce
  <2>2. ASSUME NEW i \in DOMAIN chosen, Collect(i) PROVE NothingQuietlyShort'
    BY <1>c, <1>h, <2>2 DEF Collect, ChosenOnce
  <2>3. CASE StartStreaming
    BY <1>b, <1>e, <2>3 DEF StartStreaming, Refuse, Answer, body, ChosenOnce, Nothing
  <2>4. CASE AwaitLanding \/ WalkEnds \/ WriteHead
    BY <1>k, <2>4 DEF AwaitLanding, WalkEnds, WriteHead, SendHead, body
  <2>5. ASSUME NEW i \in DOMAIN chosen, Walk(i) PROVE NothingQuietlyShort'
    BY <1>k, <2>5 DEF Walk, body
  <2>6. CASE Describe
    <3>1. UNCHANGED <<asked, chosen, indexed, sent, closed>> /\ answer'.named = (Said \/ Describable)
      BY <2>6 DEF Describe, body, TypeOK
    <3> QED
      BY <1>0, <3>1
  <2>7. CASE FirstItem
    <3>1. CASE at' = "body"
      <4>1. /\ items # <<Failure>> /\ at = "first" /\ (items # <<>> \/ rest = "nothing")
            /\ UNCHANGED <<asked, chosen, indexed, sent, closed>>
            /\ answer' = [answer EXCEPT !.status = "rows", !.named = @ \/ SaysColumns(Range(taken))]
        BY <2>7, <3>1 DEF FirstItem, Begin, Answer
      <4>2. answer'.named = (answer.named \/ SaysColumns(Range(taken)))
        BY <4>1 DEF TypeOK
      <4>3. /\ items # <<>> => Head(items) = Failure
                               \/ (~ Head(items).failed /\ SaysColumns(Range(taken)))
            /\ rest = "nothing" => answer.named \/ ~ Describable
        BY <4>1 DEF Streaming, ChosenOnce, InitBody, Named
      <4>4. answer'.named \/ ~ Describable
        BY <4>1, <4>2, <4>3, OneFailure
      <4> QED
        BY <1>0, <1>b, <4>1, <4>4
    <3>2. CASE at' # "body"
      <4>1. at = "first" /\ UNCHANGED <<asked, sent, closed>> /\ answer'.status = "failed"
        BY <2>7, <3>2 DEF FirstItem, Answer, body
      <4> QED
        BY <1>b, <1>e, <4>1
    <3> QED
      BY <3>1, <3>2
  <2>w. writing \in {"begin", "rows"} => InStream
    BY DEF InStream, ChosenOnce, InitBody
  <2>8. CASE WriteItem
    <3>1. items # <<>> /\ UNCHANGED <<asked, chosen, indexed, answer>>
      BY <2>8 DEF WriteItem
    <3>2. CASE Head(items).failed
      <4>1. FinishBody(TRUE, request.says)
        BY <2>8, <3>2 DEF WriteItem
      <4>2. InStream /\ sent' = sent /\ closed' # "whole"
        BY <2>w, <4>1 DEF FinishBody, Close
      <4>3. Verdict # "rows"
        BY <3>1, <3>2, <4>2, FailureIs
      <4> QED
        BY <1>0, <3>1, <4>2, <4>3
    <3>3. CASE ~ Head(items).failed
      <4>1. SendRows(Head(items).rows)
        BY <2>8, <3>3 DEF WriteItem
      <4>2. CASE sent' = sent \o Head(items).rows /\ UNCHANGED <<writing, closed>>
        <5>1. InStream
          BY <2>w, <4>1 DEF SendRows
        <5>2. sent' = gathered
          BY <3>1, <4>2, <5>1 DEF Streaming, InStream
        <5>3. Sound(gathered)
          BY <5>1, GatheredSound
        <5>4. Sound(sent')
          BY <5>2, <5>3
        <5>5. closed # "whole" /\ closed # "short"
          BY <5>1 DEF InStream, ChosenOnce
        <5> QED
          BY <1>0, <3>1, <4>2, <5>4, <5>5
      <4>3. CASE Close("cut") /\ UNCHANGED sent
        <5>1. closed' = "cut" /\ sent' = sent
          BY <4>3 DEF Close
        <5> QED
          BY <1>0, <3>1, <5>1
      <4> QED
        BY <4>1, <4>2, <4>3 DEF SendRows
    <3> QED
      BY <3>2, <3>3
  <2>9. CASE WriteEnd
    <3>1. items = <<>> /\ rest = "nothing" /\ FinishBody(refused, request.says)
          /\ UNCHANGED <<asked, chosen, indexed, answer>>
      BY <2>9 DEF WriteEnd
    <3>2. InStream /\ sent' = sent /\ (refused => closed' # "whole") /\ (~ refused => closed' = "whole")
      BY <2>w, <3>1 DEF FinishBody, Close
    <3>3. /\ refused => Verdict # "rows"
          /\ ~ refused => /\ Verdict = "rows"
                          /\ Len(sent) = Len(AnswerRows) /\ Range(sent) = Range(AnswerRows)
      BY <3>1, <3>2, EndedIs
    <3> QED
      BY <1>0, <3>1, <3>2, <3>3
  <2> QED
    BY <1>8, <2>1, <2>2, <2>3, <2>4, <2>5, <2>6, <2>7, <2>8, <2>9 DEF Querying
<1> QED
  BY <1>4, <1>5, <1>6, <1>7, <1>8 DEF Next

-----------------------------------------------------------------------------
(* A scan.                                                                 *)

ScanOf(w) == [j \in 1 .. Len(w) |-> ScanRows(w[j])]
WholeOf(w) == [j \in 1 .. Len(w) |-> PartitionRows(w[j], NoLimit)]

\* What a scan walks is what the request is left with, from one end or the other.
LEMMA WalkedIs ==
  ASSUME TypeOK
  PROVE  /\ Walked \in Seq(DOMAIN catalog.partitions) /\ Len(Walked) \in Nat
         /\ \A i \in 1 .. Len(Walked) : Walked[i] \in DOMAIN catalog.partitions /\ Walked[i] \in Nat
         /\ \A i, j \in 1 .. Len(Walked) :
              i < j => IF request.how = "down" THEN Walked[j] < Walked[i] ELSE Walked[i] < Walked[j]
         /\ request.how # "down" => Walked = Left
         /\ \A j \in 1 .. Len(Walked) : \E i \in 1 .. Len(Left) : Left[i] = Walked[j]
         /\ \A i \in 1 .. Len(Left) : \E j \in 1 .. Len(Walked) : Left[i] = Walked[j]
<1> DEFINE n == Len(Left)
           D == DOMAIN catalog.partitions
<1>1. Left \in Seq(D) /\ OrderedBy(Left, Upwards)
  BY LeftIs
<1>2. n \in Nat /\ \A i \in 1 .. n : Left[i] \in D /\ Left[i] \in Nat
  <2>1. n \in Nat /\ \A i \in 1 .. n : Left[i] \in D
    BY <1>1, LenProperties, ElementOfSeq
  <2> QED
    BY <2>1, PartitionTyped
<1>3. \A i, j \in 1 .. n : i < j => Left[i] < Left[j]
  BY <1>1 DEF OrderedBy, Upwards
<1>4. CASE request.how # "down"
  <2>1. Walked = Left
    BY <1>4 DEF Walked
  <2> QED
    BY <1>1, <1>2, <1>3, <1>4, <2>1
<1>5. CASE request.how = "down"
  <2>1. Walked = [i \in 1 .. n |-> Left[(n - i) + 1]]
    BY <1>5 DEF Walked, Reverse
  <2>2. \A i \in 1 .. n : (n - i) + 1 \in 1 .. n
    BY <1>2
  <2> HIDE DEF n, D
  <2>3. Walked \in Seq(D) /\ Len(Walked) = n /\ \A i \in 1 .. n : Walked[i] = Left[(n - i) + 1]
    BY <1>2, <2>1, <2>2
  <2>4. \A i, j \in 1 .. n : i < j => (n - j) + 1 < (n - i) + 1
    BY <1>2
  <2>5. \A i, j \in 1 .. n : i < j => Walked[j] < Walked[i]
    BY <1>3, <2>2, <2>3, <2>4
  <2>6. \A i \in 1 .. n : Left[i] = Walked[(n - i) + 1]
    <3> TAKE i \in 1 .. n
    <3>1. (n - ((n - i) + 1)) + 1 = i
      BY <1>2
    <3> QED
      BY <2>2, <2>3, <3>1
  <2>7. \A i \in 1 .. n : Walked[i] \in D /\ Walked[i] \in Nat
    BY <1>2, <2>2, <2>3
  <2>8. /\ \A j \in 1 .. n : \E i \in 1 .. n : Left[i] = Walked[j]
        /\ \A i \in 1 .. n : \E j \in 1 .. n : Left[i] = Walked[j]
    BY <2>2, <2>3, <2>6
  <2> QED
    BY <1>2, <1>5, <2>3, <2>5, <2>7, <2>8 DEF n, D
<1> QED
  BY <1>4, <1>5

\* The chosen are the first of those walked.
LEMMA ChosenWalked ==
  ASSUME TypeOK, ChosenOnce, at = "scanning"
  PROVE  /\ Len(chosen) \in Nat /\ Len(chosen) <= Len(Walked)
         /\ \A j \in 1 .. Len(chosen) : chosen[j] = Walked[j]
         /\ beyond = (Len(Walked) > bounds.partitions)
         /\ ~ beyond => chosen = Walked
<1>1. Walked \in Seq(DOMAIN catalog.partitions) /\ Len(Walked) \in Nat
  BY WalkedIs
<1>2. chosen = First(Walked, bounds.partitions) /\ beyond = (Len(Walked) > bounds.partitions)
  BY DEF ChosenOnce
<1>3. bounds.partitions \in Nat
  BY AskedTyped
<1> DEFINE m == bounds.partitions
           D == DOMAIN catalog.partitions
<1> HIDE DEF D
<1>4. /\ m <= Len(Walked) => Len(First(Walked, m)) = m /\ \A j \in 1 .. m : First(Walked, m)[j] = Walked[j]
      /\ Len(Walked) <= m => First(Walked, m) = Walked
  BY <1>1, <1>3, FirstIs DEF D
<1>5. m \in Nat /\ Len(Walked) \in Nat
  BY <1>1, <1>3
<1>6. chosen = First(Walked, m) /\ beyond = (Len(Walked) > m)
  BY <1>2
<1> HIDE DEF m
<1>7. CASE m <= Len(Walked)
  <2>1. Len(chosen) = m /\ \A j \in 1 .. m : chosen[j] = Walked[j]
    BY ONLY <1>4, <1>6, <1>7
  <2>2. ~ beyond => m = Len(Walked)
    <3>1. PICK l \in Nat : l = Len(Walked)
      BY <1>5
    <3>2. l > m \/ m = l
      BY ONLY <1>5, <1>7, <3>1
    <3> QED
      BY ONLY <1>6, <3>1, <3>2
  <2>3. m = Len(Walked) => chosen = Walked
    BY ONLY <1>4, <1>5, <1>6
  <2>4. beyond = (Len(Walked) > m)
    BY <1>6
  <2> QED
    BY <1>5, <1>7, <2>1, <2>2, <2>3, <2>4 DEF m
<1>8. CASE Len(Walked) <= m
  <2>1. chosen = Walked
    BY ONLY <1>4, <1>6, <1>8
  <2>2. Len(chosen) \in Nat /\ Len(chosen) <= Len(Walked)
    BY ONLY <1>5, <2>1
  <2>3. beyond = (Len(Walked) > m)
    BY <1>6
  <2> QED
    BY <2>1, <2>2, <2>3 DEF m
<1> QED
  BY ONLY <1>5, <1>7, <1>8

\* Of each that is walked, the rows read and all the rows.
LEMMA ScanSeqs ==
  ASSUME TypeOK, NEW w \in Seq(DOMAIN catalog.partitions)
  PROVE  /\ ScanOf(w) \in Seq(Seq(Places)) /\ Len(ScanOf(w)) = Len(w)
         /\ \A j \in 1 .. Len(w) : ScanOf(w)[j] = ScanRows(w[j]) /\ ScanOf(w)[j] \in Seq(Places)
         /\ WholeOf(w) \in Seq(Seq(Places)) /\ Len(WholeOf(w)) = Len(w)
         /\ \A j \in 1 .. Len(w) : WholeOf(w)[j] = PartitionRows(w[j], NoLimit)
                                   /\ WholeOf(w)[j] \in Seq(Places)
<1> DEFINE Z == Seq(Places)
           n == Len(w)
<1>1. n \in Nat /\ \A j \in 1 .. n : w[j] \in DOMAIN catalog.partitions
  BY LenProperties, ElementOfSeq
<1>2. \A j \in 1 .. n : ScanRows(w[j]) \in Z /\ PartitionRows(w[j], NoLimit) \in Z
  BY <1>1, ScanRowsAre, PartitionRowsAre
<1>3. ScanOf(w) = [j \in 1 .. n |-> ScanRows(w[j])] /\ WholeOf(w) = [j \in 1 .. n |-> PartitionRows(w[j], NoLimit)]
  BY DEF ScanOf, WholeOf
<1> HIDE DEF Z, n
<1>4. ScanOf(w) \in Seq(Z) /\ Len(ScanOf(w)) = n /\ \A j \in 1 .. n : ScanOf(w)[j] = ScanRows(w[j])
  BY <1>1, <1>2, <1>3
<1>5. WholeOf(w) \in Seq(Z) /\ Len(WholeOf(w)) = n /\ \A j \in 1 .. n : WholeOf(w)[j] = PartitionRows(w[j], NoLimit)
  BY <1>1, <1>2, <1>3
<1> QED
  BY <1>2, <1>4, <1>5 DEF n, Z

\* The rows of all that is walked are those of the catalog.
LEMMA WalkedRows ==
  ASSUME TypeOK
  PROVE  /\ AllRows = FlattenSeq(WholeOf(Left)) /\ AllRows \in Seq(Places)
         /\ \A k \in 1 .. Len(AllRows) :
              \E j \in 1 .. Len(Walked) : \E x \in 1 .. Len(PartitionRows(Walked[j], NoLimit)) :
                AllRows[k] = PartitionRows(Walked[j], NoLimit)[x]
         /\ \A j \in 1 .. Len(Walked) : \A x \in 1 .. Len(PartitionRows(Walked[j], NoLimit)) :
              \E k \in 1 .. Len(AllRows) : AllRows[k] = PartitionRows(Walked[j], NoLimit)[x]
<1>1. Left \in Seq(DOMAIN catalog.partitions) /\ AllRows \in Seq(Places)
      /\ AllRows = FlattenSeq(Each(RowsOf(NoLimit), Left))
  BY LeftIs, ReachedRowsAre
<1>2. Each(RowsOf(NoLimit), Left) = WholeOf(Left)
  <2>1. \A j \in 1 .. Len(Left) : Left[j] \in DOMAIN catalog.partitions
    BY <1>1, ElementOfSeq
  <2>2. \A j \in 1 .. Len(Left) : RowsOf(NoLimit)[Left[j]] = PartitionRows(Left[j], NoLimit)
    BY <2>1 DEF RowsOf
  <2> QED
    BY <2>2 DEF Each, WholeOf
<1>3. /\ WholeOf(Left) \in Seq(Seq(Places)) /\ Len(WholeOf(Left)) = Len(Left)
      /\ \A j \in 1 .. Len(Left) : WholeOf(Left)[j] = PartitionRows(Left[j], NoLimit)
  BY <1>1, ScanSeqs
<1>4. /\ \A i \in 1 .. Len(Left) : \A x \in 1 .. Len(WholeOf(Left)[i]) :
           \E k \in 1 .. Len(AllRows) : AllRows[k] = WholeOf(Left)[i][x]
      /\ \A k \in 1 .. Len(AllRows) :
           \E i \in 1 .. Len(Left) : \E x \in 1 .. Len(WholeOf(Left)[i]) : AllRows[k] = WholeOf(Left)[i][x]
  <2>1. PICK all : all = AllRows
    OBVIOUS
  <2>2. PICK whole : whole = WholeOf(Left)
    OBVIOUS
  <2>3. whole \in Seq(Seq(Places)) /\ Len(whole) = Len(Left) /\ all = FlattenSeq(whole)
    BY <1>1, <1>2, <1>3, <2>1, <2>2
  <2>4. /\ \A i \in 1 .. Len(whole) : \A x \in 1 .. Len(whole[i]) :
             \E k \in 1 .. Len(FlattenSeq(whole)) : FlattenSeq(whole)[k] = whole[i][x]
        /\ \A k \in 1 .. Len(FlattenSeq(whole)) :
             \E i \in 1 .. Len(whole) : \E x \in 1 .. Len(whole[i]) : FlattenSeq(whole)[k] = whole[i][x]
    BY ONLY <2>3, FlattenIs
  <2>5. /\ \A i \in 1 .. Len(Left) : \A x \in 1 .. Len(whole[i]) :
             \E k \in 1 .. Len(all) : all[k] = whole[i][x]
        /\ \A k \in 1 .. Len(all) :
             \E i \in 1 .. Len(Left) : \E x \in 1 .. Len(whole[i]) : all[k] = whole[i][x]
    BY ONLY <2>3, <2>4
  <2> QED
    BY ONLY <2>1, <2>2, <2>5
<1>5. /\ \A j \in 1 .. Len(Walked) : \E i \in 1 .. Len(Left) : Left[i] = Walked[j]
      /\ \A i \in 1 .. Len(Left) : \E j \in 1 .. Len(Walked) : Left[i] = Walked[j]
  BY WalkedIs
<1>6. ASSUME NEW k \in 1 .. Len(AllRows)
      PROVE  \E j \in 1 .. Len(Walked) : \E x \in 1 .. Len(PartitionRows(Walked[j], NoLimit)) :
                AllRows[k] = PartitionRows(Walked[j], NoLimit)[x]
  <2>1. PICK i \in 1 .. Len(Left) : \E x \in 1 .. Len(WholeOf(Left)[i]) : AllRows[k] = WholeOf(Left)[i][x]
    BY <1>4
  <2>2. PICK j \in 1 .. Len(Walked) : Left[i] = Walked[j]
    BY <1>5
  <2> QED
    BY <1>3, <2>1, <2>2
<1>7. ASSUME NEW j \in 1 .. Len(Walked), NEW x \in 1 .. Len(PartitionRows(Walked[j], NoLimit))
      PROVE  \E k \in 1 .. Len(AllRows) : AllRows[k] = PartitionRows(Walked[j], NoLimit)[x]
  <2>1. PICK i \in 1 .. Len(Left) : Left[i] = Walked[j]
    BY <1>5
  <2>2. WholeOf(Left)[i] = PartitionRows(Walked[j], NoLimit)
    BY <1>3, <2>1
  <2>3. \E k \in 1 .. Len(AllRows) : AllRows[k] = WholeOf(Left)[i][x]
    BY <1>4, <2>2
  <2> QED
    BY <2>2, <2>3
<1> QED
  BY <1>1, <1>2, <1>6, <1>7

\* Sorted by the index they are as many, and the same.
LEMMA ByIndexLen ==
  ASSUME NEW rows \in Seq(Places), OrderedBy(rows, Apart)
  PROVE  Len(ByIndex(rows)) = Len(rows)
<1>1. Range(rows) \in SUBSET Places /\ IsFiniteSet(Range(rows))
  BY RangeIs
<1>2. Orders(Ahead, Range(rows))
  BY <1>1, AheadOrders
<1>3. Len(InOrder(Range(rows), Ahead)) = Cardinality(Range(rows))
  BY <1>1, <1>2, InOrderIs
<1> QED
  BY <1>3, ApartCount, ByIndexIs

\* Ordered, all that is walked comes to the catalog's rows by the index.
LEMMA OrderedWalk ==
  ASSUME TypeOK, Ordered
  PROVE  FlattenSeq(ScanOf(Walked)) = ByIndex(AllRows)
<1> DEFINE w == Walked
           n == Len(w)
           seqs == ScanOf(w)
           F == FlattenSeq(seqs)
           S == Range(AllRows)
           part(j) == PartitionRows(w[j], NoLimit)
<1>1. /\ w \in Seq(DOMAIN catalog.partitions) /\ n \in Nat
      /\ \A i \in 1 .. n : w[i] \in DOMAIN catalog.partitions /\ w[i] \in Nat
      /\ \A i, j \in 1 .. n : i < j => IF request.how = "down" THEN w[j] < w[i] ELSE w[i] < w[j]
  BY WalkedIs
<1>2. seqs \in Seq(Seq(Places)) /\ Len(seqs) = n
      /\ \A j \in 1 .. n : seqs[j] = ScanRows(w[j]) /\ seqs[j] \in Seq(Places)
  BY <1>1, ScanSeqs
<1>3. \A j \in 1 .. n : /\ part(j) \in Seq(Places) /\ seqs[j] = ByIndex(part(j))
                        /\ \A x \in 1 .. Len(part(j)) : part(j)[x] \in Places /\ part(j)[x][1] = w[j]
  <2> TAKE j \in 1 .. n
  <2>1. part(j) \in Seq(Places)
    BY <1>1, PartitionRowsAre
  <2>2. seqs[j] = ByIndex(part(j))
    BY <1>2 DEF ScanRows, ScanLimit
  <2>3. \A x \in 1 .. Len(part(j)) : part(j)[x] \in Places /\ part(j)[x][1] = w[j]
    BY <1>1, RowsOfOne
  <2> QED
    BY <2>1, <2>2, <2>3
<1>4. /\ AllRows \in Seq(Places)
      /\ \A k \in 1 .. Len(AllRows) :
           \E j \in 1 .. n : \E x \in 1 .. Len(part(j)) : AllRows[k] = part(j)[x]
      /\ \A j \in 1 .. n : \A x \in 1 .. Len(part(j)) :
           \E k \in 1 .. Len(AllRows) : AllRows[k] = part(j)[x]
  BY WalkedRows
<1> HIDE DEF w, n, seqs, part
<1>5. \A j \in 1 .. n : /\ OrderedBy(seqs[j], Ahead)
                        /\ Range(seqs[j]) = Range(part(j))
  BY <1>3, ByIndexIs
<1>6. \A j \in 1 .. n : \A x \in 1 .. Len(seqs[j]) :
        /\ seqs[j][x] \in Places /\ seqs[j][x][1] = w[j]
        /\ \E k \in 1 .. Len(AllRows) : AllRows[k] = seqs[j][x]
  <2> TAKE j \in 1 .. n
  <2> TAKE x \in 1 .. Len(seqs[j])
  <2>1. seqs[j][x] \in Range(seqs[j])
    BY <1>2, RangeIs
  <2>2. PICK y \in 1 .. Len(part(j)) : part(j)[y] = seqs[j][x]
    <3>1. \A v \in Range(part(j)) : \E y \in 1 .. Len(part(j)) : part(j)[y] = v
      BY <1>3, RangeIs
    <3> QED
      BY <1>5, <2>1, <3>1
  <2>3. part(j)[y] \in Places /\ part(j)[y][1] = w[j]
    BY <1>3
  <2>4. \E k \in 1 .. Len(AllRows) : AllRows[k] = part(j)[y]
    BY <1>4
  <2> QED
    BY ONLY <2>2, <2>3, <2>4
<1>7. \A i, j \in 1 .. n : i < j => AllBefore(seqs[i], seqs[j], Ahead)
  <2> SUFFICES ASSUME NEW i \in 1 .. n, NEW j \in 1 .. n, i < j,
                      NEW x \in 1 .. Len(seqs[i]), NEW y \in 1 .. Len(seqs[j])
               PROVE  <<seqs[i][x], seqs[j][y]>> \in Ahead
    BY DEF AllBefore
  <2>1. PICK a \in Places : a = seqs[i][x] /\ a[1] = w[i]
    BY <1>6
  <2>2. PICK b \in Places : b = seqs[j][y] /\ b[1] = w[j]
    BY <1>6
  <2>3. Before(a, b)
    BY <1>1, <2>1, <2>2 DEF Before, Precedes
  <2> QED
    BY <2>1, <2>2, <2>3 DEF Ahead
<1>8. OrderedBy(F, Ahead)
  BY <1>2, <1>5, <1>7, FlattenInOrder
<1>9. /\ F \in Seq(Places)
      /\ \A i \in 1 .. n : \A x \in 1 .. Len(seqs[i]) : \E k \in 1 .. Len(F) : F[k] = seqs[i][x]
      /\ \A k \in 1 .. Len(F) : \E i \in 1 .. n : \E x \in 1 .. Len(seqs[i]) : F[k] = seqs[i][x]
  <2>1. seqs \in Seq(Seq(Places)) /\ Len(seqs) = n
    BY <1>2
  <2>2. /\ F \in Seq(Places)
        /\ \A i \in 1 .. Len(seqs) : \A x \in 1 .. Len(seqs[i]) : \E k \in 1 .. Len(F) : F[k] = seqs[i][x]
        /\ \A k \in 1 .. Len(F) : \E i \in 1 .. Len(seqs) : \E x \in 1 .. Len(seqs[i]) : F[k] = seqs[i][x]
    BY ONLY <2>1, FlattenIs
  <2> QED
    BY ONLY <2>1, <2>2
<1>10. /\ S \in SUBSET Places /\ IsFiniteSet(S)
       /\ \A x \in S : \E k \in 1 .. Len(AllRows) : AllRows[k] = x
       /\ \A k \in 1 .. Len(AllRows) : AllRows[k] \in S
  BY <1>4, RangeIs
<1> HIDE DEF F, S
<1>11. F \in Seq(S)
  <2>1. ASSUME NEW k \in 1 .. Len(F)
        PROVE  F[k] \in S
    <3>1. PICK i \in 1 .. n : \E x \in 1 .. Len(seqs[i]) : F[k] = seqs[i][x]
      BY <1>9
    <3>2. PICK x \in 1 .. Len(seqs[i]) : F[k] = seqs[i][x]
      BY <3>1
    <3>3. PICK m \in 1 .. Len(AllRows) : AllRows[m] = seqs[i][x]
      BY <1>6
    <3> QED
      BY <1>10, <3>2, <3>3
  <2> QED
    BY <1>9, <2>1
<1>12. \A x \in S : \E r \in 1 .. Len(F) : F[r] = x
  <2> TAKE x \in S
  <2>1. PICK k \in 1 .. Len(AllRows) : AllRows[k] = x
    BY <1>10
  <2>2. PICK j \in 1 .. n : \E y \in 1 .. Len(part(j)) : AllRows[k] = part(j)[y]
    BY <1>4
  <2>3. x \in Range(part(j))
    <3>1. \A y \in 1 .. Len(part(j)) : part(j)[y] \in Range(part(j))
      BY <1>3, RangeIs
    <3> QED
      BY <2>1, <2>2, <3>1
  <2>4. PICK y \in 1 .. Len(seqs[j]) : seqs[j][y] = x
    <3>1. \A v \in Range(seqs[j]) : \E y \in 1 .. Len(seqs[j]) : seqs[j][y] = v
      BY <1>2, RangeIs
    <3> QED
      BY <1>5, <2>3, <3>1
  <2> QED
    BY <1>9, <2>4
<1>13. Orders(Ahead, S)
  BY <1>10, AheadOrders
<1>14. F = InOrder(S, Ahead)
  BY <1>8, <1>10, <1>11, <1>12, <1>13, InOrderOnly
<1>15. ByIndex(AllRows) = InOrder(S, Ahead)
  BY <1>4, ByIndexIs DEF S
<1> QED
  BY <1>14, <1>15 DEF F, seqs, w

WholeScan == FlattenSeq(ScanOf(Walked))

\* Unordered, the rows of the first k that are walked begin as the catalog's do.
LEMMA UnorderedSame ==
  ASSUME TypeOK, ~ Ordered, request.limit \in Nat, NEW k \in 0 .. Len(Walked)
  PROVE  SameUpTo(FlattenSeq(Leading(ScanOf(Walked), k)), FlattenSeq(Leading(WholeOf(Walked), k)), request.limit)
<1>1. PICK a : a = Leading(ScanOf(Walked), k)
  OBVIOUS
<1>2. PICK b : b = Leading(WholeOf(Walked), k)
  OBVIOUS
<1>3. Walked \in Seq(DOMAIN catalog.partitions) /\ Len(Walked) \in Nat
      /\ \A i \in 1 .. Len(Walked) : Walked[i] \in DOMAIN catalog.partitions
  BY WalkedIs
<1>4. /\ ScanOf(Walked) \in Seq(Seq(Places)) /\ Len(ScanOf(Walked)) = Len(Walked)
      /\ \A j \in 1 .. Len(Walked) : ScanOf(Walked)[j] = ScanRows(Walked[j])
      /\ WholeOf(Walked) \in Seq(Seq(Places)) /\ Len(WholeOf(Walked)) = Len(Walked)
      /\ \A j \in 1 .. Len(Walked) : WholeOf(Walked)[j] = PartitionRows(Walked[j], NoLimit)
  BY <1>3, ScanSeqs
<1>5. a \in Seq(Seq(Places)) /\ Len(a) = k /\ b \in Seq(Seq(Places)) /\ Len(b) = k
  BY <1>1, <1>2, <1>4, FlattenUpTo
<1>6. \A j \in 1 .. k : a[j] = ScanOf(Walked)[j] /\ b[j] = WholeOf(Walked)[j]
  BY <1>1, <1>2, <1>3, <1>4 DEF Leading
<1>7. ASSUME NEW j \in 1 .. k
      PROVE  SameUpTo(a[j], b[j], request.limit)
  <2>1. j \in 1 .. Len(Walked)
    BY <1>3
  <2>2. a[j] = PartitionRows(Walked[j], ScanLimit) /\ b[j] = PartitionRows(Walked[j], NoLimit)
    BY <1>4, <1>6, <2>1 DEF ScanRows
  <2>3. ScanLimit = NoLimit \/ ScanLimit = request.limit
    BY DEF ScanLimit
  <2>4. SameUpTo(PartitionRows(Walked[j], request.limit), PartitionRows(Walked[j], NoLimit), request.limit)
    BY <1>3, <2>1, PartitionRowsAre
  <2> QED
    BY <2>2, <2>3, <2>4 DEF SameUpTo
<1> QED
  BY <1>1, <1>2, <1>5, <1>7, FlattenSame

\* All that is walked comes to the answer.
LEMMA UnorderedWalk ==
  ASSUME TypeOK, ~ Ordered
  PROVE  First(WholeScan, request.limit) = AnswerRows
<1>1. /\ Walked = Left /\ Walked \in Seq(DOMAIN catalog.partitions) /\ Len(Walked) \in Nat
  BY WalkedIs DEF Ordered
<1>2. AllRows = FlattenSeq(WholeOf(Walked)) /\ AllRows \in Seq(Places)
  BY <1>1, WalkedRows
<1>3. /\ ScanOf(Walked) \in Seq(Seq(Places)) /\ Len(ScanOf(Walked)) = Len(Walked)
      /\ WholeOf(Walked) \in Seq(Seq(Places)) /\ Len(WholeOf(Walked)) = Len(Walked)
  BY <1>1, ScanSeqs
<1>4. Leading(ScanOf(Walked), Len(Walked)) = ScanOf(Walked) /\ Leading(WholeOf(Walked), Len(Walked)) = WholeOf(Walked)
      /\ WholeScan \in Seq(Places)
  <2>1. Len(Walked) \in 0 .. Len(ScanOf(Walked)) /\ Len(Walked) \in 0 .. Len(WholeOf(Walked))
    BY <1>1, <1>3
  <2> QED
    BY <1>3, <2>1, FlattenUpTo DEF WholeScan
<1>5. CASE request.limit \in Nat
  <2>1. Len(Walked) \in 0 .. Len(Walked)
    BY <1>1
  <2>2. SameUpTo(WholeScan, AllRows, request.limit)
    BY <1>2, <1>4, <1>5, <2>1, UnorderedSame DEF WholeScan
  <2> QED
    BY <1>2, <1>4, <1>5, <2>2, SameFirst DEF AnswerRows
<1>6. CASE request.limit = NoLimit
  <2>1. ScanLimit = NoLimit
    BY <1>6 DEF ScanLimit
  <2>2. ScanOf(Walked) = WholeOf(Walked)
    BY <2>1 DEF ScanOf, WholeOf, ScanRows
  <2> QED
    BY <1>2, <2>2 DEF WholeScan, AnswerRows
<1> QED
  BY <1>5, <1>6, LimitIs

\* No two rows of the catalog are in one place.
LEMMA AllApart ==
  ASSUME TypeOK
  PROVE  OrderedBy(AllRows, Apart)
<1>1. PICK whole : whole = WholeOf(Left)
  OBVIOUS
<1>2. PICK p : p = Left
  OBVIOUS
<1>3. p \in Seq(DOMAIN catalog.partitions) /\ Len(p) \in Nat
      /\ \A i \in 1 .. Len(p) : p[i] \in DOMAIN catalog.partitions
  BY <1>2, LeftIs, LenProperties, ElementOfSeq
<1>4. /\ whole \in Seq(Seq(Places)) /\ Len(whole) = Len(p)
      /\ \A j \in 1 .. Len(p) : whole[j] = PartitionRows(p[j], NoLimit)
  BY <1>1, <1>2, <1>3, ScanSeqs
<1>5. \A i \in 1 .. Len(whole) : OrderedBy(whole[i], Apart)
  BY <1>3, <1>4, RowsOfOne
<1>6. \A i \in 1 .. Len(whole) : \A k \in 1 .. Len(whole[i]) : whole[i][k][1] = p[i]
  BY <1>3, <1>4, RowsOfOne
<1>7. \A i, j \in 1 .. Len(whole) : i # j => p[i] # p[j]
  BY <1>2, <1>4, LeftApart
<1>8. OrderedBy(FlattenSeq(whole), Apart)
  BY ONLY <1>4, <1>5, <1>6, <1>7, ApartTogether
<1> QED
  BY <1>1, <1>8, WalkedRows

\* What a scan has to answer.
LEMMA ScanAnswers ==
  ASSUME TypeOK, NEW rows, rows = First(WholeScan, request.limit)
  PROVE  IF Ordered THEN rows = First(ByIndex(AllRows), request.limit)
         ELSE /\ Cardinality(Range(rows)) = Len(rows)
              /\ Range(rows) \subseteq Range(AllRows)
              /\ Len(rows) = Len(AnswerRows)
<1>1. CASE Ordered
  BY <1>1, OrderedWalk DEF WholeScan
<1>2. CASE ~ Ordered
  <2>1. rows = AnswerRows
    BY <1>2, UnorderedWalk
  <2>2. PICK all : all = AllRows
    OBVIOUS
  <2>3. all \in Seq(Places) /\ rows \in Seq(Places) /\ rows = First(all, request.limit)
    BY <2>1, <2>2, ReachedRowsAre DEF AnswerRows
  <2>4. Len(rows) \in Nat /\ Len(all) \in Nat
    BY <2>3, LenProperties
  <2>5. Len(rows) <= Len(all) /\ \A j \in 1 .. Len(rows) : rows[j] = all[j]
    <3>1. CASE request.limit \in Nat
      <4>1. PICK m \in Nat : m = request.limit
        BY <3>1
      <4>2. /\ m <= Len(all) => Len(First(all, m)) = m /\ \A j \in 1 .. m : First(all, m)[j] = all[j]
            /\ Len(all) <= m => First(all, m) = all
        BY <2>3, FirstIs
      <4>3. rows = First(all, m)
        BY <2>3, <4>1
      <4>4. CASE m <= Len(all)
        BY ONLY <2>4, <4>2, <4>3, <4>4
      <4>5. CASE Len(all) <= m
        BY ONLY <2>4, <4>2, <4>3, <4>5
      <4> QED
        BY ONLY <2>4, <4>4, <4>5
    <3>2. CASE request.limit = NoLimit
      <4>1. rows = all
        BY <2>3, <3>2, FirstIs
      <4> QED
        BY <2>4, <4>1
    <3> QED
      BY <3>1, <3>2, LimitIs
  <2>6. OrderedBy(rows, Apart)
    BY <2>2, <2>4, <2>5, AllApart DEF OrderedBy
  <2>7. Cardinality(Range(rows)) = Len(rows)
    BY <2>3, <2>6, ApartCount
  <2>8. Range(rows) \subseteq Range(all)
    <3>1. \A x \in Range(rows) : \E i \in 1 .. Len(rows) : rows[i] = x
      BY <2>3, RangeIs
    <3>2. \A i \in 1 .. Len(all) : all[i] \in Range(all)
      BY <2>3, RangeIs
    <3> QED
      BY <2>4, <2>5, <3>1, <3>2
  <2> QED
    BY <1>2, <2>1, <2>2, <2>7, <2>8
<1> QED
  BY <1>1, <1>2

ScannedUpTo(k) == FlattenSeq(Leading(ScanOf(Walked), k))

\* What has been yielded is a beginning of the walk.
LEMMA ScanAt ==
  ASSUME TypeOK, ChosenOnce, TakenInTurn, at = "scanning"
  PROVE  /\ Len(taken) \in 0 .. Len(chosen) /\ Len(chosen) \in 0 .. Len(Walked) /\ Len(Walked) \in Nat
         /\ DOMAIN taken = 1 .. Len(taken) /\ DOMAIN chosen = 1 .. Len(chosen)
         /\ \A k \in 0 .. Len(chosen) :
              FlattenSeq([j \in 1 .. k |-> ScanRows(chosen[j])]) = ScannedUpTo(k)
         /\ FlattenSeq([i \in DOMAIN chosen |-> PartitionRows(chosen[i], NoLimit)])
              = FlattenSeq(Leading(WholeOf(Walked), Len(chosen)))
<1>1. /\ Len(chosen) \in Nat /\ Len(chosen) <= Len(Walked)
      /\ \A j \in 1 .. Len(chosen) : chosen[j] = Walked[j]
  BY ChosenWalked
<1>2. Walked \in Seq(DOMAIN catalog.partitions) /\ Len(Walked) \in Nat
  BY WalkedIs
<1>3. Len(taken) \in 0 .. Len(chosen) /\ DOMAIN taken = 1 .. Len(taken)
  <2>1. \A j \in DOMAIN taken : taken[j] = j
    BY DEF TakenInTurn
  <2>2. Len(taken) \in 0 .. Len(chosen)
    BY <2>1, InOrderTaken
  <2> QED
    BY <2>2, LenProperties DEF TypeOK
<1>4. DOMAIN chosen = 1 .. Len(chosen)
  BY AskedAre
<1>5. ASSUME NEW k \in 0 .. Len(chosen)
      PROVE  [j \in 1 .. k |-> ScanRows(chosen[j])] = Leading(ScanOf(Walked), k)
  <2>1. \A j \in 1 .. k : j \in 1 .. Len(Walked) /\ chosen[j] = Walked[j]
    BY <1>1, <1>2
  <2>2. \A j \in 1 .. k : ScanOf(Walked)[j] = ScanRows(chosen[j])
    BY <2>1 DEF ScanOf
  <2>3. Leading(ScanOf(Walked), k) = [j \in 1 .. k |-> ScanOf(Walked)[j]]
    BY DEF Leading
  <2> QED
    BY <2>2, <2>3
<1>6. [i \in DOMAIN chosen |-> PartitionRows(chosen[i], NoLimit)] = Leading(WholeOf(Walked), Len(chosen))
  <2>1. \A j \in 1 .. Len(chosen) : j \in 1 .. Len(Walked) /\ chosen[j] = Walked[j]
    BY <1>1, <1>2
  <2>2. \A j \in 1 .. Len(chosen) : WholeOf(Walked)[j] = PartitionRows(chosen[j], NoLimit)
    BY <2>1 DEF WholeOf
  <2>3. Leading(WholeOf(Walked), Len(chosen)) = [j \in 1 .. Len(chosen) |-> WholeOf(Walked)[j]]
    BY DEF Leading
  <2> QED
    BY <1>4, <2>2, <2>3
<1>7. Len(chosen) \in 0 .. Len(Walked)
  BY <1>1, <1>2
<1>8. \A k \in 0 .. Len(chosen) :
        FlattenSeq([j \in 1 .. k |-> ScanRows(chosen[j])]) = ScannedUpTo(k)
  BY <1>5 DEF ScannedUpTo
<1> QED
  BY <1>2, <1>3, <1>4, <1>6, <1>7, <1>8

\* The rows of a beginning, and of one partition more.
LEMMA ScansGrow ==
  ASSUME TypeOK, NEW k \in 0 .. Len(Walked)
  PROVE  /\ ScannedUpTo(k) \in Seq(Places)
         /\ k < Len(Walked) => ScannedUpTo(k + 1) = ScannedUpTo(k) \o ScanRows(Walked[k + 1])
         /\ k = Len(Walked) => ScannedUpTo(k) = WholeScan
         /\ request.limit \in Nat /\ request.limit <= Len(ScannedUpTo(k)) =>
              First(ScannedUpTo(k), request.limit) = First(WholeScan, request.limit)
<1>1. PICK seqs : seqs = ScanOf(Walked)
  OBVIOUS
<1>2. /\ seqs \in Seq(Seq(Places)) /\ Len(seqs) = Len(Walked) /\ Len(Walked) \in Nat
      /\ \A j \in 1 .. Len(Walked) : seqs[j] = ScanRows(Walked[j])
  BY <1>1, WalkedIs, ScanSeqs
<1>3. k \in 0 .. Len(seqs) /\ k \in Nat
  BY <1>2
<1>4. /\ FlattenSeq(Leading(seqs, k)) \in Seq(Places)
      /\ k = Len(seqs) => Leading(seqs, k) = seqs
      /\ k < Len(seqs) => FlattenSeq(Leading(seqs, k + 1)) = FlattenSeq(Leading(seqs, k)) \o seqs[k + 1]
  BY ONLY <1>2, <1>3, FlattenUpTo
<1>5. ASSUME request.limit \in Nat, request.limit <= Len(FlattenSeq(Leading(seqs, k)))
      PROVE  First(FlattenSeq(Leading(seqs, k)), request.limit) = First(FlattenSeq(seqs), request.limit)
  <2>1. Len(seqs) \in k .. Len(seqs) /\ Len(seqs) \in 0 .. Len(seqs)
    BY <1>2, <1>3
  <2>2. Leading(seqs, Len(seqs)) = seqs
    BY <1>2, <2>1, FlattenUpTo
  <2>3. PICK t \in Seq(Places) : FlattenSeq(Leading(seqs, Len(seqs))) = FlattenSeq(Leading(seqs, k)) \o t
    BY <1>2, <1>3, <2>1, FlattenBegins
  <2> QED
    BY <1>4, <1>5, <2>2, <2>3, FirstEnough
<1>6. ScannedUpTo(k) = FlattenSeq(Leading(seqs, k)) /\ ScannedUpTo(k + 1) = FlattenSeq(Leading(seqs, k + 1))
      /\ WholeScan = FlattenSeq(seqs)
  BY <1>1 DEF ScannedUpTo, WholeScan
<1>7. k < Len(Walked) => k + 1 \in 1 .. Len(Walked)
  BY <1>2, <1>3
<1> QED
  BY <1>2, <1>4, <1>5, <1>6, <1>7

\* One partition more is pulled.
LEMMA PullEffect ==
  ASSUME TypeOK, ChosenOnce, TakenInTurn, Scanned, at = "scanning",
         NEW i \in DOMAIN chosen, Yield(i, TRUE),
         pulled' = First(pulled \o ScanRows(chosen[i]), request.limit)
  PROVE  /\ i \in 0 .. Len(chosen) /\ DOMAIN taken' = 1 .. i
         /\ pulled' = First(ScannedUpTo(i), request.limit)
         /\ Len(pulled') = request.limit => pulled' = First(WholeScan, request.limit)
<1>1. PICK d : d = Len(taken)
  OBVIOUS
<1>2. /\ d \in Nat /\ d <= Len(chosen) /\ Len(chosen) \in Nat /\ Len(chosen) <= Len(Walked) /\ Len(Walked) \in Nat
      /\ DOMAIN taken = 1 .. d /\ DOMAIN chosen = 1 .. Len(chosen)
      /\ FlattenSeq([j \in 1 .. d |-> ScanRows(chosen[j])]) = ScannedUpTo(d)
  <2>1. /\ Len(taken) \in 0 .. Len(chosen) /\ Len(chosen) \in 0 .. Len(Walked) /\ Len(Walked) \in Nat
        /\ DOMAIN taken = 1 .. Len(taken) /\ DOMAIN chosen = 1 .. Len(chosen)
        /\ \A k \in 0 .. Len(chosen) :
             FlattenSeq([j \in 1 .. k |-> ScanRows(chosen[j])]) = ScannedUpTo(k)
    BY ScanAt
  <2> QED
    BY <1>1, <2>1
<1>3. /\ i = d + 1 /\ DOMAIN taken' = 1 .. (d + 1)
  BY <1>1, TakenOneMore
<1>4. i \in 1 .. Len(chosen) /\ d \in 0 .. Len(Walked) /\ d < Len(Walked) /\ i \in 0 .. Len(Walked)
  BY <1>2, <1>3
<1>5. ScannedUpTo(i) = ScannedUpTo(d) \o ScanRows(chosen[i]) /\ ScannedUpTo(d) \in Seq(Places) /\ ScannedUpTo(i) \in Seq(Places)
  <2>1. chosen[i] = Walked[i]
    BY <1>4, ChosenWalked
  <2> QED
    BY <1>3, <1>4, <2>1, ScansGrow
<1>6. ScanRows(chosen[i]) \in Seq(Places)
  BY <1>4, AskedAre, ScanRowsAre
<1>7. pulled = First(ScannedUpTo(d), request.limit)
  BY <1>2 DEF Scanned
<1>8. pulled' = First(ScannedUpTo(i), request.limit)
  <2>1. CASE request.limit \in Nat
    BY <1>5, <1>6, <1>7, <2>1, FirstGoesOn
  <2>2. CASE request.limit = NoLimit
    BY <1>5, <1>6, <1>7, <2>2, FirstIs
  <2> QED
    BY <2>1, <2>2, LimitIs
<1>9. ASSUME Len(pulled') = request.limit
      PROVE  pulled' = First(WholeScan, request.limit)
  <2>1. PICK m : m = request.limit
    OBVIOUS
  <2>2. PICK s : s = ScannedUpTo(i)
    OBVIOUS
  <2>3. s \in Seq(Places) /\ Len(s) \in Nat
    BY <1>5, <2>2, LenProperties
  <2>4. m \in Nat
    <3>1. PICK p : p = pulled'
      OBVIOUS
    <3>2. p \in Seq(Places)
      BY <1>5, <1>8, <3>1, FirstTyped
    <3> QED
      BY <1>9, <2>1, <3>1, <3>2, LenProperties
  <2>5. Len(s) <= m => First(s, m) = s
    BY <2>3, <2>4, FirstIs
  <2>6. Len(First(s, m)) = m
    BY <1>8, <1>9, <2>1, <2>2
  <2>7. m <= Len(s)
    BY ONLY <2>3, <2>4, <2>5, <2>6
  <2> QED
    BY <1>4, <1>8, <2>1, <2>2, <2>4, <2>7, ScansGrow
<1> QED
  BY <1>2, <1>3, <1>4, <1>8, <1>9

\* What one request may read holds too few.
LEMMA TooFew ==
  ASSUME TypeOK, ChosenOnce, TakenInTurn, Scanned, at = "scanning", Len(taken) = Len(chosen), Limited
  PROVE  Len(FlattenSeq([i \in DOMAIN chosen |-> PartitionRows(chosen[i], NoLimit)])) < request.limit
<1>1. PICK k : k = Len(chosen)
  OBVIOUS
<1>2. /\ k \in 0 .. Len(Walked) /\ Len(Walked) \in Nat /\ k \in Nat
      /\ pulled = First(ScannedUpTo(k), request.limit) /\ Len(pulled) # request.limit
      /\ FlattenSeq([i \in DOMAIN chosen |-> PartitionRows(chosen[i], NoLimit)])
           = FlattenSeq(Leading(WholeOf(Walked), k))
  <2>1. /\ Len(taken) \in 0 .. Len(chosen) /\ Len(chosen) \in 0 .. Len(Walked) /\ Len(Walked) \in Nat
        /\ DOMAIN taken = 1 .. Len(taken)
        /\ \A m \in 0 .. Len(chosen) :
             FlattenSeq([j \in 1 .. m |-> ScanRows(chosen[j])]) = ScannedUpTo(m)
        /\ FlattenSeq([i \in DOMAIN chosen |-> PartitionRows(chosen[i], NoLimit)])
             = FlattenSeq(Leading(WholeOf(Walked), Len(chosen)))
    BY ScanAt
  <2> QED
    BY <1>1, <2>1 DEF Scanned
<1>3. PICK m \in Nat : m = request.limit
  BY LimitIs
<1>4. PICK s : s = ScannedUpTo(k)
  OBVIOUS
<1>5. PICK whole : whole = FlattenSeq(Leading(WholeOf(Walked), k))
  OBVIOUS
<1>6. /\ Walked \in Seq(DOMAIN catalog.partitions)
      /\ ScanOf(Walked) \in Seq(Seq(Places)) /\ Len(ScanOf(Walked)) = Len(Walked)
      /\ WholeOf(Walked) \in Seq(Seq(Places)) /\ Len(WholeOf(Walked)) = Len(Walked)
  BY WalkedIs, ScanSeqs
<1>7. s \in Seq(Places) /\ whole \in Seq(Places) /\ Len(s) \in Nat /\ Len(whole) \in Nat
  <2>1. s \in Seq(Places)
    BY <1>2, <1>4, ScansGrow
  <2>2. whole \in Seq(Places)
    BY <1>2, <1>5, <1>6, FlattenUpTo
  <2> QED
    BY <2>1, <2>2, LenProperties
<1>8. Len(s) < m
  <2>1. m <= Len(s) => Len(First(s, m)) = m
    BY <1>7, FirstIs
  <2> QED
    BY <1>2, <1>3, <1>4, <1>7, <2>1
<1>9. Len(whole) < m
  <2>1. CASE ~ Ordered
    <3>1. SameUpTo(s, whole, m)
      BY <1>2, <1>3, <1>4, <1>5, <2>1, UnorderedSame DEF ScannedUpTo
    <3> QED
      BY <1>7, <1>8, <3>1 DEF SameUpTo
  <2>2. CASE Ordered
    <3>1. /\ Len(s) = SumFunctionOnSet([j \in 1 .. Len(Walked) |-> Len(ScanOf(Walked)[j])], 1 .. k)
          /\ Len(whole) = SumFunctionOnSet([j \in 1 .. Len(Walked) |-> Len(WholeOf(Walked)[j])], 1 .. k)
      BY <1>2, <1>4, <1>5, <1>6, FlattenLength DEF ScannedUpTo
    <3>2. ASSUME NEW j \in 1 .. Len(Walked)
          PROVE  Len(ScanOf(Walked)[j]) = Len(WholeOf(Walked)[j])
      <4>1. Walked[j] \in DOMAIN catalog.partitions
        BY WalkedIs
      <4>2. ScanOf(Walked)[j] = ByIndex(PartitionRows(Walked[j], NoLimit))
            /\ WholeOf(Walked)[j] = PartitionRows(Walked[j], NoLimit)
        BY <2>2 DEF ScanOf, WholeOf, ScanRows, ScanLimit
      <4>3. PartitionRows(Walked[j], NoLimit) \in Seq(Places) /\ OrderedBy(PartitionRows(Walked[j], NoLimit), Apart)
        BY <4>1, PartitionRowsAre, RowsOfOne
      <4> QED
        BY <4>2, <4>3, ByIndexLen
    <3>3. [j \in 1 .. Len(Walked) |-> Len(ScanOf(Walked)[j])] = [j \in 1 .. Len(Walked) |-> Len(WholeOf(Walked)[j])]
      BY <3>2
    <3> QED
      BY <1>8, <3>1, <3>3
  <2> QED
    BY <2>1, <2>2
<1> QED
  BY <1>2, <1>3, <1>5, <1>9

\* A scan has the same rows while none are pulled.
LEMMA ScansStay ==
  ASSUME UNCHANGED <<asked, chosen, indexed, taken>>, at' = "scanning" => at = "scanning", UNCHANGED pulled, Scanned
  PROVE  Scanned'
<1>1. /\ chosen' = chosen /\ taken' = taken /\ pulled' = pulled /\ request' = request
      /\ \A p : ScanRows(p)' = ScanRows(p)
  BY ReadsStay DEF asked
<1>2. [j \in DOMAIN taken |-> ScanRows(chosen[j])]' = [j \in DOMAIN taken |-> ScanRows(chosen[j])]
  BY <1>1
<1> QED
  BY <1>1, <1>2 DEF Scanned, First

\* Every step of a scan leaves it the first rows of what was yielded.
LEMMA ScannedStep ==
  ASSUME TypeOK, ChosenOnce, TakenInTurn, Scanned, Next
  PROVE  Scanned'
<1>e. ASSUME at' # "scanning" PROVE Scanned'
  BY <1>e DEF Scanned
<1>s. ASSUME UNCHANGED <<asked, chosen, indexed, taken, pulled>>, at' = "scanning" => at = "scanning" PROVE Scanned'
  BY <1>s, ScansStay
<1>1. CASE Choosing
  <2>1. at' # "scanning"
    BY <1>1 DEF Choosing, Resolve, ResolveFails, Consult, Answer
  <2> QED
    BY <2>1, <1>e
<1>2. CASE Lands
  BY <1>2, <1>s DEF Lands, Land, scan
<1>3. CASE Querying
  <2>1. UNCHANGED pulled
    BY <1>3 DEF Querying, scan
  <2>2. CASE Plan
    BY <2>2, <1>e DEF Plan, Answer
  <2>3. CASE AnswerColumns
    BY <2>3, <1>e DEF AnswerColumns, Answer
  <2>4. CASE StartCollecting
    BY <2>4, <1>e DEF StartCollecting, Refuse, Answer
  <2>5. CASE AwaitRead
    BY <2>5, <1>e DEF AwaitRead
  <2>6. CASE CollectedAll
    BY <2>6, <1>e DEF CollectedAll, Gathered, Answer
  <2>7. ASSUME NEW i \in DOMAIN chosen, Collect(i) PROVE Scanned'
    BY <2>7, <1>e DEF Collect, Gathered, Refuse, Answer
  <2>8. ASSUME NEW i \in DOMAIN chosen, Walk(i) PROVE Scanned'
    BY <2>8, <1>e DEF Walk, Wanting, ChosenOnce, InitBody
  <2>9. CASE StartStreaming
    BY <2>9, <1>e DEF StartStreaming, Refuse, Answer
  <2>10. CASE AwaitLanding
    BY <2>10, <2>1, <1>s DEF AwaitLanding, Poll
  <2>11. CASE WalkEnds
    BY <2>11, <2>1, <1>s DEF WalkEnds
  <2>12. CASE Describe
    BY <2>12, <2>1, <1>s DEF Describe, pipeline
  <2>13. CASE FirstItem
    BY <2>13, <1>e DEF FirstItem, Answer
  <2>14. CASE WriteHead
    BY <2>14, <2>1, <1>s DEF WriteHead, pipeline
  <2>15. CASE WriteItem
    BY <2>15, <2>1, <1>s DEF WriteItem, pipeline
  <2>16. CASE WriteEnd
    BY <2>16, <2>1, <1>s DEF WriteEnd, pipeline
  <2> QED
    BY <1>3, <2>2, <2>3, <2>4, <2>5, <2>6, <2>7, <2>8, <2>9, <2>10, <2>11, <2>12, <2>13,
       <2>14, <2>15, <2>16 DEF Querying
<1>4. CASE Scanning
  <2>1. CASE StartScan
    <3>1. /\ taken' = <<>> /\ pulled' = <<>> /\ request' = request /\ request.limit # 0
      BY <2>1, AskedTyped DEF StartScan, ChosenOnce, InitScan, pipeline, asked
    <3>2. FlattenSeq([j \in DOMAIN taken' |-> ScanRows(chosen[j])']) = <<>>
      <4>1. [j \in DOMAIN taken' |-> ScanRows(chosen[j])'] = <<>>
        BY <3>1
      <4>2. FlattenSeq(<<>>) = <<>>
        BY EmptySeq DEF FlattenSeq
      <4> QED
        BY <4>1, <4>2
    <3>3. First(<<>>, request.limit) = <<>> /\ Len(<<>>) # request.limit
      BY <3>1, LimitIs, EmptySeq DEF First
    <3> QED
      BY <3>1, <3>2, <3>3 DEF Scanned, First
  <2>2. CASE PullNext
    BY <2>2, <1>s DEF PullNext, Poll, scan
  <2>3. ASSUME NEW i \in DOMAIN chosen, Pull(i) PROVE Scanned'
    <3>1. CASE Partition(chosen[i]).fails
      BY <2>3, <3>1, <1>e DEF Pull, Answer
    <3>2. CASE ~ Partition(chosen[i]).fails
      <4>1. /\ UNCHANGED <<asked, chosen, indexed>> /\ at = "scanning" /\ Yield(i, TRUE)
            /\ pulled' = First(pulled \o ScanRows(chosen[i]), request.limit)
            /\ Len(pulled') = request.limit => at' = "answered"
        BY <2>3, <3>2 DEF Pull, Answer
      <4>2. i \in 0 .. Len(chosen) /\ DOMAIN taken' = 1 .. i /\ pulled' = First(ScannedUpTo(i), request.limit)
        BY <4>1, PullEffect
      <4>3. FlattenSeq([j \in 1 .. i |-> ScanRows(chosen[j])]) = ScannedUpTo(i)
        BY <4>1, <4>2, ScanAt
      <4>4. /\ chosen' = chosen /\ request' = request /\ \A p : ScanRows(p)' = ScanRows(p)
        BY <4>1, ReadsStay DEF asked
      <4>5. [j \in DOMAIN taken |-> ScanRows(chosen[j])]' = [j \in 1 .. i |-> ScanRows(chosen[j])]
        BY <4>2, <4>4
      <4>6. CASE at' = "scanning"
        <5>1. Len(pulled') # request'.limit
          BY <4>1, <4>4, <4>6
        <5> QED
          BY <4>2, <4>3, <4>4, <4>5, <5>1 DEF Scanned, First
      <4> QED
        BY <4>6, <1>e
    <3> QED
      BY <3>1, <3>2
  <2>4. CASE ScanEnds
    BY <2>4, <1>e DEF ScanEnds, Answer
  <2> QED
    BY <1>4, <2>1, <2>2, <2>3, <2>4 DEF Scanning
<1>5. CASE OutOfTime
  <2>1. UNCHANGED pulled
    BY <1>5 DEF OutOfTime, scan
  <2>2. CASE BodyCutOff
    BY <2>1, <2>2, <1>s DEF BodyCutOff, pipeline
  <2>3. CASE TimeIsUp
    BY <2>3, <1>e DEF TimeIsUp, Answer
  <2> QED
    BY <1>5, <2>2, <2>3 DEF OutOfTime
<1> QED
  BY <1>1, <1>2, <1>3, <1>4, <1>5 DEF Next

\* Each way a scan ends is the one its statement was promised.
LEMMA ScanStep ==
  ASSUME TypeOK, ChosenOnce, TakenInTurn, Scanned, ScanAsAsked, Next
  PROVE  ScanAsAsked'
<1>0. ASSUME UNCHANGED asked, request.how \in Scans =>
               /\ answer'.status = "rows" =>
                    IF Ordered THEN answer'.rows = First(ByIndex(AllRows), request.limit)
                    ELSE /\ Cardinality(Range(answer'.rows)) = Len(answer'.rows)
                         /\ Range(answer'.rows) \subseteq Range(AllRows)
                         /\ Len(answer'.rows) = Len(AnswerRows)
               /\ answer'.status = "refused" =>
                    /\ beyond'
                    /\ UNCHANGED chosen
                    /\ Limited => Len(FlattenSeq([i \in DOMAIN chosen |-> PartitionRows(chosen[i], NoLimit)])) < request.limit
      PROVE  ScanAsAsked'
  <2>1. /\ request' = request /\ catalog' = catalog /\ AllRows' = AllRows /\ AnswerRows' = AnswerRows
        /\ Limited' = Limited /\ Ordered' = Ordered
    <3>1. catalog' = catalog /\ request' = request
      BY <1>0 DEF asked
    <3>2. AllRows' = AllRows
      BY <3>1 DEF AllRows, PartitionRows, FileRows, First, Partition
    <3> QED
      BY <1>0, <3>1, <3>2, AnswerStays DEF Ordered
  <2>2. First(ByIndex(AllRows), request.limit)' = First(ByIndex(AllRows), request.limit)
    BY <2>1 DEF First, ByIndex, Before, Precedes
  <2>3. chosen' = chosen =>
          FlattenSeq([i \in DOMAIN chosen |-> PartitionRows(chosen[i], NoLimit)])'
            = FlattenSeq([i \in DOMAIN chosen |-> PartitionRows(chosen[i], NoLimit)])
    BY <2>1 DEF PartitionRows, FileRows, First, Partition
  <2> SUFFICES ASSUME request'.how \in Scans
               PROVE  /\ answer'.status = "rows" =>
                           IF Ordered' THEN answer'.rows = First(ByIndex(AllRows), request.limit)'
                           ELSE /\ Cardinality(Range(answer'.rows)) = Len(answer'.rows)
                                /\ Range(answer'.rows) \subseteq Range(AllRows')
                                /\ Len(answer'.rows) = Len(AnswerRows')
                      /\ answer'.status = "refused" =>
                           /\ beyond'
                           /\ Limited' => Len(FlattenSeq([i \in DOMAIN chosen |-> PartitionRows(chosen[i], NoLimit)])')
                                            < request'.limit
    BY DEF ScanAsAsked, Scans, Range
  <2>4. request.how \in Scans
    BY <2>1
  <2> QED
    BY <1>0, <2>1, <2>2, <2>3, <2>4
<1>h. ASSUME UNCHANGED asked, request.how \notin Scans PROVE ScanAsAsked'
  BY <1>0, <1>h
<1>f. ASSUME UNCHANGED asked, answer'.status \notin {"rows", "refused"} PROVE ScanAsAsked'
  BY <1>0, <1>f
<1>u. ASSUME UNCHANGED <<asked, chosen, beyond, answer>> PROVE ScanAsAsked'
  BY <1>0, <1>u DEF ScanAsAsked
<1>w. \A how : how \in {"plan", "collected"} \/ how \in Streams => how \notin Scans
  BY DEF Streams, Scans
<1>n. at \in {"asked", "chosen", "ready"} => answer.status = "none"
  BY DEF ChosenOnce, Nothing
<1>1. CASE Choosing
  <2>1. UNCHANGED asked
    BY <1>1 DEF Choosing, Resolve, ResolveFails, Consult
  <2>2. answer'.status \notin {"rows", "refused"}
    BY <1>1, <1>n DEF Choosing, Resolve, ResolveFails, Consult, Answer
  <2> QED
    BY <2>1, <2>2, <1>f
<1>2. CASE Lands
  BY <1>2, <1>u DEF Lands, Land, scan
<1>3. CASE Querying
  <2>1. UNCHANGED asked
    BY <1>3 DEF Querying, Plan, AnswerColumns, StartCollecting, AwaitRead, CollectedAll, Collect, Walk,
                StartStreaming, AwaitLanding, WalkEnds, Describe, FirstItem, WriteHead, WriteItem, WriteEnd
  <2>2. request.how \notin Scans
    <3>1. CASE at \in {"first", "body"}
      BY <3>1, <1>w DEF ChosenOnce
    <3>2. CASE at = "reading"
      BY <3>2, <1>w DEF ChosenOnce
    <3>3. at # "body" => writing = "none" /\ closed = "open"
      BY DEF ChosenOnce, InitBody
    <3> QED
      BY <1>3, <1>w, <3>1, <3>2, <3>3
         DEF Querying, Plan, AnswerColumns, StartCollecting, AwaitRead, CollectedAll, Collect, Walk, Wanting,
             StartStreaming, AwaitLanding, WalkEnds, Describe, FirstItem, WriteHead, SendHead, WriteItem, WriteEnd,
             FinishBody, SendRows
  <2> QED
    BY <2>1, <2>2, <1>h
<1>4. CASE Scanning
  <2>1. CASE StartScan
    BY <2>1, <1>f, <1>n DEF StartScan
  <2>2. CASE PullNext
    BY <2>2, <1>u DEF PullNext, scan
  <2>3. ASSUME NEW i \in DOMAIN chosen, Pull(i) PROVE ScanAsAsked'
    <3>1. CASE Partition(chosen[i]).fails
      BY <2>3, <3>1, <1>f DEF Pull, Answer
    <3>2. CASE ~ Partition(chosen[i]).fails
      <4>1. /\ UNCHANGED <<asked, chosen, indexed, beyond>> /\ at = "scanning" /\ Yield(i, TRUE)
            /\ pulled' = First(pulled \o ScanRows(chosen[i]), request.limit)
            /\ \/ Len(pulled') = request.limit /\ answer'.status = "rows" /\ answer'.rows = pulled'
               \/ UNCHANGED answer
        <5>1. /\ UNCHANGED <<asked, chosen, indexed, beyond>> /\ at = "scanning" /\ Yield(i, TRUE)
              /\ pulled' = First(pulled \o ScanRows(chosen[i]), request.limit)
              /\ IF Len(pulled') = request.limit
                 THEN Answer("rows", pulled', <<>>, TRUE)
                 ELSE UNCHANGED <<at, answer>>
          BY <2>3, <3>2 DEF Pull
        <5>2. Answer("rows", pulled', <<>>, TRUE) => answer'.status = "rows" /\ answer'.rows = pulled'
          BY DEF Answer
        <5> QED
          BY <5>1, <5>2
      <4>2. CASE UNCHANGED answer
        BY <4>1, <4>2, <1>u
      <4>3. CASE Len(pulled') = request.limit /\ answer'.status = "rows" /\ answer'.rows = pulled'
        <5>1. PICK rows : rows = answer'.rows
          OBVIOUS
        <5>2. rows = First(WholeScan, request.limit)
          BY <4>1, <4>3, <5>1, PullEffect
        <5>3. IF Ordered THEN rows = First(ByIndex(AllRows), request.limit)
              ELSE /\ Cardinality(Range(rows)) = Len(rows)
                   /\ Range(rows) \subseteq Range(AllRows)
                   /\ Len(rows) = Len(AnswerRows)
          BY <5>2, ScanAnswers
        <5> QED
          BY <1>0, <4>1, <4>3, <5>1, <5>3
      <4> QED
        BY <4>1, <4>2, <4>3
    <3> QED
      BY <3>1, <3>2
  <2>4. CASE ScanEnds
    <3>1. /\ at = "scanning" /\ Len(taken) = Len(chosen) /\ UNCHANGED <<asked, chosen, indexed, beyond>>
      BY <2>4 DEF ScanEnds, Dry, scan
    <3>2. CASE beyond
      <4>1. answer'.status = "refused"
        BY <2>4, <3>2 DEF ScanEnds, Answer
      <4>2. Limited => Len(FlattenSeq([i \in DOMAIN chosen |-> PartitionRows(chosen[i], NoLimit)])) < request.limit
        BY <3>1, TooFew
      <4> QED
        BY <1>0, <3>1, <3>2, <4>1, <4>2
    <3>3. CASE ~ beyond
      <4>1. answer'.status = "rows" /\ answer'.rows = pulled
        BY <2>4, <3>3 DEF ScanEnds, Answer
      <4>2. pulled = First(WholeScan, request.limit)
        <5>1. chosen = Walked
          BY <3>1, <3>3, ChosenWalked
        <5>2. /\ Len(Walked) \in Nat /\ DOMAIN taken = 1 .. Len(Walked)
              /\ FlattenSeq([j \in 1 .. Len(Walked) |-> ScanRows(chosen[j])]) = ScannedUpTo(Len(Walked))
          <6>1. /\ Len(chosen) \in 0 .. Len(Walked) /\ Len(Walked) \in Nat
                /\ DOMAIN taken = 1 .. Len(taken)
                /\ \A k \in 0 .. Len(chosen) :
                     FlattenSeq([j \in 1 .. k |-> ScanRows(chosen[j])]) = ScannedUpTo(k)
            BY <3>1, ScanAt
          <6> QED
            BY <3>1, <5>1, <6>1
        <5>3. ScannedUpTo(Len(Walked)) = WholeScan
          <6>1. Len(Walked) \in 0 .. Len(Walked)
            BY <5>2
          <6> QED
            BY <6>1, ScansGrow
        <5> QED
          BY <3>1, <5>2, <5>3 DEF Scanned
      <4>3. IF Ordered THEN pulled = First(ByIndex(AllRows), request.limit)
            ELSE /\ Cardinality(Range(pulled)) = Len(pulled)
                 /\ Range(pulled) \subseteq Range(AllRows)
                 /\ Len(pulled) = Len(AnswerRows)
        BY <4>2, ScanAnswers
      <4> QED
        BY <1>0, <3>1, <4>1, <4>3
    <3> QED
      BY <3>2, <3>3
  <2> QED
    BY <1>4, <2>1, <2>2, <2>3, <2>4 DEF Scanning
<1>5. CASE OutOfTime
  <2>1. CASE BodyCutOff
    BY <1>5, <2>1, <1>u DEF OutOfTime, BodyCutOff, scan
  <2>2. CASE TimeIsUp
    BY <2>2, <1>f DEF TimeIsUp, Answer
  <2> QED
    BY <1>5, <2>1, <2>2 DEF OutOfTime
<1> QED
  BY <1>1, <1>2, <1>3, <1>4, <1>5 DEF Next

-----------------------------------------------------------------------------
(* From the start, and for good.                                           *)

\* Before it chooses, a request has read nothing.
LEMMA ReadsBegin ==
  ASSUME InitReads
  PROVE  ReadsInv
<1>1. /\ Init /\ InitQuery /\ InitBody /\ InitScan
  BY DEF InitReads
<1>2. /\ at = "asked" /\ chosen = <<>> /\ taken = <<>> /\ answer = Nothing /\ indexed = FALSE
      /\ answer.status = "none" /\ sent = <<>> /\ closed = "open"
  BY <1>1 DEF Init, Nothing, InitBody
<1>3. TypeOK
  <2>1. \A S : <<>> \in Seq(S)
    OBVIOUS
  <2>2. /\ catalog \in Catalogs /\ request \in Requests /\ bounds \in Bounds
        /\ started \in Nat /\ landed \subseteq Nat /\ polling \in BOOLEAN
    BY <1>1 DEF Init
  <2>3. answer \in [status : {"none", "plan", "rows", "refused", "failed", "late"},
                    rows : Seq(Places), plan : Seq(Nat \X Nat), named : BOOLEAN]
    BY <1>2, <2>1 DEF Nothing
  <2>4. /\ counted \in [bytes : Nat, matched : Nat]
        /\ gathered \in Seq(Places) /\ items = <<>>
        /\ rest \in {"reads", "describing", "nothing"} /\ done \in BOOLEAN /\ refused \in BOOLEAN
    BY <1>1, <2>1 DEF InitQuery
  <2>5. items \in Seq([failed : BOOLEAN, rows : Seq(Places)]) /\ Len(items) <= 1
    BY <2>1, <2>4
  <2>6. /\ sent \in Seq(Places) /\ writing \in {"none", "begin", "rows", "end"}
        /\ closed \in {"open", "whole", "short", "cut"}
    BY <1>1, <2>1 DEF InitBody
  <2>7. pulled \in Seq(Places) /\ beyond \in BOOLEAN
    BY <1>1, <2>1 DEF InitScan
  <2> QED
    BY <1>2, <2>1, <2>2, <2>3, <2>4, <2>5, <2>6, <2>7 DEF TypeOK
<1>4. ChosenOnce
  BY <1>1, <1>2 DEF ChosenOnce, InitBody
<1>5. TakenInTurn
  BY <1>2 DEF TakenInTurn
<1>6. Collecting /\ Streaming /\ Scanned /\ Planned
  BY <1>2 DEF Collecting, Streaming, Scanned, Planned
<1>7. CollectedAsAsked /\ ScanAsAsked
  BY <1>2 DEF CollectedAsAsked, ScanAsAsked
<1>8. NothingQuietlyShort
  <2>1. AnswerRows \in Seq(Places)
    BY <1>3, ReachedRowsAre
  <2>2. Range(<<>>) = {} /\ Cardinality({}) = 0 /\ Len(<<>>) = 0
    BY FS_EmptySet DEF Range
  <2>3. IsPrefix(<<>>, AnswerRows)
    BY <2>1 DEF IsPrefix
  <2> QED
    BY <1>2, <2>2, <2>3 DEF NothingQuietlyShort
<1> QED
  BY <1>3, <1>4, <1>5, <1>6, <1>7, <1>8 DEF ReadsInv

\* A step of somebody else changes nothing of it.
LEMMA ReadsStutter ==
  ASSUME ReadsInv, UNCHANGED vars
  PROVE  ReadsInv'
<1>1. /\ UNCHANGED <<asked, chosen, indexed, taken, at, answer, beyond, pulled>>
      /\ UNCHANGED <<counted, gathered, items, rest, done, refused, writing, sent, closed>>
      /\ UNCHANGED <<started, landed, polling>>
  BY DEF vars, asked
<1>2. TypeOK'
  BY <1>1 DEF ReadsInv, TypeOK, asked
<1>3. ChosenOnce'
  <2>1. Walked' = Walked /\ Left' = Left /\ (Len(Walked) > bounds.partitions)' = (Len(Walked) > bounds.partitions)
        /\ First(Walked, bounds.partitions)' = First(Walked, bounds.partitions)
    BY <1>1, LeftStays DEF asked, First
  <2> QED
    BY <1>1, <2>1 DEF ReadsInv, ChosenOnce, InitQuery, InitScan, InitBody, Nothing, asked
<1>4. TakenInTurn'
  BY <1>1 DEF ReadsInv, TakenInTurn, Limited, asked
<1>5. Collecting'
  <2>1. /\ TakenReads(Len(taken))' = TakenReads(Len(taken))
        /\ Going(Len(taken))' = Going(Len(taken)) /\ CountedSoFar' = CountedSoFar
    BY <1>1, TakenStays
  <2>2. TooManyPartitions' = TooManyPartitions
    BY <1>1, Stays
  <2> QED
    BY <1>1, <2>1, <2>2 DEF ReadsInv, Collecting, asked
<1>6. Streaming'
  <2>1. TooManyPartitions' = TooManyPartitions /\ Describable' = Describable
    BY <1>1, Stays
  <2>2. SaysColumns(Range(taken))' = SaysColumns(Range(taken))
    BY <1>1 DEF SaysColumns, Partition, Range, asked
  <2>3. ASSUME at \in {"first", "body"}, writing # "end" PROVE Walking'
    <3>1. Walking
      BY <2>3 DEF ReadsInv, Streaming, Walking
    <3> QED
      BY <1>1, <3>1, WalkingStays
  <2> QED
    BY <1>1, <2>1, <2>2, <2>3 DEF ReadsInv, Streaming, Walking, Named, Failure
<1>7. Scanned'
  BY <1>1, ScansStay DEF ReadsInv
<1>8. Planned'
  BY <1>1, Stays DEF ReadsInv, Planned, asked
<1>9. CollectedAsAsked'
  BY <1>1, Stays, ReadsStay DEF ReadsInv, CollectedAsAsked, Chose, Named, asked
<1>s. /\ AllRows' = AllRows /\ AnswerRows' = AnswerRows /\ Limited' = Limited /\ Ordered' = Ordered
      /\ Verdict' = Verdict /\ Describable' = Describable
  BY <1>1, Stays, ReadsStay
<1>r. sent' = sent /\ answer' = answer /\ closed' = closed /\ beyond' = beyond /\ chosen' = chosen
      /\ request' = request /\ catalog' = catalog
  BY <1>1 DEF asked
<1>10. NothingQuietlyShort'
  <2>1. /\ Range(sent)' = Range(sent) /\ Range(AnswerRows)' = Range(AnswerRows)
        /\ IsPrefix(sent, AnswerRows)' = IsPrefix(sent, AnswerRows)
        /\ Cardinality(Range(sent))' = Cardinality(Range(sent))
    BY <1>s, <1>r DEF Range, IsPrefix
  <2>2. Named' = Named
    BY <1>s, <1>r DEF Named
  <2>3. (request.how \in Streams)' = (request.how \in Streams)
    BY <1>r DEF Streams
  <2> QED
    BY <1>s, <1>r, <2>1, <2>2, <2>3 DEF ReadsInv, NothingQuietlyShort
<1>11. ScanAsAsked'
  <2>1. First(ByIndex(AllRows), request.limit)' = First(ByIndex(AllRows), request.limit)
    BY <1>s, <1>r DEF First, ByIndex, Before, Precedes
  <2>2. FlattenSeq([i \in DOMAIN chosen |-> PartitionRows(chosen[i], NoLimit)])'
          = FlattenSeq([i \in DOMAIN chosen |-> PartitionRows(chosen[i], NoLimit)])
    BY <1>r DEF PartitionRows, FileRows, First, Partition
  <2>3. /\ Range(answer.rows)' = Range(answer.rows) /\ Range(AllRows)' = Range(AllRows)
        /\ Cardinality(Range(answer.rows))' = Cardinality(Range(answer.rows))
    BY <1>s, <1>r DEF Range
  <2>4. (request.how \in Scans)' = (request.how \in Scans)
    BY <1>r DEF Scans
  <2> QED
    BY <1>s, <1>r, <2>1, <2>2, <2>3, <2>4 DEF ReadsInv, ScanAsAsked
<1> QED
  BY <1>2, <1>3, <1>4, <1>5, <1>6, <1>7, <1>8, <1>9, <1>10, <1>11 DEF ReadsInv

\* ReadsInv holds of every request to a catalog, from its choice of partitions to its answer's
\* end: a step of the request, of a store or of the clock keeps it.
THEOREM ReadsInvariant == Spec => []ReadsInv
<1>1. InitReads => ReadsInv
  BY ReadsBegin
<1>2. ReadsInv /\ [Next]_vars => ReadsInv'
  <2> SUFFICES ASSUME ReadsInv, [Next]_vars PROVE ReadsInv'
    OBVIOUS
  <2>1. CASE Next
    <3>1. /\ TypeOK /\ ChosenOnce /\ TakenInTurn /\ Collecting /\ Streaming /\ Scanned /\ Planned
          /\ CollectedAsAsked /\ NothingQuietlyShort /\ ScanAsAsked
      BY DEF ReadsInv
    <3>2. TypeOK' /\ ChosenOnce' /\ TakenInTurn'
      BY <2>1, <3>1, TypeStep, ChosenStep, TakenStep
    <3>3. Collecting' /\ CollectedAsAsked'
      BY <2>1, <3>1, CollectingStep, CollectedStep
    <3>4. Streaming' /\ NothingQuietlyShort'
      BY <2>1, <3>1, StreamingStep, ShortStep
    <3>5. Scanned' /\ ScanAsAsked'
      BY <2>1, <3>1, ScannedStep, ScanStep
    <3>6. Planned'
      BY <2>1, <3>1, PlannedStep
    <3> QED
      BY <3>2, <3>3, <3>4, <3>5, <3>6 DEF ReadsInv
  <2>2. CASE UNCHANGED vars
    BY <2>2, ReadsStutter
  <2> QED
    BY <2>1, <2>2
<1> QED
  BY <1>1, <1>2, PTL DEF Spec

\* A plan reads the request's rows, whatever an index narrowed it to: PlanIsTheAnswer, for every
\* catalog, request and bounds.
THEOREM PlansAreTheAnswer == Spec => []PlanIsTheAnswer
<1>1. ReadsInv => PlanIsTheAnswer
  BY PlanReads DEF ReadsInv
<1> QED
  BY <1>1, ReadsInvariant, PTL

\* What a collected read comes to depends on nothing but the catalog and the request, in whatever
\* order its reads land: CollectedAsAsked, for every catalog, request and bounds.
THEOREM CollectedIsAsAsked == Spec => []CollectedAsAsked
<1>1. ReadsInv => CollectedAsAsked
  BY DEF ReadsInv
<1> QED
  BY <1>1, ReadsInvariant, PTL

\* No streamed body is short without saying so: NothingQuietlyShort, for every catalog, request and
\* bounds, in whatever order the reads land.
THEOREM NeverQuietlyShort == Spec => []NothingQuietlyShort
<1>1. ReadsInv => NothingQuietlyShort
  BY DEF ReadsInv
<1> QED
  BY <1>1, ReadsInvariant, PTL

\* A statement over a catalog gets the rows it asked for, by the index where it is ordered, or none
\* of them: ScanAsAsked, for every catalog, request and bounds.
THEOREM ScansAreAsAsked == Spec => []ScanAsAsked
<1>1. ReadsInv => ScanAsAsked
  BY DEF ReadsInv
<1> QED
  BY <1>1, ReadsInvariant, PTL
================================================================================
