---------------------------- MODULE NarrowingProofs ----------------------------
(***************************************************************************)
(* That an answer given without reading all there is is the answer.  For   *)
(* any files, catalogs, indexes, filters and limits: statistics rule out   *)
(* no container that holds a row the filter keeps, so neither the file     *)
(* handed back whole nor the partitions left unread cost a row.  For any   *)
(* sky, regions and catalogs: the coverings lie around the region, so the  *)
(* partitions the walk passes by hold none of it, and the test of a row,   *)
(* rounded to the column's cells, keeps the region and nothing else.       *)
(***************************************************************************)
EXTENDS Narrowing, RegionProperties, DataLemmas

-----------------------------------------------------------------------------
(* What statistics say.                                                    *)

\* The lowest and the highest of a column's values are below and above each number in it.
LEMMA BoundsHold ==
  ASSUME NEW values \in SUBSET (Int \cup {Null, NaN}), IsFiniteSet(values)
  PROVE  /\ Bounds(values) # Unstated => Bounds(values) \in [low : Int, high : Int]
         /\ \A v \in values \cap Int :
              /\ Bounds(values) \in [low : Int, high : Int]
              /\ Bounds(values).low <= v /\ v <= Bounds(values).high
<1> DEFINE S == Numbers(values)
<1>1. S \in SUBSET Int /\ S \in SUBSET values /\ values \cap Int \subseteq S
  BY ValuesAssumption DEF Numbers
<1>2. IsFiniteSet(S)
  BY <1>1, FS_Subset
<1> HIDE DEF S
<1>3. ASSUME S # {}
      PROVE  /\ Min(S) \in Int /\ \A x \in S : Min(S) <= x
             /\ Max(S) \in Int /\ \A x \in S : x <= Max(S)
  BY <1>1, <1>2, <1>3, LeastAndGreatest
<1>4. Bounds(values) = IF S = {} THEN Unstated ELSE [low |-> Min(S), high |-> Max(S)]
  BY DEF Bounds, S
<1> QED
  BY <1>1, <1>3, <1>4

\* A comparison that holds of a number is not ruled out by a range the number is in.
LEMMA MayHoldSound ==
  ASSUME NEW t, IsTerm(t), NEW v \in Int, Compares(v, t.op, t.values),
         NEW range, \/ range = Unstated
                    \/ range \in [low : Int, high : Int] /\ range.low <= v /\ v <= range.high
  PROVE  MayHold(range, t.op, t.values)
<1>1. t.op \in Ops /\ t.values \in SUBSET Int
  BY DEF IsTerm
<1>2. CASE range = Unstated
  BY <1>2 DEF MayHold
<1>3. CASE range \in [low : Int, high : Int] /\ range.low <= v /\ v <= range.high
  <2>1. range # AllNull /\ range.low \in Int /\ range.high \in Int /\ v # NaN
    BY <1>3, ValuesAssumption
  <2>2. CASE t.op = "<"
    BY <1>1, <1>3, <2>1, <2>2 DEF MayHold, Compares
  <2>3. CASE t.op = ">="
    BY <1>1, <1>3, <2>1, <2>3 DEF MayHold, Compares
  <2>4. CASE t.op = "in"
    BY <1>1, <1>3, <2>1, <2>4 DEF MayHold, Compares
  <2>5. CASE t.op = "notin"
    BY <1>1, <1>3, <2>1, <2>5 DEF MayHold, Compares
  <2> QED
    BY <1>1, <2>2, <2>3, <2>4, <2>5 DEF Ops
<1> QED
  BY <1>2, <1>3

-----------------------------------------------------------------------------
(* What an index says.                                                     *)

\* A column of every row that a filter keeps is one of the values that it proves.
LEMMA GuaranteeSound ==
  ASSUME NEW filter, \A t \in filter.terms : IsTerm(t), NEW column,
         Guarantee(filter, column) # Unstated
  PROVE  /\ Guarantee(filter, column) \in SUBSET Int
         /\ \A row : Keeps(row, filter) => row[column] \in Guarantee(filter, column)
<1> DEFINE about == {t \in filter.terms : t.column = column /\ t.op = "in"}
           all   == UNION Of(about, "values")
<1>1. about # {}
  BY DEF Guarantee
<1>2. all \in SUBSET Int
  BY DEF Of, IsTerm
<1>3. ASSUME NEW row, NEW t \in about, Holds(row, t) PROVE row[column] \in t.values
  BY <1>3 DEF Holds, Compares
<1>4. \A t \in about : t.values \subseteq all
  BY DEF Of
<1>5. CASE filter.join = "and"
  <2>1. Guarantee(filter, column) = {v \in all : \A t \in about : v \in t.values}
    BY <1>1, <1>5 DEF Guarantee
  <2>2. ASSUME NEW row, Keeps(row, filter)
        PROVE  row[column] \in all /\ \A t \in about : row[column] \in t.values
    <3>1. \A t \in about : Holds(row, t)
      BY <1>5, <2>2 DEF Keeps
    <3> QED
      BY <1>1, <1>3, <1>4, <3>1
  <2> HIDE DEF about, all
  <2> QED
    BY <1>2, <2>1, <2>2
<1>6. CASE filter.join # "and"
  <2>1. about = filter.terms /\ Guarantee(filter, column) = all
    BY <1>1, <1>6 DEF Guarantee
  <2>2. ASSUME NEW row, Keeps(row, filter) PROVE row[column] \in all
    <3>1. PICK t \in about : Holds(row, t)
      BY <1>6, <2>1, <2>2 DEF Keeps
    <3> QED
      BY <1>3, <1>4, <3>1
  <2> HIDE DEF about, all
  <2> QED
    BY <1>2, <2>1, <2>2
<1> QED
  BY <1>5, <1>6

\* What a group of rows of an index states is true of each of them.
LEMMA GroupHolds ==
  ASSUME NEW table \in Tables, NEW index \in table.indexes, NEW file \in index.files,
         NEW group \in file.groups
  PROVE  LET range == RangeOfGroup(group, index.column) IN
         /\ range # Unstated => range \in [low : Int, high : Int]
         /\ \A row \in group.rows : range # Unstated /\ row[index.column] \in Int =>
              range.low <= row[index.column] /\ row[index.column] <= range.high
<1> DEFINE column == index.column
           values == Of(group.rows, column)
<1>1. group.rows \subseteq table.rows
  BY TablesAssumption DEF RowsOfFile
<1>2. values \in SUBSET (Int \cup {Null, NaN})
  BY <1>1, TablesAssumption DEF Of
<1>3. IsFiniteSet(values)
  <2>1. IsFiniteSet(group.rows)
    BY <1>1, TablesAssumption, FS_Subset
  <2> DEFINE f == [row \in group.rows |-> row[column]]
  <2>2. values = {f[row] : row \in group.rows}
    BY DEF Of
  <2> HIDE DEF f, values
  <2>3. IsFiniteSet({f[row] : row \in group.rows})
    BY <2>1, ImageFinite
  <2> QED
    BY <2>2, <2>3
<1>4. \A row \in group.rows : row[column] \in values
  BY DEF Of
<1>5. RangeOfGroup(group, column) # Unstated => RangeOfGroup(group, column) = Bounds(values)
  BY DEF RangeOfGroup
<1> HIDE DEF values, column
<1>6. /\ Bounds(values) # Unstated => Bounds(values) \in [low : Int, high : Int]
      /\ \A v \in values \cap Int : Bounds(values).low <= v /\ v <= Bounds(values).high
  BY <1>2, <1>3, BoundsHold
<1> QED
  BY <1>4, <1>5, <1>6 DEF column

\* So is what a file of it states.
LEMMA FileHolds ==
  ASSUME NEW table \in Tables, NEW index \in table.indexes, NEW file \in index.files,
         NEW row \in RowsOfFile(file), row[index.column] \in Int
  PROVE  LET range == RangeOfFile(file, index.column) IN
         \/ range = Unstated
         \/ /\ range \in [low : Int, high : Int]
            /\ range.low <= row[index.column] /\ row[index.column] <= range.high
<1> DEFINE v == row[index.column]
           ranges == {RangeOfGroup(g, index.column) : g \in file.groups}
           lows == {r.low : r \in ranges}
           highs == {r.high : r \in ranges}
<1>1. PICK group \in file.groups : row \in group.rows
  BY DEF RowsOfFile
<1>2. RangeOfGroup(group, index.column) \in ranges
  OBVIOUS
<1>3. IsFiniteSet(ranges)
  <2>1. IsFiniteSet(file.groups)
    BY TablesAssumption
  <2> DEFINE f == [g \in file.groups |-> RangeOfGroup(g, index.column)]
  <2>2. ranges = {f[g] : g \in file.groups}
    OBVIOUS
  <2> HIDE DEF f, ranges
  <2>3. IsFiniteSet({f[g] : g \in file.groups})
    BY <2>1, ImageFinite
  <2> QED
    BY <2>2, <2>3
<1>4. IsFiniteSet(lows) /\ IsFiniteSet(highs)
  <2> HIDE DEF ranges
  <2> DEFINE f == [r \in ranges |-> r.low]
             h == [r \in ranges |-> r.high]
  <2>1. lows = {f[r] : r \in ranges} /\ highs = {h[r] : r \in ranges}
    OBVIOUS
  <2> HIDE DEF f, h, lows, highs
  <2>2. IsFiniteSet({f[r] : r \in ranges})
    BY <1>3, ImageFinite
  <2>3. IsFiniteSet({h[r] : r \in ranges})
    BY <1>3, ImageFinite
  <2> QED
    BY <2>1, <2>2, <2>3
<1>5. SUFFICES ASSUME Unstated \notin ranges
               PROVE  /\ RangeOfFile(file, index.column) \in [low : Int, high : Int]
                      /\ RangeOfFile(file, index.column).low <= v
                      /\ v <= RangeOfFile(file, index.column).high
  BY DEF RangeOfFile
<1>6. RangeOfFile(file, index.column) = [low |-> Min(lows), high |-> Max(highs)]
  BY <1>2, <1>5 DEF RangeOfFile
<1>7. \A r \in ranges : r \in [low : Int, high : Int]
  BY <1>5, GroupHolds
<1> DEFINE own == RangeOfGroup(group, index.column)
<1>8. own # Unstated /\ own.low <= v /\ v <= own.high
  BY <1>1, <1>2, <1>5, GroupHolds
<1>9. own \in ranges /\ own.low \in lows /\ own.high \in highs
  BY <1>2
<1>10. lows \in SUBSET Int /\ highs \in SUBSET Int
  <2> HIDE DEF ranges
  <2> QED
    BY <1>7
<1> HIDE DEF ranges, lows, highs, own
<1>11. /\ Min(lows) \in Int /\ Min(lows) <= own.low
       /\ Max(highs) \in Int /\ own.high <= Max(highs)
  BY <1>4, <1>9, <1>10, LeastAndGreatest
<1>12. own.low \in Int /\ own.high \in Int /\ v \in Int
  BY <1>9, <1>10
<1> HIDE DEF v
<1>13. Min(lows) <= v /\ v <= Max(highs)
  BY <1>8, <1>11, <1>12
<1> QED
  BY <1>6, <1>11, <1>13

\* A lookup misses no row of its table that holds one of the values asked for.
LEMMA LookupSound ==
  ASSUME NEW table \in Tables, NEW index \in table.indexes, NEW values \in SUBSET Int,
         NEW row \in table.rows, row[index.column] \in values,
         PartitionsFor(index, values, MaxBytes) # Unstated
  PROVE  LET came == PartitionsFor(index, values, MaxBytes) IN
         /\ PartitionOf(row.h) \in came.cells
         /\ came.healpix # Unstated => row.h \in came.healpix
<1> DEFINE files == Candidates(index, values)
           named == {r \in UNION {RowsOfFile(file) : file \in files} : r[index.column] \in values}
           came == PartitionsFor(index, values, MaxBytes)
<1>1. PICK file \in index.files : row \in RowsOfFile(file)
  BY TablesAssumption
<1>2. file \in files
  <2> DEFINE range == RangeOfFile(file, index.column)
             v == row[index.column]
  <2>1. \/ range = Unstated
        \/ range \in [low : Int, high : Int] /\ range.low <= v /\ v <= range.high
    BY <1>1, FileHolds
  <2>2. v \in values /\ v \in Int
    OBVIOUS
  <2> HIDE DEF range, v
  <2>3. CASE range = Unstated
    BY <2>3 DEF MayHold, Candidates, range
  <2>4. CASE range \in [low : Int, high : Int] /\ range.low <= v /\ v <= range.high
    <3>1. range # AllNull
      BY <2>4, ValuesAssumption
    <3>2. MayHold(range, "in", values)
      BY <2>2, <2>4, <3>1 DEF MayHold
    <3> QED
      BY <3>2 DEF Candidates, range
  <2> QED
    BY <2>1, <2>3, <2>4
<1>3. row \in named
  BY <1>1, <1>2
<1>4. /\ came.cells = {PartitionOf(r.h) : r \in named}
      /\ came.healpix = IF Carried(index) THEN Of(named, "h") ELSE Unstated
  BY DEF PartitionsFor
<1> HIDE DEF named, files, came
<1>5. PartitionOf(row.h) \in came.cells
  BY <1>3, <1>4
<1>6. row.h \in Of(named, "h")
  BY <1>3 DEF Of
<1>7. came.healpix # Unstated => row.h \in came.healpix
  BY <1>4, <1>6
<1> QED
  BY <1>5, <1>7 DEF came

-----------------------------------------------------------------------------
(* What the span of a partition says.                                      *)

\* A place in the sky is in the span of its partition.
LEMMA SpanHolds ==
  ASSUME NEW h \in Nat
  PROVE  LET range == RangeOfPartition(PartitionOf(h)) IN
         range \in [low : Int, high : Int] /\ range.low <= h /\ h <= range.high
<1> DEFINE cell == h \div Width
<1>1. Width \in Nat \ {0}
  BY TablesAssumption
<1>2. cell \in Nat /\ cell * Width <= h /\ h <= (cell + 1) * Width - 1
  BY <1>1, SMTT(30)
<1> HIDE DEF cell
<1>3. cell * Width \in Int /\ (cell + 1) * Width - 1 \in Int
  BY <1>1, <1>2
<1>4. RangeOfPartition(cell) = [low |-> cell * Width, high |-> (cell + 1) * Width - 1]
  BY DEF RangeOfPartition, SpanOf
<1> QED
  BY <1>2, <1>3, <1>4 DEF PartitionOf, cell

\* A partition that holds a row the filter keeps is not pruned.
LEMMA ReachedSound ==
  ASSUME NEW filter, \A t \in filter.terms : IsTerm(t), NEW cells, NEW row,
         row.h \in Nat, PartitionOf(row.h) \in cells, Keeps(row, filter)
  PROVE  PartitionOf(row.h) \in Reached(cells, filter)
<1> DEFINE cell == PartitionOf(row.h)
           ranges == [column \in {t.column : t \in filter.terms} |->
                        IF column = "h" THEN RangeOfPartition(cell) ELSE Unstated]
<1>1. ASSUME NEW t \in filter.terms, Holds(row, t)
      PROVE  MayHold(ranges[t.column], t.op, t.values)
  <2>1. CASE t.column = "h"
    <3> DEFINE v == row.h
               range == RangeOfPartition(cell)
    <3>1. ranges[t.column] = range
      BY <2>1
    <3>2. v \in Int /\ Compares(v, t.op, t.values) /\ IsTerm(t)
      BY <1>1, <2>1 DEF Holds
    <3>3. range \in [low : Int, high : Int] /\ range.low <= v /\ v <= range.high
      BY SpanHolds
    <3> HIDE DEF v, range
    <3>4. MayHold(range, t.op, t.values)
      BY <3>2, <3>3, MayHoldSound
    <3> QED
      BY <3>1, <3>4
  <2>2. CASE t.column # "h"
    <3>1. ranges[t.column] = Unstated
      BY <2>2
    <3> QED
      BY <3>1 DEF MayHold
  <2> QED
    BY <2>1, <2>2
<1>2. MayKeep(ranges, filter)
  <2> HIDE DEF ranges
  <2> QED
    BY <1>1 DEF Keeps, MayKeep
<1> QED
  BY <1>2 DEF Reached

-----------------------------------------------------------------------------
(* The rows of a catalog.                                                  *)

\* What a question about a catalog is made of.
LEMMA CatalogIs ==
  ASSUME OfACatalog
  PROVE  /\ OnCatalog
         /\ \A t \in question.filter.terms : IsTerm(t)
         /\ \E t \in Tables : question.rows = t.rows /\ question.indexes = t.indexes
         /\ \A row \in question.rows : row.h \in Nat
<1>1. PICK t \in Tables, filter \in Filters, table \in BOOLEAN :
        question = [rows |-> t.rows, indexes |-> t.indexes, filter |-> filter, table |-> table]
  BY DEF OfACatalog
<1>2. question.rows = t.rows /\ question.indexes = t.indexes /\ question.filter = filter
  BY <1>1
<1>3. OnCatalog
  BY <1>1 DEF OnCatalog
<1> QED
  BY <1>2, <1>3, FiltersAssumption, TablesAssumption

\* A question about a file is not one about a catalog.
LEMMA FileIs ==
  ASSUME OfAFile
  PROVE  /\ ~ OnCatalog
         /\ question.file \in Files /\ question.request \in Requests
<1>1. PICK file \in Files, request \in Requests : question = [file |-> file, request |-> request]
  BY DEF OfAFile
<1>2. DOMAIN question = {"file", "request"} /\ question.file = file /\ question.request = request
  BY <1>1
<1> QED
  BY <1>2 DEF OnCatalog

LEMMA InitNarrowInv == Init => NarrowInv
<1> SUFFICES ASSUME Init PROVE NarrowInv
  OBVIOUS
<1>1. CASE OfAFile
  BY <1>1, FileIs DEF Init, NarrowInv, StillToRead, NoRowIsMissed
<1>2. CASE OfACatalog
  <2>1. stage = "choosing" /\ chosen = Cells(question.rows) /\ found = Unstated
    BY <1>2, CatalogIs DEF Init
  <2>2. \A row \in question.rows : PartitionOf(row.h) \in chosen
    BY <2>1 DEF Cells
  <2> QED
    BY <1>2, <2>1, <2>2 DEF NarrowInv, StillToRead, NoRowIsMissed
<1>3. OfAFile \/ OfACatalog
  BY DEF Init, OfAFile, OfACatalog
<1> QED
  BY <1>1, <1>2, <1>3

\* The file, or the rows that the query keeps, is an answer about no catalog.
LEMMA AnswerFileKeeps ==
  ASSUME NarrowInv, AnswerFile
  PROVE  NarrowInv'
<1>1. OfAFile /\ ~ OnCatalog
  BY FileIs DEF NarrowInv, AnswerFile
<1>2. OfAFile' /\ ~ OnCatalog' /\ stage' = "answered"
  BY <1>1 DEF AnswerFile, OfAFile, OnCatalog
<1> QED
  BY <1>2 DEF NarrowInv, StillToRead, NoRowIsMissed

\* Pruning by spans gives up no partition that holds such a row.
LEMMA ChooseKeeps ==
  ASSUME NarrowInv, Choose
  PROVE  NarrowInv'
<1>1. OfACatalog /\ OfACatalog' /\ question' = question /\ stage' = "looking"
  BY DEF NarrowInv, Choose, OfACatalog
<1>2. pending' \subseteq Guaranteed(question'.filter)
  BY <1>1 DEF Choose
<1>3. found = Unstated /\ found' = Unstated
  BY DEF NarrowInv, Choose
<1>4. ASSUME NEW row \in question.rows, Keeps(row, question.filter)
      PROVE  PartitionOf(row.h) \in chosen'
  <2>1. PartitionOf(row.h) \in chosen
    BY <1>4 DEF NarrowInv, StillToRead, Choose
  <2>2. PartitionOf(row.h) \in Reached(chosen, question.filter)
    BY <1>1, <1>4, <2>1, CatalogIs, ReachedSound
  <2> QED
    BY <2>1, <2>2 DEF Choose
<1>5. StillToRead'
  BY <1>1, <1>3, <1>4 DEF StillToRead
<1> QED
  BY <1>1, <1>2, <1>5 DEF NarrowInv, NoRowIsMissed

\* Neither does an index, nor two that are asked about two columns.
LEMMA LookupKeeps ==
  ASSUME NarrowInv, NEW column, Lookup(column)
  PROVE  NarrowInv'
<1>1. /\ OfACatalog /\ OfACatalog' /\ question' = question /\ chosen' = chosen
      /\ stage = "looking" /\ stage' = "looking"
  BY DEF NarrowInv, Lookup, OfACatalog
<1>2. pending' \subseteq Guaranteed(question'.filter)
  BY <1>1 DEF Lookup, NarrowInv
<1>3. Guarantee(question.filter, column) # Unstated
  BY DEF Lookup, NarrowInv, Guaranteed
<1>4. ASSUME NEW row \in question.rows, Keeps(row, question.filter)
      PROVE  /\ PartitionOf(row.h) \in chosen'
             /\ found' # Unstated =>
                  /\ PartitionOf(row.h) \in found'.cells
                  /\ found'.healpix # Unstated => row.h \in found'.healpix
  <2>1. /\ PartitionOf(row.h) \in chosen
        /\ found # Unstated =>
             /\ PartitionOf(row.h) \in found.cells
             /\ found.healpix # Unstated => row.h \in found.healpix
    BY <1>1, <1>4 DEF NarrowInv, StillToRead
  <2>2. CASE UNCHANGED found
    BY <1>1, <2>1, <2>2
  <2>3. CASE ~ UNCHANGED found
    <3> DEFINE values == Guarantee(question.filter, column)
    <3>1. PICK index \in question.indexes :
            /\ index.column = column /\ PartitionsFor(index, values, MaxBytes) # Unstated
            /\ found' = Both(found, PartitionsFor(index, values, MaxBytes))
      BY <2>3 DEF Lookup
    <3>2. values \in SUBSET Int /\ row[column] \in values
      BY <1>1, <1>3, <1>4, CatalogIs, GuaranteeSound
    <3>3. PICK t \in Tables : question.rows = t.rows /\ question.indexes = t.indexes
      BY <1>1, CatalogIs
    <3> DEFINE came == PartitionsFor(index, values, MaxBytes)
    <3> HIDE DEF values
    <3>4. /\ PartitionOf(row.h) \in came.cells
          /\ came.healpix # Unstated => row.h \in came.healpix
      BY <3>1, <3>2, <3>3, LookupSound
    <3>5. found' = Both(found, came)
      BY <3>1
    <3> HIDE DEF came
    <3> QED
      BY <1>1, <2>1, <3>4, <3>5 DEF Both
  <2> QED
    BY <2>2, <2>3
<1>5. StillToRead'
  BY <1>1, <1>4 DEF StillToRead
<1> QED
  BY <1>1, <1>2, <1>5 DEF NarrowInv, NoRowIsMissed

\* The partitions that the lookups name hold every such row.
LEMMA NarrowKeeps ==
  ASSUME NarrowInv, Narrow
  PROVE  NarrowInv'
<1>1. OfACatalog /\ OfACatalog' /\ question' = question /\ found' = found /\ stage' = "reading"
  BY DEF NarrowInv, Narrow, OfACatalog
<1>2. StillToRead
  BY DEF NarrowInv
<1>3. StillToRead'
  BY <1>1, <1>2 DEF StillToRead, Narrow
<1> QED
  BY <1>1, <1>3 DEF NarrowInv, NoRowIsMissed

\* So what is read of them is all of the answer.
LEMMA ReadKeeps ==
  ASSUME NarrowInv, ReadPartitions
  PROVE  NarrowInv'
<1>1. OfACatalog /\ OfACatalog' /\ question' = question /\ stage' = "answered"
  BY DEF NarrowInv, ReadPartitions, OfACatalog
<1>2. \A row \in question.rows : Keeps(row, question.filter) =>
        PartitionOf(row.h) \in chosen /\ Narrowed(row)
  BY DEF NarrowInv, StillToRead, ReadPartitions, Narrowed
<1>3. answer' = {row \in question.rows : Keeps(row, question.filter)}
  BY <1>2 DEF ReadPartitions
<1> QED
  BY <1>1, <1>3 DEF NarrowInv, StillToRead, NoRowIsMissed

LEMMA NextNarrowInv == NarrowInv /\ [Next]_vars => NarrowInv'
<1> SUFFICES ASSUME NarrowInv, [Next]_vars PROVE NarrowInv'
  OBVIOUS
<1>1. CASE Next
  BY <1>1, AnswerFileKeeps, ChooseKeeps, LookupKeeps, NarrowKeeps, ReadKeeps DEF Next
<1>2. CASE UNCHANGED vars
  BY <1>2 DEF vars, NarrowInv, OfAFile, OfACatalog, StillToRead, NoRowIsMissed, OnCatalog
<1> QED
  BY <1>1, <1>2

\* No row is given up, whatever the indexes hold, state, decline or cost (partitions_for,
\* Search::narrow).
THEOREM NoRowGivenUp == Spec => []NarrowInv
  BY InitNarrowInv, NextNarrowInv, PTL DEF Spec

\* Neither an index nor a partition's span costs the answer a row (hats/index.rs, hats/table.rs).
THEOREM NoRowMissed == Spec => []NoRowIsMissed
<1>1. NarrowInv => NoRowIsMissed
  BY DEF NarrowInv
<1> QED
  BY <1>1, NoRowGivenUp, PTL

-----------------------------------------------------------------------------
(* The file handed back.                                                   *)

\* The rows of a file, and the leaves that each gives a value.
LeavesOf(file) == ToSet(AllLeaves(file))
RowOf(file) == [LeavesOf(file) -> Int \cup {Null, NaN}]

LEMMA GroupIs ==
  ASSUME NEW file \in Files, NEW g \in DOMAIN file.groups
  PROVE  /\ file.groups[g].rows \in Seq(RowOf(file))
         /\ file.groups[g].stated \in {"all", "bounds", "none"}
<1> DEFINE R == Seq(RowOf(file))
<1>1. file.groups \in Seq([rows : R, stated : {"all", "bounds", "none"}])
  BY FilesAssumption DEF RowOf, LeavesOf
<1> HIDE DEF R
<1> DEFINE U == [rows : R, stated : {"all", "bounds", "none"}]
<1>2. file.groups \in Seq(U)
  BY <1>1
<1> HIDE DEF U
<1>3. file.groups[g] \in U
  BY <1>2, LenProperties, ElementOfSeq
<1> QED
  BY <1>3 DEF U, R

LEMMA RowsAre ==
  ASSUME NEW file \in Files
  PROVE  /\ Rows(file) \in Seq(RowOf(file))
         /\ \A k \in 1 .. Len(Rows(file)) :
              \E g \in DOMAIN file.groups : \E i \in DOMAIN file.groups[g].rows :
                Rows(file)[k] = file.groups[g].rows[i]
<1> DEFINE n == Len(file.groups)
           S == RowOf(file)
           seqs == [g \in DOMAIN file.groups |-> file.groups[g].rows]
<1>1. n \in Nat /\ DOMAIN file.groups = 1 .. n
  <2> DEFINE U == [rows : Seq(RowOf(file)), stated : {"all", "bounds", "none"}]
  <2>1. file.groups \in Seq(U)
    BY FilesAssumption DEF RowOf, LeavesOf
  <2> HIDE DEF U
  <2> QED
    BY <2>1, LenProperties
<1>2. \A g \in 1 .. n : file.groups[g].rows \in Seq(S)
  BY <1>1, GroupIs
<1>3. \A g \in 1 .. n : seqs[g] = file.groups[g].rows
  BY <1>1
<1>4. seqs = [g \in 1 .. n |-> seqs[g]]
  BY <1>1
<1> HIDE DEF n, S, seqs
<1>5. seqs \in Seq(Seq(S)) /\ Len(seqs) = n
  BY <1>1, <1>2, <1>3, <1>4
<1>6. /\ FlattenSeq(seqs) \in Seq(S)
      /\ \A k \in 1 .. Len(FlattenSeq(seqs)) :
           \E g \in 1 .. Len(seqs) : \E i \in 1 .. Len(seqs[g]) : FlattenSeq(seqs)[k] = seqs[g][i]
  BY <1>5, FlattenIs
<1>7. \A g \in 1 .. n : DOMAIN file.groups[g].rows = 1 .. Len(seqs[g])
  BY <1>2, <1>3, LenProperties
<1>8. Rows(file) = FlattenSeq(seqs)
  BY DEF Rows, seqs
<1>9. ASSUME NEW k \in 1 .. Len(Rows(file))
      PROVE  \E g \in DOMAIN file.groups : \E i \in DOMAIN file.groups[g].rows :
               Rows(file)[k] = file.groups[g].rows[i]
  <2>1. PICK g \in 1 .. n : \E i \in 1 .. Len(seqs[g]) : Rows(file)[k] = seqs[g][i]
    BY <1>5, <1>6, <1>8
  <2>2. PICK i \in 1 .. Len(seqs[g]) : Rows(file)[k] = seqs[g][i]
    BY <2>1
  <2>3. i \in DOMAIN file.groups[g].rows /\ Rows(file)[k] = file.groups[g].rows[i]
    BY <1>3, <1>7, <2>2
  <2> QED
    BY <1>1, <2>3
<1> QED
  BY <1>6, <1>8, <1>9 DEF S

\* What the columns of a file are made of.
LEMMA LeavesAre ==
  ASSUME NEW file \in Files
  PROVE  /\ Len(file.columns) \in Nat /\ DOMAIN file.columns = 1 .. Len(file.columns)
         /\ \A x \in LeavesOf(file) : \E name \in Holding(file) : x \in ToSet(Leaves[name])
         /\ \A i \in DOMAIN file.columns :
              (\A j \in 1 .. i : Len(Leaves[file.columns[j]]) = 1) =>
                AllLeaves(file)[i] = Leaves[file.columns[i]][1]
         /\ \A i \in DOMAIN file.columns : ToSet(Leaves[file.columns[i]]) \subseteq LeavesOf(file)
<1> DEFINE n == Len(file.columns)
           seqs == [i \in DOMAIN file.columns |-> Leaves[file.columns[i]]]
<1>1. n \in Nat /\ DOMAIN file.columns = 1 .. n
  BY FilesAssumption, LenProperties
<1>2. \A i \in 1 .. n : seqs[i] = Leaves[file.columns[i]] /\ seqs[i] \in Seq(STRING)
  BY <1>1, FilesAssumption
<1>3. seqs = [i \in 1 .. n |-> seqs[i]]
  BY <1>1
<1>4. AllLeaves(file) = FlattenSeq(seqs)
  BY DEF AllLeaves
<1> DEFINE S == STRING
<1> HIDE DEF n, seqs, S
<1>5. seqs \in Seq(Seq(S)) /\ Len(seqs) = n
  BY <1>1, <1>2, <1>3 DEF S
<1>6. /\ FlattenSeq(seqs) \in Seq(S)
      /\ \A i \in 1 .. Len(seqs) : \A j \in 1 .. Len(seqs[i]) :
           \E k \in 1 .. Len(FlattenSeq(seqs)) : FlattenSeq(seqs)[k] = seqs[i][j]
      /\ \A k \in 1 .. Len(FlattenSeq(seqs)) :
           \E i \in 1 .. Len(seqs) : \E j \in 1 .. Len(seqs[i]) : FlattenSeq(seqs)[k] = seqs[i][j]
  BY <1>5, FlattenIs
<1>7. /\ DOMAIN FlattenSeq(seqs) = 1 .. Len(FlattenSeq(seqs))
      /\ \A i \in 1 .. n : DOMAIN seqs[i] = 1 .. Len(seqs[i])
  BY <1>2, <1>6, LenProperties
<1>8. ASSUME NEW x \in LeavesOf(file) PROVE \E name \in Holding(file) : x \in ToSet(Leaves[name])
  <2>1. PICK k \in 1 .. Len(FlattenSeq(seqs)) : x = FlattenSeq(seqs)[k]
    BY <1>4, <1>7 DEF LeavesOf, ToSet
  <2>2. PICK i \in 1 .. n : \E j \in 1 .. Len(seqs[i]) : x = seqs[i][j]
    BY <1>5, <1>6, <2>1
  <2>3. x \in ToSet(Leaves[file.columns[i]])
    BY <1>2, <1>7, <2>2 DEF ToSet
  <2>4. file.columns[i] \in Holding(file)
    BY <1>1 DEF Holding, ToSet
  <2> QED
    BY <2>3, <2>4
<1>9. ASSUME NEW i \in 1 .. n, \A j \in 1 .. i : Len(Leaves[file.columns[j]]) = 1
      PROVE  AllLeaves(file)[i] = Leaves[file.columns[i]][1]
  <2>1. \A j \in 1 .. i : j \in 1 .. n
    BY <1>1
  <2>2. \A j \in 1 .. i : Len(seqs[j]) = 1
    BY <1>2, <1>9, <2>1
  <2>3. i \in 1 .. Len(seqs)
    BY <1>5
  <2>4. FlattenSeq(seqs)[i] = seqs[i][1]
    BY <1>5, <2>2, <2>3, FlattenFirsts
  <2> QED
    BY <1>2, <1>4, <2>4
<1>10. ASSUME NEW i \in 1 .. n PROVE ToSet(Leaves[file.columns[i]]) \subseteq LeavesOf(file)
  <2> SUFFICES ASSUME NEW x \in ToSet(Leaves[file.columns[i]]) PROVE x \in LeavesOf(file)
    OBVIOUS
  <2>1. PICK j \in 1 .. Len(seqs[i]) : x = seqs[i][j]
    BY <1>2, <1>7 DEF ToSet
  <2>2. \E k \in 1 .. Len(FlattenSeq(seqs)) : FlattenSeq(seqs)[k] = x
    BY <1>5, <1>6, <2>1
  <2> QED
    BY <1>4, <1>7, <2>2 DEF LeavesOf, ToSet
<1> QED
  BY <1>1, <1>8, <1>9, <1>10 DEF n

\* The chunk that NoNulls takes at a column's place is the column's own where no nested column
\* comes before it.
LEMMA ChunkAtItsPlace ==
  ASSUME NEW file \in Files, NestedLast(file), NEW name \in Holding(file), Leaves[name] = <<name>>
  PROVE  /\ AllLeaves(file)[Column(file, name)] = name /\ Leaf(name) = name
         /\ name \in LeavesOf(file)
<1> DEFINE c == Column(file, name)
<1>1. c \in DOMAIN file.columns /\ file.columns[c] = name
  BY DEF Holding, ToSet, Column
<1> HIDE DEF c
<1>2. DOMAIN file.columns = 1 .. Len(file.columns) /\ Len(file.columns) \in Nat
  BY LeavesAre
<1>3. Len(Leaves[file.columns[c]]) = 1 /\ Leaves[file.columns[c]][1] = name
  BY <1>1
<1>4. ASSUME NEW j \in 1 .. c PROVE Len(Leaves[file.columns[j]]) = 1
  <2>1. j \in DOMAIN file.columns /\ (j < c \/ j = c)
    BY <1>1, <1>2
  <2> QED
    BY <1>1, <1>3, <2>1 DEF NestedLast
<1>5. AllLeaves(file)[c] = name
  BY <1>1, <1>3, <1>4, LeavesAre
<1>6. name \in LeavesOf(file)
  <2>1. name \in ToSet(Leaves[file.columns[c]])
    BY <1>1 DEF ToSet
  <2> QED
    BY <1>1, <2>1, LeavesAre
<1> QED
  BY <1>3, <1>5, <1>6, <1>1 DEF c, Leaf

\* A comparison that is false of a number is one whose opposite is true of it.
LEMMA OppositeHolds ==
  ASSUME NEW t, IsTerm(t), NEW v \in Int, ~ Compares(v, t.op, t.values)
  PROVE  LET u == [t EXCEPT !.op = Opposite(t.op)] IN
         /\ IsTerm(u) /\ u.column = t.column /\ u.values = t.values /\ u.op = Opposite(t.op)
         /\ Compares(v, u.op, u.values)
<1> DEFINE u == [t EXCEPT !.op = Opposite(t.op)]
<1>1. t \in [column : STRING, op : Ops, values : SUBSET Int] /\ v # NaN
  BY ValuesAssumption DEF IsTerm
<1>2. u.column = t.column /\ u.values = t.values /\ u.op = Opposite(t.op)
  BY <1>1
<1>3. Opposite(t.op) \in Ops
  BY <1>1 DEF Ops, Opposite
<1>4. u \in [column : STRING, op : Ops, values : SUBSET Int]
  BY <1>1, <1>3
<1> HIDE DEF u
<1>5. CASE t.op = "<"
  <2>1. PICK w \in t.values : t.values = {w}
    BY <1>5 DEF IsTerm
  <2>2. w \in Int /\ ~ v < w /\ Opposite(t.op) = ">="
    BY <1>1, <1>5, <2>1 DEF Compares, Opposite
  <2> QED
    BY <1>2, <1>4, <2>1, <2>2 DEF IsTerm, Compares, u
<1>6. CASE t.op = ">="
  <2>1. PICK w \in t.values : t.values = {w}
    BY <1>6 DEF IsTerm
  <2>2. w \in Int /\ ~ v >= w /\ Opposite(t.op) = "<"
    BY <1>1, <1>6, <2>1 DEF Compares, Opposite
  <2> QED
    BY <1>1, <1>2, <1>4, <2>1, <2>2 DEF IsTerm, Compares, u
<1>7. CASE t.op = "in"
  <2>1. v \notin t.values /\ Opposite(t.op) = "notin"
    BY <1>1, <1>7 DEF Compares, Opposite
  <2> QED
    BY <1>2, <1>4, <2>1 DEF IsTerm, Compares, u
<1>8. CASE t.op = "notin"
  <2>1. v \in t.values /\ Opposite(t.op) = "in"
    BY <1>1, <1>8 DEF Compares, Opposite
  <2> QED
    BY <1>1, <1>2, <1>4, <2>1 DEF IsTerm, Compares, u
<1> QED
  BY <1>1, <1>5, <1>6, <1>7, <1>8 DEF Ops

\* A row group whose statistics rule out the opposite of a filter, and count no null in the
\* columns compared, has only rows that the filter keeps.
LEMMA GroupKept ==
  ASSUME NEW file \in Files, NestedLast(file), OnlyNumbers(file), NEW filter,
         \A t \in filter.terms : IsTerm(t),
         Named(filter) \subseteq {name \in Holding(file) : Leaves[name] = <<name>>},
         KeepsEveryRow(file, filter), NEW g \in DOMAIN file.groups,
         NEW r \in DOMAIN file.groups[g].rows
  PROVE  Keeps(file.groups[g].rows[r], filter)
<1> DEFINE group == file.groups[g]
           row == group.rows[r]
           ranges == [name \in Named(filter) |-> RangeOfLeaf(group, Leaf(name))]
<1>1. ~ MayKeep(ranges, Negated(filter))
  BY DEF KeepsEveryRow
<1>2. /\ group.rows \in Seq(RowOf(file)) /\ group.stated \in {"all", "bounds", "none"}
      /\ DOMAIN group.rows = 1 .. Len(group.rows) /\ Len(group.rows) \in Nat
      /\ \A i \in DOMAIN group.rows : group.rows[i] \in RowOf(file)
  BY GroupIs, LenProperties, ElementOfSeq
<1>3. ASSUME NEW t \in filter.terms, ~ Holds(row, t)
      PROVE  LET u == [t EXCEPT !.op = Opposite(t.op)] IN
             u \in Negated(filter).terms /\ MayHold(ranges[u.column], u.op, u.values)
  <2> DEFINE name == t.column
             u == [t EXCEPT !.op = Opposite(t.op)]
             nulls == {i \in DOMAIN group.rows : group.rows[i][name] = Null}
             range == RangeOfLeaf(group, name)
  <2>1. name \in Named(filter) /\ name \in Holding(file) /\ Leaves[name] = <<name>>
    BY DEF Named
  <2>2. AllLeaves(file)[Column(file, name)] = name /\ Leaf(name) = name /\ name \in LeavesOf(file)
    BY <2>1, ChunkAtItsPlace
  <2>3. NullCount(group, name) = 0
    BY <2>1, <2>2 DEF KeepsEveryRow, NoNulls
  <2>4. group.stated = "all" /\ Cardinality(nulls) = 0
    BY <2>3, ValuesAssumption DEF NullCount
  <2>5. nulls = {}
    <3>1. IsFiniteSet(1 .. Len(group.rows))
      BY <1>2, FS_Interval
    <3>2. IsFiniteSet(nulls)
      BY <1>2, <3>1, FS_Subset
    <3> HIDE DEF nulls
    <3> QED
      BY <2>4, <3>2, FS_EmptySet
  <2>6. \A i \in DOMAIN group.rows :
          group.rows[i][name] \in Int /\ group.rows[i][name] \in Values(group, name)
    <3> TAKE i \in DOMAIN group.rows
    <3>1. group.rows[i][name] \in Int \cup {Null, NaN}
      BY <1>2, <2>2 DEF RowOf
    <3>2. group.rows[i][name] # Null
      BY <2>5
    <3>3. group.rows[i][name] # NaN
      BY <2>2 DEF OnlyNumbers, LeavesOf
    <3> QED
      BY <3>1, <3>2, <3>3 DEF Values
  <2>7. Values(group, name) \in SUBSET (Int \cup {Null, NaN}) /\ IsFiniteSet(Values(group, name))
    <3>1. Values(group, name) \in SUBSET Int
      BY <2>6 DEF Values
    <3> DEFINE D == DOMAIN group.rows
               f == [i \in D |-> group.rows[i][name]]
    <3>2. Values(group, name) = {f[i] : i \in D}
      BY DEF Values
    <3>3. IsFiniteSet(D)
      BY <1>2, FS_Interval
    <3> HIDE DEF D, f
    <3>4. IsFiniteSet({f[i] : i \in D})
      BY <3>3, ImageFinite
    <3> QED
      BY <3>1, <3>2, <3>4
  <2>8. range = Bounds(Values(group, name))
    <3>1. Len(group.rows) # 0
      BY <1>2
    <3> QED
      BY <2>3, <2>4, <3>1 DEF RangeOfLeaf
  <2> DEFINE v == row[name]
  <2>9. /\ v \in Int /\ range \in [low : Int, high : Int]
        /\ range.low <= v /\ v <= range.high
    BY <2>6, <2>7, <2>8, BoundsHold
  <2>10. ~ Compares(v, t.op, t.values)
    BY <1>3, <2>9, ValuesAssumption DEF Holds
  <2>11. IsTerm(u) /\ Compares(v, u.op, u.values) /\ u.column = name
    BY <2>9, <2>10, OppositeHolds
  <2>12. ranges[u.column] = range
    BY <2>1, <2>2, <2>11
  <2>13. u \in Negated(filter).terms
    BY DEF Negated
  <2> HIDE DEF u, range, v, ranges
  <2>14. MayHold(range, u.op, u.values)
    BY <2>9, <2>11, MayHoldSound
  <2> QED
    BY <2>12, <2>13, <2>14 DEF u
<1> SUFFICES ASSUME ~ Keeps(row, filter) PROVE FALSE
  OBVIOUS
<1>4. CASE filter.join = "and"
  <2>1. PICK t \in filter.terms : ~ Holds(row, t)
    BY <1>4 DEF Keeps
  <2>2. Negated(filter).join = "or"
    BY <1>4 DEF Negated
  <2> HIDE DEF ranges
  <2> QED
    BY <1>1, <1>3, <2>1, <2>2 DEF MayKeep
<1>5. CASE filter.join # "and"
  <2>1. \A t \in filter.terms : ~ Holds(row, t)
    BY <1>5 DEF Keeps
  <2>2. Negated(filter).join = "and"
    BY <1>5 DEF Negated
  <2>3. ASSUME NEW u \in Negated(filter).terms PROVE MayHold(ranges[u.column], u.op, u.values)
    <3>1. PICK t \in filter.terms : u = [t EXCEPT !.op = Opposite(t.op)]
      BY DEF Negated
    <3> HIDE DEF ranges
    <3> QED
      BY <1>3, <2>1, <3>1
  <2> HIDE DEF ranges
  <2> QED
    BY <1>1, <2>2, <2>3 DEF MayKeep
<1> QED
  BY <1>4, <1>5

\* A file judged to be the answer is what running the query would answer: every row is kept,
\* with every leaf.
LEMMA JudgedRight ==
  ASSUME NEW file \in Files, NestedLast(file), OnlyNumbers(file), NEW request \in Requests,
         AnswersWithTheFile(file, request)
  PROVE  Rows(file) = Queried(file, request)
<1> DEFINE all == Rows(file)
           S == RowOf(file)
<1>1. /\ request.limit = Unstated /\ request.region = Unstated /\ Plans(file, request)
      /\ EveryColumn(file, request)
      /\ request.filter = Everything \/ KeepsEveryRow(file, request.filter)
  BY DEF AnswersWithTheFile
<1>2. \A t \in request.filter.terms : IsTerm(t)
  BY RequestsAssumption
<1>3. /\ all \in Seq(S) /\ Len(all) \in Nat /\ DOMAIN all = 1 .. Len(all)
      /\ \A k \in DOMAIN all : all[k] \in S
  BY RowsAre, LenProperties, ElementOfSeq
<1>4. ASSUME NEW k \in DOMAIN all PROVE Keeps(all[k], request.filter)
  <2>1. CASE request.filter = Everything
    BY <2>1 DEF Everything, Keeps
  <2>2. CASE KeepsEveryRow(file, request.filter)
    <3>1. PICK g \in DOMAIN file.groups : \E r \in DOMAIN file.groups[g].rows :
            all[k] = file.groups[g].rows[r]
      BY <1>3, RowsAre
    <3>2. Named(request.filter) \subseteq {name \in Holding(file) : Leaves[name] = <<name>>}
      BY <1>1 DEF Plans
    <3> HIDE DEF all
    <3> QED
      BY <1>2, <2>2, <3>1, <3>2, GroupKept
  <2> QED
    BY <1>1, <2>1, <2>2
<1>5. request.leaves = LeavesOf(file)
  <2>1. request.leaves \subseteq LeavesOf(file)
    BY <1>1 DEF Plans, LeavesOf
  <2>2. ASSUME NEW x \in LeavesOf(file) PROVE x \in request.leaves
    <3>1. PICK name \in Holding(file) : x \in ToSet(Leaves[name])
      BY LeavesAre
    <3> DEFINE packed == Packed(file, request.leaves)
    <3>2. DOMAIN packed = Holding(file) /\ packed[name] = ToSet(Leaves[name])
      BY <1>1, Zenon DEF EveryColumn
    <3>3. packed[name] = ToSet(Leaves[name]) \cap request.leaves
      BY <3>2 DEF Packed
    <3> QED
      BY <3>1, <3>2, <3>3
  <2> QED
    BY <2>1, <2>2
<1> DEFINE kept == FlattenSeq([i \in DOMAIN all |->
                     IF /\ Keeps(all[i], request.filter)
                        /\ request.region = Unstated \/ all[i].h \in request.region
                     THEN <<all[i]>> ELSE <<>>])
<1>6. kept = all
  <2>1. [i \in DOMAIN all |->
           IF /\ Keeps(all[i], request.filter)
              /\ request.region = Unstated \/ all[i].h \in request.region
           THEN <<all[i]>> ELSE <<>>] = [i \in DOMAIN all |-> <<all[i]>>]
    BY <1>1, <1>4
  <2>2. FlattenSeq([i \in DOMAIN all |-> <<all[i]>>]) = all
    <3> HIDE DEF all, S
    <3> QED
      BY <1>3, FlattenSingles
  <2> QED
    BY <2>1, <2>2
<1>7. Queried(file, request) = [i \in DOMAIN kept |-> [leaf \in request.leaves |-> kept[i][leaf]]]
  BY <1>1 DEF Queried
<1> HIDE DEF kept, all
<1>8. \A i \in DOMAIN all : all[i] = [leaf \in LeavesOf(file) |-> all[i][leaf]]
  BY <1>3 DEF RowOf
<1>9. all = [i \in 1 .. Len(all) |-> all[i]]
  BY <1>3
<1>10. [i \in DOMAIN all |-> [leaf \in LeavesOf(file) |-> all[i][leaf]]] = all
  BY <1>3, <1>8, <1>9
<1> QED
  BY <1>5, <1>6, <1>7, <1>10 DEF all

\* What a query about a file is answered with was judged of that file and request.
AsJudged ==
  OfAFile /\ stage = "answered" =>
    answer = IF AnswersWithTheFile(question.file, question.request)
             THEN Rows(question.file)
             ELSE Queried(question.file, question.request)

LEMMA AsJudgedAlways == Spec => [](NarrowInv /\ AsJudged)
<1>1. Init => AsJudged
  <2> SUFFICES ASSUME Init, OfAFile PROVE stage # "answered"
    BY DEF AsJudged
  <2> QED
    BY FileIs DEF Init
<1>2. NarrowInv /\ AsJudged /\ [Next]_vars => AsJudged'
  <2> SUFFICES ASSUME NarrowInv, AsJudged, [Next]_vars, OfAFile', stage' = "answered"
               PROVE  AsJudged'
    BY DEF AsJudged
  <2>1. CASE AnswerFile
    BY <2>1 DEF AnswerFile, AsJudged
  <2>2. CASE Choose \/ Narrow \/ ReadPartitions \/ \E column \in pending : Lookup(column)
    <3>1. question' = question /\ ~ OfAFile
      BY <2>2, FileIs, CatalogIs DEF NarrowInv, Choose, Narrow, ReadPartitions, Lookup
    <3> QED
      BY <3>1 DEF OfAFile
  <2>3. CASE UNCHANGED vars
    BY <2>3 DEF vars, AsJudged, OfAFile
  <2> QED
    BY <2>1, <2>2, <2>3 DEF Next
<1> QED
  BY <1>1, <1>2, NoRowGivenUp, PTL DEF Spec

\* A query is answered with the file only where running it would have answered the same, for
\* files whose nested columns come last and whose floats are numbers (answers_with_the_file).
THEOREM WholeFileIsTheAnswer ==
  (\A file \in Files : NestedLast(file) /\ OnlyNumbers(file)) => (Spec => []FileIsTheAnswer)
<1> SUFFICES ASSUME \A file \in Files : NestedLast(file) /\ OnlyNumbers(file)
             PROVE  Spec => []FileIsTheAnswer
  OBVIOUS
<1>1. NarrowInv /\ AsJudged => FileIsTheAnswer
  <2> SUFFICES ASSUME NarrowInv, AsJudged, stage = "answered", ~ OnCatalog
               PROVE  answer = Queried(question.file, question.request)
    BY DEF FileIsTheAnswer
  <2>1. OfAFile
    BY CatalogIs DEF NarrowInv
  <2> QED
    BY <2>1, FileIs, JudgedRight DEF AsJudged
<1> QED
  BY <1>1, AsJudgedAlways, PTL

-----------------------------------------------------------------------------
(* SkyCells.                                                                  *)

\* From z at 0 each number up to n has what next makes of the one before it.
Grows(f, n, z, next) == f = [k \in 0 .. n |-> IF k = 0 THEN z ELSE next[f[k - 1]]]

\* A list made of each by the one before exists.
LEMMA GrowthExists ==
  ASSUME NEW n \in Nat, NEW z, NEW next
  PROVE  \E f : Grows(f, n, z, next)
<1> USE DEF Grows
<1> DEFINE T == {m \in 0 .. n : \E f : Grows(f, m, z, next)}
<1>1. 0 \in T
  <2> DEFINE f == [k \in 0 .. 0 |-> z]
  <2>1. \A k \in 0 .. 0 : k = 0
    OBVIOUS
  <2>2. [k \in 0 .. 0 |-> IF k = 0 THEN z ELSE next[f[k - 1]]] = f
    BY <2>1
  <2>3. Grows(f, 0, z, next)
    BY <2>2
  <2> HIDE DEF f
  <2>4. \E h : Grows(h, 0, z, next)
    BY <2>3
  <2> QED
    BY <2>4
<1>2. ASSUME NEW m \in 0 .. (n - 1), m \in T PROVE m + 1 \in T
  <2>1. PICK f : Grows(f, m, z, next)
    BY <1>2
  <2> DEFINE g == [k \in 0 .. (m + 1) |-> IF k <= m THEN f[k] ELSE next[f[m]]]
  <2>2. \A k \in 0 .. m : f[k] = IF k = 0 THEN z ELSE next[f[k - 1]]
    BY <2>1
  <2>3. ASSUME NEW k \in 0 .. (m + 1)
        PROVE  g[k] = IF k = 0 THEN z ELSE next[g[k - 1]]
    <3>1. CASE k = 0
      BY <2>2, <3>1
    <3>2. CASE k \in 1 .. m
      <4>1. g[k] = f[k] /\ g[k - 1] = f[k - 1] /\ f[k] = next[f[k - 1]]
        BY <2>2, <3>2
      <4> QED
        BY <3>2, <4>1
    <3>3. CASE k = m + 1
      <4>1. g[k] = next[f[m]] /\ g[k - 1] = f[m] /\ k # 0
        BY <3>3
      <4> QED
        BY <4>1
    <3> QED
      BY <3>1, <3>2, <3>3
  <2>4. g = [k \in 0 .. (m + 1) |-> g[k]]
    OBVIOUS
  <2> HIDE DEF g
  <2>5. [k \in 0 .. (m + 1) |-> g[k]]
          = [k \in 0 .. (m + 1) |-> IF k = 0 THEN z ELSE next[g[k - 1]]]
    BY <2>3
  <2>6. Grows(g, m + 1, z, next)
    BY <2>4, <2>5
  <2> QED
    BY <2>6
<1> HIDE DEF T
<1>3. n \in T
  BY <1>1, <1>2, CountingUp
<1> QED
  BY <1>3 DEF T

\* A cell holds four of the next order, and by way of them as many as both of two steps make.
LEMMA QuartersAre ==
  /\ Quarters[0] = 1
  /\ \A k \in 0 .. MaxOrder : Quarters[k] \in Nat \ {0}
  /\ \A k \in 0 .. (MaxOrder - 1) : Quarters[k + 1] = 4 * Quarters[k]
<1> DEFINE next == [x \in Nat |-> 4 * x]
           Is(f) == f = [k \in 0 .. MaxOrder |-> IF k = 0 THEN 1 ELSE 4 * f[k - 1]]
<1>0. MaxOrder \in Nat
  BY SkyAssumption
<1>a. \A x \in Nat : next[x] = 4 * x
  OBVIOUS
<1> HIDE DEF next
<1>1. PICK f : Grows(f, MaxOrder, 1, next)
  BY <1>0, GrowthExists
<1>2. \A k \in 0 .. MaxOrder : f[k] = IF k = 0 THEN 1 ELSE next[f[k - 1]]
  BY <1>1 DEF Grows
<1> DEFINE T == {k \in 0 .. MaxOrder : f[k] \in Nat \ {0}}
<1>3. 0 \in T
  BY <1>0, <1>2
<1>4. ASSUME NEW k \in 0 .. (MaxOrder - 1), k \in T PROVE k + 1 \in T
  <2>1. k + 1 \in 0 .. MaxOrder /\ k + 1 # 0 /\ (k + 1) - 1 = k /\ f[k] \in Nat \ {0}
    BY <1>0, <1>4
  <2>2. f[k + 1] = next[f[k]]
    BY <1>2, <2>1
  <2>3. next[f[k]] = 4 * f[k]
    BY <1>a, <2>1
  <2> QED
    BY <2>1, <2>2, <2>3
<1>5. \A k \in 0 .. MaxOrder : k \in T
  <2> HIDE DEF T
  <2> QED
    BY <1>0, <1>3, <1>4, CountingUp
<1>6. \A k \in 0 .. MaxOrder : f[k] \in Nat \ {0}
  BY <1>5
<1>7. ASSUME NEW k \in 0 .. MaxOrder
      PROVE  (IF k = 0 THEN 1 ELSE next[f[k - 1]]) = IF k = 0 THEN 1 ELSE 4 * f[k - 1]
  <2>1. CASE k = 0
    BY <2>1
  <2>2. CASE k # 0
    <3>1. f[k - 1] \in Nat
      BY <1>0, <1>6, <2>2
    <3>2. next[f[k - 1]] = 4 * f[k - 1]
      BY <1>a, <3>1
    <3> QED
      BY <2>2, <3>2
  <2> QED
    BY <2>1, <2>2
<1>8. Is(f)
  <2>1. [k \in 0 .. MaxOrder |-> IF k = 0 THEN 1 ELSE next[f[k - 1]]]
          = [k \in 0 .. MaxOrder |-> IF k = 0 THEN 1 ELSE 4 * f[k - 1]]
    BY <1>7
  <2> QED
    BY <1>1, <2>1 DEF Grows
<1>9. Is(Quarters)
  <2>1. Quarters = CHOOSE g : Is(g)
    BY DEF Quarters
  <2> HIDE DEF Is
  <2> QED
    BY <1>8, <2>1
<1> DEFINE Q == Quarters
<1> HIDE DEF Q
<1>10. \A k \in 0 .. MaxOrder : Q[k] = IF k = 0 THEN 1 ELSE 4 * Q[k - 1]
  BY <1>9 DEF Q
<1> DEFINE U == {k \in 0 .. MaxOrder : Q[k] \in Nat \ {0}}
<1>11. 0 \in U
  BY <1>0, <1>10
<1>12. ASSUME NEW k \in 0 .. (MaxOrder - 1) PROVE Q[k + 1] = 4 * Q[k]
  <2>1. k + 1 \in 0 .. MaxOrder /\ k + 1 # 0 /\ (k + 1) - 1 = k
    BY <1>0
  <2> QED
    BY <1>10, <2>1
<1>13. ASSUME NEW k \in 0 .. (MaxOrder - 1), k \in U PROVE k + 1 \in U
  BY <1>0, <1>12, <1>13
<1>14. \A k \in 0 .. MaxOrder : k \in U
  <2> HIDE DEF U
  <2> QED
    BY <1>0, <1>11, <1>13, CountingUp
<1>15. Q[0] = 1
  BY <1>0, <1>10
<1> QED
  BY <1>12, <1>14, <1>15 DEF Q

LEMMA QuartersAdd ==
  ASSUME NEW a \in 0 .. MaxOrder, NEW b \in 0 .. (MaxOrder - a)
  PROVE  Quarters[a + b] = Quarters[a] * Quarters[b]
<1> DEFINE T == {k \in 0 .. (MaxOrder - a) : Quarters[a + k] = Quarters[a] * Quarters[k]}
<1>0. MaxOrder \in Nat /\ MaxOrder - a \in Nat /\ a \in Nat
  BY SkyAssumption
<1>1. 0 \in T
  BY <1>0, QuartersAre
<1>2. ASSUME NEW k \in 0 .. ((MaxOrder - a) - 1), k \in T PROVE k + 1 \in T
  <2>1. /\ k + 1 \in 0 .. (MaxOrder - a) /\ a + k \in 0 .. (MaxOrder - 1) /\ a + (k + 1) = (a + k) + 1
        /\ k \in 0 .. (MaxOrder - 1)
    BY <1>0
  <2>2. /\ Quarters[(a + k) + 1] = 4 * Quarters[a + k] /\ Quarters[k + 1] = 4 * Quarters[k]
        /\ Quarters[a] \in Nat /\ Quarters[k] \in Nat
    BY <1>0, <2>1, QuartersAre
  <2>3. Quarters[a + k] = Quarters[a] * Quarters[k]
    BY <1>2
  <2>4. 4 * (Quarters[a] * Quarters[k]) = Quarters[a] * (4 * Quarters[k])
    BY <2>2
  <2> QED
    BY <2>1, <2>2, <2>3, <2>4
<1> HIDE DEF T
<1>3. b \in T
  BY <1>0, <1>1, <1>2, CountingUp
<1> QED
  BY <1>3 DEF T

\* A cell of an order is a stretch of the points, and every point is in one.
LEMMA SpanIs ==
  ASSUME NEW order \in 0 .. MaxOrder
  PROVE  LET size == Quarters[MaxOrder - order] IN
         /\ size \in Nat \ {0} /\ Base * Quarters[MaxOrder] \in Nat
         /\ \A pixel \in CellsAt(order) :
              /\ Span(order, pixel) = pixel * size .. (pixel + 1) * size - 1
              /\ Span(order, pixel) \subseteq Points /\ Span(order, pixel) # {}
              /\ pixel * size \in Nat /\ (pixel + 1) * size = pixel * size + size
              /\ (pixel + 1) * size <= Base * Quarters[MaxOrder]
         /\ \A p \in Points : p \div size \in CellsAt(order) /\ p \in Span(order, p \div size)
<1> DEFINE size == Quarters[MaxOrder - order]
           n == Base * Quarters[order]
<1>0. MaxOrder \in Nat /\ Base \in Nat \ {0} /\ MaxOrder - order \in 0 .. MaxOrder
  BY SkyAssumption
<1>1. size \in Nat \ {0} /\ Quarters[order] \in Nat \ {0} /\ Quarters[MaxOrder] \in Nat \ {0}
  BY <1>0, QuartersAre
<1>2. Quarters[MaxOrder] = Quarters[order] * size
  <2>1. order + (MaxOrder - order) = MaxOrder
    BY <1>0
  <2> QED
    BY <1>0, <2>1, QuartersAdd
<1>3. n \in Nat \ {0} /\ Base * Quarters[MaxOrder] = n * size /\ n * size \in Nat
  BY <1>0, <1>1, <1>2
<1>4. Points = 0 .. n * size - 1 /\ CellsAt(order) = 0 .. n - 1
  BY <1>3 DEF Points, CellsAt
<1>5. \A pixel : Span(order, pixel) = pixel * size .. (pixel + 1) * size - 1
  BY DEF Span
<1> HIDE DEF size, n
<1>6. ASSUME NEW pixel \in 0 .. n - 1
      PROVE  /\ pixel * size \in Nat /\ (pixel + 1) * size = pixel * size + size
             /\ (pixel + 1) * size <= n * size
  BY <1>1, <1>3
<1>7. ASSUME NEW pixel \in 0 .. n - 1
      PROVE  Span(order, pixel) \subseteq Points /\ Span(order, pixel) # {}
  <2>1. pixel * size \in Nat /\ (pixel + 1) * size \in Nat /\ n * size \in Nat
    BY <1>1, <1>3, <1>6
  <2>2. pixel * size \in Span(order, pixel)
    BY <1>1, <1>5, <1>6, <2>1
  <2>3. \A x \in pixel * size .. (pixel + 1) * size - 1 : x \in 0 .. n * size - 1
    BY <1>6, <2>1
  <2> QED
    BY <1>4, <1>5, <2>2, <2>3
<1>8. ASSUME NEW p \in 0 .. n * size - 1
      PROVE  p \div size \in 0 .. n - 1 /\ p \in Span(order, p \div size)
  <2> DEFINE q == p \div size
  <2>1. q \in Int /\ q * size <= p /\ p < q * size + size
    BY <1>1, <1>3
  <2> HIDE DEF q
  <2>2. (q + 1) * size = q * size + size /\ p \in 0 .. n * size - 1 /\ p \in Nat
    BY <1>1, <1>3, <2>1
  <2>3. q >= 0
    BY <1>1, <2>1, <2>2
  <2>4. q < n
    BY <1>1, <1>3, <2>1, <2>2
  <2>5. q \in 0 .. n - 1 /\ p \in q * size .. (q + 1) * size - 1
    BY <1>1, <1>3, <2>1, <2>2, <2>3, <2>4
  <2>6. q \in 0 .. n - 1 /\ p \in Span(order, q)
    BY <1>5, <2>5
  <2> QED
    BY <2>6 DEF q
<1> QED
  BY <1>1, <1>3, <1>4, <1>5, <1>6, <1>7, <1>8 DEF size

\* Two cells with a point in common are one inside the other.
LEMMA SpansNest ==
  ASSUME NEW a \in 0 .. MaxOrder, NEW b \in a .. MaxOrder, NEW c \in CellsAt(a), NEW d \in CellsAt(b),
         NEW p \in Points, p \in Span(a, c), p \in Span(b, d)
  PROVE  Span(b, d) \subseteq Span(a, c)
<1> DEFINE sa == Quarters[MaxOrder - a]
           sb == Quarters[MaxOrder - b]
           k == Quarters[b - a]
<1>0. /\ MaxOrder \in Nat /\ b \in 0 .. MaxOrder /\ MaxOrder - b \in 0 .. MaxOrder
      /\ b - a \in 0 .. (MaxOrder - (MaxOrder - b)) /\ b - a \in 0 .. MaxOrder
      /\ (MaxOrder - b) + (b - a) = MaxOrder - a
  BY SkyAssumption
<1>1. sa = sb * k /\ k \in Nat \ {0}
  <2>1. Quarters[(MaxOrder - b) + (b - a)] = Quarters[MaxOrder - b] * Quarters[b - a]
    BY <1>0, QuartersAdd
  <2> QED
    BY <1>0, <2>1, QuartersAre
<1>2. /\ sa \in Nat \ {0} /\ Span(a, c) = c * sa .. (c + 1) * sa - 1
      /\ c * sa \in Nat /\ (c + 1) * sa = c * sa + sa
  BY SpanIs
<1>3. /\ sb \in Nat \ {0} /\ Span(b, d) = d * sb .. (d + 1) * sb - 1
      /\ d * sb \in Nat /\ (d + 1) * sb = d * sb + sb
  BY <1>0, SpanIs
<1>4. c \in Nat /\ d \in Nat /\ p \in Nat
  <2>1. CellsAt(a) \subseteq Nat /\ CellsAt(b) \subseteq Nat /\ Points \subseteq Nat
    BY DEF CellsAt, Points
  <2> QED
    BY <2>1
<1> HIDE DEF sa, sb, k
<1>5. c * sa <= p /\ p < c * sa + sa /\ d * sb <= p /\ p < d * sb + sb
  BY <1>2, <1>3, <1>4
<1>6. c * sa = (c * k) * sb /\ c * sa + sa = (c * k + k) * sb
  BY <1>1, <1>2, <1>3, <1>4
<1>7. c * k <= d
  <2>1. (c * k) * sb < (d + 1) * sb
    BY <1>2, <1>3, <1>4, <1>5, <1>6
  <2>2. c * k < d + 1
    BY <1>1, <1>3, <1>4, <2>1
  <2> QED
    BY <1>1, <1>4, <2>2
<1>8. d + 1 <= c * k + k
  <2>1. d * sb < (c * k + k) * sb
    BY <1>2, <1>3, <1>4, <1>5, <1>6
  <2>2. d < c * k + k
    BY <1>1, <1>3, <1>4, <2>1
  <2> QED
    BY <1>1, <1>4, <2>2
<1>9. (c * k) * sb <= d * sb /\ (d + 1) * sb <= (c * k + k) * sb
  BY <1>1, <1>3, <1>4, <1>7, <1>8
<1> QED
  BY <1>2, <1>3, <1>6, <1>9

-----------------------------------------------------------------------------
(* Stretches.                                                              *)

\* From any of some numbers on they go as far as the least last one after it.
LEMMA StretchAfter ==
  ASSUME NEW n \in Nat, NEW S \in SUBSET (0 .. n), NEW x \in S
  PROVE  LET last == Min({m \in {l \in S : l + 1 \notin S} : x <= m}) IN
         /\ last \in S /\ last + 1 \notin S /\ x <= last
         /\ \A y \in x .. last : y \in S
<1> DEFINE gaps == {m \in x .. (n + 1) : m \notin S}
           gap == Min(gaps)
           lasts == {m \in {l \in S : l + 1 \notin S} : x <= m}
<1>0. x \in 0 .. n
  OBVIOUS
<1>1. gap \in gaps /\ \A y \in gaps : gap <= y
  <2>1. gaps \in SUBSET Nat /\ n + 1 \in gaps
    BY <1>0
  <2> HIDE DEF gaps
  <2> QED
    BY <2>1, MinIs
<1> HIDE DEF gap
<1>2. gap \in (x + 1) .. (n + 1) /\ gap \notin S
  BY <1>0, <1>1
<1>3. \A y \in x .. (gap - 1) : y \in S
  BY <1>0, <1>1, <1>2
<1>4. gap - 1 \in lasts
  BY <1>0, <1>2, <1>3
<1>5. \A m \in lasts : gap - 1 <= m
  <2> TAKE m \in lasts
  <2>1. m \in 0 .. n /\ m + 1 \in gaps
    BY <1>0
  <2> QED
    BY <1>1, <1>2, <2>1
<1>6. Min(lasts) = gap - 1
  <2>1. lasts \in SUBSET Nat
    <3>1. \A l \in S : l \in Nat
      OBVIOUS
    <3> QED
      BY <3>1
  <2> HIDE DEF lasts
  <2>2. Min(lasts) \in lasts /\ \A y \in lasts : Min(lasts) <= y
    BY <1>4, <2>1, MinIs
  <2>3. gap - 1 <= Min(lasts) /\ Min(lasts) <= gap - 1 /\ Min(lasts) \in Nat
    BY <1>4, <1>5, <2>1, <2>2
  <2> QED
    BY <1>0, <1>2, <2>3
<1>7. /\ gap - 1 \in S /\ (gap - 1) + 1 \notin S /\ x <= gap - 1
  BY <1>0, <1>2, <1>3
<1> QED
  BY <1>3, <1>6, <1>7

\* And back to one that has none before it.
LEMMA StretchBefore ==
  ASSUME NEW n \in Nat, NEW S \in SUBSET (0 .. n), NEW x \in S
  PROVE  \E first \in S : first - 1 \notin S /\ first <= x /\ \A y \in first .. x : y \in S
<1> DEFINE T == {m \in 0 .. x : m - 1 \notin S}
           first == Max(T)
<1>0. x \in 0 .. n
  OBVIOUS
<1>1. first \in T /\ \A y \in T : y <= first
  <2>1. T \in SUBSET (0 .. x) /\ 0 \in T
    BY <1>0
  <2>2. x \in Nat /\ T # {}
    BY <1>0, <2>1
  <2> HIDE DEF T
  <2> QED
    BY <2>1, <2>2, MaxIs
<1> HIDE DEF first
<1>2. \A y \in (first + 1) .. x : y - 1 \in S
  BY <1>0, <1>1
<1>3. \A y \in first .. x : y \in S
  <2> TAKE y \in first .. x
  <2>1. CASE y = x
    BY <2>1
  <2>2. CASE y # x
    <3>1. y + 1 \in (first + 1) .. x /\ (y + 1) - 1 = y
      BY <1>0, <1>1, <2>2
    <3> QED
      BY <1>2, <3>1
  <2> QED
    BY <2>1, <2>2
<1>4. first \in S
  BY <1>0, <1>1, <1>3
<1> QED
  BY <1>1, <1>3, <1>4

\* The ranges of some numbers hold them and no others, and between two of them is a gap.
LEMMA RangesAre ==
  ASSUME NEW n \in Nat, NEW S \in SUBSET (0 .. n)
  PROVE  /\ IsFiniteSet(Ranges(S))
         /\ \A r \in Ranges(S) :
              /\ r = <<r[1], r[2]>> /\ r[1] \in 0 .. n /\ r[2] \in 1 .. (n + 1) /\ r[1] < r[2]
              /\ r[1] - 1 \notin S /\ r[2] \notin S
              /\ \A x \in r[1] .. (r[2] - 1) : x \in S
         /\ \A x \in S : \E r \in Ranges(S) : r[1] <= x /\ x < r[2]
         /\ \A r, s \in Ranges(S) : r[1] < s[1] => r[2] < s[1]
         /\ \A r, s \in Ranges(S) : r[1] = s[1] => r = s
<1> DEFINE F == {m \in S : m - 1 \notin S}
           end == [m \in S |-> Min({l \in {k \in S : k + 1 \notin S} : m <= l})]
           range == [m \in F |-> <<m, end[m] + 1>>]
<1>1. Ranges(S) = {range[m] : m \in F}
  BY DEF Ranges
<1>2. \A m \in S : end[m] \in S /\ end[m] + 1 \notin S /\ m <= end[m] /\ \A y \in m .. end[m] : y \in S
  <2> TAKE m \in S
  <2>1. end[m] = Min({l \in {k \in S : k + 1 \notin S} : m <= l})
    OBVIOUS
  <2> DEFINE last == Min({l \in {k \in S : k + 1 \notin S} : m <= l})
  <2>2. last \in S /\ last + 1 \notin S /\ m <= last /\ \A y \in m .. last : y \in S
    BY StretchAfter
  <2> HIDE DEF end, last
  <2>3. end[m] = last
    BY <2>1 DEF last
  <2> QED
    BY <2>2, <2>3
<1>3. IsFiniteSet(Ranges(S))
  <2>1. IsFiniteSet(0 .. n) /\ F \subseteq 0 .. n
    <3>1. 0 \in Int /\ n \in Int
      OBVIOUS
    <3> QED
      BY <3>1, FS_Interval
  <2>2. IsFiniteSet(F)
    BY <2>1, FS_Subset
  <2> HIDE DEF F, range
  <2> QED
    BY <1>1, <2>2, ImageFinite
<1> HIDE DEF end
<1>4. \A r \in Ranges(S) : \E m \in F : r = <<m, end[m] + 1>>
  BY <1>1
<1>5. ASSUME NEW r \in Ranges(S)
      PROVE  /\ r = <<r[1], r[2]>> /\ r[1] \in 0 .. n /\ r[2] \in 1 .. (n + 1) /\ r[1] < r[2]
             /\ r[1] \in F /\ r[2] = end[r[1]] + 1
             /\ r[1] - 1 \notin S /\ r[2] \notin S
             /\ \A x \in r[1] .. (r[2] - 1) : x \in S
  <2>1. PICK m \in F : r = <<m, end[m] + 1>>
    BY <1>4
  <2>2. r[1] = m /\ r[2] = end[m] + 1
    BY <2>1
  <2>3. m \in 0 .. n /\ m \in S /\ m - 1 \notin S
    BY <2>1
  <2>4. end[m] \in 0 .. n /\ end[m] + 1 \notin S /\ m <= end[m] /\ \A y \in m .. end[m] : y \in S
    BY <1>2, <2>3
  <2>5. (end[m] + 1) - 1 = end[m]
    BY <2>4
  <2> QED
    BY <2>1, <2>2, <2>3, <2>4, <2>5
<1>6. ASSUME NEW x \in S PROVE \E r \in Ranges(S) : r[1] <= x /\ x < r[2]
  <2>1. PICK m \in S : m - 1 \notin S /\ m <= x /\ \A y \in m .. x : y \in S
    BY StretchBefore
  <2>2. range[m] \in Ranges(S) /\ range[m] = <<m, end[m] + 1>>
    BY <1>1, <2>1
  <2>3. end[m] \in 0 .. n /\ end[m] + 1 \notin S /\ m <= end[m]
    BY <1>2, <2>1
  <2>4. x <= end[m]
    <3> SUFFICES ASSUME ~ (x <= end[m]) PROVE FALSE
      OBVIOUS
    <3>1. end[m] + 1 \in m .. x
      BY <2>1, <2>3
    <3> QED
      BY <2>1, <2>3, <3>1
  <2>5. x < end[m] + 1
    BY <2>3, <2>4
  <2> QED
    BY <2>1, <2>2, <2>5
<1>7. ASSUME NEW r \in Ranges(S), NEW s \in Ranges(S), r[1] < s[1] PROVE r[2] < s[1]
  <2> SUFFICES ASSUME ~ (r[2] < s[1]) PROVE FALSE
    OBVIOUS
  <2>1. /\ r[1] \in 0 .. n /\ r[2] \in 1 .. (n + 1) /\ r[2] \notin S
        /\ \A x \in r[1] .. (r[2] - 1) : x \in S
    BY <1>5
  <2>2. s[1] \in 0 .. n /\ s[1] \in S /\ s[1] - 1 \notin S
    BY <1>5
  <2>3. s[1] # r[2]
    BY <2>1, <2>2
  <2>4. s[1] - 1 \in r[1] .. (r[2] - 1)
    BY <1>7, <2>1, <2>2, <2>3
  <2> QED
    BY <2>1, <2>2, <2>4
<1>8. ASSUME NEW r \in Ranges(S), NEW s \in Ranges(S), r[1] = s[1] PROVE r = s
  BY <1>5, <1>8
<1> QED
  BY <1>3, <1>5, <1>6, <1>7, <1>8

-----------------------------------------------------------------------------
(* Partitions and ranges in order.                                         *)

SkyCells == [order : 0 .. MaxOrder, pixel : Nat]

Earlier ==
  {pair \in SkyCells \X SkyCells :
     \/ Start(pair[1]) < Start(pair[2])
     \/ Start(pair[1]) = Start(pair[2]) /\ pair[1].order < pair[2].order}

\* Where a cell begins is a number, and no two cells of an order begin in one place.
LEMMA StartIs ==
  /\ \A a \in SkyCells : Start(a) \in Nat
  /\ \A a, b \in SkyCells : Start(a) = Start(b) /\ a.order = b.order => a = b
<1>0. MaxOrder \in Nat
  BY SkyAssumption
<1>1. ASSUME NEW a \in SkyCells
      PROVE  /\ Size(a) = Quarters[MaxOrder - a.order] /\ Size(a) \in Nat \ {0}
             /\ Start(a) = a.pixel * Size(a) /\ Start(a) \in Nat /\ a.pixel \in Nat
             /\ a.order \in 0 .. MaxOrder /\ a = [order |-> a.order, pixel |-> a.pixel]
  <2>1. a.order \in 0 .. MaxOrder /\ a.pixel \in Nat /\ a = [order |-> a.order, pixel |-> a.pixel]
    BY DEF SkyCells
  <2>2. MaxOrder - a.order \in 0 .. MaxOrder
    BY <1>0, <2>1
  <2>3. Size(a) = Quarters[MaxOrder - a.order] /\ Size(a) \in Nat \ {0}
    BY <2>2, QuartersAre DEF Size
  <2> QED
    BY <2>1, <2>3 DEF Start
<1>2. ASSUME NEW a \in SkyCells, NEW b \in SkyCells, Start(a) = Start(b), a.order = b.order
      PROVE  a = b
  <2>1. Size(a) = Size(b) /\ a.pixel * Size(a) = b.pixel * Size(a)
    BY <1>1, <1>2
  <2>2. /\ a.pixel \in Nat /\ b.pixel \in Nat /\ Size(a) \in Nat \ {0}
        /\ a.pixel * Size(a) = b.pixel * Size(a)
    BY <1>1, <2>1
  <2>3. a.pixel = b.pixel
    <3>1. \A x, y \in Nat : \A z \in Nat \ {0} : x * z = y * z => x = y
      OBVIOUS
    <3> QED
      BY <2>2, <3>1
  <2> QED
    BY <1>1, <1>2, <2>3
<1> QED
  BY <1>1, <1>2

LEMMA EarlierOrders ==
  ASSUME NEW parts \in SUBSET SkyCells
  PROVE  Orders(Earlier, parts)
<1>1. \A a, b \in parts :
        <<a, b>> \in Earlier <=> \/ Start(a) < Start(b)
                                 \/ Start(a) = Start(b) /\ a.order < b.order
  BY DEF Earlier
<1>2. \A a \in parts : a.order \in Nat /\ Start(a) \in Nat
  <2>1. \A a \in SkyCells : a.order \in 0 .. MaxOrder
    BY DEF SkyCells
  <2>2. MaxOrder \in Nat
    BY SkyAssumption
  <2> QED
    BY <2>1, <2>2, StartIs
<1>3. \A a, b \in parts : Start(a) = Start(b) /\ a.order = b.order => a = b
  BY StartIs
<1> QED
  BY <1>1, <1>2, <1>3 DEF Orders

\* Sorted, a finite set of cells is a list of it in the order of the sky.
LEMMA SortedIs ==
  ASSUME NEW parts \in SUBSET SkyCells, IsFiniteSet(parts)
  PROVE  Sorted(parts) = InOrder(parts, Earlier)
<1> DEFINE Before(a, b) == \/ Start(a) < Start(b)
                           \/ Start(a) = Start(b) /\ a.order < b.order
<1>1. \A x \in parts : {y \in parts : Before(y, x)} = Lower(parts, Earlier, x)
  BY DEF Lower, Earlier
<1>2. \A x \in parts : Cardinality({y \in parts : Before(y, x)}) = Rank(parts, Earlier, x)
  BY <1>1 DEF Rank
<1>3. \A i : (CHOOSE x \in parts : Cardinality({y \in parts : Before(y, x)}) = i - 1)
               = (CHOOSE x \in parts : Rank(parts, Earlier, x) = i - 1)
  BY <1>2
<1>4. Sorted(parts)
        = [i \in 1 .. Cardinality(parts) |->
             CHOOSE x \in parts : Cardinality({y \in parts : Before(y, x)}) = i - 1]
  BY DEF Sorted, Arranged
<1>5. InOrder(parts, Earlier)
        = [i \in 1 .. Cardinality(parts) |-> CHOOSE x \in parts : Rank(parts, Earlier, x) = i - 1]
  BY DEF InOrder
<1> QED
  BY <1>3, <1>4, <1>5

\* Of cells with no point in common, sorted is the one list in the order of the sky.
LEMMA SkyOrderIs ==
  ASSUME NEW parts \in SUBSET SkyCells, IsFiniteSet(parts),
         \A a, b \in parts : Start(a) = Start(b) => a = b
  PROVE  /\ InSkyOrder(parts, Sorted(parts))
         /\ \A l : InSkyOrder(parts, l) => l = Sorted(parts)
<1> DEFINE s == Sorted(parts)
<1>0. Orders(Earlier, parts)
  BY EarlierOrders
<1>a. \A a, b \in parts : <<a, b>> \in Earlier <=> Start(a) < Start(b)
  <2>1. \A a, b \in parts :
          <<a, b>> \in Earlier <=> \/ Start(a) < Start(b)
                                   \/ Start(a) = Start(b) /\ a.order < b.order
    BY DEF Earlier
  <2>2. \A a \in parts : a.order \in Nat
    BY SkyAssumption DEF SkyCells
  <2>3. \A a, b \in parts : Start(a) = Start(b) => ~ a.order < b.order
    BY <2>2
  <2> QED
    BY <2>1, <2>3
<1>1. /\ s \in Seq(parts) /\ OrderedBy(s, Earlier)
      /\ \A x \in parts : \E r \in 1 .. Len(s) : s[r] = x
  BY <1>0, SortedIs, InOrderIs
<1>2. \A l \in Seq(parts) : \A i \in 1 .. Len(l) : l[i] \in parts
  BY ElementOfSeq
<1>3. InSkyOrder(parts, s)
  <2> HIDE DEF s
  <2> QED
    BY <1>a, <1>1, <1>2 DEF InSkyOrder, OrderedBy
<1>4. ASSUME NEW l, InSkyOrder(parts, l) PROVE l = s
  <2>1. l \in Seq(parts) /\ OrderedBy(l, Earlier) /\ \A x \in parts : \E r \in 1 .. Len(l) : l[r] = x
    BY <1>a, <1>2, <1>4 DEF InSkyOrder, OrderedBy
  <2> QED
    BY <1>0, <2>1, SortedIs, InOrderOnly
<1> QED
  BY <1>3, <1>4

\* Ranges in order of where they begin, each gone before the next.
Sooner(n) == {pair \in ((0 .. n) \X (1 .. (n + 1))) \X ((0 .. n) \X (1 .. (n + 1))) :
                pair[1][1] < pair[2][1]}

LEMMA StretchesAre ==
  ASSUME NEW n \in Nat, NEW S \in SUBSET (0 .. n)
  PROVE  /\ Stretches(S) \in Seq(Ranges(S))
         /\ \A i, j \in 1 .. Len(Stretches(S)) : i < j => Stretches(S)[i][2] < Stretches(S)[j][1]
         /\ \A r \in Ranges(S) : \E i \in 1 .. Len(Stretches(S)) : Stretches(S)[i] = r
<1> DEFINE R == Ranges(S)
           B == (0 .. n) \X (1 .. (n + 1))
           s == Stretches(S)
<1>1. /\ IsFiniteSet(R)
      /\ \A r \in R : r = <<r[1], r[2]>> /\ r[1] \in 0 .. n /\ r[2] \in 1 .. (n + 1)
      /\ \A a, b \in R : a[1] < b[1] => a[2] < b[1]
      /\ \A a, b \in R : a[1] = b[1] => a = b
  BY RangesAre
<1>2. \A r \in R : r \in B /\ r[1] \in Nat
  <2> TAKE r \in R
  <2>1. r = <<r[1], r[2]>> /\ r[1] \in 0 .. n /\ r[2] \in 1 .. (n + 1)
    BY <1>1
  <2>2. <<r[1], r[2]>> \in B
    BY <2>1
  <2> QED
    BY <2>1, <2>2
<1> HIDE DEF R
<1>3. \A a, b \in R : <<a, b>> \in Sooner(n) <=> a[1] < b[1]
  <2> TAKE a, b \in R
  <2>1. a \in B /\ b \in B
    BY <1>2
  <2> HIDE DEF B
  <2>2. <<a, b>> \in B \X B /\ <<a, b>>[1] = a /\ <<a, b>>[2] = b
    BY <2>1
  <2>3. Sooner(n) = {pair \in B \X B : pair[1][1] < pair[2][1]}
    BY DEF Sooner, B
  <2> QED
    BY <2>2, <2>3
<1>4. Orders(Sooner(n), R)
  BY <1>1, <1>2, <1>3 DEF Orders
<1>5. s = InOrder(R, Sooner(n))
  <2>1. \A x \in R : {y \in R : y[1] < x[1]} = Lower(R, Sooner(n), x)
    BY <1>3 DEF Lower
  <2>2. \A x \in R : Cardinality({y \in R : y[1] < x[1]}) = Rank(R, Sooner(n), x)
    BY <2>1 DEF Rank
  <2>3. \A i : (CHOOSE x \in R : Cardinality({y \in R : y[1] < x[1]}) = i - 1)
                 = (CHOOSE x \in R : Rank(R, Sooner(n), x) = i - 1)
    BY <2>2
  <2>4. s = [i \in 1 .. Cardinality(R) |->
               CHOOSE x \in R : Cardinality({y \in R : y[1] < x[1]}) = i - 1]
    BY DEF Stretches, Arranged, R
  <2>5. InOrder(R, Sooner(n))
          = [i \in 1 .. Cardinality(R) |-> CHOOSE x \in R : Rank(R, Sooner(n), x) = i - 1]
    BY DEF InOrder
  <2> HIDE DEF s
  <2> QED
    BY <2>3, <2>4, <2>5
<1>6. /\ s \in Seq(R) /\ OrderedBy(s, Sooner(n))
      /\ \A x \in R : \E r \in 1 .. Len(s) : s[r] = x
  <2> DEFINE o == InOrder(R, Sooner(n))
  <2>1. IsFiniteSet(R)
    BY <1>1
  <2>2. /\ o \in Seq(R) /\ OrderedBy(o, Sooner(n))
        /\ \A x \in R : \E r \in 1 .. Len(o) : o[r] = x
    BY <1>4, <2>1, InOrderIs
  <2> HIDE DEF s, o
  <2>3. s = o
    BY <1>5 DEF o
  <2> QED
    BY <2>2, <2>3
<1> HIDE DEF s
<1>7. ASSUME NEW i \in 1 .. Len(s), NEW j \in 1 .. Len(s), i < j PROVE s[i][2] < s[j][1]
  <2>1. <<s[i], s[j]>> \in Sooner(n)
    BY <1>6, <1>7 DEF OrderedBy
  <2>2. s[i] \in R /\ s[j] \in R
    BY <1>6, ElementOfSeq
  <2>3. s[i][1] < s[j][1]
    BY <1>3, <2>1, <2>2
  <2> QED
    BY <1>1, <2>2, <2>3
<1> QED
  BY <1>6, <1>7 DEF R, s

-----------------------------------------------------------------------------
(* The search along the list.                                              *)

\* Of a list that begins with what was passed it finds where that ends.
LEMMA GallopIs ==
  ASSUME NEW S, list \in Seq(S), NEW from \in 0 .. Len(list), NEW passed,
         \A i, j \in (from + 1) .. Len(list) : i <= j /\ list[j] \in passed => list[i] \in passed
  PROVE  LET to == Gallop(from, passed) IN
         /\ to \in from .. Len(list)
         /\ \A i \in (from + 1) .. to : list[i] \in passed
         /\ \A i \in (to + 1) .. Len(list) : list[i] \notin passed
<1> DEFINE rest == SubSeq(list, from + 1, Len(list))
           n == Len(rest)
           Still(i) == i < n /\ rest[i + 1] \in passed
           IsLow(f) == f = [k \in 0 .. n |-> IF k = 0 THEN 0 ELSE 2 * f[k - 1] + 1]
           Low == CHOOSE f : IsLow(f)
           tried == {k \in 0 .. n : ~ Still(2 * Low[k])}
           leaps == Min(tried)
           low == Low[leaps]
           high == Least(2 * low, n)
           ends == {i \in low .. high : i = high \/ ~ Still(i)}
<1>0. Gallop(from, passed) = from + Min(ends)
  BY DEF Gallop
<1>1. /\ Len(list) \in Nat /\ n = Len(list) - from /\ n \in Nat
      /\ \A i \in 0 .. (n - 1) : rest[i + 1] = list[from + i + 1]
  <2>1. Len(list) \in Nat /\ from + 1 \in 1 .. (Len(list) + 1)
    BY LenProperties
  <2>2. /\ Len(rest) = (IF from + 1 <= Len(list) THEN Len(list) - (from + 1) + 1 ELSE 0)
        /\ \A i \in 1 .. (Len(list) - (from + 1) + 1) : rest[i] = list[(from + 1) + i - 1]
    <3>1. \A i \in (from + 1) .. Len(list) : list[i] \in S
      BY <2>1, ElementOfSeq
    <3> QED
      BY <2>1, <3>1, SubSeqProperties
  <2>3. n = Len(list) - from /\ n \in Nat
    BY <2>1, <2>2
  <2> HIDE DEF rest, n
  <2>4. ASSUME NEW i \in 0 .. (n - 1) PROVE rest[i + 1] = list[from + i + 1]
    <3>1. i + 1 \in 1 .. (Len(list) - (from + 1) + 1) /\ (from + 1) + (i + 1) - 1 = from + i + 1
      BY <2>1, <2>3
    <3> QED
      BY <2>2, <3>1
  <2> QED
    BY <2>1, <2>3, <2>4
<1>2. /\ \A i \in Nat : Still(i) <=> i < n /\ list[from + i + 1] \in passed
      /\ \A i, j \in Nat : i <= j /\ Still(j) => Still(i)
      /\ \A i \in Nat : Still(i) => i < n
  <2>1. \A i \in Nat : Still(i) <=> i < n /\ list[from + i + 1] \in passed
    BY <1>1
  <2>2. \A i \in Nat : i < n => from + i + 1 \in (from + 1) .. Len(list)
    BY <1>1
  <2> HIDE DEF Still, rest, n
  <2>3. ASSUME NEW i \in Nat, NEW j \in Nat, i <= j, Still(j) PROVE Still(i)
    <3>1. j < n /\ list[from + j + 1] \in passed /\ i < n
      BY <1>1, <2>1, <2>3
    <3>2. from + i + 1 \in (from + 1) .. Len(list) /\ from + j + 1 \in (from + 1) .. Len(list)
          /\ from + i + 1 <= from + j + 1
      BY <1>1, <2>2, <2>3, <3>1
    <3>3. list[from + i + 1] \in passed
      BY <3>1, <3>2
    <3> QED
      BY <2>1, <3>1, <3>3
  <2> QED
    BY <2>1, <2>3
<1> HIDE DEF rest, n, Still
<1>3. Low = [k \in 0 .. n |-> IF k = 0 THEN 0 ELSE 2 * Low[k - 1] + 1]
  <2> DEFINE next == [x \in Nat |-> 2 * x + 1]
  <2>a. \A x \in Nat : next[x] = 2 * x + 1
    OBVIOUS
  <2> HIDE DEF next
  <2>1. PICK f : Grows(f, n, 0, next)
    BY <1>1, GrowthExists
  <2>2. \A k \in 0 .. n : f[k] = IF k = 0 THEN 0 ELSE next[f[k - 1]]
    BY <2>1 DEF Grows
  <2> DEFINE T == {k \in 0 .. n : f[k] \in Nat}
  <2>3. 0 \in T
    BY <1>1, <2>2
  <2>4. ASSUME NEW k \in 0 .. (n - 1), k \in T PROVE k + 1 \in T
    <3>1. k + 1 \in 0 .. n /\ k + 1 # 0 /\ (k + 1) - 1 = k /\ f[k] \in Nat
      BY <1>1, <2>4
    <3>2. f[k + 1] = next[f[k]]
      BY <2>2, <3>1
    <3>3. f[k + 1] = 2 * f[k] + 1
      BY <2>a, <3>1, <3>2
    <3> QED
      BY <3>1, <3>3
  <2>5. \A k \in 0 .. n : k \in T
    <3> HIDE DEF T
    <3> QED
      BY <1>1, <2>3, <2>4, CountingUp
  <2>6. \A k \in 0 .. n : f[k] \in Nat
    BY <2>5
  <2>7. ASSUME NEW k \in 0 .. n
        PROVE  (IF k = 0 THEN 0 ELSE next[f[k - 1]]) = IF k = 0 THEN 0 ELSE 2 * f[k - 1] + 1
    <3>1. CASE k = 0
      BY <3>1
    <3>2. CASE k # 0
      <4>1. f[k - 1] \in Nat
        BY <1>1, <2>6, <3>2
      <4> QED
        BY <2>a, <3>2, <4>1
    <3> QED
      BY <3>1, <3>2
  <2>8. IsLow(f)
    <3>1. [k \in 0 .. n |-> IF k = 0 THEN 0 ELSE next[f[k - 1]]]
            = [k \in 0 .. n |-> IF k = 0 THEN 0 ELSE 2 * f[k - 1] + 1]
      BY <2>7
    <3> QED
      BY <2>1, <3>1 DEF Grows
  <2>9. IsLow(Low)
    <3> HIDE DEF IsLow
    <3> QED
      BY <2>8
  <2> QED
    BY <2>9
<1> HIDE DEF Low
<1>4. /\ Low[0] = 0
      /\ \A k \in 0 .. (n - 1) : Low[k + 1] = 2 * Low[k] + 1
  <2>1. \A k \in 0 .. n : Low[k] = IF k = 0 THEN 0 ELSE 2 * Low[k - 1] + 1
    BY <1>3
  <2>2. Low[0] = 0
    BY <1>1, <2>1
  <2>3. ASSUME NEW k \in 0 .. (n - 1) PROVE Low[k + 1] = 2 * Low[k] + 1
    <3>1. k + 1 \in 0 .. n /\ k + 1 # 0 /\ (k + 1) - 1 = k
      BY <1>1
    <3> QED
      BY <2>1, <3>1
  <2> QED
    BY <2>2, <2>3
<1>5. \A k \in 0 .. n : Low[k] \in Nat /\ k <= Low[k]
  <2> DEFINE T == {k \in 0 .. n : Low[k] \in Nat /\ k <= Low[k]}
  <2>1. 0 \in T
    BY <1>1, <1>4
  <2>2. ASSUME NEW k \in 0 .. (n - 1), k \in T PROVE k + 1 \in T
    BY <1>1, <1>4, <2>2
  <2>3. \A k \in 0 .. n : k \in T
    <3> HIDE DEF T
    <3> QED
      BY <1>1, <2>1, <2>2, CountingUp
  <2> QED
    BY <2>3
<1>6. leaps \in 0 .. n /\ ~ Still(2 * Low[leaps]) /\ \A k \in 0 .. n : k < leaps => Still(2 * Low[k])
  <2>1. n \in tried
    <3>1. Low[n] \in Nat /\ n <= Low[n] /\ 2 * Low[n] \in Nat /\ ~ 2 * Low[n] < n
      BY <1>1, <1>5
    <3> QED
      BY <1>1, <1>2, <3>1
  <2>2. tried \in SUBSET Nat
    OBVIOUS
  <2> HIDE DEF tried
  <2>3. leaps \in tried /\ \A x \in tried : leaps <= x
    BY <2>1, <2>2, MinIs
  <2> HIDE DEF leaps
  <2>4. leaps \in Nat /\ \A k \in 0 .. n : k < leaps => k \notin tried
    <3>1. \A k \in 0 .. n : k \in Nat
      OBVIOUS
    <3>2. leaps \in Nat
      BY <2>2, <2>3
    <3>3. \A k \in tried : leaps <= k
      BY <2>3
    <3> QED
      BY <3>1, <3>2, <3>3
  <2> QED
    BY <2>3, <2>4 DEF tried
<1> HIDE DEF leaps
<1>7. low \in Nat /\ \A i \in 0 .. (low - 1) : Still(i)
  <2>1. low \in Nat
    BY <1>5, <1>6
  <2>2. CASE leaps = 0
    BY <1>4, <2>2
  <2>3. CASE leaps # 0
    <3>1. leaps - 1 \in 0 .. (n - 1) /\ (leaps - 1) + 1 = leaps /\ leaps - 1 \in 0 .. n /\ leaps - 1 < leaps
      BY <1>1, <1>6, <2>3
    <3>2. low = 2 * Low[leaps - 1] + 1 /\ Still(2 * Low[leaps - 1]) /\ Low[leaps - 1] \in Nat
      BY <1>4, <1>5, <1>6, <3>1
    <3> HIDE DEF low
    <3> QED
      BY <1>2, <3>2
  <2> QED
    BY <2>1, <2>2, <2>3
<1>8. ~ Still(2 * low)
  BY <1>6
<1> HIDE DEF low
<1>9. low <= n /\ high \in low .. n /\ (high = n \/ ~ Still(high))
  <2>1. low <= n
    <3>1. CASE low = 0
      BY <1>1, <3>1
    <3>2. CASE low # 0
      <4>1. low - 1 \in Nat /\ Still(low - 1)
        BY <1>7, <3>2
      <4> QED
        BY <1>1, <1>2, <1>7, <4>1
    <3> QED
      BY <3>1, <3>2
  <2> QED
    BY <1>1, <1>7, <1>8, <2>1 DEF Least
<1> HIDE DEF high
<1>10. Min(ends) \in ends /\ \A x \in ends : Min(ends) <= x
  <2>1. ends \in SUBSET Nat /\ high \in ends
    BY <1>1, <1>7, <1>9
  <2> HIDE DEF ends
  <2> QED
    BY <2>1, MinIs
<1> DEFINE m == Min(ends)
<1>11. m \in low .. high /\ (m = high \/ ~ Still(m)) /\ \A i \in low .. high : i < m => Still(i)
  <2>1. m \in low .. high /\ (m = high \/ ~ Still(m))
    BY <1>10
  <2>2. ASSUME NEW i \in low .. high, i < m PROVE Still(i)
    <3>1. i \notin ends
      <4>1. m \in Nat /\ i \in Nat /\ i < m /\ \A x \in ends : m <= x
        BY <1>1, <1>7, <1>9, <1>10, <2>1, <2>2
      <4> HIDE DEF m, ends
      <4> QED
        BY <4>1
    <3> QED
      BY <3>1
  <2> QED
    BY <2>1, <2>2
<1> HIDE DEF m
<1>12. /\ m \in 0 .. n /\ (m = n \/ ~ Still(m))
       /\ \A i \in 0 .. (m - 1) : Still(i)
  <2>1. m \in 0 .. n /\ (m = n \/ ~ Still(m))
    BY <1>1, <1>7, <1>9, <1>11
  <2>2. ASSUME NEW i \in 0 .. (m - 1) PROVE Still(i)
    <3>1. CASE i < low
      BY <1>7, <3>1
    <3>2. CASE ~ i < low
      BY <1>1, <1>7, <1>9, <1>11, <3>2
    <3> QED
      BY <3>1, <3>2
  <2> QED
    BY <2>1, <2>2
<1>13. Gallop(from, passed) = from + m
  BY <1>0 DEF m
<1> HIDE DEF ends
<1>14. from + m \in from .. Len(list)
  BY <1>1, <1>12
<1>15. ASSUME NEW i \in (from + 1) .. (from + m) PROVE list[i] \in passed
  <2>1. i - from - 1 \in 0 .. (m - 1) /\ i - from - 1 \in Nat /\ from + (i - from - 1) + 1 = i
    BY <1>12
  <2>2. Still(i - from - 1)
    BY <1>12, <2>1
  <2> QED
    BY <1>2, <2>1, <2>2
<1>16. ASSUME NEW i \in (from + m + 1) .. Len(list) PROVE list[i] \notin passed
  <2>1. /\ i - from - 1 \in Nat /\ from + (i - from - 1) + 1 = i /\ m <= i - from - 1
        /\ i - from - 1 < n /\ m \in Nat
    BY <1>1, <1>12
  <2>2. ~ Still(m)
    BY <1>1, <1>12, <2>1
  <2>3. ~ Still(i - from - 1)
    BY <1>2, <2>1, <2>2
  <2> QED
    BY <1>2, <2>1, <2>3
<1> QED
  BY <1>13, <1>14, <1>15, <1>16

-----------------------------------------------------------------------------
(* Right ascensions.                                                       *)

\* Some turns and less than one more: that is what is left within the turn.
LEMMA Remainders ==
  /\ Turn \in Nat \ {0}
  /\ \A a \in Int : Around(a) \in 0 .. (Turn - 1) /\ \E q \in Int : a = Turn * q + Around(a)
  /\ \A a, q \in Int : \A r \in 0 .. (Turn - 1) : a = Turn * q + r => Around(a) = r
<1>0. Turn \in Nat \ {0}
  BY SkyAssumption
<1>1. ASSUME NEW a \in Int
      PROVE  Around(a) \in 0 .. (Turn - 1) /\ \E q \in Int : a = Turn * q + Around(a)
  <2>1. a % Turn \in 0 .. (Turn - 1) /\ a \div Turn \in Int /\ a = Turn * (a \div Turn) + (a % Turn)
    BY <1>0
  <2>2. Around(a) = a % Turn
    BY DEF Around
  <2> QED
    BY <2>1, <2>2
<1>2. ASSUME NEW a \in Int, NEW q \in Int, NEW r \in 0 .. (Turn - 1), a = Turn * q + r
      PROVE  Around(a) = r
  <2>1. PICK p \in Int : a = Turn * p + Around(a)
    BY <1>1
  <2> DEFINE x == Around(a)
  <2>2. Turn * p + x = Turn * q + r /\ x \in 0 .. (Turn - 1)
    BY <1>1, <1>2, <2>1
  <2> HIDE DEF x
  <2>3. Turn * (p - q) = r - x
    BY <1>0, <2>2
  <2>4. ~ p - q >= 1 /\ ~ p - q <= -1
    BY <1>0, <2>2, <2>3
  <2>5. p = q
    BY <2>4
  <2> QED
    BY <1>0, <2>2, <2>5 DEF x
<1> QED
  BY <1>0, <1>1, <1>2

\* The point so far east of another.
LEMMA EastOf ==
  ASSUME NEW a \in Int, NEW k \in Int, NEW r \in 0 .. (Turn - 1)
  PROVE  r = Around(a + k) <=> \E q \in Int : r = Around(a) + k + Turn * q
<1>0. Turn \in Nat \ {0} /\ a + k \in Int
  BY Remainders
<1>1. PICK p \in Int : a = Turn * p + Around(a)
  BY Remainders
<1>2. Around(a) \in Int
  BY Remainders
<1>3. ASSUME r = Around(a + k) PROVE \E q \in Int : r = Around(a) + k + Turn * q
  <2>1. PICK m \in Int : a + k = Turn * m + Around(a + k)
    BY <1>0, Remainders
  <2>2. r = Around(a) + k + Turn * (p - m)
    BY <1>0, <1>1, <1>2, <1>3, <2>1
  <2> QED
    BY <2>2
<1>4. ASSUME NEW q \in Int, r = Around(a) + k + Turn * q PROVE r = Around(a + k)
  <2>1. a + k = Turn * (p - q) + r /\ p - q \in Int
    BY <1>0, <1>1, <1>2, <1>4
  <2> QED
    BY <1>0, <2>1, Remainders
<1> QED
  BY <1>3, <1>4

LEMMA SpanInTurn ==
  ASSUME NEW ra \in Int \X Int
  PROVE  EastwardSpan(ra) \in 0 .. Turn
<1> DEFINE d == ra[2] - ra[1]
<1>1. d \in Int /\ Turn \in Nat \ {0}
  BY SkyAssumption
<1>2. EastwardSpan(ra) = IF d >= Turn THEN Turn ELSE Around(d)
  BY DEF EastwardSpan
<1> HIDE DEF d
<1>3. Around(d) \in 0 .. (Turn - 1)
  BY <1>1, Remainders
<1> QED
  BY <1>1, <1>2, <1>3

\* A zone by its arithmetic is the zone by its definition, where its arcs reach all of it.
LEMMA ArcsAre ==
  ASSUME NEW ra \in Int \X Int, NEW p \in Points, signed \in BOOLEAN
  PROVE  LET span == EastwardSpan(ra)
             arcs == Arcs(ra[1], span)
             met == arcs = {} \/ \E a \in arcs : Raw(p) \in a[1] .. a[2]
             along == \E k \in 0 .. span : Ra[p] = Around(ra[1] + k) IN
         /\ met => along
         /\ along /\ (signed => span = Turn \/ 2 * (Around(ra[1]) + span) < 3 * Turn) => met
<1> DEFINE span == EastwardSpan(ra)
           arcs == Arcs(ra[1], span)
           met == arcs = {} \/ \E a \in arcs : Raw(p) \in a[1] .. a[2]
           along == \E k \in 0 .. span : Ra[p] = Around(ra[1] + k)
           from == Around(ra[1])
<1>1. /\ Turn \in Nat \ {0} /\ Ra[p] \in 0 .. (Turn - 1) /\ ra[1] \in Int
      /\ span \in 0 .. Turn
  BY SkyAssumption, SpanInTurn
<1>2. from \in 0 .. (Turn - 1)
  BY <1>1, Remainders
<1>3. \A k \in Int : Ra[p] = Around(ra[1] + k) <=> \E q \in Int : Ra[p] = from + k + Turn * q
  <2> DEFINE x == ra[1]
             y == Ra[p]
  <2>1. x \in Int /\ y \in 0 .. (Turn - 1)
    BY <1>1
  <2>2. from = Around(x)
    OBVIOUS
  <2> HIDE DEF x, y, from
  <2>3. \A k \in Int : y = Around(x + k) <=> \E q \in Int : y = Around(x) + k + Turn * q
    BY <2>1, EastOf
  <2>4. \A k \in Int : y = Around(x + k) <=> \E q \in Int : y = from + k + Turn * q
    BY <2>2, <2>3
  <2> QED
    BY <2>4 DEF x, y
<1>4. Raw(p) = IF signed /\ 2 * Ra[p] >= Turn THEN Ra[p] - Turn ELSE Ra[p]
  BY DEF Raw
<1>5. span < Turn => arcs = {<<from + t, from + span + t>> : t \in {-Turn, 0, Turn}}
  BY <1>1 DEF Arcs
<1>6. span = Turn => arcs = {}
  BY <1>1 DEF Arcs
<1> HIDE DEF span, arcs, from
<1>7. ASSUME span = Turn PROVE met /\ along
  <2> DEFINE k == Around(Ra[p] - ra[1])
  <2>0. Ra[p] - ra[1] \in Int
    BY <1>1
  <2>1. k \in 0 .. span
    <3>1. k \in 0 .. (Turn - 1)
      BY <2>0, Remainders
    <3> QED
      BY <1>1, <1>7, <3>1
  <2>2. PICK q \in Int : Ra[p] - ra[1] = Turn * q + k
    BY <1>1, <2>0, Remainders
  <2> HIDE DEF k
  <2>3. ra[1] + k = Turn * (-q) + Ra[p] /\ ra[1] + k \in Int /\ -q \in Int
    BY <1>1, <2>1, <2>2
  <2>4. Ra[p] = Around(ra[1] + k)
    BY <1>1, <2>3, Remainders
  <2>5. along
    BY <2>1, <2>4
  <2>6. met
    BY <1>6, <1>7
  <2> QED
    BY <2>5, <2>6
<1>8. ASSUME span < Turn
      PROVE  (met => along) /\ (along /\ (signed => 2 * (from + span) < 3 * Turn) => met)
  <2>1. /\ arcs # {}
        /\ \A x \in Int : (\E a \in arcs : x \in a[1] .. a[2])
                            <=> \E t \in {-Turn, 0, Turn} : from + t <= x /\ x <= from + span + t
    <3>1. \A t \in {-Turn, 0, Turn} : <<from + t, from + span + t>> \in arcs
      BY <1>5, <1>8
    <3>2. \A a \in arcs : \E t \in {-Turn, 0, Turn} : a = <<from + t, from + span + t>>
      BY <1>5, <1>8
    <3> HIDE DEF span
    <3>3. ASSUME NEW x \in Int, NEW a \in arcs, x \in a[1] .. a[2]
          PROVE  \E t \in {-Turn, 0, Turn} : from + t <= x /\ x <= from + span + t
      <4>1. PICK t \in {-Turn, 0, Turn} : a = <<from + t, from + span + t>>
        BY <3>2
      <4>2. a[1] = from + t /\ a[2] = from + span + t /\ t \in Int
        BY <1>1, <4>1
      <4> QED
        BY <1>1, <1>2, <3>3, <4>1, <4>2
    <3>4. ASSUME NEW x \in Int, NEW t \in {-Turn, 0, Turn}, from + t <= x, x <= from + span + t
          PROVE  \E a \in arcs : x \in a[1] .. a[2]
      <4> DEFINE a == <<from + t, from + span + t>>
      <4>1. t \in Int /\ a \in arcs /\ a[1] = from + t /\ a[2] = from + span + t
        BY <1>1, <3>1
      <4> QED
        BY <1>1, <1>2, <3>4, <4>1
    <3> QED
      BY <3>1, <3>3, <3>4
  <2>2. Raw(p) \in Int /\ (Raw(p) = Ra[p] \/ (signed /\ 2 * Ra[p] >= Turn /\ Raw(p) = Ra[p] - Turn))
    BY <1>1, <1>4
  <2>3. met <=> \E t \in {-Turn, 0, Turn} : from + t <= Raw(p) /\ Raw(p) <= from + span + t
    BY <2>1, <2>2
  <2>4. ASSUME met PROVE along
    <3>1. PICK t \in {-Turn, 0, Turn} : from + t <= Raw(p) /\ Raw(p) <= from + span + t
      BY <2>3, <2>4
    <3> DEFINE k == Raw(p) - from - t
    <3>2. t \in Int /\ k \in 0 .. span
      BY <1>1, <1>2, <2>2, <3>1
    <3>3. \E q \in Int : t = Turn * q
      <4>1. -Turn = Turn * (-1) /\ 0 = Turn * 0 /\ Turn = Turn * 1
        BY <1>1
      <4> QED
        BY <4>1
    <3>4. PICK q \in Int : t = Turn * q
      BY <3>3
    <3>5. Ra[p] = from + k + Turn * q \/ Ra[p] = from + k + Turn * (q + 1)
      BY <1>1, <1>2, <2>2, <3>2, <3>4
    <3>6. \E m \in Int : Ra[p] = from + k + Turn * m
      BY <3>5
    <3> QED
      BY <1>3, <3>2, <3>6
  <2>5. ASSUME along, signed => 2 * (from + span) < 3 * Turn PROVE met
    <3>1. PICK k \in 0 .. span : Ra[p] = Around(ra[1] + k)
      BY <2>5
    <3>a. k \in Int
      BY <1>1, <3>1
    <3>2. PICK q \in Int : Ra[p] = from + k + Turn * q
      BY <1>3, <3>1, <3>a
    <3>3. q = 0 \/ q = -1
      <4>1. ~ q >= 1 /\ ~ q <= -2
        BY <1>1, <1>2, <1>8, <3>2
      <4> QED
        BY <4>1
    <3>4. Ra[p] = from + k \/ Ra[p] = from + k - Turn
      BY <1>1, <1>2, <3>2, <3>3
    <3>5. CASE Raw(p) = Ra[p]
      BY <1>1, <1>2, <2>3, <3>4, <3>5
    <3>6. CASE signed /\ 2 * Ra[p] >= Turn /\ Raw(p) = Ra[p] - Turn
      <4>1. Ra[p] = from + k
        BY <1>1, <1>2, <2>5, <3>4, <3>6
      <4> QED
        BY <1>1, <1>2, <2>3, <3>6, <4>1
    <3> QED
      BY <2>2, <3>5, <3>6
  <2> QED
    BY <2>4, <2>5
<1> HIDE DEF met, along
<1>9. /\ met => along
      /\ along /\ (signed => span = Turn \/ 2 * (from + span) < 3 * Turn) => met
  <2>1. span = Turn \/ (span < Turn /\ span # Turn)
    BY <1>1
  <2> QED
    BY <1>7, <1>8, <2>1
<1> QED
  BY <1>9 DEF span, arcs, from, met, along

-----------------------------------------------------------------------------
(* Shapes and their coverings.                                             *)

IsCircle(s) == s.kind = "circle" /\ s.disk \in SUBSET Points /\ s.wide \in BOOLEAN
IsZone(s) == s.kind = "zone" /\ s.ra \in Int \X Int /\ s.dec \in Int \X Int
IsMoc(s) == s.kind = "moc" /\ s.cells \in SUBSET Points

\* A request's shapes are of the three kinds.
LEMMA ShapesAre ==
  ASSUME regions \in Regions, NEW s \in Shapes
  PROVE  IsCircle(s) \/ IsZone(s) \/ IsMoc(s)
<1>1. PICK i \in DOMAIN regions : s = regions[i]
  BY DEF Shapes
<1> QED
  BY <1>1, RegionsAssumption DEF IsCircle, IsZone, IsMoc

\* What is in a shape, kind by kind.
LEMMA InShapeIs ==
  ASSUME NEW s, NEW p
  PROVE  /\ s.kind = "moc" => (InShape(s, p) <=> p \in s.cells)
         /\ s.kind = "circle" => (InShape(s, p) <=> p \in s.disk)
         /\ s.kind = "zone" => (InShape(s, p) <=> p \in Between(s) \cap Along(s))
BY DEF InShape

\* A row that meets a shape's geometry is in the shape, and the other way about.
LEMMA MeetsIs ==
  ASSUME regions \in Regions, signed \in BOOLEAN, NEW s \in Geometric, NEW p \in Points
  PROVE  /\ Meets(s, p) => InShape(s, p)
         /\ Unsplit /\ InShape(s, p) => Meets(s, p)
<1>1. s \in Shapes /\ s.kind # "moc"
  BY DEF Geometric
<1>2. CASE IsCircle(s)
  BY <1>2, InShapeIs DEF IsCircle, Meets
<1>3. CASE IsZone(s)
  <2> DEFINE span == EastwardSpan(s.ra)
             arcs == Arcs(s.ra[1], span)
             met == arcs = {} \/ \E a \in arcs : Raw(p) \in a[1] .. a[2]
             along == \E k \in 0 .. span : Ra[p] = Around(s.ra[1] + k)
             banded == Dec[p] \in s.dec[1] .. s.dec[2]
             short == signed => span = Turn \/ 2 * (Around(s.ra[1]) + span) < 3 * Turn
  <2>1. (met => along) /\ (along /\ short => met)
    BY <1>3, ArcsAre DEF IsZone
  <2>2. Meets(s, p) <=> banded /\ met
    BY <1>3 DEF IsZone, Meets
  <2>3. InShape(s, p) <=> banded /\ along
    BY <1>3, InShapeIs DEF IsZone, Between, Along
  <2>4. Unsplit => short
    BY <1>1, <1>3 DEF Unsplit, IsZone
  <2> HIDE DEF met, along, banded, short
  <2> QED
    BY <2>1, <2>2, <2>3, <2>4
<1> QED
  BY <1>1, <1>2, <1>3, ShapesAre DEF IsMoc

\* The geometry alone is sound, and where no moc is beside it is the region.
LEMMA ExactIs ==
  ASSUME regions \in Regions, signed \in BOOLEAN, NEW p \in Points
  PROVE  /\ Exact(p) => p \in Region
         /\ Unsplit /\ Geometric = Shapes /\ p \in Region => Exact(p)
<1>1. \A s \in Geometric : s \in Shapes
  BY DEF Geometric
<1>2. p \in Region <=> \E s \in Shapes : InShape(s, p)
  BY DEF Region
<1>3. Exact(p) <=> \E s \in Geometric : Meets(s, p)
  BY DEF Exact
<1> QED
  BY <1>1, <1>2, <1>3, MeetsIs

\* What a covering is for.
IsDetail(d) ==
  \/ d = [of |-> "file"]
  \/ \E n \in Nat : d = [of |-> "partitions", order |-> n] \/ d = [of |-> "partition", order |-> n]

\* Whatever it is for, it is no deeper than the deepest.
LEMMA DepthIs ==
  ASSUME NEW d, IsDetail(d), NEW perimeter
  PROVE  Depth(d, perimeter) \in 0 .. MaxOrder
<1>1. MaxOrder \in Nat /\ MaxDepth \in 0 .. MaxOrder /\ RowsDetail \in Nat /\ PartitionDetail \in Nat
  BY SkyAssumption
<1>2. DepthFor(perimeter) \in 0 .. MaxDepth
  <2> DEFINE T == {0} \cup {k \in 1 .. MaxDepth : Quarters[k] * perimeter^2 <= BaseArea * Budget^2}
  <2>1. T \in SUBSET (0 .. MaxDepth) /\ 0 \in T /\ MaxDepth \in Nat
    BY <1>1
  <2>2. DepthFor(perimeter) = Max(T)
    BY DEF DepthFor
  <2> HIDE DEF T
  <2>3. Max(T) \in T
    BY <2>1, MaxIs
  <2> QED
    BY <2>1, <2>2, <2>3
<1>3. ASSUME d = [of |-> "file"] PROVE Depth(d, perimeter) \in 0 .. MaxDepth
  <2>1. d.of = "file"
    BY <1>3
  <2>2. Depth(d, perimeter) = DepthFor(perimeter)
    BY <2>1 DEF Depth
  <2> QED
    BY <1>2, <2>2
<1>4. ASSUME NEW n \in Nat, d = [of |-> "partitions", order |-> n]
      PROVE  Depth(d, perimeter) \in 0 .. MaxDepth
  <2>1. d.of = "partitions" /\ d.order = n
    BY <1>4
  <2>2. Depth(d, perimeter) = Least(n + PartitionDetail, MaxDepth)
    BY <2>1 DEF Depth
  <2> QED
    BY <1>1, <2>2 DEF Least
<1>5. ASSUME NEW n \in Nat, d = [of |-> "partition", order |-> n]
      PROVE  Depth(d, perimeter) \in 0 .. MaxDepth
  <2>1. d.of = "partition" /\ d.order = n
    BY <1>5
  <2> DEFINE T == {DepthFor(perimeter), n + RowsDetail}
             most == MaxDepth + n + RowsDetail
  <2>2. Depth(d, perimeter) = Least(Max(T), MaxDepth)
    BY <2>1 DEF Depth
  <2>3. T \in SUBSET (0 .. most) /\ T # {} /\ most \in Nat /\ \A x \in T : x \in Nat
    BY <1>1, <1>2
  <2> HIDE DEF T, most
  <2>4. Max(T) \in Nat
    <3>1. Max(T) \in T
      BY <2>3, MaxIs
    <3> QED
      BY <2>3, <3>1
  <2> QED
    BY <1>1, <2>2, <2>4 DEF Least
<1> QED
  BY <1>1, <1>3, <1>4, <1>5 DEF IsDetail

\* Whole cells inside some points are of those points, and whole cells they touch hold them.
LEMMA CellsRound ==
  ASSUME NEW depth \in 0 .. MaxOrder, NEW points \in SUBSET Points
  PROVE  /\ Filled(points, depth) \subseteq points
         /\ points \subseteq Touched(points, depth) /\ Touched(points, depth) \subseteq Points
<1>1. Filled(points, depth) \subseteq points
  <2>1. CASE loose
    BY <2>1 DEF Filled
  <2>2. CASE ~ loose
    <3> DEFINE full == {c \in CellsAt(depth) : Span(depth, c) \subseteq points}
    <3>1. Filled(points, depth) = UNION {Span(depth, c) : c \in full}
      BY <2>2 DEF Filled
    <3>2. \A c \in full : Span(depth, c) \subseteq points
      OBVIOUS
    <3> HIDE DEF full
    <3> QED
      BY <3>1, <3>2
  <2> QED
    BY <2>1, <2>2
<1> DEFINE met == {m \in CellsAt(depth) : Span(depth, m) \cap points # {}}
           taken == IF loose THEN met \cup {m + 1 : m \in met} ELSE met
           all == UNION {Span(depth, m) : m \in taken}
<1>t. Touched(points, depth) = Points \cap all
  BY DEF Touched
<1>2. Touched(points, depth) \subseteq Points
  <2> HIDE DEF all
  <2> QED
    BY <1>t
<1>3. ASSUME NEW p \in points PROVE p \in Touched(points, depth)
  <2> DEFINE c == p \div Quarters[MaxOrder - depth]
  <2>1. p \in Points
    OBVIOUS
  <2>2. c \in CellsAt(depth) /\ p \in Span(depth, c)
    BY <2>1, SpanIs
  <2> HIDE DEF c
  <2>3. c \in met
    BY <2>2
  <2>4. c \in taken
    BY <2>3
  <2> HIDE DEF taken
  <2>5. p \in all
    BY <2>2, <2>4
  <2> HIDE DEF all
  <2> QED
    BY <1>t, <2>1, <2>5
<1> QED
  BY <1>1, <1>2, <1>3

\* The pieces of an arc hold all of it.
LEMMA PiecesHold ==
  ASSUME NEW zone, IsZone(zone), EastwardSpan(zone.ra) # Turn, NEW depth \in 0 .. MaxOrder,
         NEW p \in Between(zone) \cap Along(zone)
  PROVE  p \in RightAscensionsWithin(zone, depth)
<1> DEFINE span == EastwardSpan(zone.ra)
           counts == {4} \cup {n \in 1 .. 3 : 4 * span <= n * Turn}
           count == Min(counts)
           Piece(i) == {q \in Between(zone) :
                          Around(Ra[q] - zone.ra[1]) * count \in i * span .. (i + 1) * span}
<1>1. /\ span \in 0 .. (Turn - 1) /\ Turn \in Nat \ {0} /\ zone.ra[1] \in Int /\ p \in Points
      /\ Ra[p] \in 0 .. (Turn - 1)
  <2>1. span \in 0 .. Turn /\ span # Turn /\ zone.ra \in Int \X Int
    BY SpanInTurn DEF IsZone
  <2>2. p \in Points
    BY DEF Between
  <2> QED
    BY <2>1, <2>2, SkyAssumption
<1>2. count \in 1 .. 4
  <2>1. counts \in SUBSET Nat /\ counts # {} /\ \A x \in counts : x \in 1 .. 4
    OBVIOUS
  <2> HIDE DEF counts
  <2> QED
    BY <2>1, MinIs
<1>3. RightAscensionsWithin(zone, depth) = UNION {Touched(Piece(i), depth) : i \in 0 .. count - 1}
  BY DEF RightAscensionsWithin
<1> HIDE DEF span, count
<1>4. PICK k \in 0 .. span : Ra[p] = Around(zone.ra[1] + k)
  BY DEF Along, span
<1>5. Around(Ra[p] - zone.ra[1]) = k
  <2>1. zone.ra[1] + k \in Int /\ k \in 0 .. (Turn - 1) /\ Ra[p] - zone.ra[1] \in Int
    BY <1>1, <1>4
  <2>2. PICK q \in Int : zone.ra[1] + k = Turn * q + Ra[p]
    BY <1>4, <2>1, Remainders
  <2>3. Ra[p] - zone.ra[1] = Turn * (-q) + k /\ -q \in Int
    BY <1>1, <2>1, <2>2
  <2> QED
    BY <2>1, <2>3, Remainders
<1>6. \E i \in 0 .. (count - 1) : k * count \in i * span .. (i + 1) * span
  <2>1. k \in Nat /\ span \in Nat /\ k <= span
    BY <1>1, <1>4
  <2>2. CASE count = 1
    <3>1. 0 \in 0 .. (count - 1) /\ k * 1 \in 0 * span .. (0 + 1) * span
      BY <2>1, <2>2
    <3> QED
      BY <2>2, <3>1
  <2>3. CASE count = 2
    <3>1. \E i \in {0, 1} : k * 2 \in i * span .. (i + 1) * span
      BY <2>1
    <3> QED
      BY <2>3, <3>1
  <2>4. CASE count = 3
    <3>1. \E i \in {0, 1, 2} : k * 3 \in i * span .. (i + 1) * span
      BY <2>1
    <3> QED
      BY <2>4, <3>1
  <2>5. CASE count = 4
    <3>1. \E i \in {0, 1, 2, 3} : k * 4 \in i * span .. (i + 1) * span
      BY <2>1
    <3> QED
      BY <2>5, <3>1
  <2> QED
    BY <1>2, <2>2, <2>3, <2>4, <2>5
<1>7. PICK i \in 0 .. (count - 1) : k * count \in i * span .. (i + 1) * span
  BY <1>6
<1>8. p \in Piece(i)
  BY <1>5, <1>7
<1>9. Piece(i) \in SUBSET Points
  BY DEF Between
<1> HIDE DEF Piece
<1>10. p \in Touched(Piece(i), depth)
  BY <1>8, <1>9, CellsRound
<1> QED
  BY <1>3, <1>7, <1>10

\* What a shape's covering is inside of is in the shape, and what is in the shape is covered.
LEMMA ShapeCovered ==
  ASSUME regions \in Regions, NEW s \in Shapes, NEW d, IsDetail(d)
  PROVE  /\ Inner(s, d) \subseteq Points /\ Outer(s, d) \subseteq Points
         /\ \A p \in Inner(s, d) : InShape(s, p)
         /\ \A p \in Points : InShape(s, p) => p \in Outer(s, d)
         /\ s.kind = "moc" => Inner(s, d) = s.cells
<1>1. CASE IsMoc(s)
  BY <1>1, InShapeIs DEF IsMoc, Inner, Outer
<1>2. CASE IsCircle(s)
  <2> DEFINE depth == Depth(d, s.perimeter)
             disk == s.disk
             rest == Points \ disk
  <2>1. depth \in 0 .. MaxOrder /\ disk \in SUBSET Points /\ rest \in SUBSET Points
    BY <1>2, DepthIs DEF IsCircle
  <2>2. /\ Inner(s, d) = IF s.wide THEN Points \ Touched(rest, depth) ELSE Filled(disk, depth)
        /\ Outer(s, d) = IF s.wide THEN Points \ Filled(rest, depth) ELSE Touched(disk, depth)
    BY <1>2 DEF IsCircle, Inner, Outer
  <2>3. \A p : InShape(s, p) <=> p \in disk
    BY <1>2, InShapeIs DEF IsCircle
  <2>4. /\ Filled(rest, depth) \subseteq rest /\ rest \subseteq Touched(rest, depth)
        /\ Filled(disk, depth) \subseteq disk /\ disk \subseteq Touched(disk, depth)
        /\ Touched(disk, depth) \subseteq Points
    <3> HIDE DEF depth, rest, disk
    <3> QED
      BY <2>1, CellsRound
  <2>5. s.kind # "moc" /\ \A p \in Points : p \in rest <=> p \notin disk
    BY <1>2 DEF IsCircle
  <2>6. \A p \in rest : p \in Points
    OBVIOUS
  <2> HIDE DEF depth, rest, disk
  <2>7. CASE s.wide
    BY <2>1, <2>2, <2>3, <2>4, <2>5, <2>6, <2>7
  <2>8. CASE ~ s.wide
    BY <2>1, <2>2, <2>3, <2>4, <2>5, <2>8
  <2> QED
    BY <2>7, <2>8
<1>3. CASE IsZone(s)
  <2> DEFINE depth == Depth(d, s.perimeter)
             both == Between(s) \cap Along(s)
             low == s.dec[1]
             high == s.dec[2]
             band(a, b) == {p \in Points : Dec[p] \in a .. b}
             declined == DeclinationsWithin(s, depth)
             ascended == RightAscensionsWithin(s, depth)
  <2>1. /\ depth \in 0 .. MaxOrder /\ low \in Int /\ high \in Int
        /\ s.kind = "zone"
    BY <1>3, DepthIs DEF IsZone
  <2>2. \A p : InShape(s, p) <=> p \in both
    BY <2>1, InShapeIs
  <2>3. Between(s) = band(low, high) /\ both \in SUBSET Points /\ \A p \in both : p \in Between(s)
    BY DEF Between
  <2>4. Inner(s, d) = IF low = high THEN {} ELSE Filled(both, depth)
    BY <2>1 DEF Inner
  <2>5. Outer(s, d) = IF low = high THEN Points
                      ELSE IF EastwardSpan(s.ra) = Turn THEN declined ELSE declined \cap ascended
    BY <2>1 DEF Outer
  <2>6. \A a, b : /\ band(a, b) \in SUBSET Points
                  /\ band(a, b) \subseteq Touched(band(a, b), depth)
                  /\ Touched(band(a, b), depth) \subseteq Points
    <3> TAKE a, b
    <3> DEFINE these == band(a, b)
    <3>1. these \in SUBSET Points
      OBVIOUS
    <3> HIDE DEF these, depth
    <3>2. these \subseteq Touched(these, depth) /\ Touched(these, depth) \subseteq Points
      BY <2>1, <3>1, CellsRound
    <3> QED
      BY <3>1, <3>2 DEF these
  <2>7. Between(s) \subseteq declined /\ declined \subseteq Points
    <3>1. declined = IF low < 0 /\ high > 0
                     THEN Touched(band(low, 0), depth) \cup Touched(band(0, high), depth)
                     ELSE Touched(band(low, high), depth)
      BY DEF DeclinationsWithin
    <3>2. CASE low < 0 /\ high > 0
      <4>1. \A p \in Between(s) : p \in band(low, 0) \/ p \in band(0, high)
        <5>1. \A p \in Points : Dec[p] \in Int
          BY SkyAssumption
        <5>2. \A x \in low .. high : x \in low .. 0 \/ x \in 0 .. high
          BY <2>1, <3>2
        <5> QED
          BY <2>3, <5>1, <5>2
      <4> HIDE DEF band, declined, depth, low, high
      <4> QED
        BY <2>6, <3>1, <3>2, <4>1
    <3>3. CASE ~ (low < 0 /\ high > 0)
      <4> HIDE DEF band, declined, depth, low, high
      <4> QED
        BY <2>3, <2>6, <3>1, <3>3
    <3> QED
      BY <3>2, <3>3
  <2>8. Filled(both, depth) \subseteq both
    <3> HIDE DEF both, depth
    <3> QED
      BY <2>1, <2>3, CellsRound
  <2>9. EastwardSpan(s.ra) # Turn => \A p \in both : p \in ascended
    <3> HIDE DEF depth
    <3> QED
      BY <1>3, <2>1, PiecesHold
  <2> HIDE DEF both, declined, ascended, low, high, depth
  <2>10. \A p \in Points : p \in both => p \in Outer(s, d)
    BY <2>3, <2>5, <2>7, <2>9
  <2>11. Outer(s, d) \subseteq Points
    BY <2>5, <2>7
  <2>12. Inner(s, d) \subseteq both
    BY <2>4, <2>8
  <2> QED
    BY <2>1, <2>2, <2>3, <2>10, <2>11, <2>12
<1> QED
  BY <1>1, <1>2, <1>3, ShapesAre

\* So a request's covering lies on both sides of the region.
LEMMA CoverageEncloses ==
  ASSUME regions \in Regions, NEW d, IsDetail(d)
  PROVE  Encloses(Coverage(d))
<1> DEFINE inner == Coverage(d).inner
           outer == Coverage(d).outer
<1>1. /\ \A p : p \in inner <=> \E s \in Shapes : p \in Inner(s, d)
      /\ \A p : p \in outer <=> \E s \in Shapes : p \in Outer(s, d)
  BY DEF Coverage
<1> HIDE DEF inner, outer
<1>2. \A p : p \in Region <=> p \in Points /\ \E s \in Shapes : InShape(s, p)
  BY DEF Region
<1>3. inner \subseteq Region
  BY <1>1, <1>2, ShapeCovered
<1>4. Region \subseteq outer
  BY <1>1, <1>2, ShapeCovered
<1>5. outer \subseteq Points
  BY <1>1, ShapeCovered
<1>6. ASSUME Geometric = {} PROVE inner = Region
  <2>1. \A s \in Shapes : s.kind = "moc"
    BY <1>6 DEF Geometric
  <2>2. \A s \in Shapes : \A p : InShape(s, p) <=> p \in s.cells
    BY <2>1, InShapeIs
  <2>3. \A s \in Shapes : Inner(s, d) = s.cells
    BY <2>1, ShapeCovered
  <2>4. Region \subseteq inner
    BY <1>1, <1>2, <2>2, <2>3
  <2> QED
    BY <1>3, <2>4
<1> QED
  BY <1>3, <1>4, <1>5, <1>6 DEF Encloses, inner, outer

-----------------------------------------------------------------------------
(* The test of a row.                                                      *)

\* Rounding down is at least what fits, rounding up at most what is enough.
LEMMA Rounding ==
  ASSUME NEW x \in Nat, NEW c \in Nat \ {0}
  PROVE  /\ x \div c \in Int /\ Up(x, c) \in Int
         /\ \A m \in Int : (m <= x \div c <=> m * c <= x) /\ (Up(x, c) <= m <=> x <= m * c)
<1>1. ASSUME NEW y \in Nat
      PROVE  y \div c \in Int /\ \A m \in Int : m <= y \div c <=> m * c <= y
  <2> DEFINE q == y \div c
  <2>1. q \in Int /\ q * c <= y /\ y < q * c + c
    OBVIOUS
  <2> HIDE DEF q
  <2>2. ASSUME NEW m \in Int PROVE m <= q <=> m * c <= y
    <3>1. CASE m <= q
      <4>1. m * c <= q * c
        BY <2>1, <3>1
      <4> QED
        BY <2>1, <3>1, <4>1
    <3>2. CASE ~ m <= q
      <4>1. (q + 1) * c <= m * c /\ (q + 1) * c = q * c + c
        BY <2>1, <3>2
      <4> QED
        BY <2>1, <3>2, <4>1
    <3> QED
      BY <3>1, <3>2
  <2> QED
    BY <2>1, <2>2 DEF q
<1> DEFINE y == x + c - 1
           u == Up(x, c)
<1>2. y \in Nat /\ u = y \div c
  BY DEF Up
<1> HIDE DEF u, y
<1>3. u \in Int /\ \A m \in Int : m <= u <=> m * c <= y
  BY <1>1, <1>2
<1>4. ASSUME NEW m \in Int PROVE u <= m <=> x <= m * c
  <2>1. m + 1 <= u <=> (m + 1) * c <= y
    <3> DEFINE k == m + 1
    <3>1. k \in Int
      OBVIOUS
    <3> HIDE DEF k
    <3>2. k <= u <=> k * c <= y
      BY <1>3, <3>1
    <3> QED
      BY <3>2 DEF k
  <2>2. (m + 1) * c = m * c + c /\ m * c \in Int
    OBVIOUS
  <2>3. (m + 1) * c <= y <=> m * c < x
    BY <2>2 DEF y
  <2> QED
    BY <1>3, <2>1, <2>2, <2>3
<1> QED
  BY <1>1, <1>3, <1>4 DEF u

\* The cells of the column a covering comes to, before they are made ranges of.
Whole(points, side) ==
  LET cell == Quarters[MaxOrder - Index.order] IN
  UNION {IF side = "outer" THEN r[1] \div cell .. Up(r[2], cell) - 1
         ELSE Up(r[1], cell) .. r[2] \div cell - 1 : r \in Ranges(points)}

\* Some points as some of 0 to a number.
LEMMA PointsAre ==
  /\ Base * Quarters[MaxOrder] \in Nat \ {0}
  /\ Points = 0 .. (Base * Quarters[MaxOrder] - 1)
<1>1. Base \in Nat \ {0} /\ Quarters[MaxOrder] \in Nat \ {0}
  BY SkyAssumption, QuartersAre
<1> QED
  BY <1>1 DEF Points, CellsAt

LEMMA WholeIs ==
  ASSUME Index.order \in 0 .. MaxOrder, NEW points \in SUBSET Points, NEW p \in Points
  PROVE  LET cell == Span(Index.order, Value(p)) IN
         /\ Whole(points, "outer") \in SUBSET (0 .. Base * Quarters[MaxOrder])
         /\ Whole(points, "inner") \in SUBSET (0 .. Base * Quarters[MaxOrder])
         /\ p \in cell
         /\ p \in points => Value(p) \in Whole(points, "outer")
         /\ Value(p) \in Whole(points, "inner") <=> cell \subseteq points
<1> DEFINE c == Quarters[MaxOrder - Index.order]
           n == Base * Quarters[MaxOrder] - 1
           v == Value(p)
           outer == Whole(points, "outer")
           inner == Whole(points, "inner")
<1>1. c \in Nat \ {0} /\ n \in Nat /\ Points = 0 .. n /\ n + 1 = Base * Quarters[MaxOrder]
  <2>1. c \in Nat \ {0}
    BY SpanIs
  <2>2. n \in Nat /\ Points = 0 .. n /\ n + 1 = Base * Quarters[MaxOrder]
    <3> DEFINE all == Base * Quarters[MaxOrder]
    <3>1. all \in Nat \ {0} /\ Points = 0 .. (all - 1)
      BY PointsAre
    <3> HIDE DEF all
    <3>2. all - 1 \in Nat /\ (all - 1) + 1 = all
      BY <3>1
    <3> QED
      BY <3>1, <3>2 DEF all
  <2> QED
    BY <2>1, <2>2
<1>2. /\ v \in Nat /\ p \in Span(Index.order, v)
      /\ Span(Index.order, v) = v * c .. (v + 1) * c - 1
      /\ v * c \in Nat /\ (v + 1) * c = v * c + c
  <2>1. v = p \div c
    BY DEF Value
  <2> HIDE DEF v
  <2>2. v \in CellsAt(Index.order) /\ p \in Span(Index.order, v)
    BY <2>1, SpanIs
  <2>3. CellsAt(Index.order) \subseteq Nat
    BY DEF CellsAt
  <2> QED
    BY <2>2, <2>3, SpanIs
<1>3. /\ \A r \in Ranges(points) :
           /\ r[1] \in 0 .. n /\ r[2] \in 1 .. (n + 1) /\ r[1] < r[2] /\ r[2] \notin points
           /\ \A x \in r[1] .. (r[2] - 1) : x \in points
      /\ \A x \in points : \E r \in Ranges(points) : r[1] <= x /\ x < r[2]
  <2>1. points \in SUBSET (0 .. n)
    BY <1>1
  <2> HIDE DEF n
  <2> QED
    BY <1>1, <2>1, RangesAre
<1>4. /\ \A m : m \in outer
             <=> \E r \in Ranges(points) : m \in r[1] \div c .. Up(r[2], c) - 1
      /\ \A m : m \in inner
             <=> \E r \in Ranges(points) : m \in Up(r[1], c) .. r[2] \div c - 1
  BY DEF Whole
<1> HIDE DEF c, v, outer, inner, n
<1>5. ASSUME NEW r \in Ranges(points), NEW m \in Int
      PROVE  /\ m \in r[1] \div c .. Up(r[2], c) - 1 <=> r[1] < (m + 1) * c /\ m * c < r[2]
             /\ m \in Up(r[1], c) .. r[2] \div c - 1 <=> r[1] <= m * c /\ (m + 1) * c <= r[2]
  <2> DEFINE a == r[1]
             b == r[2]
  <2>1. a \in Nat /\ b \in Nat
    BY <1>1, <1>3
  <2> HIDE DEF a, b
  <2> DEFINE k == m + 1
  <2>k. k \in Int
    OBVIOUS
  <2> HIDE DEF k
  <2>2. /\ a \div c \in Int /\ Up(a, c) \in Int
        /\ k <= a \div c <=> k * c <= a
        /\ Up(a, c) <= m <=> a <= m * c
    BY <1>1, <2>1, <2>k, Rounding
  <2>3. /\ b \div c \in Int /\ Up(b, c) \in Int
        /\ k <= b \div c <=> k * c <= b
        /\ Up(b, c) <= m <=> b <= m * c
    BY <1>1, <2>1, <2>k, Rounding
  <2> DEFINE ad == a \div c
             bd == b \div c
             mc == m * c
             nc == k * c
  <2>4. mc \in Int /\ nc \in Int /\ ad \in Int /\ bd \in Int
    BY <1>1, <2>2, <2>3, <2>k
  <2>5. /\ m + 1 <= ad <=> nc <= a
        /\ Up(a, c) <= m <=> a <= mc
        /\ m + 1 <= bd <=> nc <= b
        /\ Up(b, c) <= m <=> b <= mc
    BY <2>2, <2>3 DEF k
  <2> HIDE DEF ad, bd, mc, nc
  <2>6. /\ m \in ad .. Up(b, c) - 1 <=> a < nc /\ mc < b
        /\ m \in Up(a, c) .. bd - 1 <=> a <= mc /\ nc <= b
    BY <2>1, <2>2, <2>3, <2>4, <2>5
  <2> QED
    BY <2>6 DEF a, b, ad, bd, mc, nc, k
<1>6. ASSUME NEW m, m \in outer \/ m \in inner PROVE m \in 0 .. (n + 1)
  <2>1. PICK r \in Ranges(points) :
          m \in r[1] \div c .. Up(r[2], c) - 1 \/ m \in Up(r[1], c) .. r[2] \div c - 1
    BY <1>4, <1>6
  <2>2. m \in Int
    BY <2>1
  <2>3. m * c < r[2] \/ (m + 1) * c <= r[2]
    BY <1>5, <2>1, <2>2
  <2>4. r[1] < (m + 1) * c \/ r[1] <= m * c
    BY <1>5, <2>1, <2>2
  <2>5. r[1] \in Nat /\ r[2] \in Nat /\ r[2] <= n + 1
    BY <1>1, <1>3
  <2>6. m * c \in Int /\ (m + 1) * c = m * c + c
    BY <1>1, <2>2
  <2>7. m * c < r[2] /\ 0 < (m + 1) * c
    BY <1>1, <2>3, <2>4, <2>5, <2>6
  <2>8. m >= 0
    BY <1>1, <2>2, <2>7
  <2>9. m <= m * c
    BY <1>1, <2>2, <2>8
  <2> QED
    BY <1>1, <2>2, <2>5, <2>6, <2>7, <2>8, <2>9
<1>7. ASSUME p \in points PROVE v \in outer
  <2>1. PICK r \in Ranges(points) : r[1] <= p /\ p < r[2]
    BY <1>3, <1>7
  <2>2. p \in Nat /\ v * c <= p /\ p < (v + 1) * c /\ r[1] \in Nat /\ r[2] \in Nat
    BY <1>1, <1>2, <1>3, <2>1
  <2>3. r[1] < (v + 1) * c /\ v * c < r[2] /\ v \in Int
    BY <1>1, <1>2, <2>1, <2>2
  <2> QED
    BY <1>4, <1>5, <2>3
<1>8. ASSUME v \in inner, NEW x \in Span(Index.order, v) PROVE x \in points
  <2>1. PICK r \in Ranges(points) : v \in Up(r[1], c) .. r[2] \div c - 1
    BY <1>4, <1>8
  <2>2. r[1] <= v * c /\ (v + 1) * c <= r[2] /\ r[1] \in Nat /\ r[2] \in Nat
    BY <1>2, <1>3, <1>5, <2>1
  <2>3. x \in r[1] .. (r[2] - 1)
    BY <1>1, <1>2, <1>8, <2>2
  <2> QED
    BY <1>3, <2>3
<1>9. ASSUME Span(Index.order, v) \subseteq points PROVE v \in inner
  <2>1. v * c \in Span(Index.order, v)
    BY <1>1, <1>2
  <2>2. PICK r \in Ranges(points) : r[1] <= v * c /\ v * c < r[2]
    BY <1>3, <1>9, <2>1
  <2>3. r[1] \in Nat /\ r[2] \in Nat /\ r[2] \notin points
    BY <1>1, <1>3
  <2>4. r[2] \notin v * c .. (v + 1) * c - 1
    BY <1>2, <1>9, <2>3
  <2>5. (v + 1) * c <= r[2]
    BY <1>1, <1>2, <2>2, <2>3, <2>4
  <2> QED
    BY <1>2, <1>4, <1>5, <2>2, <2>5
<1>10. outer \in SUBSET (0 .. (n + 1)) /\ inner \in SUBSET (0 .. (n + 1))
  BY <1>6
<1>11. v \in inner <=> Span(Index.order, v) \subseteq points
  BY <1>8, <1>9
<1> QED
  BY <1>1, <1>2, <1>7, <1>10, <1>11 DEF v, outer, inner

\* A row is in the ranges a covering is carried as when its cell of the column is among them.
LEMMA CarriedIs ==
  ASSUME Index.order \in 0 .. MaxOrder, NEW points \in SUBSET Points, NEW p \in Points,
         NEW side \in {"inner", "outer"}
  PROVE  /\ In(Literals(points, side), p) => Value(p) \in Whole(points, side)
         /\ Value(p) \in Whole(points, side) =>
              (Optional /\ Literals(points, side) = {}) \/ In(Literals(points, side), p)
<1> DEFINE whole == Whole(points, side)
           bounds == Ranges(whole)
           n == Base * Quarters[MaxOrder]
           v == Value(p)
           all == {<<b[1], b[2] - 1>> : b \in bounds}
           carried == Literals(points, side)
<1>1. n \in Nat /\ whole \in SUBSET (0 .. n)
  BY PointsAre, WholeIs
<1>2. /\ BoundsOf(points, side) = bounds
      /\ carried = IF Optional /\ Cardinality(BoundsOf(points, side)) > Budget THEN {} 
                   ELSE {<<b[1], b[2] - 1>> : b \in BoundsOf(points, side)}
  BY DEF BoundsOf, Whole, Literals
<1>3. In(carried, p) <=> \E l \in carried : v \in l[1] .. l[2]
  BY DEF In
<1> HIDE DEF n, whole, carried
<1>4. /\ \A r \in bounds : /\ r[1] \in 0 .. n /\ r[2] \in 1 .. (n + 1)
                           /\ \A x \in r[1] .. (r[2] - 1) : x \in whole
      /\ \A x \in whole : \E r \in bounds : r[1] <= x /\ x < r[2]
  BY <1>1, RangesAre
<1> HIDE DEF bounds
<1>5. carried = all \/ (Optional /\ carried = {})
  BY <1>2
<1>6. ASSUME NEW l \in all, v \in l[1] .. l[2] PROVE v \in whole
  <2>1. PICK b \in bounds : l = <<b[1], b[2] - 1>>
    OBVIOUS
  <2>2. l[1] = b[1] /\ l[2] = b[2] - 1
    BY <2>1
  <2> QED
    BY <1>4, <1>6, <2>2
<1>7. ASSUME v \in whole PROVE \E l \in all : v \in l[1] .. l[2]
  <2>1. PICK b \in bounds : b[1] <= v /\ v < b[2]
    BY <1>4, <1>7
  <2> DEFINE l == <<b[1], b[2] - 1>>
  <2>2. l \in all /\ l[1] = b[1] /\ l[2] = b[2] - 1
    OBVIOUS
  <2>3. v \in Int /\ b[1] \in Int /\ b[2] \in Int
    <3>1. v \in 0 .. n
      BY <1>1, <1>7
    <3>2. b[1] \in 0 .. n /\ b[2] \in 1 .. (n + 1)
      BY <1>4
    <3> HIDE DEF v
    <3> QED
      BY <3>1, <3>2
  <2>4. v \in l[1] .. l[2]
    BY <2>1, <2>2, <2>3
  <2> QED
    BY <2>2, <2>4
<1> HIDE DEF all, v
<1>8. In(carried, p) => v \in whole
  BY <1>3, <1>5, <1>6
<1>9. v \in whole => (Optional /\ carried = {}) \/ In(carried, p)
  BY <1>3, <1>5, <1>7
<1> QED
  BY <1>8, <1>9 DEF whole, carried, v

\* A column that is tested has an order there is.
LEMMA IndexIs ==
  ASSUME place \in Places, ~ Refused
  PROVE  Index # None => Index.order \in 0 .. MaxOrder
<1>1. CASE place.named
  BY <1>1 DEF Refused, Wide, Index
<1>2. CASE ~ place.named
  <2>1. place.column.standard => place.column.order = MaxOrder
    BY PlacesAssumption
  <2>2. MaxOrder \in 0 .. MaxOrder
    BY SkyAssumption
  <2> QED
    BY <1>2, <2>1, <2>2 DEF Index
<1> QED
  BY <1>1, <1>2

\* The rows that pass are of the region, and they are all of its rows where the column and the
\* coordinates can tell.
LEMMA PassingIs ==
  ASSUME regions \in Regions, place \in Places, signed \in BOOLEAN, ~ Refused,
         NEW points \in SUBSET Points, NEW cover,
         cover.inner \subseteq Region, cover.outer \in SUBSET Points
  PROVE  /\ Passing(points, cover) \subseteq points \cap Region
         /\ /\ Told /\ Region \cap points \subseteq cover.outer
            /\ Geometric = {} /\ Index # None =>
                 \A p \in Region \cap points :
                   Span(Index.order, Value(p)) \subseteq cover.inner
            => Region \cap points \subseteq Passing(points, cover)
<1> DEFINE bare == Index = None
           inner == IF bare THEN {} ELSE Literals(cover.inner, "inner")
           outer == IF bare THEN {} ELSE Literals(cover.outer, "outer")
           pass == Passing(points, cover)
<1>1. pass = IF outer = {} THEN {p \in points : Exact(p)}
             ELSE {p \in points : In(inner, p) \/ (In(outer, p) /\ Exact(p))}
  BY DEF Passing
<1>2. Region \subseteq Points /\ cover.inner \in SUBSET Points
  BY DEF Region
<1>3. \A p \in Points : Exact(p) => p \in Region
  BY ExactIs
<1>4. ~ bare => Index.order \in 0 .. MaxOrder
  BY IndexIs
<1>5. \A p : ~ In({}, p)
  BY DEF In
<1> HIDE DEF pass
<1>6. ASSUME NEW p \in points, In(inner, p) PROVE p \in Region
  <2>1. ~ bare
    BY <1>5, <1>6
  <2>2. In(Literals(cover.inner, "inner"), p) /\ p \in Points
    BY <1>6, <2>1
  <2>3. Value(p) \in Whole(cover.inner, "inner")
    BY <1>2, <1>4, <2>1, <2>2, CarriedIs
  <2>4. p \in cover.inner
    BY <1>2, <1>4, <2>1, <2>2, <2>3, WholeIs
  <2> QED
    BY <2>4
<1> HIDE DEF inner, outer
<1>7. pass \subseteq points \cap Region
  <2>1. \A p \in pass : p \in points /\ (In(inner, p) \/ Exact(p))
    BY <1>1
  <2> QED
    BY <1>3, <1>6, <2>1
<1>8. ASSUME Told, Region \cap points \subseteq cover.outer,
             Geometric = {} /\ Index # None =>
               \A p \in Region \cap points : Span(Index.order, Value(p)) \subseteq cover.inner,
             NEW p \in Region \cap points
      PROVE  p \in pass
  <2>1. p \in Points /\ p \in points /\ p \in Region /\ p \in cover.outer
    BY <1>8
  <2>2. outer = {} \/ In(outer, p)
    <3>1. CASE bare
      BY <3>1 DEF outer
    <3>2. CASE ~ bare
      <4>1. Value(p) \in Whole(cover.outer, "outer")
        BY <1>4, <2>1, <3>2, WholeIs
      <4>2. Literals(cover.outer, "outer") = {} \/ In(Literals(cover.outer, "outer"), p)
        BY <1>4, <2>1, <3>2, <4>1, CarriedIs
      <4> QED
        BY <3>2, <4>2 DEF outer
    <3> QED
      BY <3>1, <3>2
  <2>3. CASE Geometric # {}
    <3>1. Exact(p)
      BY <1>8, <2>1, <2>3, ExactIs DEF Told, Unmixed
    <3> QED
      BY <1>1, <2>1, <2>2, <3>1
  <2>4. CASE Geometric = {}
    <3>1. ~ bare
      BY <2>4 DEF Refused
    <3>2. ~ Optional
      BY <2>4 DEF Optional
    <3>3. Value(p) \in Whole(cover.inner, "inner")
      BY <1>2, <1>4, <1>8, <2>1, <2>4, <3>1, WholeIs
    <3>4. In(inner, p)
      <4>1. In(Literals(cover.inner, "inner"), p)
        BY <1>2, <1>4, <2>1, <3>1, <3>2, <3>3, CarriedIs
      <4> QED
        BY <3>1, <4>1 DEF inner
    <3>5. outer # {}
      <4>1. Value(p) \in Whole(cover.outer, "outer")
        BY <1>4, <2>1, <3>1, WholeIs
      <4>2. In(Literals(cover.outer, "outer"), p)
        BY <1>4, <2>1, <3>1, <3>2, <4>1, CarriedIs
      <4> QED
        BY <1>5, <3>1, <4>2 DEF outer
    <3> QED
      BY <1>1, <2>1, <3>4, <3>5
  <2> QED
    BY <2>3, <2>4
<1> QED
  BY <1>7, <1>8 DEF pass

-----------------------------------------------------------------------------
(* The partitions.                                                         *)

\* A catalog's partitions are stretches of points, one after the other.
LEMMA TilesAre ==
  ASSUME place \in Places, place.kind = "catalog"
  PROVE  /\ Tiles \in SUBSET SkyCells /\ IsFiniteSet(Tiles)
         /\ \A t \in Tiles : /\ t.order \in 0 .. MaxOrder /\ t.pixel \in CellsAt(t.order)
                             /\ Start(t) \in Nat /\ End(t) \in Nat /\ Start(t) < End(t)
                             /\ Cell(t) = Start(t) .. (End(t) - 1) /\ Cell(t) \subseteq Points
         /\ \A t, u \in Tiles : /\ Start(t) = Start(u) => t = u
                                /\ Start(t) < Start(u) => End(t) <= Start(u)
<1>1. /\ place.partitions \in Seq(SkyCells)
      /\ \A t \in Tiles : IsCell(t)
      /\ \A t, u \in Tiles : t = u \/ Cell(t) \cap Cell(u) = {}
  BY PlacesAssumption DEF Tiles, SkyCells
<1>2. Tiles \in SUBSET SkyCells /\ IsFiniteSet(Tiles)
  BY <1>1, RangeIs DEF Tiles
<1>3. ASSUME NEW t \in Tiles
      PROVE  /\ t.order \in 0 .. MaxOrder /\ t.pixel \in CellsAt(t.order)
             /\ Start(t) \in Nat /\ End(t) \in Nat /\ Start(t) < End(t)
             /\ Cell(t) = Start(t) .. (End(t) - 1) /\ Cell(t) \subseteq Points
  <2>1. t.order \in 0 .. MaxOrder /\ t.pixel \in Nat
    BY <1>2 DEF SkyCells
  <2>2. t.pixel < Base * Quarters[t.order]
    BY <1>1 DEF IsCell
  <2>3. Base * Quarters[t.order] \in Nat
    BY <2>1, QuartersAre, SkyAssumption
  <2>4. t.pixel \in CellsAt(t.order)
    BY <2>1, <2>2, <2>3 DEF CellsAt
  <2>5. /\ Start(t) = t.pixel * Quarters[MaxOrder - t.order]
        /\ End(t) = (t.pixel + 1) * Quarters[MaxOrder - t.order]
        /\ Cell(t) = Span(t.order, t.pixel)
    BY DEF Start, End, Size, Cell
  <2> DEFINE size == Quarters[MaxOrder - t.order]
             low == t.pixel * size
             high == (t.pixel + 1) * size
  <2>6. /\ size \in Nat \ {0} /\ low \in Nat /\ high = low + size
        /\ Span(t.order, t.pixel) = low .. high - 1 /\ Span(t.order, t.pixel) \subseteq Points
    BY <2>1, <2>4, SpanIs
  <2>7. Start(t) = low /\ End(t) = high
    BY <2>5
  <2> HIDE DEF size, low, high
  <2>8. low \in Nat /\ high \in Nat /\ low < high
    BY <2>6
  <2> QED
    BY <2>1, <2>4, <2>5, <2>6, <2>7, <2>8
<1>4. ASSUME NEW t \in Tiles, NEW u \in Tiles, Start(t) = Start(u) PROVE t = u
  <2>1. Start(t) \in Cell(t) /\ Start(u) \in Cell(u)
    BY <1>3
  <2> QED
    BY <1>1, <1>4, <2>1
<1>5. ASSUME NEW t \in Tiles, NEW u \in Tiles, Start(t) < Start(u) PROVE End(t) <= Start(u)
  <2> SUFFICES ASSUME ~ End(t) <= Start(u) PROVE FALSE
    OBVIOUS
  <2>1. Start(u) \in Cell(t) /\ Start(u) \in Cell(u)
    BY <1>3, <1>5
  <2>2. t = u
    BY <1>1, <2>1
  <2> QED
    BY <1>3, <1>5, <2>2
<1> QED
  BY <1>2, <1>3, <1>4, <1>5

\* How much of a partition is covered.
LEMMA CoverIs ==
  ASSUME place \in Places, place.kind = "catalog", Encloses(coverage), NEW part \in Tiles
  PROVE  /\ Cover(part) \in {"inside", "boundary", "outside"}
         /\ Cover(part) = "inside" <=> Cell(part) \subseteq coverage.inner
         /\ Cover(part) # "outside" <=> \E x \in Cell(part) : x \in coverage.outer
<1>1. Start(part) \in Cell(part)
  BY TilesAre
<1>2. coverage.inner \subseteq coverage.outer
  BY DEF Encloses
<1>3. Cover(part) = IF Cell(part) \subseteq coverage.inner THEN "inside"
                    ELSE IF Cell(part) \cap coverage.outer # {} THEN "boundary" ELSE "outside"
  BY DEF Cover
<1> QED
  BY <1>1, <1>2, <1>3

\* A column as fine as the mocs' cells has whole cells of it in the region.
LEMMA WholeOfMocs ==
  ASSUME place \in Places, ~ Refused, Told, Geometric = {}, Index # None, NEW p \in Region
  PROVE  Span(Index.order, Value(p)) \subseteq Region
<1> DEFINE o == Index.order
           column == Span(o, Value(p))
<1>1. o \in 0 .. MaxOrder
  BY IndexIs
<1>2. PICK s \in Shapes : p \in Points /\ InShape(s, p)
  BY DEF Region
<1>3. s.kind = "moc" /\ \A x : InShape(s, x) <=> x \in s.cells
  BY InShapeIs DEF Geometric
<1>4. column \subseteq s.cells
  BY <1>2, <1>3 DEF Told, Resolved
<1>5. column \subseteq Points
  <2>1. Value(p) = p \div Quarters[MaxOrder - o]
    BY DEF Value
  <2> HIDE DEF o
  <2>2. Value(p) \in CellsAt(o)
    BY <1>1, <1>2, <2>1, SpanIs
  <2> QED
    BY <1>1, <2>2, SpanIs DEF column
<1> QED
  BY <1>3, <1>4, <1>5 DEF Region

\* The rows of a partition that was reached.
LEMMA RowsOfIs ==
  ASSUME RegionTypeOK, place.kind = "catalog", Encloses(coverage), NEW chose, chose.part \in Tiles,
         chose.cover = Cover(chose.part), chose.cover = "inside" \/ ~ Refused
  PROVE  /\ RowsOf(chose) \subseteq Region
         /\ Told => Region \cap Cell(chose.part) \subseteq RowsOf(chose)
<1> DEFINE part == chose.part
           cell == Cell(part)
<1>0. /\ regions \in Regions /\ place \in Places /\ signed \in BOOLEAN
      /\ part \in Tiles /\ chose.cover = Cover(part)
  BY DEF RegionTypeOK
<1>1. /\ part.order \in 0 .. MaxOrder /\ part.pixel \in CellsAt(part.order)
      /\ cell \in SUBSET Points /\ cell = Span(part.order, part.pixel)
  BY <1>0, TilesAre DEF Cell
<1>2. CASE chose.cover = "inside"
  <2>1. RowsOf(chose) = cell
    BY <1>2 DEF RowsOf
  <2>2. cell \subseteq coverage.inner
    BY <1>0, <1>2, CoverIs
  <2> HIDE DEF cell
  <2>3. cell \subseteq Region
    BY <2>2 DEF Encloses
  <2> QED
    BY <2>1, <2>3 DEF cell
<1>3. CASE chose.cover # "inside"
  <2> DEFINE whole == Coverage([of |-> "partition", order |-> part.order])
             cover == RowsCoverage(part)
  <2>1. RowsOf(chose) = Passing(cell, cover)
    BY <1>3 DEF RowsOf
  <2>2. Encloses(whole)
    <3> DEFINE d == [of |-> "partition", order |-> part.order]
    <3>1. IsDetail(d)
      <4>1. part.order \in Nat
        BY <1>1, SkyAssumption
      <4> QED
        BY <4>1 DEF IsDetail
    <3> HIDE DEF d
    <3>2. Encloses(Coverage(d))
      BY <1>0, <3>1, CoverageEncloses
    <3> QED
      BY <3>2 DEF d
  <2>3. cover.inner = whole.inner \cap cell /\ cover.outer = whole.outer \cap cell
    BY <1>1 DEF RowsCoverage, Within
  <2>4. ~ Refused
    BY <1>3
  <2> HIDE DEF whole, cover
  <2>5. cover.inner \subseteq Region /\ cover.outer \in SUBSET Points
    BY <2>2, <2>3 DEF Encloses
  <2>6. Region \cap cell \subseteq cover.outer
    BY <2>2, <2>3 DEF Encloses
  <2>7. ASSUME Told, Geometric = {}, Index # None, NEW p \in Region \cap cell
        PROVE  Span(Index.order, Value(p)) \subseteq cover.inner
    <3> DEFINE o == Index.order
               column == Span(o, Value(p))
    <3>1. o \in 0 .. MaxOrder
      BY <1>0, <2>4, <2>7, IndexIs
    <3>2. p \in Points /\ p \in column /\ Value(p) \in CellsAt(o)
      <4>1. p \in Points
        BY <1>1
      <4>2. Value(p) = p \div Quarters[MaxOrder - o]
        BY DEF Value
      <4> HIDE DEF o
      <4> QED
        BY <3>1, <4>1, <4>2, SpanIs
    <3>3. column \subseteq Region
      <4>1. p \in Region
        OBVIOUS
      <4> QED
        BY <1>0, <2>4, <2>7, <4>1, WholeOfMocs
    <3>4. part.order <= o
      <4> SUFFICES ASSUME ~ part.order <= o PROVE FALSE
        OBVIOUS
      <4>1. MaxOrder \in Nat
        BY SkyAssumption
      <4>2. part.order \in o .. MaxOrder
        BY <1>1, <3>1, <4>1
      <4>3. p \in Span(part.order, part.pixel)
        BY <1>1
      <4>4. Span(part.order, part.pixel) \subseteq column
        BY <1>1, <3>1, <3>2, <4>2, <4>3, SpansNest
      <4>5. cell \subseteq coverage.inner
        BY <1>1, <2>7, <3>3, <4>4 DEF Encloses
      <4> QED
        BY <1>0, <1>3, <4>5, CoverIs
    <3>5. column \subseteq cell
      <4>1. MaxOrder \in Nat
        BY SkyAssumption
      <4>2. o \in part.order .. MaxOrder
        BY <1>1, <3>1, <3>4, <4>1
      <4>3. p \in Span(part.order, part.pixel)
        BY <1>1
      <4> QED
        BY <1>1, <3>2, <4>2, <4>3, SpansNest
    <3>6. whole.inner = Region
      BY <2>2, <2>7 DEF Encloses
    <3> HIDE DEF column
    <3>7. column \subseteq cover.inner
      BY <2>3, <3>3, <3>5, <3>6
    <3> QED
      BY <3>7 DEF column
  <2> DEFINE known == Geometric = {} /\ Index # None =>
                       \A p \in Region \cap cell : Span(Index.order, Value(p)) \subseteq cover.inner
  <2>8. Told => known
    BY <2>7
  <2> HIDE DEF cell
  <2>9. cell \in SUBSET Points
    BY <1>1
  <2>10. /\ Passing(cell, cover) \subseteq cell \cap Region
         /\ Told /\ Region \cap cell \subseteq cover.outer /\ known
              => Region \cap cell \subseteq Passing(cell, cover)
    BY <1>0, <2>4, <2>5, <2>9, PassingIs
  <2> HIDE DEF known
  <2> QED
    BY <2>1, <2>6, <2>8, <2>10 DEF cell
<1> QED
  BY <1>2, <1>3

-----------------------------------------------------------------------------
(* The walk.                                                               *)

\* The list is in the order its partitions end in as well.
LEMMA ListIs ==
  ASSUME place \in Places, place.kind = "catalog", InSkyOrder(Tiles, list)
  PROVE  /\ list \in Seq(Tiles) /\ Len(list) \in Nat
         /\ \A i \in 1 .. Len(list) :
              /\ list[i] \in Tiles
              /\ Start(list[i]) \in Nat /\ End(list[i]) \in Nat /\ Start(list[i]) < End(list[i])
              /\ Cell(list[i]) = Start(list[i]) .. (End(list[i]) - 1)
         /\ \A i, j \in 1 .. Len(list) : i < j => End(list[i]) <= Start(list[j])
         /\ \A part \in Tiles : \E i \in 1 .. Len(list) : list[i] = part
<1>1. /\ list \in Seq(Tiles) /\ Len(list) \in Nat
      /\ \A i, j \in 1 .. Len(list) : i < j => Start(list[i]) < Start(list[j])
      /\ \A part \in Tiles : \E i \in 1 .. Len(list) : list[i] = part
  BY LenProperties DEF InSkyOrder
<1>2. \A i \in 1 .. Len(list) : list[i] \in Tiles
  BY <1>1, ElementOfSeq
<1> QED
  BY <1>1, <1>2, TilesAre

\* A search for where one range begins and one for where it ends find what it meets.
LEMMA RangeWalked ==
  ASSUME place \in Places, place.kind = "catalog", InSkyOrder(Tiles, list), Encloses(coverage),
         NEW a \in Nat, NEW b \in Nat, a < b, NEW e \in Nat, e <= a, cursor \in 0 .. Len(list),
         \A i \in 1 .. Len(list) : i <= cursor <=> Start(list[i]) < e,
         \A x \in a .. (b - 1) : x \in coverage.outer,
         \A x \in e .. (a - 1) : x \notin coverage.outer
  PROVE  LET from == Gallop(cursor, {part \in Range(list) : End(part) <= a})
             to == Gallop(from, {part \in Range(list) : Start(part) < b}) IN
         /\ from \in cursor .. Len(list) /\ to \in from .. Len(list)
         /\ \A i \in 1 .. Len(list) : i <= to <=> Start(list[i]) < b
         /\ \A i \in (cursor + 1) .. from : Cover(list[i]) = "outside"
         /\ \A i \in (from + 1) .. to : Cover(list[i]) # "outside"
<1> DEFINE gone == {part \in Range(list) : End(part) <= a}
           begun == {part \in Range(list) : Start(part) < b}
           from == Gallop(cursor, gone)
           to == Gallop(from, begun)
           n == Len(list)
<1>1. /\ list \in Seq(Tiles) /\ n \in Nat
      /\ \A i \in 1 .. n :
           /\ list[i] \in Tiles
           /\ Start(list[i]) \in Nat /\ End(list[i]) \in Nat /\ Start(list[i]) < End(list[i])
           /\ Cell(list[i]) = Start(list[i]) .. (End(list[i]) - 1)
      /\ \A i, j \in 1 .. n : i < j => End(list[i]) <= Start(list[j])
  BY ListIs
<1>2. /\ \A i \in 1 .. n : list[i] \in gone <=> End(list[i]) <= a
      /\ \A i \in 1 .. n : list[i] \in begun <=> Start(list[i]) < b
  <2>1. \A i \in 1 .. n : list[i] \in Range(list)
    BY <1>1, RangeIs
  <2> QED
    BY <2>1
<1> HIDE DEF gone, begun, n
<1>3. /\ from \in cursor .. n
      /\ \A i \in (cursor + 1) .. from : list[i] \in gone
      /\ \A i \in (from + 1) .. n : list[i] \notin gone
  <2>1. \A i, j \in (cursor + 1) .. n : i <= j /\ list[j] \in gone => list[i] \in gone
    <3> TAKE i, j \in (cursor + 1) .. n
    <3> HAVE i <= j /\ list[j] \in gone
    <3>1. i \in 1 .. n /\ j \in 1 .. n
      BY <1>1 DEF n
    <3>2. End(list[j]) <= a
      BY <1>2, <3>1
    <3>3. CASE i = j
      BY <3>3
    <3>4. CASE i < j
      <4>1. /\ End(list[i]) <= Start(list[j]) /\ Start(list[j]) < End(list[j])
            /\ End(list[i]) \in Nat /\ End(list[j]) \in Nat /\ Start(list[j]) \in Nat
        BY <1>1, <3>1, <3>4
      <4>2. End(list[i]) <= a
        BY <3>2, <4>1
      <4> QED
        BY <1>2, <3>1, <4>2
    <3>5. i = j \/ i < j
      BY <1>1, <3>1
    <3> QED
      BY <3>3, <3>4, <3>5
  <2> QED
    BY <1>1, <2>1, GallopIs DEF n
<1> HIDE DEF from
<1>4. /\ to \in from .. n
      /\ \A i \in (from + 1) .. to : list[i] \in begun
      /\ \A i \in (to + 1) .. n : list[i] \notin begun
  <2>1. \A i, j \in (from + 1) .. n : i <= j /\ list[j] \in begun => list[i] \in begun
    <3> TAKE i, j \in (from + 1) .. n
    <3> HAVE i <= j /\ list[j] \in begun
    <3>0. cursor \in 0 .. n
      BY DEF n
    <3>1. i \in 1 .. n /\ j \in 1 .. n
      BY <1>1, <1>3, <3>0
    <3>2. Start(list[j]) < b
      BY <1>2, <3>1
    <3>3. CASE i = j
      BY <3>3
    <3>4. CASE i < j
      <4>1. /\ End(list[i]) <= Start(list[j]) /\ Start(list[i]) < End(list[i])
            /\ End(list[i]) \in Nat /\ Start(list[i]) \in Nat /\ Start(list[j]) \in Nat
        BY <1>1, <3>1, <3>4
      <4>2. Start(list[i]) < b
        BY <3>2, <4>1
      <4> QED
        BY <1>2, <3>1, <4>2
    <3>5. i = j \/ i < j
      BY <1>1, <3>1
    <3> QED
      BY <3>3, <3>4, <3>5
  <2>2. from \in 0 .. n
    BY <1>1, <1>3 DEF n
  <2> QED
    BY <1>1, <2>1, <2>2, GallopIs DEF n
<1> HIDE DEF to
<1>5. /\ cursor \in 0 .. n /\ from \in 0 .. n /\ to \in 0 .. n /\ cursor <= from /\ from <= to
      /\ \A i \in 1 .. n : i <= cursor <=> Start(list[i]) < e
  BY <1>1, <1>3, <1>4 DEF n
<1>6. ASSUME NEW i \in 1 .. n PROVE i <= to <=> Start(list[i]) < b
  <2>0. Start(list[i]) \in Nat /\ End(list[i]) \in Nat /\ Start(list[i]) < End(list[i])
    BY <1>1
  <2>1. CASE i <= cursor
    <3>1. Start(list[i]) < e
      BY <1>5, <2>1
    <3> QED
      BY <1>5, <2>0, <2>1, <3>1
  <2>2. CASE i \in (cursor + 1) .. from
    <3>1. End(list[i]) <= a
      BY <1>2, <1>3, <2>2
    <3> QED
      BY <1>5, <2>0, <2>2, <3>1
  <2>3. CASE i \in (from + 1) .. to
    <3>1. Start(list[i]) < b
      BY <1>2, <1>4, <2>3
    <3> QED
      BY <2>3, <3>1
  <2>4. CASE i \in (to + 1) .. n
    <3>1. ~ Start(list[i]) < b
      BY <1>2, <1>4, <2>4
    <3> QED
      BY <1>5, <2>4, <3>1
  <2> QED
    BY <1>1, <1>5, <2>1, <2>2, <2>3, <2>4
<1>7. ASSUME NEW i \in (cursor + 1) .. from PROVE Cover(list[i]) = "outside"
  <2>0. i \in 1 .. n
    BY <1>1, <1>5
  <2>1. /\ Start(list[i]) \in Nat /\ End(list[i]) \in Nat /\ list[i] \in Tiles
        /\ Cell(list[i]) = Start(list[i]) .. (End(list[i]) - 1)
    BY <1>1, <2>0
  <2>2. End(list[i]) <= a
    BY <1>2, <1>3, <2>0
  <2>3. ~ Start(list[i]) < e
    BY <1>5, <2>0
  <2>4. \A x \in Cell(list[i]) : x \in e .. (a - 1)
    BY <2>1, <2>2, <2>3
  <2>5. ~ \E x \in Cell(list[i]) : x \in coverage.outer
    BY <2>4
  <2> QED
    BY <2>1, <2>5, CoverIs
<1>8. ASSUME NEW i \in (from + 1) .. to PROVE Cover(list[i]) # "outside"
  <2>0. i \in 1 .. n /\ i \in (from + 1) .. n
    BY <1>1, <1>5
  <2>1. /\ Start(list[i]) \in Nat /\ End(list[i]) \in Nat /\ list[i] \in Tiles
        /\ Start(list[i]) < End(list[i]) /\ Cell(list[i]) = Start(list[i]) .. (End(list[i]) - 1)
    BY <1>1, <2>0
  <2>2. ~ End(list[i]) <= a
    BY <1>2, <1>3, <2>0
  <2>3. Start(list[i]) < b
    BY <1>2, <1>4, <2>0
  <2> DEFINE x == IF Start(list[i]) < a THEN a ELSE Start(list[i])
  <2>4. x \in Cell(list[i]) /\ x \in a .. (b - 1)
    BY <2>1, <2>2, <2>3
  <2>5. \E y \in Cell(list[i]) : y \in coverage.outer
    BY <2>4
  <2> QED
    BY <2>1, <2>5, CoverIs
<1> QED
  BY <1>3, <1>4, <1>6, <1>7, <1>8 DEF from, to, gone, begun, n

\* The partitions up to a place in the list, those of them that the covering meets.
LEMMA MetIs ==
  ASSUME place \in Places, place.kind = "catalog", InSkyOrder(Tiles, list), NEW c \in 0 .. Len(list)
  PROVE  LET parts == Met({list[i] : i \in 1 .. c}) IN
         /\ parts \subseteq Tiles
         /\ \A x : x \in parts <=> \E i \in 1 .. c : x = list[i] /\ Cover(list[i]) # "outside"
<1>1. Len(list) \in Nat /\ \A i \in 1 .. Len(list) : list[i] \in Tiles
  BY ListIs
<1>2. \A i \in 1 .. c : i \in 1 .. Len(list)
  BY <1>1
<1> QED
  BY <1>1, <1>2 DEF Met

\* A function over the first numbers is a list.
LEMMA ListOf ==
  ASSUME NEW S, NEW n \in Nat, NEW g \in [1 .. n -> S]
  PROVE  g \in Seq(S) /\ Len(g) = n
<1>1. g \in Seq(S)
  OBVIOUS
<1> QED
  BY <1>1, LenProperties

\* What is met of the list is put after what was reached.
LEMMA ReachedMore ==
  ASSUME place \in Places, place.kind = "catalog", InSkyOrder(Tiles, list), Encloses(coverage),
         NEW c \in 0 .. Len(list), NEW f \in c .. Len(list), NEW t \in f .. Len(list), NEW l,
         Reaches(Met({list[i] : i \in 1 .. c}), l),
         \A i \in (c + 1) .. f : Cover(list[i]) = "outside",
         \A i \in (f + 1) .. t : Cover(list[i]) # "outside"
  PROVE  LET met == SubSeq(list, f + 1, t) IN
         Reaches(Met({list[i] : i \in 1 .. t}),
                 l \o [i \in DOMAIN met |-> [part |-> met[i], cover |-> Cover(met[i])]])
<1> DEFINE met == SubSeq(list, f + 1, t)
           more == [i \in DOMAIN met |-> [part |-> met[i], cover |-> Cover(met[i])]]
           old == Met({list[i] : i \in 1 .. c})
           new == Met({list[i] : i \in 1 .. t})
           kinds == {"inside", "boundary", "outside"}
           Old == [part : old, cover : kinds]
           New == [part : new, cover : kinds]
           m == Len(l)
           n == Len(list)
           both == l \o more
<1>1. /\ n \in Nat /\ c \in 0 .. n /\ f \in 0 .. n /\ t \in 0 .. n /\ c <= f /\ f <= t
      /\ list \in Seq(Tiles) /\ \A i \in 1 .. n : list[i] \in Tiles
      /\ \A i, j \in 1 .. n : i < j => Start(list[i]) < Start(list[j])
  <2>1. n \in Nat /\ list \in Seq(Tiles) /\ \A i \in 1 .. n : list[i] \in Tiles
    BY ListIs
  <2>2. \A i, j \in 1 .. n : i < j => Start(list[i]) < Start(list[j])
    BY DEF InSkyOrder
  <2> HIDE DEF n
  <2>3. c \in 0 .. n /\ f \in c .. n /\ t \in f .. n
    BY DEF n
  <2> QED
    BY <2>1, <2>2, <2>3
<1>2. /\ old \subseteq Tiles
      /\ \A x : x \in old <=> \E i \in 1 .. c : x = list[i] /\ Cover(list[i]) # "outside"
  BY MetIs
<1>3. /\ new \subseteq Tiles
      /\ \A x : x \in new <=> \E i \in 1 .. t : x = list[i] /\ Cover(list[i]) # "outside"
  <2>1. t \in 0 .. Len(list)
    BY <1>1
  <2> QED
    BY <2>1, MetIs
<1>4. /\ l \in Seq(Old) /\ m \in Nat
      /\ \A i \in 1 .. m : l[i] \in Old /\ l[i].cover = Cover(l[i].part)
      /\ \A i, j \in 1 .. m : i < j => Start(l[i].part) < Start(l[j].part)
      /\ \A x \in old : \E i \in 1 .. m : l[i].part = x
  <2> DEFINE parts == [i \in 1 .. m |-> l[i].part]
  <2>1. /\ l \in Seq(Old) /\ InSkyOrder(old, parts)
        /\ \A i \in 1 .. m : l[i].cover = Cover(l[i].part)
    BY DEF Reaches
  <2> HIDE DEF Old, old
  <2>2. m \in Nat /\ \A i \in 1 .. m : l[i] \in Old
    BY <2>1, LenProperties, ElementOfSeq
  <2>3. parts \in Seq(old) /\ \A i \in 1 .. m : parts[i] = l[i].part
    BY <2>1 DEF InSkyOrder
  <2>4. Len(parts) = m
    BY <2>2, <2>3, LenProperties
  <2> HIDE DEF parts
  <2>5. /\ \A i, j \in 1 .. m : i < j => Start(parts[i]) < Start(parts[j])
        /\ \A x \in old : \E i \in 1 .. m : parts[i] = x
    BY <2>1, <2>4 DEF InSkyOrder
  <2>6. \A i \in 1 .. m : l[i] \in Old /\ l[i].cover = Cover(l[i].part)
    BY <2>1, <2>2
  <2> HIDE DEF m
  <2>7. \A i, j \in 1 .. m : i < j => Start(l[i].part) < Start(l[j].part)
    BY <2>3, <2>5
  <2>8. \A x \in old : \E i \in 1 .. m : l[i].part = x
    BY <2>3, <2>5
  <2> QED
    BY <2>1, <2>2, <2>6, <2>7, <2>8
<1> HIDE DEF old, new, kinds
<1>5. /\ met \in Seq(Tiles) /\ Len(met) = t - f
      /\ \A i \in 1 .. (t - f) : met[i] = list[f + i]
  <2>1. \A i \in (f + 1) .. t : list[i] \in Tiles
    BY <1>1
  <2>2. f + 1 \in Int /\ t \in Int /\ f \in Int /\ f <= t
    BY <1>1
  <2> HIDE DEF n
  <2>3. /\ met \in Seq(Tiles)
        /\ Len(met) = IF f + 1 <= t THEN t - (f + 1) + 1 ELSE 0
        /\ \A i \in 1 .. (t - (f + 1) + 1) : met[i] = list[(f + 1) + i - 1]
    BY <2>1, <2>2, SubSeqProperties
  <2> HIDE DEF met
  <2>4. Len(met) = t - f /\ t - (f + 1) + 1 = t - f
    BY <2>2, <2>3
  <2>5. \A i \in 1 .. (t - f) : (f + 1) + i - 1 = f + i
    BY <2>2
  <2> QED
    BY <2>3, <2>4, <2>5
<1> HIDE DEF met, n
<1>6. /\ more \in Seq(New) /\ Len(more) = t - f
      /\ \A i \in 1 .. (t - f) : more[i].part = list[f + i] /\ more[i].cover = Cover(list[f + i])
  <2>1. DOMAIN met = 1 .. (t - f)
    BY <1>5, LenProperties
  <2>2. ASSUME NEW i \in 1 .. (t - f) PROVE [part |-> met[i], cover |-> Cover(met[i])] \in New
    <3>1. f + i \in (f + 1) .. t /\ f + i \in 1 .. t /\ f + i \in 1 .. n
      BY <1>1
    <3>2. met[i] = list[f + i] /\ list[f + i] \in Tiles /\ Cover(list[f + i]) # "outside"
      BY <1>1, <1>5, <3>1
    <3>3. met[i] \in new
      BY <1>3, <3>1, <3>2
    <3>4. Cover(met[i]) \in kinds
      BY <3>2, CoverIs DEF kinds
    <3> QED
      BY <3>3, <3>4
  <2>3. more = [i \in 1 .. (t - f) |-> [part |-> met[i], cover |-> Cover(met[i])]]
    BY <2>1
  <2>4. t - f \in Nat
    BY <1>1
  <2>5. more \in [1 .. (t - f) -> New]
    BY <2>2, <2>3
  <2>6. more \in Seq(New) /\ Len(more) = t - f
    <3> DEFINE d == t - f
    <3>1. d \in Nat /\ more \in [1 .. d -> New]
      BY <2>4, <2>5
    <3> HIDE DEF d, more, New
    <3>2. more \in Seq(New) /\ Len(more) = d
      BY <3>1, ListOf
    <3> QED
      BY <3>2 DEF d
  <2>7. \A i \in 1 .. (t - f) : more[i] = [part |-> met[i], cover |-> Cover(met[i])]
    BY <2>3
  <2> HIDE DEF more, New
  <2>9. ASSUME NEW i \in 1 .. (t - f)
        PROVE  more[i].part = list[f + i] /\ more[i].cover = Cover(list[f + i])
    <3>1. met[i] = list[f + i]
      BY <1>5
    <3>2. more[i].part = met[i] /\ more[i].cover = Cover(met[i])
      <4>1. more[i] = [part |-> met[i], cover |-> Cover(met[i])]
        BY <2>7
      <4> QED
        BY <4>1
    <3> QED
      BY <3>1, <3>2
  <2> QED
    BY <2>6, <2>9
<1>7. l \in Seq(New) /\ \A x \in old : x \in new
  <2>1. \A x \in old : x \in new
    <3>1. \A i \in 1 .. c : i \in 1 .. t
      BY <1>1
    <3> QED
      BY <1>2, <1>3, <3>1
  <2>2. Old \subseteq New
    BY <2>1
  <2> HIDE DEF Old, New
  <2> QED
    BY <1>4, <2>1, <2>2, SeqOfSubset
<1> HIDE DEF Old, New, more
<1>8. /\ both \in Seq(New) /\ Len(both) = m + (t - f)
      /\ \A i \in 1 .. m : both[i] = l[i]
      /\ \A i \in 1 .. (m + (t - f)) : ~ i <= m => i - m \in 1 .. (t - f) /\ both[i] = more[i - m]
      /\ \A i \in 1 .. (t - f) : m + i \in 1 .. (m + (t - f)) /\ both[m + i] = more[i]
  <2>1. /\ both \in Seq(New) /\ Len(both) = m + Len(more)
        /\ \A i \in 1 .. m : both[i] = l[i]
        /\ \A i \in 1 .. Len(both) : ~ i <= m => i - m \in 1 .. Len(more) /\ both[i] = more[i - m]
    <3>1. l \in Seq(New) /\ more \in Seq(New)
      BY <1>6, <1>7
    <3>2. /\ l \o more \in Seq(New) /\ Len(l \o more) = Len(l) + Len(more)
          /\ \A i \in 1 .. Len(l) : (l \o more)[i] = l[i]
          /\ \A i \in 1 .. Len(l \o more) : ~ i <= Len(l) =>
               i - Len(l) \in 1 .. Len(more) /\ (l \o more)[i] = more[i - Len(l)]
      BY <3>1, ConcatPlaces
    <3> QED
      BY <3>2
  <2> HIDE DEF both
  <2>2. ASSUME NEW i \in 1 .. (t - f) PROVE m + i \in 1 .. (m + (t - f)) /\ both[m + i] = more[i]
    <3>1. m + i \in 1 .. (m + (t - f)) /\ ~ m + i <= m /\ (m + i) - m = i
      BY <1>1, <1>4
    <3> QED
      BY <1>6, <2>1, <3>1
  <2> QED
    BY <1>6, <2>1, <2>2
<1> DEFINE k == m + (t - f)
<1>k. k \in Nat /\ t - f \in Nat
  BY <1>1, <1>4
<1> HIDE DEF both
<1>9. ASSUME NEW i \in 1 .. k
      PROVE  /\ both[i].part \in new /\ both[i].cover = Cover(both[i].part)
             /\ ~ i <= m => i - m \in 1 .. (t - f) /\ both[i].part = list[f + (i - m)]
             /\ i <= m => both[i] = l[i]
  <2>1. both[i] \in New
    BY <1>8, <1>k, ElementOfSeq
  <2>2. CASE i <= m
    BY <1>4, <1>8, <1>k, <2>1, <2>2 DEF New
  <2>3. CASE ~ i <= m
    <3>1. i - m \in 1 .. (t - f) /\ both[i] = more[i - m]
      BY <1>8, <2>3
    <3> QED
      BY <1>6, <2>1, <2>3, <3>1 DEF New
  <2> QED
    BY <2>2, <2>3
<1>10. ASSUME NEW i \in 1 .. k, NEW j \in 1 .. k, i < j
       PROVE  Start(both[i].part) < Start(both[j].part)
  <2>1. CASE j <= m
    <3>1. i \in 1 .. m /\ j \in 1 .. m /\ i <= m
      BY <1>4, <1>10, <1>k, <2>1
    <3> QED
      BY <1>4, <1>9, <1>10, <2>1, <3>1
  <2>2. CASE ~ j <= m /\ i <= m
    <3>1. both[i] = l[i] /\ l[i] \in Old /\ i \in 1 .. m
      BY <1>4, <1>9, <1>k, <2>2
    <3>2. PICK a \in 1 .. c : l[i].part = list[a]
      BY <1>2, <3>1 DEF Old
    <3>3. j - m \in 1 .. (t - f) /\ both[j].part = list[f + (j - m)]
      BY <1>9, <2>2
    <3>4. a \in 1 .. n /\ f + (j - m) \in 1 .. n /\ a < f + (j - m)
      BY <1>1, <1>4, <3>3
    <3> QED
      BY <1>1, <3>1, <3>2, <3>3, <3>4
  <2>3. CASE ~ j <= m /\ ~ i <= m
    <3>1. /\ i - m \in 1 .. (t - f) /\ both[i].part = list[f + (i - m)]
          /\ j - m \in 1 .. (t - f) /\ both[j].part = list[f + (j - m)]
      BY <1>9, <2>3
    <3>2. f + (i - m) \in 1 .. n /\ f + (j - m) \in 1 .. n /\ f + (i - m) < f + (j - m)
      BY <1>1, <1>4, <1>10, <3>1
    <3> QED
      BY <1>1, <3>1, <3>2
  <2>4. j <= m \/ (~ j <= m /\ i <= m) \/ (~ j <= m /\ ~ i <= m)
    OBVIOUS
  <2> QED
    BY <2>1, <2>2, <2>3, <2>4
<1>11. ASSUME NEW x \in new PROVE \E i \in 1 .. k : both[i].part = x
  <2>1. PICK a \in 1 .. t : x = list[a] /\ Cover(list[a]) # "outside"
    BY <1>3
  <2>2. CASE a <= c
    <3>1. x \in old
      BY <1>1, <1>2, <2>1, <2>2
    <3>2. PICK i \in 1 .. m : l[i].part = x
      BY <1>4, <3>1
    <3>3. i \in 1 .. k /\ both[i] = l[i]
      BY <1>4, <1>8, <1>k
    <3> QED
      BY <3>2, <3>3
  <2>3. CASE a \in (c + 1) .. f
    BY <2>1, <2>3
  <2>4. CASE a \in (f + 1) .. t
    <3>1. a - f \in 1 .. (t - f) /\ f + (a - f) = a
      BY <1>1, <2>4
    <3>2. more[a - f].part = x /\ m + (a - f) \in 1 .. k /\ both[m + (a - f)] = more[a - f]
      BY <1>6, <1>8, <2>1, <3>1
    <3> QED
      BY <3>2
  <2> QED
    BY <1>1, <2>2, <2>3, <2>4
<1> DEFINE parts == [i \in 1 .. Len(both) |-> both[i].part]
<1>12. InSkyOrder(new, parts)
  <2>1. Len(both) = k
    BY <1>8
  <2>2. parts = [i \in 1 .. k |-> both[i].part]
    BY <2>1
  <2> HIDE DEF k
  <2>3. parts \in [1 .. k -> new] /\ \A i \in 1 .. k : parts[i] = both[i].part
    BY <1>9, <2>2
  <2> HIDE DEF parts
  <2>4. /\ \A i, j \in 1 .. k : i < j => Start(parts[i]) < Start(parts[j])
        /\ \A x \in new : \E i \in 1 .. k : parts[i] = x
    BY <1>10, <1>11, <2>3
  <2>5. parts \in [1 .. k -> new]
    BY <2>3
  <2> HIDE DEF new
  <2>6. k \in Nat
    BY <1>k
  <2>7. parts \in Seq(new) /\ Len(parts) = k
    BY <2>5, <2>6, ListOf
  <2> QED
    BY <2>4, <2>7 DEF InSkyOrder
<1>13. \A i \in 1 .. Len(both) : both[i].cover = Cover(both[i].part)
  BY <1>8, <1>9
<1>14. Reaches(new, both)
  <2>1. both \in Seq([part : new, cover : {"inside", "boundary", "outside"}])
    BY <1>8 DEF New, kinds
  <2> HIDE DEF new
  <2> QED
    BY <1>12, <1>13, <2>1 DEF Reaches
<1> QED
  BY <1>14 DEF new, both, more, met

\* The ranges of a covering one after the other, with nothing of it between two of them.
LEMMA RangesApart ==
  ASSUME NEW points \in SUBSET Points, NEW k \in 0 .. Len(Stretches(points))
  PROVE  LET all == Stretches(points)
             e == IF k = 0 THEN 0 ELSE all[k][2] IN
         /\ Len(all) \in Nat /\ all \in Seq(Ranges(points)) /\ e \in Nat
         /\ k = Len(all) => \A x \in points : x < e
         /\ k < Len(all) =>
              LET a == all[k + 1][1]
                  b == all[k + 1][2] IN
              /\ a \in Nat /\ b \in Nat /\ a < b /\ e <= a
              /\ \A x \in a .. (b - 1) : x \in points
              /\ \A x \in e .. (a - 1) : x \notin points
<1> DEFINE all == Stretches(points)
           m == Len(all)
           e == IF k = 0 THEN 0 ELSE all[k][2]
           n == Base * Quarters[MaxOrder] - 1
           R == Ranges(points)
<1>1. n \in Nat /\ points \in SUBSET (0 .. n)
  <2> DEFINE q == Base * Quarters[MaxOrder]
  <2>1. q \in Nat \ {0} /\ Points = 0 .. (q - 1)
    BY PointsAre
  <2> HIDE DEF q
  <2>2. q - 1 \in Nat
    BY <2>1
  <2> QED
    BY <2>1, <2>2 DEF q
<1> HIDE DEF n
<1>2. /\ all \in Seq(R) /\ \A i, j \in 1 .. m : i < j => all[i][2] < all[j][1]
      /\ \A r \in R : \E i \in 1 .. m : all[i] = r
  BY <1>1, StretchesAre
<1>3. /\ \A r \in R : /\ r[1] \in 0 .. n /\ r[2] \in 1 .. (n + 1) /\ r[1] < r[2]
                      /\ \A x \in r[1] .. (r[2] - 1) : x \in points
      /\ \A x \in points : \E r \in R : r[1] <= x /\ x < r[2]
  BY <1>1, RangesAre
<1>k. k \in 0 .. m
  OBVIOUS
<1> HIDE DEF all, R
<1>4. m \in Nat /\ \A i \in 1 .. m : all[i] \in R
  BY <1>2, LenProperties, ElementOfSeq
<1> HIDE DEF m
<1>5. \A i \in 1 .. m : /\ all[i][1] \in Nat /\ all[i][2] \in Nat /\ all[i][1] < all[i][2]
                        /\ \A x \in all[i][1] .. (all[i][2] - 1) : x \in points
  <2>1. ASSUME NEW i \in 1 .. m
        PROVE  /\ all[i][1] \in 0 .. n /\ all[i][2] \in 1 .. (n + 1) /\ all[i][1] < all[i][2]
               /\ \A x \in all[i][1] .. (all[i][2] - 1) : x \in points
    <3> DEFINE r == all[i]
    <3>1. r \in R
      BY <1>4
    <3> HIDE DEF r
    <3>2. /\ r[1] \in 0 .. n /\ r[2] \in 1 .. (n + 1) /\ r[1] < r[2]
          /\ \A x \in r[1] .. (r[2] - 1) : x \in points
      BY <1>3, <3>1
    <3> QED
      BY <3>2 DEF r
  <2> QED
    BY <1>1, <2>1
<1>6. \A x \in points : \E i \in 1 .. m : all[i][1] <= x /\ x < all[i][2]
  <2> TAKE x \in points
  <2>1. PICK r \in R : r[1] <= x /\ x < r[2]
    BY <1>3
  <2>2. PICK i \in 1 .. m : all[i] = r
    BY <1>2, <2>1
  <2> QED
    BY <2>1, <2>2
<1>7. e \in Nat
  BY <1>5, <1>k, <1>4
<1>8. ASSUME k = m, NEW x \in points PROVE x < e
  <2>1. PICK i \in 1 .. m : all[i][1] <= x /\ x < all[i][2]
    BY <1>6
  <2>2. k # 0 /\ m \in 1 .. m /\ e = all[m][2]
    BY <1>4, <1>8, <2>1
  <2>3. i = m \/ all[i][2] < all[m][1]
    <3>1. i = m \/ i < m
      BY <1>4
    <3> QED
      BY <1>2, <2>2, <3>1
  <2> HIDE DEF e
  <2>4. x \in Int
    BY <1>1
  <2> QED
    BY <1>5, <2>1, <2>2, <2>3, <2>4
<1>9. ASSUME k < m
      PROVE  LET a == all[k + 1][1]
                 b == all[k + 1][2] IN
             /\ a \in Nat /\ b \in Nat /\ a < b /\ e <= a
             /\ \A x \in a .. (b - 1) : x \in points
             /\ \A x \in e .. (a - 1) : x \notin points
  <2> DEFINE j == k + 1
             a == all[j][1]
             b == all[j][2]
  <2>1. j \in 1 .. m /\ \A i \in 1 .. m : i < j <=> i <= k
    BY <1>4, <1>k, <1>9
  <2>2. \A i \in 1 .. m : (i < j => all[i][2] < a) /\ (j < i => all[j][2] < all[i][1])
    BY <1>2, <2>1 DEF m
  <2>3. a \in Nat /\ b \in Nat /\ a < b /\ \A x \in a .. (b - 1) : x \in points
    BY <1>5, <2>1
  <2>4. e <= a
    <3>1. CASE k = 0
      BY <2>3, <3>1
    <3>2. CASE k # 0
      <4>1. k \in 1 .. m /\ k < j
        BY <1>k, <1>4, <3>2
      <4> QED
        BY <1>5, <2>2, <2>3, <3>2, <4>1
    <3> QED
      BY <3>1, <3>2
  <2>5. ASSUME NEW x \in e .. (a - 1), x \in points PROVE FALSE
    <3>1. PICK i \in 1 .. m : all[i][1] <= x /\ x < all[i][2]
      BY <1>6, <2>5
    <3>2. x \in Int /\ e <= x /\ x < a
      BY <1>7, <2>3
    <3>3. CASE i <= k
      <4>1. k \in 1 .. m /\ e = all[k][2]
        BY <1>k, <1>4, <3>3
      <4>2. i = k \/ all[i][2] < all[k][1]
        BY <1>2, <3>3, <4>1 DEF m
      <4> HIDE DEF e
      <4> QED
        BY <1>5, <3>1, <3>2, <4>1, <4>2
    <3>4. CASE i = j
      BY <3>1, <3>2, <3>4, <2>3
    <3>5. CASE j < i
      <4>1. b < all[i][1]
        BY <2>2, <3>5
      <4> HIDE DEF e, a, b
      <4>2. all[i][1] \in Nat
        BY <1>5
      <4> QED
        BY <2>3, <3>1, <3>2, <4>1, <4>2
    <3>6. i <= k \/ i = j \/ j < i
      BY <1>4, <1>k
    <3> QED
      BY <3>3, <3>4, <3>5, <3>6
  <2> QED
    BY <2>3, <2>4, <2>5
<1> QED
  BY <1>2, <1>4, <1>7, <1>8, <1>9 DEF m, e, all, R

-----------------------------------------------------------------------------
(* The steps of a request.                                                 *)

\* What is asked and where is settled before the first step.
LEMMA SkyStays ==
  ASSUME sky' = sky
  PROVE  /\ regions' = regions /\ place' = place /\ signed' = signed /\ loose' = loose
         /\ Region' = Region /\ Geometric' = Geometric /\ Told' = Told
         /\ Tiles' = Tiles /\ Held' = Held
<1>1. regions' = regions /\ place' = place /\ signed' = signed /\ loose' = loose
  BY DEF sky
<1>2. Shapes' = Shapes
  BY <1>1 DEF Shapes
<1>3. Region' = Region
  BY <1>2 DEF Region
<1>4. Geometric' = Geometric
  BY <1>2 DEF Geometric
<1>5. Index' = Index
  BY <1>1 DEF Index
<1>6. Resolved' = Resolved
  BY <1>2, <1>5 DEF Resolved, Value
<1>7. Unsplit' = Unsplit
  BY <1>1, <1>2 DEF Unsplit
<1>8. Told' = Told
  BY <1>2, <1>4, <1>6, <1>7 DEF Told, Unmixed
<1>9. Tiles' = Tiles /\ Held' = Held
  BY <1>1 DEF Tiles, Held
<1> QED
  BY <1>1, <1>3, <1>4, <1>8, <1>9

\* Nor does how much of a partition is covered change once the covering is there.
LEMMA CoverStays ==
  ASSUME sky' = sky, coverage' = coverage
  PROVE  /\ Encloses(coverage)' = Encloses(coverage)
         /\ \A part : Cover(part)' = Cover(part)
  BY SkyStays DEF Encloses, Cover

\* The rows of a file.
LEMMA RegionOfFile ==
  ASSUME RegionTypeOK, ~ Refused
  PROVE  LET rowsThere == Passing(Points, Coverage([of |-> "file"])) IN
         rowsThere \subseteq Region /\ (Told => Region \subseteq rowsThere)
<1> DEFINE cover == Coverage([of |-> "file"])
           known == Geometric = {} /\ Index # None =>
                      \A p \in Region \cap Points :
                        Span(Index.order, Value(p)) \subseteq cover.inner
<1>1. regions \in Regions /\ place \in Places /\ signed \in BOOLEAN
  BY DEF RegionTypeOK
<1>2. Encloses(cover)
  <2> DEFINE d == [of |-> "file"]
  <2>1. IsDetail(d)
    BY DEF IsDetail
  <2> HIDE DEF d
  <2>2. Encloses(Coverage(d))
    BY <1>1, <2>1, CoverageEncloses
  <2> QED
    BY <2>2 DEF d
<1> HIDE DEF cover
<1>3. /\ cover.inner \subseteq Region /\ cover.outer \in SUBSET Points
      /\ Region \cap Points \subseteq cover.outer
      /\ Geometric = {} => cover.inner = Region
  BY <1>2 DEF Encloses
<1>4. Told => known
  BY <1>1, <1>3, WholeOfMocs
<1>5. Points \in SUBSET Points
  OBVIOUS
<1>6. /\ Passing(Points, cover) \subseteq Points \cap Region
      /\ Told /\ Region \cap Points \subseteq cover.outer /\ known
           => Region \cap Points \subseteq Passing(Points, cover)
  BY <1>1, <1>3, <1>5, PassingIs
<1>7. Region \subseteq Points
  BY DEF Region
<1> HIDE DEF known
<1> QED
  BY <1>3, <1>4, <1>6, <1>7 DEF cover

\* Nothing is reached of no partitions.
LEMMA NothingReached ==
  InSkyOrder({}, [i \in 1 .. Len(<<>>) |-> <<>>[i].part]) /\ \A S : <<>> \in Seq(S)
<1>2. \A S : <<>> \in Seq(S)
  OBVIOUS
<1>3. Len(<<>>) = 0
  OBVIOUS
<1> DEFINE parts == [i \in 1 .. 0 |-> <<>>[i].part]
<1>4. parts = <<>>
  OBVIOUS
<1> HIDE DEF parts
<1>5. InSkyOrder({}, parts)
  BY <1>2, <1>3, <1>4 DEF InSkyOrder
<1> QED
  BY <1>2, <1>3, <1>5 DEF parts

LEMMA RegionStarts ==
  InitRegion => RegionInv
BY DEF InitRegion, RegionInv, RegionTypeOK, BeforeAnything, Listed, Walking, Reading, RowsOfTheRegion

\* A catalog's partitions are listed, and the covering they are walked by is made.
LEMMA ResolveKeeps ==
  ASSUME RegionInv, Resolve
  PROVE  RegionInv'
<1>1. /\ RegionTypeOK /\ at = "asked" /\ place.kind = "catalog"
      /\ cursor = 0 /\ reached = <<>> /\ rows = {}
      /\ sky' = sky /\ cursor' = cursor /\ reached' = reached /\ rows' = rows
  BY DEF RegionInv, BeforeAnything, Resolve
<1>2. /\ regions \in Regions /\ place \in Places /\ regions' = regions /\ place' = place
      /\ Region' = Region /\ Geometric' = Geometric /\ Tiles' = Tiles
  BY <1>1, SkyStays DEF RegionTypeOK
<1>3. at' \in {"refused", "walking"}
  BY DEF Resolve
<1>4. RegionTypeOK'
  BY <1>1, <1>3, SkyStays DEF RegionTypeOK
<1>5. BeforeAnything' /\ Reading' /\ RowsOfTheRegion'
  BY <1>3 DEF BeforeAnything, Reading, RowsOfTheRegion
<1>6. CASE at' = "refused"
  BY <1>4, <1>5, <1>6 DEF RegionInv, Listed, Walking
<1>7. CASE at' # "refused"
  <2>1. /\ Discovered(place.source).ok /\ list' = Sorted(Discovered(place.source).cells)
        /\ coverage' = Coverage([of |-> "partitions", order |-> CatalogOrder(list')])
        /\ walk' = Stretches(coverage'.outer)
    BY <1>7 DEF Resolve
  <2>2. Discovered(place.source).cells = Tiles
    BY <1>1, <1>2, <2>1, PlacesAssumption DEF Tiles
  <2>3. Tiles \in SUBSET SkyCells /\ IsFiniteSet(Tiles)
        /\ \A a, b \in Tiles : Start(a) = Start(b) => a = b
    BY <1>1, <1>2, TilesAre
  <2>4. InSkyOrder(Tiles, list')
    BY <2>1, <2>2, <2>3, SkyOrderIs
  <2>5. CatalogOrder(list') \in Nat
    <3> DEFINE orders == {0} \cup {part.order : part \in Range(list')}
    <3>1. list' \in Seq(Tiles)
      BY <2>4 DEF InSkyOrder
    <3>2. Range(list') \subseteq Tiles
      BY <3>1, RangeIs
    <3>3. \A part \in Tiles : part.order \in 0 .. MaxOrder
      BY <2>3 DEF SkyCells
    <3>4. MaxOrder \in Nat
      BY SkyAssumption
    <3>5. orders \in SUBSET (0 .. MaxOrder) /\ orders # {}
      BY <3>2, <3>3, <3>4
    <3>6. CatalogOrder(list') = Max(orders)
      BY DEF CatalogOrder
    <3> HIDE DEF orders
    <3>7. Max(orders) \in orders
      BY <3>4, <3>5, MaxIs
    <3>8. Max(orders) \in 0 .. MaxOrder
      BY <3>5, <3>7
    <3>9. \A x \in 0 .. MaxOrder : x \in Nat
      BY <3>4
    <3> QED
      BY <3>6, <3>8, <3>9
  <2>6. Encloses(coverage')
    <3> DEFINE d == [of |-> "partitions", order |-> CatalogOrder(list')]
    <3>1. IsDetail(d)
      BY <2>5 DEF IsDetail
    <3>2. coverage' = Coverage(d)
      BY <2>1
    <3> HIDE DEF d
    <3> QED
      BY <1>2, <3>1, <3>2, CoverageEncloses
  <2>7. Encloses(coverage)'
    BY <1>2, <2>6 DEF Encloses
  <2>8. InSkyOrder(Tiles, list)'
    BY <1>2, <2>4 DEF InSkyOrder
  <2>9. Listed'
    BY <1>1, <1>2, <2>7, <2>8 DEF Listed
  <2>10. Walking'
    <3> DEFINE points == coverage'.outer
               all == Stretches(points)
    <3>1. points \in SUBSET Points
      BY <2>6 DEF Encloses
    <3>2. Len(all) \in Nat /\ all \in Seq(Ranges(points))
      BY <3>1, RangesApart
    <3>3. Stretches(coverage.outer)' = all /\ Ranges(coverage.outer)' = Ranges(points) /\ walk' = all
      BY <2>1
    <3> HIDE DEF points, all
    <3>4. Ended' = 0
      BY <3>3 DEF Ended
    <3>5. Len(list') \in Nat /\ \A i \in 1 .. Len(list') : Start(list'[i]) \in Nat
      <4>1. list' \in Seq(Tiles)
        BY <2>4 DEF InSkyOrder
      <4>2. Len(list') \in Nat /\ \A i \in 1 .. Len(list') : list'[i] \in Tiles
        BY <4>1, LenProperties, ElementOfSeq
      <4> QED
        BY <1>1, <1>2, <4>2, TilesAre
    <3>6. cursor' = 0 /\ rows' = {} /\ reached' = <<>>
      BY <1>1
    <3>7. /\ walk' \in Seq(Ranges(coverage.outer)')
          /\ Len(walk') <= Len(Stretches(coverage.outer)')
          /\ \A j \in 1 .. Len(walk') : walk'[j] = all[Len(all) - Len(walk') + j]
      <4>1. \A j \in 1 .. Len(all) : Len(all) - Len(all) + j = j
        BY <3>2
      <4> QED
        BY <3>2, <3>3, <4>1
    <3>8. cursor' \in 0 .. Len(list')
          /\ \A i \in 1 .. Len(list') : i <= cursor' <=> Start(list'[i]) < Ended'
      BY <3>4, <3>5, <3>6
    <3>9. Reaches(Met({list[i] : i \in 1 .. cursor}), reached)'
      <4>1. Met({list[i] : i \in 1 .. cursor})' = {}
        BY <3>6 DEF Met
      <4>2. Len(<<>>) = 0
        OBVIOUS
      <4>3. InSkyOrder({}, [i \in 1 .. Len(reached') |-> reached'[i].part])
        BY <3>6, NothingReached
      <4>4. \A i \in 1 .. Len(reached') : reached'[i].cover = Cover(reached[i].part)'
        BY <3>6, <4>2
      <4>5. \A S : reached' \in Seq(S)
        BY <3>6, NothingReached
      <4> QED
        BY <4>1, <4>3, <4>4, <4>5 DEF Reaches
    <3> QED
      BY <3>3, <3>6, <3>7, <3>8, <3>9 DEF Walking
  <2> QED
    BY <1>4, <1>5, <2>9, <2>10 DEF RegionInv
<1> QED
  BY <1>6, <1>7

\* A range is walked.
LEMMA StepKeeps ==
  ASSUME RegionInv, Step
  PROVE  RegionInv'
<1> DEFINE points == coverage.outer
           all == Stretches(points)
           k == Len(all) - Len(walk)
           range == Head(walk)
           a == range[1]
           b == range[2]
           from == Gallop(cursor, {part \in Range(list) : End(part) <= a})
           to == Gallop(from, {part \in Range(list) : Start(part) < b})
           met == SubSeq(list, from + 1, to)
<1>1. /\ RegionTypeOK /\ at = "walking" /\ at' = at /\ walk # <<>> /\ rows = {}
      /\ place.kind = "catalog" /\ InSkyOrder(Tiles, list) /\ Encloses(coverage)
      /\ sky' = sky /\ list' = list /\ coverage' = coverage /\ rows' = rows
      /\ walk' = Tail(walk) /\ cursor' = to
      /\ reached' = reached \o [i \in DOMAIN met |-> [part |-> met[i], cover |-> Cover(met[i])]]
  BY DEF RegionInv, Listed, Walking, Step, Resumes
<1>2. /\ walk \in Seq(Ranges(points)) /\ Len(walk) <= Len(all)
      /\ \A j \in 1 .. Len(walk) : walk[j] = all[Len(all) - Len(walk) + j]
      /\ cursor \in 0 .. Len(list)
      /\ \A i \in 1 .. Len(list) : i <= cursor <=> Start(list[i]) < Ended
      /\ Reaches(Met({list[i] : i \in 1 .. cursor}), reached)
  BY <1>1 DEF RegionInv, Walking
<1>3. place \in Places /\ points \in SUBSET Points
  BY <1>1 DEF RegionTypeOK, Encloses
<1>4. /\ Len(walk) \in Nat \ {0} /\ range = walk[1]
      /\ walk' \in Seq(Ranges(points)) /\ Len(walk') = Len(walk) - 1
      /\ \A j \in 1 .. (Len(walk) - 1) : walk'[j] = walk[j + 1]
  <2>1. walk \in Seq(Ranges(points)) /\ walk # <<>>
    BY <1>1, <1>2
  <2> HIDE DEF points
  <2> QED
    BY <1>1, <2>1, HeadTailProperties, LenProperties, EmptySeq
<1>5. Ended = IF k = 0 THEN 0 ELSE all[k][2]
  <2>1. Ended = IF Len(walk) = Len(all) THEN 0 ELSE all[k][2]
    BY DEF Ended
  <2>2. Len(all) \in Nat
    <3>1. 0 \in 0 .. Len(all)
      BY <1>2, <1>4, <1>3, LenProperties, StretchesAre
    <3> QED
      BY <1>3, <3>1, RangesApart
  <2> HIDE DEF all
  <2>3. k = 0 <=> Len(walk) = Len(all)
    BY <1>4, <2>2
  <2> HIDE DEF k
  <2> QED
    BY <2>1, <2>3
<1>6. /\ Len(all) \in Nat /\ Ended \in Nat /\ range = all[k + 1] /\ k \in 0 .. Len(all)
      /\ k < Len(all) /\ a \in Nat /\ b \in Nat /\ a < b /\ Ended <= a
      /\ \A x \in a .. (b - 1) : x \in points
      /\ \A x \in Ended .. (a - 1) : x \notin points
  <2>1. Len(all) \in Nat
    <3>1. 0 \in 0 .. Len(all)
      BY <1>2, <1>4, <1>3, LenProperties, StretchesAre
    <3> QED
      BY <1>3, <3>1, RangesApart
  <2>2. range = all[k + 1]
    <3>1. walk[1] = all[Len(all) - Len(walk) + 1]
      BY <1>2, <1>4
    <3> QED
      BY <1>4, <3>1
  <2> HIDE DEF all, range
  <2>3. k \in 0 .. Len(all) /\ k < Len(all)
    BY <1>2, <1>4, <2>1
  <2> HIDE DEF k
  <2> DEFINE e == IF k = 0 THEN 0 ELSE all[k][2]
             a1 == all[k + 1][1]
             b1 == all[k + 1][2]
  <2>4. /\ e \in Nat /\ a1 \in Nat /\ b1 \in Nat /\ a1 < b1 /\ e <= a1
        /\ \A x \in a1 .. (b1 - 1) : x \in points
        /\ \A x \in e .. (a1 - 1) : x \notin points
    BY <1>3, <2>3, RangesApart DEF all
  <2>5. e = Ended /\ a1 = a /\ b1 = b
    BY <1>5, <2>2
  <2> HIDE DEF e, a1, b1
  <2> QED
    BY <2>1, <2>2, <2>3, <2>4, <2>5
<1>7. /\ from \in cursor .. Len(list) /\ to \in from .. Len(list)
      /\ \A i \in 1 .. Len(list) : i <= to <=> Start(list[i]) < b
      /\ \A i \in (cursor + 1) .. from : Cover(list[i]) = "outside"
      /\ \A i \in (from + 1) .. to : Cover(list[i]) # "outside"
  <2> HIDE DEF a, b
  <2> USE DEF points
  <2> DEFINE e == Ended
  <2>1. /\ e \in Nat /\ e <= a /\ a \in Nat /\ b \in Nat /\ a < b
        /\ \A i \in 1 .. Len(list) : i <= cursor <=> Start(list[i]) < e
        /\ \A x \in a .. (b - 1) : x \in coverage.outer
        /\ \A x \in e .. (a - 1) : x \notin coverage.outer
    BY <1>2, <1>6
  <2> HIDE DEF e
  <2> QED
    BY <1>1, <1>2, <1>3, <2>1, RangeWalked
<1> HIDE DEF a, b, from, to, range, k
<1>8. Reaches(Met({list[i] : i \in 1 .. to}), reached')
  <2>1. \A i \in (cursor + 1) .. from : Cover(list[i]) = "outside"
    BY <1>7
  <2>2. Reaches(Met({list[i] : i \in 1 .. to}),
                reached \o [i \in DOMAIN met |-> [part |-> met[i], cover |-> Cover(met[i])]])
    BY <1>1, <1>2, <1>3, <1>7, <2>1, ReachedMore
  <2> HIDE DEF met
  <2> QED
    BY <1>1, <2>2
<1>9. Ended' = b /\ Stretches(coverage.outer)' = all /\ Ranges(coverage.outer)' = Ranges(points)
      /\ Len(walk') <= Len(all)
  <2>1. Stretches(coverage.outer)' = all /\ Ranges(coverage.outer)' = Ranges(points)
    BY <1>1
  <2> HIDE DEF all
  <2>2. Len(walk') # Len(all) /\ Len(walk') <= Len(all) /\ Len(all) - Len(walk') = k + 1
    BY <1>2, <1>4, <1>6 DEF k
  <2>3. Ended' = IF Len(walk') = Len(all) THEN 0 ELSE all[Len(all) - Len(walk')][2]
    BY <2>1 DEF Ended
  <2> QED
    BY <1>6, <2>1, <2>2, <2>3 DEF b
<1>10. \A j \in 1 .. Len(walk') : walk'[j] = all[Len(all) - Len(walk') + j]
  <2> HIDE DEF all
  <2> TAKE j \in 1 .. Len(walk')
  <2>1. /\ j \in 1 .. (Len(walk) - 1) /\ j + 1 \in 1 .. Len(walk)
        /\ Len(all) - Len(walk) + (j + 1) = Len(all) - Len(walk') + j
    BY <1>4, <1>6
  <2>2. walk'[j] = walk[j + 1] /\ walk[j + 1] = all[Len(all) - Len(walk) + (j + 1)]
    BY <1>2, <1>4, <2>1 DEF all
  <2> QED
    BY <2>1, <2>2
<1>11. Reaches(Met({list[i] : i \in 1 .. cursor}), reached)'
  <2>1. Met({list[i] : i \in 1 .. cursor})' = Met({list[i] : i \in 1 .. to})
    BY <1>1, CoverStays DEF Met
  <2>2. \A part : Cover(part)' = Cover(part)
    BY <1>1, CoverStays
  <2> QED
    BY <1>8, <2>1, <2>2 DEF Reaches
<1>12. Walking'
  <2>1. cursor' \in 0 .. Len(list')
    BY <1>1, <1>2, <1>7
  <2>2. \A i \in 1 .. Len(list') : i <= cursor' <=> Start(list'[i]) < Ended'
    BY <1>1, <1>7, <1>9
  <2>3. at' = "walking" /\ rows' = {} /\ walk' \in Seq(Ranges(points))
    BY <1>1, <1>4
  <2> HIDE DEF all, points
  <2> QED
    BY <1>9, <1>10, <1>11, <2>1, <2>2, <2>3 DEF Walking
<1>13. Listed'
  <2>1. Tiles' = Tiles /\ place' = place
    BY <1>1, SkyStays
  <2>2. Encloses(coverage)'
    BY <1>1, CoverStays
  <2> QED
    BY <1>1, <2>1, <2>2 DEF Listed, InSkyOrder
<1>14. RegionTypeOK' /\ BeforeAnything' /\ Reading' /\ RowsOfTheRegion'
  BY <1>1, SkyStays DEF RegionTypeOK, BeforeAnything, Reading, RowsOfTheRegion
<1> QED
  BY <1>12, <1>13, <1>14 DEF RegionInv

\* Every range is walked: nothing of the covering lies further on.
LEMMA WalkedKeeps ==
  ASSUME RegionInv, Walked
  PROVE  RegionInv'
<1>1. /\ RegionTypeOK /\ at = "walking" /\ at' = "reading" /\ walk = <<>> /\ rows = {}
      /\ place.kind = "catalog" /\ InSkyOrder(Tiles, list) /\ Encloses(coverage)
      /\ sky' = sky /\ list' = list /\ coverage' = coverage /\ rows' = rows
      /\ reached' = reached /\ cursor' = 0
  BY DEF RegionInv, Listed, Walking, Walked
<1>2. /\ cursor \in 0 .. Len(list)
      /\ \A i \in 1 .. Len(list) : i <= cursor <=> Start(list[i]) < Ended
      /\ Reaches(Met({list[i] : i \in 1 .. cursor}), reached)
  BY <1>1 DEF RegionInv, Walking
<1>3. place \in Places /\ coverage.outer \in SUBSET Points
  BY <1>1 DEF RegionTypeOK, Encloses
<1>4. Ended \in Nat /\ \A x \in coverage.outer : x < Ended
  <2> DEFINE points == coverage.outer
             all == Stretches(points)
             k == Len(all)
  <2>1. k \in Nat
    BY <1>3, RangesApart, LenProperties, StretchesAre, PointsAre
  <2>2. k \in 0 .. Len(all)
    BY <2>1
  <2>3. Ended = IF Len(walk) = k THEN 0 ELSE all[k - Len(walk)][2]
    BY DEF Ended
  <2>4. Len(walk) = 0
    BY <1>1
  <2>5. Ended = IF k = 0 THEN 0 ELSE all[k][2]
    <3> HIDE DEF k, all
    <3> QED
      BY <2>1, <2>3, <2>4
  <2> DEFINE e == IF k = 0 THEN 0 ELSE all[k][2]
  <2>6. e \in Nat /\ \A x \in points : x < e
    BY <1>3, <2>2, RangesApart
  <2> HIDE DEF e, k, all
  <2> QED
    BY <2>5, <2>6 DEF e
<1>5. Met({list[i] : i \in 1 .. cursor}) = Met(Tiles)
  <2> DEFINE parts == Met({list[i] : i \in 1 .. cursor})
  <2>1. /\ parts \subseteq Tiles
        /\ \A x : x \in parts <=> \E i \in 1 .. cursor : x = list[i] /\ Cover(list[i]) # "outside"
    BY <1>1, <1>2, <1>3, MetIs
  <2>2. ASSUME NEW x \in Tiles, Cover(x) # "outside"
        PROVE  \E i \in 1 .. cursor : x = list[i] /\ Cover(list[i]) # "outside"
    <3>1. PICK i \in 1 .. Len(list) : list[i] = x
      BY <1>1 DEF InSkyOrder
    <3>2. PICK y \in Cell(x) : y \in coverage.outer
      BY <1>1, <1>3, <2>2, CoverIs
    <3>3. Cell(x) = Start(x) .. (End(x) - 1) /\ Start(x) \in Nat /\ End(x) \in Nat
      BY <1>1, <1>3, TilesAre
    <3>4. Start(x) < Ended
      BY <1>4, <3>2, <3>3
    <3>5. i <= cursor
      BY <1>2, <3>1, <3>4
    <3>6. i \in 1 .. cursor
      BY <1>2, <3>5
    <3> QED
      BY <2>2, <3>1, <3>6
  <2>3. \A x : x \in Met(Tiles) <=> x \in Tiles /\ Cover(x) # "outside"
    BY DEF Met
  <2> HIDE DEF parts
  <2>4. \A x : x \in parts <=> x \in Met(Tiles)
    BY <2>1, <2>2, <2>3
  <2> QED
    BY <2>4 DEF parts
<1>6. Reaches(Met(Tiles), reached)'
  <2>1. Tiles' = Tiles /\ \A part : Cover(part)' = Cover(part)
    BY <1>1, SkyStays, CoverStays
  <2>2. Met(Tiles)' = Met(Tiles)
    BY <2>1 DEF Met
  <2>3. Reaches(Met(Tiles), reached)
    BY <1>2, <1>5
  <2> QED
    BY <1>1, <2>1, <2>2, <2>3 DEF Reaches
<1>7. Reading'
  <2>1. Len(reached) \in Nat
    <3>1. \E S : reached \in Seq(S)
      BY <1>2 DEF Reaches
    <3> QED
      BY <3>1, LenProperties
  <2>2. cursor' \in 0 .. Len(reached') /\ rows' = {} /\ \A i : i \notin 1 .. cursor'
    BY <1>1, <2>1
  <2> QED
    BY <1>6, <2>2 DEF Reading
<1>8. Listed'
  <2>1. Tiles' = Tiles /\ place' = place /\ Encloses(coverage)'
    BY <1>1, SkyStays, CoverStays
  <2> QED
    BY <1>1, <2>1 DEF Listed, InSkyOrder
<1>9. RegionTypeOK' /\ BeforeAnything' /\ Walking' /\ RowsOfTheRegion'
  BY <1>1, SkyStays DEF RegionTypeOK, BeforeAnything, Walking, RowsOfTheRegion
<1> QED
  BY <1>7, <1>8, <1>9 DEF RegionInv

\* A partition reached is read, or refused.
LEMMA ReadRegionKeeps ==
  ASSUME RegionInv, Read
  PROVE  RegionInv'
<1>1. /\ RegionTypeOK /\ at = "reading" /\ cursor < Len(reached)
      /\ place.kind = "catalog" /\ InSkyOrder(Tiles, list) /\ Encloses(coverage)
      /\ sky' = sky /\ list' = list /\ coverage' = coverage /\ reached' = reached
  BY DEF RegionInv, Listed, Read
<1>2. /\ Reaches(Met(Tiles), reached) /\ cursor \in 0 .. Len(reached)
      /\ rows \subseteq Region
      /\ Told => \A i \in 1 .. cursor : Region \cap Cell(reached[i].part) \subseteq rows
  BY <1>1 DEF RegionInv, Reading
<1>3. /\ Tiles' = Tiles /\ place' = place /\ Region' = Region /\ Told' = Told /\ Encloses(coverage)'
      /\ \A part : Cover(part)' = Cover(part)
  BY <1>1, SkyStays, CoverStays
<1>4. Listed'
  BY <1>1, <1>3 DEF Listed, InSkyOrder
<1>5. at' \in {"refused", "reading"}
  BY <1>1 DEF Read
<1>6. RegionTypeOK' /\ BeforeAnything' /\ Walking' /\ RowsOfTheRegion'
  BY <1>1, <1>5, SkyStays DEF RegionTypeOK, BeforeAnything, Walking, RowsOfTheRegion
<1>7. CASE at' = "refused"
  BY <1>4, <1>6, <1>7 DEF RegionInv, Reading
<1>8. CASE at' # "refused"
  <2> DEFINE next == cursor + 1
             chose == reached[next]
  <2>1. /\ rows' = rows \cup RowsOf(chose) /\ cursor' = next
        /\ chose.cover = "inside" \/ ~ Refused
    BY <1>8 DEF Read
  <2>2. Len(reached) \in Nat /\ \A i \in 1 .. Len(reached) :
          reached[i].part \in Tiles /\ reached[i].cover = Cover(reached[i].part)
    <3> DEFINE S == [part : Met(Tiles), cover : {"inside", "boundary", "outside"}]
    <3>1. reached \in Seq(S) /\ \A i \in 1 .. Len(reached) : reached[i].cover = Cover(reached[i].part)
      BY <1>2 DEF Reaches
    <3>2. \A s \in S : s.part \in Tiles
      BY DEF Met
    <3> HIDE DEF S
    <3>3. Len(reached) \in Nat /\ \A i \in 1 .. Len(reached) : reached[i] \in S
      BY <3>1, LenProperties, ElementOfSeq
    <3> QED
      BY <3>1, <3>2, <3>3
  <2>3. next \in 1 .. Len(reached) /\ next \in 0 .. Len(reached) /\ cursor \in Nat
    BY <1>1, <1>2, <2>2
  <2>4. chose.part \in Tiles /\ chose.cover = Cover(chose.part)
    BY <2>2, <2>3
  <2>5. /\ RowsOf(chose) \subseteq Region
        /\ Told => Region \cap Cell(chose.part) \subseteq RowsOf(chose)
    <3> HIDE DEF chose
    <3> QED
      BY <1>1, <2>1, <2>4, RowsOfIs
  <2>6. rows' \subseteq Region'
    BY <1>2, <1>3, <2>1, <2>5
  <2>7. ASSUME Told', NEW i \in 1 .. cursor'
        PROVE  Region' \cap Cell(reached'[i].part) \subseteq rows'
    <3>1. CASE i = next
      <4>1. reached'[i].part = chose.part
        BY <1>1, <3>1
      <4> HIDE DEF chose
      <4> QED
        BY <1>3, <2>1, <2>5, <2>7, <4>1
    <3>2. CASE i # next
      <4>1. i \in 1 .. cursor
        BY <2>1, <2>3, <3>2
      <4> QED
        BY <1>1, <1>2, <1>3, <2>1, <2>7, <4>1
    <3> QED
      BY <3>1, <3>2
  <2>8. Reaches(Met(Tiles), reached)'
    <3>1. Met(Tiles)' = Met(Tiles)
      BY <1>3 DEF Met
    <3> QED
      BY <1>1, <1>2, <1>3, <3>1 DEF Reaches
  <2>9. cursor' \in 0 .. Len(reached')
    BY <1>1, <2>1, <2>3
  <2>10. Reading'
    BY <2>6, <2>7, <2>8, <2>9 DEF Reading
  <2> QED
    BY <1>4, <1>6, <2>10 DEF RegionInv
<1> QED
  BY <1>7, <1>8

\* All that was reached is read: the partitions that were not hold no row of the region.
LEMMA AnswerKeeps ==
  ASSUME RegionInv, Answer
  PROVE  RegionInv'
<1>1. /\ RegionTypeOK /\ at = "reading" /\ at' = "answered" /\ cursor = Len(reached)
      /\ place.kind = "catalog" /\ Encloses(coverage) /\ sky' = sky /\ rows' = rows
  BY DEF RegionInv, Listed, Answer
<1>2. /\ Reaches(Met(Tiles), reached) /\ rows \subseteq Region
      /\ Told => \A i \in 1 .. cursor : Region \cap Cell(reached[i].part) \subseteq rows
  BY <1>1 DEF RegionInv, Reading
<1>3. place \in Places /\ Region' = Region /\ Told' = Told /\ Held' = Held
  BY <1>1, SkyStays DEF RegionTypeOK
<1>4. ASSUME Told, NEW x \in Region \cap Held PROVE x \in rows
  <2>1. PICK part \in Tiles : x \in Cell(part)
    BY <1>1 DEF Held, Tiles
  <2>2. x \in coverage.outer
    BY <1>1 DEF Encloses
  <2>3. Cover(part) # "outside"
    BY <1>1, <1>3, <2>1, <2>2, CoverIs
  <2>4. part \in Met(Tiles)
    BY <2>1, <2>3 DEF Met
  <2>5. PICK i \in 1 .. Len(reached) : reached[i].part = part
    <3> DEFINE parts == [i \in 1 .. Len(reached) |-> reached[i].part]
               S == [part : Met(Tiles), cover : {"inside", "boundary", "outside"}]
    <3>1. reached \in Seq(S) /\ InSkyOrder(Met(Tiles), parts)
      BY <1>2 DEF Reaches
    <3>2. parts \in Seq(Met(Tiles)) /\ \E i \in 1 .. Len(parts) : parts[i] = part
      BY <2>4, <3>1 DEF InSkyOrder
    <3> HIDE DEF S
    <3>3. Len(reached) \in Nat
      BY <3>1, LenProperties
    <3>4. DOMAIN parts = 1 .. Len(reached) /\ \A i \in 1 .. Len(reached) : parts[i] = reached[i].part
      OBVIOUS
    <3> HIDE DEF parts
    <3>5. DOMAIN parts = 1 .. Len(parts)
      BY <3>2, LenProperties
    <3> QED
      BY <3>2, <3>4, <3>5
  <2> QED
    BY <1>1, <1>2, <1>4, <2>1, <2>5
<1>5. RowsOfTheRegion'
  BY <1>1, <1>2, <1>3, <1>4 DEF RowsOfTheRegion
<1>6. RegionTypeOK' /\ BeforeAnything' /\ Listed' /\ Walking' /\ Reading'
  BY <1>1, SkyStays DEF RegionTypeOK, BeforeAnything, Listed, Walking, Reading
<1> QED
  BY <1>5, <1>6 DEF RegionInv

\* A file is read, or refused.
LEMMA ReadFileKeeps ==
  ASSUME RegionInv, ReadFile
  PROVE  RegionInv'
<1>1. RegionTypeOK /\ place.kind = "file" /\ sky' = sky /\ at' \in {"refused", "answered"}
  BY DEF RegionInv, ReadFile
<1>2. RegionTypeOK' /\ BeforeAnything' /\ Listed' /\ Walking' /\ Reading'
  BY <1>1, SkyStays DEF RegionTypeOK, BeforeAnything, Listed, Walking, Reading
<1>3. Region' = Region /\ Told' = Told /\ Held' = Points
  BY <1>1, SkyStays DEF Held
<1>4. CASE at' = "refused"
  BY <1>2, <1>4 DEF RegionInv, RowsOfTheRegion
<1>5. CASE at' = "answered"
  <2>1. ~ Refused /\ coverage' = Coverage([of |-> "file"]) /\ rows' = Passing(Points, coverage')
    BY <1>5 DEF ReadFile
  <2>2. rows' \subseteq Region /\ (Told => Region \subseteq rows')
    BY <1>1, <2>1, RegionOfFile
  <2> QED
    BY <1>2, <1>3, <2>2 DEF RegionInv, RowsOfTheRegion
<1> QED
  BY <1>1, <1>4, <1>5

\* Nothing happens.
LEMMA NothingChanges ==
  ASSUME RegionInv, UNCHANGED regionVars
  PROVE  RegionInv'
<1>1. /\ sky' = sky /\ at' = at /\ list' = list /\ coverage' = coverage /\ walk' = walk
      /\ cursor' = cursor /\ reached' = reached /\ rows' = rows
  BY DEF regionVars
<1>2. /\ regions' = regions /\ place' = place /\ signed' = signed /\ loose' = loose
      /\ Tiles' = Tiles /\ Region' = Region /\ Told' = Told /\ Held' = Held
      /\ Encloses(coverage)' = Encloses(coverage)
      /\ \A part : Cover(part)' = Cover(part)
  BY <1>1, SkyStays, CoverStays
<1>3. Ended' = Ended
  BY <1>1 DEF Ended
<1>4. /\ Met(Tiles)' = Met(Tiles)
      /\ Met({list[i] : i \in 1 .. cursor})' = Met({list[i] : i \in 1 .. cursor})
  BY <1>1, <1>2 DEF Met
<1>5. /\ Reaches(Met(Tiles), reached)' = Reaches(Met(Tiles), reached)
      /\ Reaches(Met({list[i] : i \in 1 .. cursor}), reached)'
           = Reaches(Met({list[i] : i \in 1 .. cursor}), reached)
  BY <1>1, <1>2, <1>4 DEF Reaches
<1>6. RegionTypeOK' /\ BeforeAnything' /\ RowsOfTheRegion'
  BY <1>1, <1>2 DEF RegionInv, RegionTypeOK, BeforeAnything, RowsOfTheRegion
<1>7. Listed'
  BY <1>1, <1>2 DEF RegionInv, Listed, InSkyOrder
<1>8. Walking'
  BY <1>1, <1>3, <1>5 DEF RegionInv, Walking
<1>9. Reading'
  BY <1>1, <1>2, <1>5 DEF RegionInv, Reading
<1> QED
  BY <1>6, <1>7, <1>8, <1>9 DEF RegionInv

\* The inductive invariant: the list is the catalog's partitions in the order of the sky, the
\* covering lies around the region, what was walked of the one was reached of the other, and the
\* rows read so far are the region's rows of what was read.
THEOREM RegionInvariant == RegionSpec => []RegionInv
<1>1. RegionInv /\ [NextRegion]_regionVars => RegionInv'
  BY ResolveKeeps, StepKeeps, WalkedKeeps, ReadRegionKeeps, AnswerKeeps, ReadFileKeeps, NothingChanges
  DEF NextRegion
<1> QED
  BY RegionStarts, <1>1, PTL DEF RegionSpec

\* A query with a region answers with rows of the region alone, and with all of them wherever the
\* file's column and coordinates can tell them apart (sky/region.rs, engine/mod.rs).
THEOREM RowsAreOfTheRegion == RegionSpec => []RowsOfTheRegion
<1>1. RegionInv => RowsOfTheRegion
  BY DEF RegionInv
<1> QED
  BY RegionInvariant, <1>1, PTL

\* The walk of the covering's ranges reaches each partition that the covering meets, once and in
\* the order of the sky, and no other (sky/healpix.rs, hats/partitions.rs).
THEOREM EachReachedOnce == RegionSpec => []ReachedOnce
<1>1. RegionInv => ReachedOnce
  <2> SUFFICES ASSUME RegionInv, at = "reading", cursor = 0
               PROVE  [i \in DOMAIN reached |-> reached[i].part] = Sorted(Met(Tiles))
    BY DEF ReachedOnce, Met, Tiles
  <2> DEFINE S == [part : Met(Tiles), cover : {"inside", "boundary", "outside"}]
             parts == [i \in 1 .. Len(reached) |-> reached[i].part]
  <2>1. reached \in Seq(S) /\ InSkyOrder(Met(Tiles), parts)
    BY DEF RegionInv, Reading, Reaches
  <2>2. place \in Places /\ place.kind = "catalog"
    BY DEF RegionInv, RegionTypeOK, Listed
  <2>3. /\ Tiles \in SUBSET SkyCells /\ IsFiniteSet(Tiles)
        /\ \A a, b \in Tiles : Start(a) = Start(b) => a = b
    BY <2>2, TilesAre
  <2>4. Met(Tiles) \subseteq Tiles
    BY DEF Met
  <2> HIDE DEF S, parts
  <2>5. Met(Tiles) \in SUBSET SkyCells /\ IsFiniteSet(Met(Tiles))
        /\ \A a, b \in Met(Tiles) : Start(a) = Start(b) => a = b
    BY <2>3, <2>4, FS_Subset
  <2>6. parts = Sorted(Met(Tiles))
    BY <2>1, <2>5, SkyOrderIs
  <2>7. DOMAIN reached = 1 .. Len(reached)
    BY <2>1, LenProperties
  <2> QED
    BY <2>6, <2>7 DEF parts
<1> QED
  BY RegionInvariant, <1>1, PTL
===============================================================================
