------------------------------ MODULE IndexLookup ------------------------------
(* The index catalogs of a collection (hats/index.rs), and the ranges of HEALPix values     *)
(* that partitions are pruned by (hats/table.rs). An index holds the rows of its table      *)
(* sorted by one column, cut into files of row groups. What is kept of a file is the range  *)
(* of values that its footer states and the bytes that a lookup in it may fetch.            *)
EXTENDS Statistics

CONSTANT Width   \* the HEALPix values that a partition spans

PartitionOf(h) == h \div Width
SpanOf(cell) == [from |-> cell * Width, to |-> (cell + 1) * Width]

Of(rows, column) == {row[column] : row \in rows}
RowsOfFile(file) == UNION {group.rows : group \in file.groups}

RangeOfGroup(group, column) ==
  IF group.stated THEN Bounds(Of(group.rows, column)) ELSE Unstated

\* The mutant: a row group that states nothing is passed over.
RangeOfTheStated(file, column) ==
  LET stated == {g \in file.groups : RangeOfGroup(g, column) # Unstated}
  IN IF stated = {} THEN Unstated
     ELSE [low  |-> Min({RangeOfGroup(g, column).low : g \in stated}),
           high |-> Max({RangeOfGroup(g, column).high : g \in stated})]

\* A row group with no statistics says nothing, so neither does the file.
RangeOfFile(file, column) ==
  LET ranges == {RangeOfGroup(g, column) : g \in file.groups}
  IN IF Unstated \in ranges \/ ranges = {} THEN Unstated
     ELSE [low |-> Min({r.low : r \in ranges}), high |-> Max({r.high : r \in ranges})]

Candidates(index, values) ==
  {file \in index.files : MayHold(RangeOfFile(file, index.column), "in", values)}

\* Only a column that every file carries can be read from all the files a lookup chooses.
Carried(index) == \A file \in index.files : file.healpix

ReadBytes(files) == MapThenSumSet(LAMBDA file : file.bytes, files)

\* What one lookup comes to, or Unstated where the index declines: a value that its column
\* cannot hold, or files that could cost more than a request may fetch.
PartitionsFor(index, values, maxBytes) ==
  LET files == Candidates(index, values)
      found == {row \in UNION {RowsOfFile(file) : file \in files} : row[index.column] \in values}
  IN IF ~values \subseteq index.holds \/ ReadBytes(files) > maxBytes THEN Unstated
     ELSE [cells   |-> {PartitionOf(row.h) : row \in found},
           healpix |-> IF Carried(index) THEN Of(found, "h") ELSE Unstated,
           bytes   |-> ReadBytes(files)]

\* The values that a column of every row the filter keeps is one of, as the filter proves
\* them, or Unstated. Comparisons of other columns beside it do not matter under an AND.
Guarantee(filter, column) ==
  LET about == {t \in filter.terms : t.column = column /\ t.op = "in"}
  IN IF about = {} THEN Unstated
     ELSE IF filter.join = "and"
     THEN {v \in UNION Of(about, "values") : \A t \in about : v \in t.values}
     ELSE IF about = filter.terms THEN UNION Of(about, "values") ELSE Unstated

Guaranteed(filter) == {t.column : t \in {u \in filter.terms : Guarantee(filter, u.column) # Unstated}}

\* Two indexed columns keep what both indexes name. An index that gave no HEALPix values
\* constrains none.
Both(before, found) ==
  IF before = Unstated THEN found
  ELSE [cells   |-> before.cells \cap found.cells,
        healpix |-> IF before.healpix = Unstated THEN found.healpix
                    ELSE IF found.healpix = Unstated THEN before.healpix
                    ELSE before.healpix \cap found.healpix,
        bytes   |-> before.bytes + found.bytes]

\* The last value of a partition is one before the first of the next.
RangeOfPartition(cell) == [low |-> SpanOf(cell).from, high |-> SpanOf(cell).to - 1]

\* The partitions that a filter cannot rule out: nothing is known of any column but one.
Reached(cells, filter) ==
  {cell \in cells :
     MayKeep([column \in {t.column : t \in filter.terms} |->
                IF column = "h" THEN RangeOfPartition(cell) ELSE Unstated], filter)}
===============================================================================
