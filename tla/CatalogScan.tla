------------------------------ MODULE CatalogScan ------------------------------
(***************************************************************************)
(* A catalog as a table of a statement: one node of the plan, which reads  *)
(* the partitions the filters leave, several at a time and in order, and   *)
(* hands their rows to whatever pulls them.  Past the partitions one       *)
(* request may read comes one more item, the refusal.  A statement ordered *)
(* by the index column has no sort: the partitions are walked in the order *)
(* asked and the rows of each are sorted.                                  *)
(*                                                                         *)
(* What pulls is a limit directly over the node, or a sort, an aggregate   *)
(* or a writer that takes every row.                                       *)
(***************************************************************************)
EXTENDS PartitionReads, FiniteSets

VARIABLES
  beyond,   \* whether more partitions are reached than one request may read
  pulled    \* the rows pulled so far

scan == <<beyond, pulled>>

InitScan == beyond = FALSE /\ pulled = <<>>

Ordered == request.how \in {"up", "down"}

\* The index column: rows of a partition lie in its files in an order of the files' own.
Precedes(a, b) ==
  \/ a[1] < b[1]
  \/ a[1] = b[1] /\ a[3] < b[3]
  \/ a[1] = b[1] /\ a[3] = b[3] /\ a[2] < b[2]

Before(a, b) == IF request.how = "down" THEN Precedes(b, a) ELSE Precedes(a, b)

\* Each row at the place of as many rows as come before it.
ByIndex(rows) ==
  [r \in 1..Cardinality(Range(rows)) |->
    CHOOSE row \in Range(rows) : Cardinality({x \in Range(rows) : Before(x, row)}) = r - 1]

\* Mutant of ScanLimit: a partition of an ordered scan keeps the limit.
ScanLimitAlways == request.limit

\* The limit each partition is read with.  The planner hands the node a limit only where the
\* statement filters no row and nothing between the two needs them all; an ordered partition
\* is sorted, so it is read whole.
ScanLimit == IF Ordered \/ request.filters THEN NoLimit ELSE request.limit

\* read_partition: the files' rows, sorted where the scan is ordered.
ScanRows(p) ==
  IF Ordered THEN ByIndex(PartitionRows(p, ScanLimit)) ELSE PartitionRows(p, ScanLimit)

\* CatalogScanExec::execute: the walk, from the end asked for, of those one request may read.
StartScan ==
  /\ at = "ready" /\ request.how \in Scans
  /\ chosen' = First(IF request.how = "down" THEN Reverse(chosen) ELSE chosen, bounds.partitions)
  /\ beyond' = (Len(chosen) > bounds.partitions)
  /\ at' = "scanning"
  /\ UNCHANGED <<asked, indexed, pipeline, answer, pulled>>

PullNext ==
  /\ at = "scanning" /\ Poll
  /\ UNCHANGED <<asked, at, chosen, indexed, answer, scan>>

\* The rows of a partition are pulled one after the other, up to those the statement wants.
Pull(i) ==
  /\ at = "scanning" /\ Yield(i, TRUE)
  /\ \/ /\ Partition(chosen[i]).fails
        /\ Answer("failed", <<>>, <<>>, TRUE)
        /\ UNCHANGED pulled
     \/ /\ ~ Partition(chosen[i]).fails
        /\ pulled' = First(pulled \o ScanRows(chosen[i]), request.limit)
        /\ IF Len(pulled') = request.limit
           THEN Answer("rows", pulled', <<>>, TRUE)
           ELSE UNCHANGED <<at, answer>>
  /\ UNCHANGED <<asked, chosen, indexed, beyond>>

ScanEnds ==
  /\ at = "scanning" /\ Dry
  /\ Answer(IF beyond THEN "refused" ELSE "rows", IF beyond THEN <<>> ELSE pulled, <<>>, TRUE)
  /\ UNCHANGED <<asked, chosen, indexed, pipeline, scan>>
===============================================================================
