------------------------------ MODULE WholeFile ------------------------------
(* Whether a query about a parquet file would hand the file itself back, judged from its    *)
(* footer (engine/whole.rs). A file is its columns in their order, each of one leaf or of   *)
(* several (a nested column), and its row groups. A row gives every leaf a value.           *)
EXTENDS Statistics, Sequences, SequencesExt

CONSTANTS Leaves   \* the leaves of each column, in their order

Column(file, name) == CHOOSE i \in DOMAIN file.columns : file.columns[i] = name
Holding(file) == ToSet(file.columns)
Leaf(name) == Leaves[name][1]

AllLeaves(file) == FlattenSeq([i \in DOMAIN file.columns |-> Leaves[file.columns[i]]])

Values(group, leaf) == {group.rows[i][leaf] : i \in DOMAIN group.rows}

NullCount(group, leaf) ==
  IF group.stated # "all" THEN Unstated
  ELSE Cardinality({i \in DOMAIN group.rows : group.rows[i][leaf] = Null})

RangeOfLeaf(group, leaf) ==
  IF group.stated = "none" THEN Unstated
  ELSE IF NullCount(group, leaf) = Len(group.rows) THEN AllNull ELSE Bounds(Values(group, leaf))

Named(filter) == {t.column : t \in filter.terms}

\* Both the projection and the filter are planned against the file's own columns. Nothing
\* compares a nested column with a value: one that is compared is its own leaf.
Plans(file, request) ==
  /\ Named(request.filter) \subseteq {name \in Holding(file) : Leaves[name] = <<name>>}
  /\ request.leaves \subseteq ToSet(AllLeaves(file))

\* The paths asked for, packed into the columns they reach into.
Packed(file, leaves) ==
  [name \in {n \in Holding(file) : ToSet(Leaves[n]) \cap leaves # {}} |->
     ToSet(Leaves[name]) \cap leaves]

EveryColumn(file, request) ==
  Packed(file, request.leaves) = [name \in Holding(file) |-> ToSet(Leaves[name])]

\* The mutant: a column of nulls is left to the statistics of the values that are there.
NullsLeftToStatistics(file, filter) == TRUE

\* Every row group says that the column has no null. The column chunk is taken at the
\* column's place among the file's columns, and chunks are stored one for each leaf.
NoNulls(file, filter) ==
  \A name \in Named(filter), g \in DOMAIN file.groups :
     NullCount(file.groups[g], AllLeaves(file)[Column(file, name)]) = 0

KeepsEveryRow(file, filter) ==
  /\ NoNulls(file, filter)
  /\ Negated(filter).terms # {}
  /\ \A g \in DOMAIN file.groups :
       ~MayKeep([name \in Named(filter) |-> RangeOfLeaf(file.groups[g], Leaf(name))],
                Negated(filter))

AnswersWithTheFile(file, request) ==
  /\ request.limit = Unstated /\ request.region = Unstated
  /\ Plans(file, request)
  /\ EveryColumn(file, request)
  /\ request.filter = Everything \/ KeepsEveryRow(file, request.filter)

Rows(file) == FlattenSeq([g \in DOMAIN file.groups |-> file.groups[g].rows])

\* What running the query answers: the rows that it keeps, of the leaves asked for. One that
\* does not plan is an error.
Queried(file, request) ==
  LET all  == Rows(file)
      kept == FlattenSeq([i \in DOMAIN all |->
                IF /\ Keeps(all[i], request.filter)
                   /\ request.region = Unstated \/ all[i].h \in request.region
                THEN <<all[i]>> ELSE <<>>])
      cut  == IF request.limit = Unstated THEN kept
              ELSE SubSeq(kept, 1, Min({request.limit, Len(kept)}))
  IN IF ~Plans(file, request) THEN Unstated
     ELSE [i \in DOMAIN cut |-> [leaf \in request.leaves |-> cut[i][leaf]]]
===============================================================================
