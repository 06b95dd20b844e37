------------------------------- MODULE Narrowing -------------------------------
(* The two answers that are given without reading all there is: a query about a file        *)
(* answered with the file itself, and rows of a catalog read from the partitions that its   *)
(* collection's indexes name. One request, of one kind or the other.                        *)
EXTENDS WholeFile, IndexLookup

CONSTANTS Files, Requests,     \* files, and what is asked of one
          Tables, Filters,     \* catalogs [rows, indexes], and what is asked of one
          MinPartitions,       \* min_partitions_for_index
          MaxBytes             \* max_bytes_fetched

Ops == {"<", ">=", "in", "notin"}

\* A comparison of a column with one value, or with a list of them.
IsTerm(term) ==
  /\ term \in [column : STRING, op : Ops, values : SUBSET Int]
  /\ term.op \in {"<", ">="} => \E w \in term.values : term.values = {w}

\* What stands for no value and for what is not known is no number.
ASSUME ValuesAssumption ==
  /\ Null \notin Int /\ NaN \notin Int /\ Unstated \notin Int
  /\ AllNull \notin [low : Int, high : Int]

\* A file is columns of leaves, and groups of rows that give each leaf a value or none.
ASSUME FilesAssumption ==
  \A file \in Files :
    /\ file.columns \in Seq(DOMAIN Leaves)
    /\ \A i \in DOMAIN file.columns : Leaves[file.columns[i]] \in Seq(STRING)
    /\ file.groups \in Seq([rows   : Seq([ToSet(AllLeaves(file)) -> Int \cup {Null, NaN}]),
                            stated : {"all", "bounds", "none"}])

ASSUME RequestsAssumption ==
  \A request \in Requests : \A term \in request.filter.terms : IsTerm(term)

\* An index holds the rows of its table. They have a place in the sky, and a value or none in
\* the column that it is sorted by.
ASSUME TablesAssumption ==
  /\ Width \in Nat \ {0}
  /\ \A t \in Tables :
       /\ IsFiniteSet(t.rows) /\ \A row \in t.rows : row.h \in Nat
       /\ \A index \in t.indexes :
            /\ IsFiniteSet(index.files) /\ \A file \in index.files : IsFiniteSet(file.groups)
            /\ UNION {RowsOfFile(file) : file \in index.files} = t.rows
            /\ Of(t.rows, index.column) \subseteq Int \cup {Null, NaN}

ASSUME FiltersAssumption ==
  \A filter \in Filters : \A term \in filter.terms : IsTerm(term)

VARIABLES question,  \* [file, request], or [rows, indexes, filter, table]
          stage,     \* "asked", "choosing", "looking", "reading" or "answered"
          chosen,    \* the partitions left to read
          pending,   \* the columns that indexes are still to be asked about
          found,     \* what the lookups came to, or Unstated
          answer     \* rows in the file's order, or a set of a catalog's rows

vars == <<question, stage, chosen, pending, found, answer>>

Cells(rows) == {PartitionOf(row.h) : row \in rows}
OnCatalog == "rows" \in DOMAIN question

Init ==
  /\ \/ \E file \in Files, request \in Requests :
          question = [file |-> file, request |-> request]
     \/ \E t \in Tables, filter \in Filters, table \in BOOLEAN :
          question = [rows |-> t.rows, indexes |-> t.indexes, filter |-> filter, table |-> table]
  /\ stage = IF OnCatalog THEN "choosing" ELSE "asked"
  /\ chosen = IF OnCatalog THEN Cells(question.rows) ELSE {}
  /\ pending = {} /\ found = Unstated
  /\ answer = Unstated

AnswerFile ==
  /\ stage = "asked"
  /\ answer' = IF AnswersWithTheFile(question.file, question.request)
               THEN Rows(question.file)
               ELSE Queried(question.file, question.request)
  /\ stage' = "answered"
  /\ UNCHANGED <<question, chosen, pending, found>>

\* A table prunes its partitions by their spans. The rows route reads those that its region
\* reaches, which is all of them here. Few partitions are cheaper to read than to look up.
Choose ==
  /\ stage = "choosing"
  /\ chosen' = IF question.table THEN Reached(chosen, question.filter) ELSE chosen
  /\ pending' = IF Cardinality(chosen') < MinPartitions THEN {} ELSE Guaranteed(question.filter)
  /\ stage' = "looking"
  /\ UNCHANGED <<question, found, answer>>

\* An index that is not there, cannot be read or declines leaves things as they were.
Lookup(column) ==
  /\ stage = "looking" /\ column \in pending
  /\ pending' = pending \ {column}
  /\ \/ UNCHANGED found
     \/ \E index \in question.indexes :
          LET came == PartitionsFor(index, Guarantee(question.filter, column), MaxBytes)
          IN /\ index.column = column /\ came # Unstated
             /\ found' = Both(found, came)
  /\ UNCHANGED <<question, stage, chosen, answer>>

Narrow ==
  /\ stage = "looking" /\ pending = {}
  /\ chosen' = IF found = Unstated THEN chosen ELSE chosen \cap found.cells
  /\ stage' = "reading"
  /\ UNCHANGED <<question, pending, found, answer>>

\* The HEALPix values found are a filter beside the caller's. No values is no filter.
Narrowed(row) ==
  \/ found = Unstated
  \/ found.healpix = Unstated
  \/ found.healpix = {}
  \/ row.h \in found.healpix

ReadPartitions ==
  /\ stage = "reading"
  /\ answer' = {row \in question.rows : /\ PartitionOf(row.h) \in chosen
                                        /\ Keeps(row, question.filter) /\ Narrowed(row)}
  /\ stage' = "answered"
  /\ UNCHANGED <<question, chosen, pending, found>>

Next ==
  \/ AnswerFile
  \/ Choose
  \/ \E column \in pending : Lookup(column)
  \/ Narrow
  \/ ReadPartitions

Spec == Init /\ [][Next]_vars

-----------------------------------------------------------------------------
(* What an answer that left something unread must still be.                  *)

\* A query is answered with the file only where running it would have answered the same rows
\* with the same columns (whole.rs:58-60: it is never true for a request whose answer would
\* differ from the file in any row, column or value). It holds of files whose nested columns
\* come after the others and whose floats are numbers.
FileIsTheAnswer ==
  (stage = "answered" /\ ~OnCatalog) => answer = Queried(question.file, question.request)

\* Neither an index nor a partition's span costs the answer a row: a partition dropped holds
\* no row that the filter keeps, nor do the row groups that the HEALPix values found prune,
\* whichever of the indexes answered, declined, could not be read or stated nothing.
NoRowIsMissed ==
  (stage = "answered" /\ OnCatalog) => answer = {row \in question.rows : Keeps(row, question.filter)}

\* The files it holds of.
NestedLast(file) ==
  \A i, j \in DOMAIN file.columns :
    i < j /\ Len(Leaves[file.columns[j]]) = 1 => Len(Leaves[file.columns[i]]) = 1

OnlyNumbers(file) ==
  \A g \in DOMAIN file.groups : \A i \in DOMAIN file.groups[g].rows :
    \A leaf \in ToSet(AllLeaves(file)) : file.groups[g].rows[i][leaf] # NaN

-----------------------------------------------------------------------------
(* Why they hold.                                                            *)

OfAFile == \E file \in Files, request \in Requests :
  question = [file |-> file, request |-> request]

OfACatalog == \E t \in Tables, filter \in Filters, table \in BOOLEAN :
  question = [rows |-> t.rows, indexes |-> t.indexes, filter |-> filter, table |-> table]

\* No row that the filter keeps is given up on the way to the answer, neither by the partitions
\* left to read nor by what the lookups came to.
StillToRead ==
  stage \in {"choosing", "looking", "reading"} =>
    \A row \in question.rows : Keeps(row, question.filter) =>
      /\ PartitionOf(row.h) \in chosen
      /\ found # Unstated =>
           /\ PartitionOf(row.h) \in found.cells
           /\ found.healpix # Unstated => row.h \in found.healpix

\* Together: what is asked does not change, and an index is asked only about a column whose
\* values the filter proves.
NarrowInv ==
  /\ \/ OfAFile /\ stage \in {"asked", "answered"}
     \/ OfACatalog /\ stage \in {"choosing", "looking", "reading", "answered"}
  /\ stage = "choosing" => found = Unstated
  /\ stage = "looking" => pending \subseteq Guaranteed(question.filter)
  /\ StillToRead
  /\ NoRowIsMissed
===============================================================================
