------------------------------ MODULE MCNarrowing ------------------------------
(* Files of two row groups and three rows, whose column mag may be null, flat or with a     *)
(* nested column; a catalog of three rows in two partitions with an index on id and one on  *)
(* kind, each of two files, whose footers may state nothing and which may lack the HEALPix  *)
(* column.                                                                                  *)
EXTENDS Narrowing

CONSTANTS NestedFirst   \* whether a nested column comes before the others

MCLeaves == [h |-> <<"h">>, mag |-> <<"mag">>, spectra |-> <<"spectra.flux", "spectra.ivar">>]

Term(column, op, values) == [column |-> column, op |-> op, values |-> values]
And(terms) == [join |-> "and", terms |-> terms]
Or(terms) == [join |-> "or", terms |-> terms]

---------------------------------------------------------------------------------
MCLeavesOf(columns) == UNION {ToSet(MCLeaves[columns[i]]) : i \in DOMAIN columns}

MCRow(columns, h, mag) ==
  [leaf \in MCLeavesOf(columns) |-> CASE leaf = "h" -> h [] leaf = "mag" -> mag [] OTHER -> 1]

FlatColumns == IF NestedFirst THEN {} ELSE {<<"h", "mag">>}
NestedColumns == IF NestedFirst THEN {<<"spectra", "h", "mag">>} ELSE {<<"h", "mag", "spectra">>}

MCFiles ==
  {[columns |-> columns,
    groups  |-> <<[rows |-> <<MCRow(columns, 0, a), MCRow(columns, 0, b)>>, stated |-> s],
                  [rows |-> <<MCRow(columns, 1, c)>>, stated |-> "all"]>>] :
     columns \in FlatColumns \cup NestedColumns,
     a \in {0, 1, Null}, b \in {0, 1, Null}, c \in {0, 1, Null},
     s \in {"all", "bounds", "none"}}

MCFilters ==
  {Everything,
   And({Term("h", ">=", {0}), Term("h", "<", {2})}),
   And({Term("h", ">=", {0}), Term("mag", "<", {2})}),
   And({Term("mag", "<", {1})}),
   And({Term("mag", "in", {0, 1})}),
   Or({Term("h", "<", {1}), Term("mag", ">=", {1})}),
   Or({Term("mag", "notin", {2}), Term("h", ">=", {2})}),
   And({Term("spectra", ">=", {0})})}

MCRequests ==
  {[leaves |-> leaves, filter |-> filter, limit |-> bound[1], region |-> bound[2]] :
     leaves \in {{"h", "mag"}, {"h", "mag", "spectra.flux"},
                 {"h", "mag", "spectra.flux", "spectra.ivar"}},
     filter \in MCFilters,
     bound \in {<<Unstated, Unstated>>, <<2, Unstated>>, <<Unstated, {0}>>}}

---------------------------------------------------------------------------------
\* The second row has no kind.
MCCatalogRows(hs, kind) ==
  {[id |-> id, kind |-> CASE id = 1 -> 1 [] id = 2 -> Null [] OTHER -> kind, h |-> hs[id]] :
     id \in 1..3}

MCFooters == {[stated |-> TRUE, healpix |-> TRUE], [stated |-> FALSE, healpix |-> TRUE],
              [stated |-> TRUE, healpix |-> FALSE]}

\* Two row groups in the first file and one in the second.
MCIndex(column, first, second, third, footer) ==
  [column |-> column, holds |-> 1..3,
   files |-> {[groups |-> {[rows |-> first, stated |-> footer.stated],
                           [rows |-> second, stated |-> TRUE]},
               healpix |-> TRUE, bytes |-> 2],
              [groups |-> {[rows |-> third, stated |-> footer.stated]},
               healpix |-> footer.healpix, bytes |-> 1]}]

MCIndexes(rows, ids, kinds) ==
  LET row(id) == {r \in rows : r.id = id}
  IN {MCIndex("id", row(1), row(2), row(3), ids), MCIndex("kind", row(1), row(3), row(2), kinds)}

MCCatalogFilters ==
  {And({Term("id", "in", ids)}) : ids \in {{1}, {2, 3}, {4}}}
  \cup {And({Term("id", "in", ids), Term("kind", "in", {1})}) : ids \in {{1}, {2}, {1, 2, 3}}}
  \cup {And({Term("id", "in", {1, 2}), Term("h", ">=", {low})}) : low \in {1, 2}}
  \cup {Or({Term("id", "in", {1}), Term("id", "in", {3})}),
        Or({Term("id", "in", {2}), Term("kind", "in", {1})}),
        And({Term("id", "notin", {1})}),
        And({Term("h", ">=", {2})}),
        Or({Term("h", "<", {2}), Term("h", ">=", {3})})}

MCTables ==
  {[rows |-> rows, indexes |-> MCIndexes(rows, ids, kinds)] :
     rows \in {MCCatalogRows(hs, kind) : hs \in [1..3 -> 0..3], kind \in {1, 2}},
     ids \in MCFooters, kinds \in MCFooters}
================================================================================
