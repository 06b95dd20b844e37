------------------------------ MODULE Statistics ------------------------------
(* What the statistics of a container of rows (a row group, a file of an index, a          *)
(* partition) prove about a filter: the pruning that every reader of this program that      *)
(* leaves something unread goes through. A filter is a conjunction or a disjunction of      *)
(* comparisons of a column with values; a row is kept only where it is true, which a        *)
(* comparison with a null never is.                                                         *)
EXTENDS Integers, FiniteSetsExt, TLC

CONSTANTS Null,      \* no value
          NaN,       \* a float that is not a number, sorted above every number
          Unstated,  \* a statistic that the footer does not give
          AllNull    \* said of a column that the footer counts as many nulls of as rows

Numbers(values) == values \ {Null, NaN}

Compares(v, op, values) ==
  CASE op = "<"     -> v # NaN /\ \A w \in values : v < w
    [] op = ">="    -> v = NaN \/ \A w \in values : v >= w
    [] op = "in"    -> v # NaN /\ v \in values
    [] op = "notin" -> v = NaN \/ v \notin values

Holds(row, term) == row[term.column] # Null /\ Compares(row[term.column], term.op, term.values)

Keeps(row, filter) ==
  IF filter.join = "and" THEN \A t \in filter.terms : Holds(row, t)
  ELSE \E t \in filter.terms : Holds(row, t)

Opposite(op) ==
  CASE op = "<"     -> ">="
    [] op = ">="    -> "<"
    [] op = "in"    -> "notin"
    [] op = "notin" -> "in"

\* NOT filter, as the simplifier writes it: comparisons, and no negation on top of them.
Negated(filter) ==
  [join  |-> IF filter.join = "and" THEN "or" ELSE "and",
   terms |-> {[t EXCEPT !.op = Opposite(t.op)] : t \in filter.terms}]

Everything == [join |-> "and", terms |-> {}]

\* The lowest and the highest of a column's values. Nulls and NaN are in neither.
Bounds(values) ==
  IF Numbers(values) = {} THEN Unstated
  ELSE [low |-> Min(Numbers(values)), high |-> Max(Numbers(values))]

MayHold(range, op, values) ==
  \/ range = Unstated
  \/ /\ range # AllNull
     /\ CASE op = "<"     -> \A w \in values : range.low < w
          [] op = ">="    -> \A w \in values : range.high >= w
          [] op = "in"    -> \E w \in values : range.low <= w /\ w <= range.high
          [] op = "notin" -> ~(range.low = range.high /\ range.low \in values)

\* Whether a container whose columns have these ranges may hold a row that the filter keeps.
MayKeep(ranges, filter) ==
  IF filter.join = "and"
  THEN \A t \in filter.terms : MayHold(ranges[t.column], t.op, t.values)
  ELSE \E t \in filter.terms : MayHold(ranges[t.column], t.op, t.values)
===============================================================================
