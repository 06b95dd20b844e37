------------------------------ MODULE SkyRegion ------------------------------
(***************************************************************************)
(* A region of the sky as a test of a row: the shapes of one request, the  *)
(* coverings of them by HEALPix cells from inside and from outside, and    *)
(* the predicate a file's rows meet, which is the coverings' ranges on the *)
(* file's HEALPix column in front of the exact geometry.                   *)
(*                                                                         *)
(* The sky is a torus of whole degrees, one point to each deepest cell.    *)
(* Where cdshealpix computes a covering the model takes one that keeps its *)
(* contract: whole cells of the depth asked for, at least those the shape  *)
(* touches or at most those it fills.                                      *)
(***************************************************************************)
EXTENDS Integers, Sequences, FiniteSets, FiniteSetsExt

CONSTANTS
  MaxOrder,       \* the order one cell to a point: MAX_ORDER
  Base,           \* how many cells order 0 has
  MaxDepth,       \* the deepest covering: MAX_DEPTH
  BaseArea,       \* of an order-0 cell, in square degrees: BASE_CELL_AREA
  Budget,         \* how many ranges a row expression may carry: ROW_RANGE_BUDGET
  RowsDetail,     \* PARTITION_ROWS_DETAIL
  PartitionDetail,\* PARTITION_DETAIL
  Turn,           \* degrees of right ascension in a whole turn
  Ra, Dec         \* the position of each point

\* How many cells a cell holds, so many orders deeper.
Quarters[orders \in 0 .. MaxOrder] == IF orders = 0 THEN 1 ELSE 4 * Quarters[orders - 1]

CellsAt(order) == 0 .. Base * Quarters[order] - 1
Points == CellsAt(MaxOrder)

ASSUME SkyAssumption ==
  /\ MaxOrder \in Nat /\ MaxDepth \in 0 .. MaxOrder /\ Base \in Nat \ {0}
  /\ RowsDetail \in Nat /\ PartitionDetail \in Nat /\ Budget \in Nat
  /\ Turn \in Nat \ {0}
  /\ Ra \in [Points -> 0 .. Turn - 1] /\ Dec \in [Points -> Int]

VARIABLES
  regions,   \* the shapes of the request, a union
  place,     \* what is queried: a catalog's partitions or one file, and its HEALPix column
  signed,    \* whether the rows write right ascension from minus half a turn
  loose      \* whether the coverings computed are worse than they might be

sky == <<regions, place, signed, loose>>

-----------------------------------------------------------------------------
(* Cells.  A covering is the set of points its cells hold. *)

\* A cell's points, contiguous in the nested numbering.
Span(order, pixel) ==
  LET size == Quarters[MaxOrder - order] IN pixel * size .. (pixel + 1) * size - 1

\* A set of numbers as the half-open ranges it is made of.
Ranges(S) ==
  LET lasts == {m \in S : m + 1 \notin S} IN
  {<<n, Min({m \in lasts : n <= m}) + 1>> : n \in {m \in S : m - 1 \notin S}}

Filled(points, depth) ==
  IF loose THEN {}
  ELSE UNION {Span(depth, c) : c \in {d \in CellsAt(depth) : Span(depth, d) \subseteq points}}

Touched(points, depth) ==
  LET met == {c \in CellsAt(depth) : Span(depth, c) \cap points # {}} IN
  Points \cap
    UNION {Span(depth, c) : c \in IF loose THEN met \cup {m + 1 : m \in met} ELSE met}

-----------------------------------------------------------------------------
(* Shapes. *)

\* A right ascension within the turn.
Around(ra) == ra % Turn

\* Eastward from the first right ascension to the second; naming one point twice is refused
\* and a whole turn is the whole circle.
EastwardSpan(ra) ==
  IF ra[2] - ra[1] >= Turn THEN Turn ELSE Around(ra[2] - ra[1])

Sound(shape) ==
  CASE shape.kind = "circle" -> shape.disk # {}
    [] shape.kind = "zone" -> shape.dec[1] <= shape.dec[2] /\ EastwardSpan(shape.ra) # 0
    [] shape.kind = "moc" -> shape.cells # {}

Shapes == {regions[i] : i \in DOMAIN regions}
Geometric == {s \in Shapes : s.kind # "moc"}
Accepted == regions # <<>> /\ \A s \in Shapes : Sound(s)

\* What a row writes for its right ascension.
Raw(p) == IF signed /\ 2 * Ra[p] >= Turn THEN Ra[p] - Turn ELSE Ra[p]

\* The values an arc covers, in either convention; none is every value.
Arcs(from, span) ==
  IF span >= Turn THEN {}
  ELSE {<<Around(from) + t, Around(from) + span + t>> : t \in {-Turn, 0, Turn}}

\* The geometry of one shape: the haversine of a circle, the two ranges of a zone.
Meets(shape, p) ==
  CASE shape.kind = "circle" -> p \in shape.disk
    [] shape.kind = "zone" ->
         LET arcs == Arcs(shape.ra[1], EastwardSpan(shape.ra)) IN
         /\ Dec[p] \in shape.dec[1] .. shape.dec[2]
         /\ arcs = {} \/ \E a \in arcs : Raw(p) \in a[1] .. a[2]

\* The union of the shapes that are arithmetic on a position.
Exact(p) == \E s \in Geometric : Meets(s, p)

-----------------------------------------------------------------------------
(* Coverings. *)

\* As fine as the boundary's ranges fit the budget.
DepthFor(perimeter) ==
  Max({0} \cup {d \in 1 .. MaxDepth : Quarters[d] * perimeter^2 <= BaseArea * Budget^2})

Least(a, b) == IF a < b THEN a ELSE b

\* Detail::depth: what a covering is for decides how deep it is.
Depth(detail, perimeter) ==
  CASE detail.of = "partitions" -> Least(detail.order + PartitionDetail, MaxDepth)
    [] detail.of = "partition" ->
         Least(Max({DepthFor(perimeter), detail.order + RowsDetail}), MaxDepth)
    [] detail.of = "file" -> DepthFor(perimeter)

\* What a zone is cut from: its declinations, and its arc.
Between(zone) == {p \in Points : Dec[p] \in zone.dec[1] .. zone.dec[2]}
Along(zone) ==
  {p \in Points : \E k \in 0 .. EastwardSpan(zone.ra) : Ra[p] = Around(zone.ra[1] + k)}

\* A superset of the band: both its halves where it straddles the equator, each measured
\* from the pole it is nearer to.
DeclinationsWithin(zone, depth) ==
  LET band(from, to) == Touched({p \in Points : Dec[p] \in from .. to}, depth) IN
  IF zone.dec[1] < 0 /\ zone.dec[2] > 0 THEN band(zone.dec[1], 0) \cup band(0, zone.dec[2])
  ELSE band(zone.dec[1], zone.dec[2])

\* A superset of the arc: the cones around its pieces, none longer than a quarter turn.
RightAscensionsWithin(zone, depth) ==
  LET span == EastwardSpan(zone.ra)
      count == Min({4} \cup {n \in 1 .. 3 : 4 * span <= n * Turn})
      Piece(i) == {p \in Between(zone) :
                     Around(Ra[p] - zone.ra[1]) * count \in i * span .. (i + 1) * span} IN
  UNION {Touched(Piece(i), depth) : i \in 0 .. count - 1}

\* Shape::covering: the points of the cells inside a shape, and of those it touches.  A disk
\* wider than a hemisphere is the sky without the disk opposite, which swaps the two.
Inner(shape, detail) ==
  CASE shape.kind = "moc" -> shape.cells
    [] shape.kind = "circle" ->
         LET depth == Depth(detail, shape.perimeter) IN
         IF shape.wide THEN Points \ Touched(Points \ shape.disk, depth)
         ELSE Filled(shape.disk, depth)
    [] shape.kind = "zone" ->
         IF shape.dec[1] = shape.dec[2] THEN {}
         ELSE Filled(Between(shape) \cap Along(shape), Depth(detail, shape.perimeter))

Outer(shape, detail) ==
  CASE shape.kind = "moc" -> shape.cells
    [] shape.kind = "circle" ->
         LET depth == Depth(detail, shape.perimeter) IN
         IF shape.wide THEN Points \ Filled(Points \ shape.disk, depth)
         ELSE Touched(shape.disk, depth)
    [] shape.kind = "zone" ->
         LET depth == Depth(detail, shape.perimeter) IN
         IF shape.dec[1] = shape.dec[2] THEN Points
         ELSE IF EastwardSpan(shape.ra) = Turn THEN DeclinationsWithin(shape, depth)
         ELSE DeclinationsWithin(shape, depth) \cap RightAscensionsWithin(shape, depth)

\* Coverage::of.
Coverage(detail) ==
  [inner |-> UNION {Inner(s, detail) : s \in Shapes},
   outer |-> UNION {Outer(s, detail) : s \in Shapes}]

Within(coverage, part) ==
  [inner |-> coverage.inner \cap Span(part.order, part.pixel),
   outer |-> coverage.outer \cap Span(part.order, part.pixel)]

-----------------------------------------------------------------------------
(* The file's HEALPix column, and the test of a row. *)

None == [order |-> -1, capacity |-> -1, standard |-> FALSE]

Wide(column, order) ==
  order \in 0 .. MaxOrder /\ column.capacity >= Base * Quarters[order] - 1

Index ==
  IF place.named \/ (place.column.standard /\ Wide(place.column, MaxOrder))
  THEN place.column ELSE None

\* A column somebody named is there and wide enough, the standard one is found where nobody
\* named any, and cells with no column to test them on are refused.
Refused ==
  \/ Geometric # {} /\ ~ place.coordinates
  \/ place.named /\ ~ Wide(place.column, place.column.order)
  \/ Index = None /\ Geometric = {}

\* Which cell of the column a point is in.
Value(p) == p \div Quarters[MaxOrder - Index.order]

Up(n, d) == (n + d - 1) \div d

\* A covering in the column's own units, rounded the way its side may be wrong.
\* Mutant of BoundsOf: the outer covering rounded like the inner one.
BoundsInward(points, side) ==
  LET cell == Quarters[MaxOrder - Index.order] IN
  Ranges(UNION {Up(r[1], cell) .. r[2] \div cell - 1 : r \in Ranges(points)})

BoundsOf(points, side) ==
  LET cell == Quarters[MaxOrder - Index.order] IN
  Ranges(UNION {IF side = "outer" THEN r[1] \div cell .. Up(r[2], cell) - 1
                ELSE Up(r[1], cell) .. r[2] \div cell - 1 : r \in Ranges(points)})

\* Whether the ranges may be left out: there is a geometry behind them.
Optional == Geometric # {}

\* The ranges carried: none of an empty covering or of one too long to be worth it.  The
\* literals of a range are its first and its last cell.
Literals(points, side) ==
  LET bounds == BoundsOf(points, side) IN
  IF Optional /\ Cardinality(bounds) > Budget THEN {} ELSE {<<b[1], b[2] - 1>> : b \in bounds}

In(ranges, p) == \E l \in ranges : Value(p) \in l[1] .. l[2]

\* region::predicate on the rows of one file: inner OR (outer AND exact), or the geometry
\* alone where there is no column or no covering worth carrying.
Passing(points, covers) ==
  LET inner == IF Index = None THEN {} ELSE Literals(covers.inner, "inner")
      outer == IF Index = None THEN {} ELSE Literals(covers.outer, "outer") IN
  IF outer = {} THEN {p \in points : Exact(p)}
  ELSE {p \in points : In(inner, p) \/ (In(outer, p) /\ Exact(p))}
===============================================================================
