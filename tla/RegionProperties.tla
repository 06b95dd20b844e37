--------------------------- MODULE RegionProperties ---------------------------
(* What a region asked of a catalog, or of a file, must come back with. *)
EXTENDS RegionSearch

-----------------------------------------------------------------------------
(* The region by its definition, with no covering and no column. *)

InShape(shape, p) ==
  CASE shape.kind = "moc" -> p \in shape.cells
    [] shape.kind = "circle" -> p \in shape.disk
    [] shape.kind = "zone" -> p \in Between(shape) \cap Along(shape)

Region == {p \in Points : \E s \in Shapes : InShape(s, p)}

\* The points that have rows.
Held == IF place.kind = "file" THEN Points ELSE UNION {Cell(c) : c \in Range(place.partitions)}

\* The request puts no moc beside a shape that has a geometry.
Unmixed == Geometric = {} \/ Geometric = Shapes

\* Every cell of a moc is made of whole cells of the column.
Resolved ==
  Index # None =>
    \A s \in Shapes : s.kind = "moc" =>
      \A p \in s.cells : Span(Index.order, Value(p)) \subseteq s.cells

\* Right ascensions that run from minus half a turn are matched with an arc and its copies a
\* turn either way: one that begins in the last half of the turn and comes back into it goes
\* further than they do.
Unsplit ==
  signed => \A s \in Shapes : s.kind = "zone" =>
    LET span == EastwardSpan(s.ra) IN
    span = Turn \/ 2 * (Around(s.ra[1]) + span) < 3 * Turn

\* What a row's column and its coordinates can tell apart.
Told == Unmixed /\ (Geometric = {} => Resolved) /\ Unsplit

-----------------------------------------------------------------------------
(* Partitions chosen, coverings cut, ranges rounded, merged or left out, and a row tested    *)
(* on the column, on its coordinates or on neither: the rows returned are never rows outside *)
(* the region, and they are all of its rows whatever the coverings' depth and slack, the     *)
(* column's order, the convention the file writes right ascension in, and the source that    *)
(* lists the partitions.  A moc is held to that where the column is as fine as its cells and *)
(* no other kind of shape is beside it, a zone where the three arcs reach all of it.         *)
RowsOfTheRegion ==
  at = "answered" =>
    /\ rows \subseteq Region
    /\ Told => Region \cap Held \subseteq rows

(* The walk over the covering's ranges, each search taking up where the last one ended,      *)
(* reaches what asking about every partition there is would: those the outer covering meets, *)
(* in the order of the sky, a partition that several ranges cross only once. Whichever of    *)
(* the three sources listed them, in whatever order and however often, they are the same.    *)
ReachedOnce ==
  at = "reading" /\ cursor = 0 =>
    [i \in DOMAIN reached |-> reached[i].part]
      = Sorted({part \in Range(place.partitions) : Cover(part) # "outside"})

-----------------------------------------------------------------------------
(* Why they hold.                                                              *)

RegionTypeOK ==
  /\ regions \in Regions /\ place \in Places /\ signed \in BOOLEAN /\ loose \in BOOLEAN
  /\ at \in {"asked", "walking", "reading", "answered", "refused"}

\* The partitions there are, and those among some of them that the covering meets.
Tiles == Range(place.partitions)
Met(parts) == {part \in parts : Cover(part) # "outside"}

\* Some cells as a list of each of them in the order of the sky.
InSkyOrder(parts, l) ==
  /\ l \in Seq(parts)
  /\ \A i, j \in 1 .. Len(l) : i < j => Start(l[i]) < Start(l[j])
  /\ \A part \in parts : \E i \in 1 .. Len(l) : l[i] = part

\* A list of what was reached: those, each with how much of it is covered.
Reaches(parts, l) ==
  /\ l \in Seq([part : parts, cover : {"inside", "boundary", "outside"}])
  /\ InSkyOrder(parts, [i \in 1 .. Len(l) |-> l[i].part])
  /\ \A i \in 1 .. Len(l) : l[i].cover = Cover(l[i].part)

\* A covering lies on both sides of the region, and one of mocs alone is the region.
Encloses(cover) ==
  /\ cover.inner \subseteq Region /\ Region \subseteq cover.outer /\ cover.outer \subseteq Points
  /\ Geometric = {} => cover.inner = Region

BeforeAnything == at = "asked" => cursor = 0 /\ reached = <<>> /\ rows = {}

Listed ==
  at \in {"walking", "reading"} =>
    place.kind = "catalog" /\ InSkyOrder(Tiles, list) /\ Encloses(coverage)

\* Where the last of the ranges walked ends, and how far along the list that is: the
\* partitions up to there begin before it, and those of them that were met were reached.
Ended ==
  LET all == Stretches(coverage.outer)
  IN IF Len(walk) = Len(all) THEN 0 ELSE all[Len(all) - Len(walk)][2]

Walking ==
  at = "walking" =>
    /\ walk \in Seq(Ranges(coverage.outer)) /\ Len(walk) <= Len(Stretches(coverage.outer))
    /\ \A j \in 1 .. Len(walk) :
         walk[j] = LET all == Stretches(coverage.outer) IN all[Len(all) - Len(walk) + j]
    /\ cursor \in 0 .. Len(list) /\ rows = {}
    /\ \A i \in 1 .. Len(list) : i <= cursor <=> Start(list[i]) < Ended
    /\ Reaches(Met({list[i] : i \in 1 .. cursor}), reached)

Reading ==
  at = "reading" =>
    /\ Reaches(Met(Tiles), reached) /\ cursor \in 0 .. Len(reached)
    /\ rows \subseteq Region
    /\ Told => \A i \in 1 .. cursor : Region \cap Cell(reached[i].part) \subseteq rows

RegionInv ==
  /\ RegionTypeOK /\ BeforeAnything /\ Listed /\ Walking /\ Reading
  /\ RowsOfTheRegion
===============================================================================
