----------------------------- MODULE RegionSearch -----------------------------
(***************************************************************************)
(* One request with a region, of a catalog or of one file.  A catalog's    *)
(* partitions are chosen by walking the outer covering's ranges along the  *)
(* sorted list, and a partition wholly inside is read with no test; what   *)
(* the boundary crosses is read with a covering of its own, cut to it.     *)
(* The list comes from whichever of three sources the catalog has.         *)
(***************************************************************************)
EXTENDS SkyRegion, SequencesExt

CONSTANTS Regions, Places,   \* the requests and the catalogs and files they may be asked of
          MaxMetadataBytes   \* the largest footer of a catalog that is fetched

ASSUME RegionsAssumption ==
  \A shapes \in Regions : \A i \in DOMAIN shapes :
    LET shape == shapes[i] IN
    \/ shape.kind = "circle" /\ shape.disk \subseteq Points /\ shape.wide \in BOOLEAN
    \/ shape.kind = "zone" /\ shape.ra \in Int \X Int /\ shape.dec \in Int \X Int
    \/ shape.kind = "moc" /\ shape.cells \subseteq Points

VARIABLES
  at,        \* "asked", "walking", "reading", "answered" or "refused"
  list,      \* the catalog's partitions, sorted
  coverage,  \* the covering the partitions are chosen by
  walk,      \* its ranges not walked yet, in order
  cursor,    \* where in the list the last of them ended
  reached,   \* the partitions reached, each with how much of it is covered
  rows       \* the points whose rows were returned

regionVars == <<sky, at, list, coverage, walk, cursor, reached, rows>>

Nothing == [inner |-> {}, outer |-> {}]

InitRegion ==
  /\ regions \in Regions /\ place \in Places
  /\ signed \in BOOLEAN /\ loose \in BOOLEAN
  /\ at = "asked" /\ list = <<>> /\ coverage = Nothing /\ walk = <<>>
  /\ cursor = 0 /\ reached = <<>> /\ rows = {}

-----------------------------------------------------------------------------
(* Which partitions. *)

Arranged(S, Before(_, _)) ==
  [i \in 1 .. Cardinality(S) |->
     CHOOSE x \in S : Cardinality({y \in S : Before(y, x)}) = i - 1]

Size(part) == Quarters[MaxOrder - part.order]
Start(part) == part.pixel * Size(part)
End(part) == (part.pixel + 1) * Size(part)
Cell(part) == Span(part.order, part.pixel)

\* cell: an order that HEALPix has, and a pixel that the order has.
IsCell(named) == named.order <= MaxOrder /\ named.pixel < Base * Quarters[named.order]

\* cell_from_path: a path that names no cell is passed over.
CellsOf(paths) == {named \in Range(paths) : IsCell(named)}

\* from_partition_info: a line that names no cell is an error, not a line less.
Lines(info) ==
  [ok |-> \A named \in Range(info.lines) : IsCell(named), cells |-> Range(info.lines)]

\* discover: the first of the three sources that is there answers, or fails. A footer that is
\* too large to fetch counts as absent, and a store may have no listing.
Discovered(source) ==
  CASE source.info.present -> Lines(source.info)
    [] ~ source.info.present /\ source.footer.present /\ source.footer.bytes <= MaxMetadataBytes ->
         [ok |-> TRUE, cells |-> CellsOf(source.footer.groups)]
    [] OTHER -> [ok |-> source.listing.present, cells |-> CellsOf(source.listing.names)]

\* HatsPartitionList: sorted by where each cell begins, and a cell named twice once.
Sorted(parts) ==
  Arranged(parts, LAMBDA a, b : \/ Start(a) < Start(b)
                                \/ Start(a) = Start(b) /\ a.order < b.order)

\* The deepest order of the list.
CatalogOrder(parts) == Max({0} \cup {part.order : part \in Range(parts)})

\* Coverage::cover.
Cover(part) ==
  IF Cell(part) \subseteq coverage.inner THEN "inside"
  ELSE IF Cell(part) \cap coverage.outer # {} THEN "boundary" ELSE "outside"

\* The first index at or after from of what is not in passed, which holds a stretch of the
\* list.  It doubles out from from, then searches what the last probe leaped over.
Gallop(from, passed) ==
  LET rest == SubSeq(list, from + 1, Len(list))
      Still(i) == i < Len(rest) /\ rest[i + 1] \in passed
      Low[k \in 0 .. Len(rest)] == IF k = 0 THEN 0 ELSE 2 * Low[k - 1] + 1
      leaps == Min({k \in 0 .. Len(rest) : ~ Still(2 * Low[k])})
      low == Low[leaps]
      high == Least(2 * low, Len(rest)) IN
  from + Min({i \in low .. high : i = high \/ ~ Still(i)})

\* A catalog's partitions do not overlap, and each of its sources names all of them. The name of
\* the standard column says its order.
ASSUME PlacesAssumption ==
  \A p \in Places :
    /\ p.kind \in {"catalog", "file"}
    /\ p.column \in [order : Int, capacity : Int, standard : BOOLEAN]
    /\ p.column.standard => p.column.order = MaxOrder
    /\ p.kind = "catalog" =>
         /\ p.partitions \in Seq([order : 0 .. MaxOrder, pixel : Nat])
         /\ \A part \in Range(p.partitions) : IsCell(part)
         /\ \A a, b \in Range(p.partitions) : a = b \/ Cell(a) \cap Cell(b) = {}
         /\ Discovered(p.source).ok => Discovered(p.source).cells = Range(p.partitions)

\* The ranges of a covering, in order.
Stretches(points) == Arranged(Ranges(points), LAMBDA r, s : r[1] < s[1])

\* Search::resolve: a region needs the catalog's position columns.
Resolve ==
  /\ at = "asked" /\ place.kind = "catalog"
  /\ IF ~ place.coordinates \/ ~ Accepted \/ ~ Discovered(place.source).ok
     THEN at' = "refused" /\ UNCHANGED <<list, coverage, walk>>
     ELSE /\ at' = "walking"
          /\ list' = Sorted(Discovered(place.source).cells)
          /\ coverage' = Coverage([of |-> "partitions", order |-> CatalogOrder(list')])
          /\ walk' = Stretches(coverage'.outer)
  /\ UNCHANGED <<sky, cursor, reached, rows>>

\* Where a walk of one range ends and the next takes up.
\* Mutant of Resumes: each range is searched from where the last one began.
ResumesAt(from, to) == from
Resumes(from, to) == to

Step ==
  /\ at = "walking" /\ walk # <<>>
  /\ LET range == Head(walk)
         from == Gallop(cursor, {part \in Range(list) : End(part) <= range[1]})
         to == Gallop(from, {part \in Range(list) : Start(part) < range[2]})
         met == SubSeq(list, from + 1, to) IN
     /\ reached' = reached \o [i \in DOMAIN met |-> [part |-> met[i], cover |-> Cover(met[i])]]
     /\ cursor' = Resumes(from, to)
  /\ walk' = Tail(walk)
  /\ UNCHANGED <<sky, list, at, coverage, rows>>

-----------------------------------------------------------------------------
(* Their rows. *)

Walked ==
  /\ at = "walking" /\ walk = <<>>
  /\ at' = "reading"
  /\ cursor' = 0
  /\ UNCHANGED <<sky, list, coverage, walk, reached, rows>>

\* The covering a partition's rows are tested with, cut to it.
RowsCoverage(part) == Within(Coverage([of |-> "partition", order |-> part.order]), part)

\* Search::spatial: no test on a partition the region contains.
RowsOf(chose) ==
  IF chose.cover = "inside" THEN Cell(chose.part)
  ELSE Passing(Cell(chose.part), RowsCoverage(chose.part))

Read ==
  /\ at = "reading" /\ cursor < Len(reached)
  /\ IF reached[cursor + 1].cover # "inside" /\ Refused
     THEN at' = "refused" /\ UNCHANGED <<cursor, rows>>
     ELSE /\ rows' = rows \cup RowsOf(reached[cursor + 1])
          /\ cursor' = cursor + 1
          /\ UNCHANGED at
  /\ UNCHANGED <<sky, list, coverage, walk, reached>>

Answer ==
  /\ at = "reading" /\ cursor = Len(reached)
  /\ at' = "answered"
  /\ UNCHANGED <<sky, list, coverage, walk, cursor, reached, rows>>

\* One file, which is no catalog's partition.
ReadFile ==
  /\ at = "asked" /\ place.kind = "file"
  /\ IF ~ Accepted \/ Refused
     THEN at' = "refused" /\ UNCHANGED <<coverage, rows>>
     ELSE /\ at' = "answered"
          /\ coverage' = Coverage([of |-> "file"])
          /\ rows' = Passing(Points, coverage')
  /\ UNCHANGED <<sky, list, walk, cursor, reached>>

NextRegion == Resolve \/ Step \/ Walked \/ Read \/ Answer \/ ReadFile

RegionSpec == InitRegion /\ [][NextRegion]_regionVars
===============================================================================
