------------------------------- MODULE MCRegion -------------------------------
(* A sky of one base cell, eight degrees by eight, whose rows lie a degree apart. *)
EXTENDS RegionProperties, TLC

Bit(n, i) == (n \div 2^i) % 2
Along2(n) == Bit(n, 0) + 2 * Bit(n, 2) + 4 * Bit(n, 4)

SkyRa == [p \in 0 .. 63 |-> Along2(p)]
SkyDec == [p \in 0 .. 63 |-> Along2(p \div 2) - 4]

Circle(disk, perimeter, wide) ==
  [kind |-> "circle", disk |-> disk, perimeter |-> perimeter, wide |-> wide]
Zone(ra, dec, perimeter) == [kind |-> "zone", ra |-> ra, dec |-> dec, perimeter |-> perimeter]
Moc(cells) == [kind |-> "moc", cells |-> cells]

Near(ra, dec, r) ==
  {p \in 0 .. 63 : LET d == (SkyRa[p] - ra) % 8
                       e == SkyDec[p] - dec IN
                   Max({e, -e}) + Min({d, 8 - d}) <= r}

Disk == Circle(Near(3, 0, 2), 6, FALSE)
Dot == Circle(Near(6, -3, 0), 1, FALSE)
Most == Circle(Near(1, 1, 5), 8, TRUE)
Cells1 == Moc(Span(1, 1) \cup Span(2, 8))
Scattered == Moc({0, 2, 9, 17, 28, 30, 33, 63} \cup Span(1, 3))

SomeRegions == {
  <<Disk>>, <<Dot>>, <<Most>>, <<Disk, Dot>>, <<>>,
  <<Zone(<<6, 9>>, <<-2, 1>>, 12)>>, <<Zone(<<-2, 1>>, <<-4, -3>>, 8)>>,
  <<Zone(<<0, 8>>, <<-1, 0>>, 18)>>, <<Zone(<<5, 2>>, <<2, 2>>, 10)>>,
  <<Zone(<<7, 13>>, <<-2, 2>>, 16)>>, <<Zone(<<3, 3>>, <<0, 2>>, 4)>>, <<Zone(<<7, 1>>, <<1, 0>>, 4)>>,
  <<Cells1>>, <<Scattered>>, <<Cells1, Scattered>>, <<Scattered, Dot>>, <<Cells1, Disk>>}

C(order, pixel) == [order |-> order, pixel |-> pixel]
Quad(order, pixel) == [i \in 1 .. 4 |-> C(order, 4 * pixel + i - 1)]

Tilings == {
  <<C(0, 0)>>,
  Quad(1, 0) \o <<C(1, 2)>>,
  Quad(2, 1) \o Quad(2, 3) \o <<C(1, 0)>>,
  <<C(2, 15), C(2, 5), C(1, 0), C(2, 6), C(2, 4), C(2, 7), C(1, 2), C(2, 13)>>,
  Quad(3, 0) \o Quad(3, 2) \o <<C(2, 1), C(2, 3), C(1, 1), C(2, 9), C(1, 3)>>,
  <<>>}

\* The three sources of a tiling: lines in an order of their own, one of them twice; a footer
\* with two row groups of each partition; and a listing with two names in each partition's
\* directory. In the latter two something names no cell.
NoCell == C(1, 4)
Twice(t) == FlattenSeq([i \in DOMAIN t |-> <<t[i], t[i]>>])

Info(present, lines) == [present |-> present, lines |-> lines]
Footer(bytes, t) == [present |-> TRUE, bytes |-> bytes, groups |-> Twice(t) \o <<NoCell>>]
Listing(present, t) == [present |-> present, names |-> <<C(4, 0)>> \o Twice(t)]
NoFooter == [present |-> FALSE, bytes |-> 0, groups |-> <<>>]

Source(info, footer, listing) == [info |-> info, footer |-> footer, listing |-> listing]

Sources(t) == {
  Source(Info(TRUE, Reverse(t) \o t), Footer(1, <<>>), Listing(FALSE, t)),
  Source(Info(TRUE, t \o <<NoCell>>), Footer(1, t), Listing(TRUE, t)),
  Source(Info(FALSE, <<>>), Footer(1, Reverse(t)), Listing(FALSE, t)),
  Source(Info(FALSE, <<>>), Footer(2, t), Listing(TRUE, t)),
  Source(Info(FALSE, <<>>), NoFooter, Listing(TRUE, Reverse(t))),
  Source(Info(FALSE, <<>>), Footer(2, t), Listing(FALSE, t))}

Column(order, capacity, standard) ==
  [order |-> order, capacity |-> capacity, standard |-> standard]

Columns == {<<None, FALSE>>, <<None, TRUE>>, <<Column(3, 63, TRUE), FALSE>>,
            <<Column(3, 62, TRUE), FALSE>>, <<Column(3, 127, FALSE), FALSE>>,
            <<Column(2, 15, FALSE), TRUE>>, <<Column(1, 127, FALSE), TRUE>>,
            <<Column(2, 7, FALSE), TRUE>>}

Catalog(t, c, s) ==
  [kind |-> "catalog", partitions |-> t, column |-> c[1], named |-> c[2], coordinates |-> TRUE,
   source |-> s]

\* Every column of a catalog with lines, and every source of one with a column.
Catalogs ==
  {Catalog(t, c, Source(Info(TRUE, Reverse(t) \o t), NoFooter, Listing(TRUE, <<>>))) :
     t \in Tilings, c \in Columns}
  \cup UNION {{Catalog(t, <<Column(3, 63, TRUE), FALSE>>, s) : s \in Sources(t)} : t \in Tilings}
Files ==
  {[kind |-> "file", partitions |-> <<>>, column |-> c[1], named |-> c[2],
    coordinates |-> b] : c \in Columns, b \in BOOLEAN}

SomePlaces == Catalogs \cup Files
===============================================================================
