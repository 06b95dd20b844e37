---------------------------- MODULE MCCatalogReads ----------------------------
(* Catalogs of up to four partitions whose files hold none, one or two of the rows. *)
EXTENDS CatalogReads, TLC

P(files, bytes) ==
  [files |-> files, bytes |-> bytes, fails |-> FALSE, reached |-> TRUE, named |-> TRUE]
Broken(p) == [p EXCEPT !.fails = TRUE]
Outside(p) == [p EXCEPT !.reached = FALSE]
Unnamed(bytes) == [P(<<0>>, bytes) EXCEPT !.named = FALSE]

Catalog(partitions, common, index) ==
  [partitions |-> partitions, common |-> common, index |-> index, indexBytes |-> 1]

SomeCatalogs == {
  Catalog(<<P(<<2, 1>>, 1), P(<<1>>, 2), P(<<2>>, 1)>>, FALSE, "none"),
  Catalog(<<P(<<0>>, 1), Unnamed(1), P(<<2, 2>>, 1)>>, TRUE, "read"),
  Catalog(<<P(<<2>>, 1), Broken(P(<<1>>, 1)), P(<<1>>, 1)>>, TRUE, "unread"),
  Catalog(<<P(<<1>>, 1), P(<<1, 1>>, 1), P(<<2>>, 1), P(<<1>>, 3)>>, TRUE, "read"),
  Catalog(<<P(<<>>, 0), P(<<1>>, 1), Outside(P(<<2>>, 1))>>, FALSE, "none"),
  Catalog(<<Outside(P(<<1>>, 1))>>, TRUE, "read"),
  Catalog(<<>>, FALSE, "none")}

B(bytes, rows, partitions, concurrency) ==
  [bytes |-> bytes, rows |-> rows, partitions |-> partitions, concurrency |-> concurrency,
   minForIndex |-> 2]

SomeBounds ==
  {B(bytes, rows, partitions, 2) : bytes \in {3, 9}, rows \in {3, 9}, partitions \in {1, 2, 9}}
    \cup {B(9, 9, 9, 0), B(9, 9, 9, 3)}

R(how, limit, filters, says) ==
  [how |-> how, limit |-> limit, filters |-> filters, says |-> says]

SomeLimits == {NoLimit, 0, 1, 2, 3}

SomeRequests ==
  {R(how, n, f, TRUE) : how \in {"plan", "collected"}, n \in SomeLimits, f \in BOOLEAN}
    \cup {R("streamed", n, f, f) : n \in SomeLimits, f \in BOOLEAN}
    \cup {R(how, n, f, TRUE) : how \in {"up", "down", "unordered"},
                               n \in SomeLimits \ {0}, f \in BOOLEAN}
===============================================================================
