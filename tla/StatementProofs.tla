---------------------------- MODULE StatementProofs ----------------------------
(***************************************************************************)
(* The safety of a statement, for any requests, tables and bounds: the     *)
(* invariant StatementInv, that tables are read as their own, and that     *)
(* what the caller has and was told is what StatementPromise allows.       *)
(*                                                                         *)
(* First the rows: a stretch of them, and what the three answers of        *)
(* Execution::next do to what is read.  Then each conjunct of the          *)
(* invariant in turn, and the refinement.                                  *)
(***************************************************************************)
EXTENDS StatementProperties, DataLemmas

-----------------------------------------------------------------------------
(* Rows and bounds.                                                        *)

LEMMA StretchIs ==
  ASSUME NEW a \in Nat, NEW b \in Nat, a <= b
  PROVE  /\ Stretch(a, b) \in Seq(Nat) /\ Len(Stretch(a, b)) = b - a
         /\ \A i \in 1 .. b - a : Stretch(a, b)[i] = a + i
  BY DEF Stretch

LEMMA StretchOfNone ==
  ASSUME NEW a \in Nat
  PROVE  Stretch(a, a) = <<>>
<1>1. Stretch(a, a) \in Seq(Nat) /\ Len(Stretch(a, a)) = a - a
  BY StretchIs
<1>2. a - a = 0
  OBVIOUS
<1> QED
  BY <1>1, <1>2, EmptySeq

LEMMA StretchJoins ==
  ASSUME NEW a \in Nat, NEW b \in Nat, NEW c \in Nat, a <= b, b <= c
  PROVE  Stretch(a, b) \o Stretch(b, c) = Stretch(a, c)
<1> DEFINE f == Stretch(a, b)
           g == Stretch(b, c)
           h == Stretch(a, c)
<1>1. f \in Seq(Nat) /\ Len(f) = b - a /\ \A i \in 1 .. b - a : f[i] = a + i
  BY StretchIs
<1>2. g \in Seq(Nat) /\ Len(g) = c - b /\ \A i \in 1 .. c - b : g[i] = b + i
  BY StretchIs
<1>3. h \in Seq(Nat) /\ Len(h) = c - a /\ \A i \in 1 .. c - a : h[i] = a + i
  <2>1. a <= c
    OBVIOUS
  <2> QED
    BY <2>1, StretchIs
<1> HIDE DEF f, g, h
<1>4. /\ f \o g \in Seq(Nat)
      /\ Len(f \o g) = Len(f) + Len(g)
      /\ \A i \in 1 .. Len(f) + Len(g) :
           (f \o g)[i] = IF i <= Len(f) THEN f[i] ELSE g[i - Len(f)]
  BY <1>1, <1>2, ConcatProperties
<1>5. Len(f) + Len(g) = c - a
  BY <1>1, <1>2
<1>6. ASSUME NEW i \in 1 .. c - a
      PROVE  (f \o g)[i] = h[i]
  <2>1. CASE i <= b - a
    BY <2>1, <1>1, <1>3, <1>4, <1>5
  <2>2. CASE i > b - a
    <3>1. i - (b - a) \in 1 .. c - b
      BY <2>2
    <3>2. (f \o g)[i] = g[i - (b - a)]
      BY <2>2, <1>1, <1>4, <1>5
    <3> QED
      BY <3>1, <3>2, <1>2, <1>3
  <2>3. i <= b - a \/ i > b - a
    OBVIOUS
  <2> QED
    BY <2>1, <2>2, <2>3
<1>7. f \o g = h
  BY <1>3, <1>4, <1>5, <1>6, SeqEqual
<1> QED
  BY <1>7 DEF f, g, h

LEMMA StretchSplits ==
  ASSUME NEW a \in Nat, NEW b \in Nat, NEW n \in Nat, n <= b - a
  PROVE  /\ SubSeq(Stretch(a, b), 1, n) = Stretch(a, a + n)
         /\ SubSeq(Stretch(a, b), n + 1, Len(Stretch(a, b))) = Stretch(a + n, b)
  BY DEF Stretch

LEMMA LeastOfTwo ==
  ASSUME NEW a \in Nat, NEW b \in Nat
  PROVE  Min({a, b}) = IF a <= b THEN a ELSE b
<1>1. {a, b} \in SUBSET Nat /\ {a, b} # {}
  OBVIOUS
<1>2. Min({a, b}) \in {a, b} /\ \A x \in {a, b} : Min({a, b}) <= x
  BY <1>1, MinIs
<1> QED
  BY <1>2

LEMMA BoundIs == request \in Requests => Bound \in Nat
<1> SUFFICES ASSUME request \in Requests
             PROVE  Bound \in Nat
  OBVIOUS
<1>1. Allowed \in Nat /\ (request.maxrec = NoMaxrec \/ request.maxrec \in Nat)
  BY BoundsAssumption DEF Allowed
<1> QED
  BY <1>1, LeastOfTwo DEF Bound

LEMMA KeptIs ==
  ASSUME Types, NEW n \in Nat
  PROVE  Kept(n) = IF n <= Bound - read THEN n ELSE Bound - read
<1>1. Bound \in Nat /\ read \in 0 .. Bound
  BY BoundIs DEF Types
<1>2. Bound - read \in Nat
  BY <1>1
<1> QED
  BY <1>2, LeastOfTwo DEF Kept

\* A batch is rows of the statement, next in order, and reads them to the bound or not so far.
LEMMA BatchEffect ==
  ASSUME Types, Going \/ Stopped, NEW n \in Batches, NextBatch(n), request' = request
  PROVE  /\ Kept(n) \in Nat
         /\ read' = read + Kept(n) /\ read' \in 0 .. Bound
         /\ ahead' \in 0 .. request.rows
         /\ reading' \in BOOLEAN /\ overflow' \in BOOLEAN
         /\ NewRows(n) = Stretch(read, read')
         /\ Going' \/ Stopped'
<1>1. n \in Nat /\ read \in Nat /\ ahead \in Nat /\ Bound \in Nat /\ read <= Bound
  BY BoundIs, BoundsAssumption DEF Types, Batches
<1>2. Kept(n) = IF n <= Bound - read THEN n ELSE Bound - read
  BY <1>1, KeptIs
<1>3. request.rows \in Nat
  BY RequestsAssumption DEF Types
<1>4. Going
  BY DEF NextBatch, Stopped
<1>5. Bound' = Bound /\ (Truncates' <=> Truncates)
  BY DEF Bound, Allowed, Truncates, Driver
<1>6. n <= ahead /\ ahead' = ahead - n /\ read' = read + Kept(n)
  BY DEF NextBatch
<1>7. NewRows(n) = Stretch(read, read')
  BY <1>1, <1>2, <1>6 DEF NewRows, Stretch
<1>8. Kept(n) \in Nat /\ read' \in 0 .. Bound /\ ahead' \in 0 .. request.rows
  BY <1>1, <1>2, <1>3, <1>6 DEF Types
<1>9. CASE Passes(n)
  <2>1. read' = Bound /\ request.rows > Bound
    BY <1>1, <1>2, <1>3, <1>4, <1>6, <1>9 DEF Passes, Going
  <2>2. reading' = FALSE /\ overflow' = TRUE /\ Truncates
    BY <1>9 DEF NextBatch
  <2>3. Stopped'
    BY <2>1, <2>2, <1>5 DEF Stopped
  <2>4. reading' \in BOOLEAN /\ overflow' \in BOOLEAN
    BY <2>2
  <2> QED
    BY <1>6, <1>7, <1>8, <2>3, <2>4
<1>10. CASE ~ Passes(n)
  <2>1. Kept(n) = n
    BY <1>1, <1>2, <1>10 DEF Passes
  <2>2. reading' = TRUE /\ overflow' = FALSE
    <3>1. Passes(n) = FALSE
      BY <1>10 DEF Passes
    <3>2. reading' = ~ Passes(n) /\ overflow' = Passes(n)
      BY DEF NextBatch
    <3> QED
      BY <3>1, <3>2
  <2>3. Going'
    BY <2>1, <2>2, <1>1, <1>3, <1>4, <1>5, <1>6 DEF Going
  <2>4. reading' \in BOOLEAN /\ overflow' \in BOOLEAN
    BY <2>2
  <2> QED
    BY <1>6, <1>7, <1>8, <2>3, <2>4
<1> QED
  BY <1>9, <1>10

\* The end of the rows, or of those there is room for.
LEMMA EndsEffect ==
  ASSUME Types, Going \/ Stopped, NextEnds, request' = request
  PROVE  /\ read' = read /\ ahead' = ahead
         /\ reading' \in BOOLEAN /\ overflow' \in BOOLEAN
         /\ Stopped' \/ (Going' /\ ahead' = 0)
<1>1. read \in Nat /\ ahead \in Nat /\ Bound \in Nat /\ read <= Bound
  BY BoundIs DEF Types
<1>2. request.rows \in Nat
  BY RequestsAssumption DEF Types
<1>3. Bound' = Bound /\ (Truncates' <=> Truncates)
  BY DEF Bound, Allowed, Truncates, Driver
<1>4. CASE reading /\ ahead > 0
  <2>1. read = Bound
    <3>1. Kept(ahead) = 0
      BY <1>4 DEF NextEnds
    <3> QED
      BY <3>1, <1>1, <1>4, KeptIs
  <2>2. request.rows > Bound
    BY <1>1, <1>2, <1>4, <2>1 DEF Going, Stopped
  <2>3. Truncates /\ overflow' = TRUE /\ reading' = FALSE /\ read' = read /\ ahead' = ahead
    BY <1>4 DEF NextEnds
  <2> QED
    BY <1>3, <2>1, <2>2, <2>3 DEF Stopped
<1>5. CASE ~ (reading /\ ahead > 0)
  <2>1. read' = read /\ ahead' = ahead /\ reading' = reading /\ overflow' = overflow
    BY <1>5 DEF NextEnds, execution
  <2>2. Stopped \/ (Going /\ ahead = 0)
    BY <1>1, <1>5 DEF Going
  <2>3. reading' \in BOOLEAN /\ overflow' \in BOOLEAN
    BY <2>1 DEF Types
  <2> QED
    BY <1>3, <2>1, <2>2, <2>3 DEF Going, Stopped
<1> QED
  BY <1>4, <1>5

-----------------------------------------------------------------------------
(* The tables, while they are opened.                                      *)

\* What is opened next is one of the tables the request brought.
LEMMA NextTable ==
  ASSUME Types, Opening # {}
  PROVE  /\ Min(Opening) \in DOMAIN request.tables
         /\ Table \in Range(request.tables) /\ Table.size \in Nat
<1>1. request.tables \in Seq(Range(request.tables))
  BY RequestsAssumption DEF Types
<1>2. DOMAIN request.tables \in SUBSET Nat
  BY <1>1, LenProperties
<1>3. Opening \in SUBSET Nat /\ Opening \subseteq DOMAIN request.tables
  BY <1>2 DEF Opening
<1>4. Min(Opening) \in DOMAIN request.tables
  BY <1>3, MinIs
<1>5. Table.size \in Nat
  BY <1>4, RequestsAssumption DEF Types, Table
<1> QED
  BY <1>4, <1>5 DEF Table, Range

LEMMA PartBytesAreCounted ==
  ASSUME Types
  PROVE  PartBytes \in Nat
<1>1. request.tables \in Seq(Range(request.tables))
  BY RequestsAssumption DEF Types
<1>2. IsFiniteSet(DOMAIN request.tables)
  BY <1>1, LenProperties, FS_Interval
<1>3. IsFiniteSet(Parts) /\ Parts \subseteq DOMAIN request.tables
  BY <1>2, FS_Subset DEF Parts
<1>4. \A i \in Parts : request.tables[i].size \in Nat
  BY <1>3, RequestsAssumption DEF Types
<1> DEFINE f == [i \in Parts |-> request.tables[i].size]
<1>5. \A i \in Parts : f[i] \in Nat
  BY <1>4
<1> HIDE DEF f
<1>6. SumFunctionOnSet(f, Parts) \in Nat
  BY <1>3, <1>5, SumNat
<1> QED
  BY <1>6 DEF f, PartBytes

OneSource == [place : DOMAIN request.tables, table : Range(request.tables),
              kind : {"memory"} \cup Stored]

\* A table opened is one of the request's, after those opened before it.
LEMMA OpenedOne ==
  ASSUME Types, Opening # {}, NEW kind \in {"memory"} \cup Stored, Opened(kind)
  PROVE  /\ sources' \in Seq(OneSource)
         /\ DOMAIN sources = 1 .. Len(sources) /\ Len(sources) \in Nat
         /\ DOMAIN sources' = 1 .. Len(sources) + 1
         /\ \A i \in DOMAIN sources : sources'[i] = sources[i]
         /\ sources'[Len(sources) + 1] =
              [place |-> Min(Opening), table |-> Table, kind |-> kind]
<1> DEFINE one == [place |-> Min(Opening), table |-> Table, kind |-> kind]
<1>1. one \in OneSource
  BY NextTable DEF OneSource
<1>2. sources \in Seq(OneSource) /\ sources' = Append(sources, one)
  BY DEF Types, Opened, OneSource
<1> HIDE DEF one
<1>3. /\ sources' \in Seq(OneSource) /\ Len(sources') = Len(sources) + 1
      /\ \A i \in 1 .. Len(sources) : sources'[i] = sources[i]
      /\ sources'[Len(sources) + 1] = one
  BY <1>1, <1>2, AppendProperties
<1>4. /\ DOMAIN sources = 1 .. Len(sources) /\ Len(sources) \in Nat
      /\ DOMAIN sources' = 1 .. Len(sources')
  BY <1>2, <1>3, LenProperties
<1> QED
  BY <1>3, <1>4 DEF one

\* A table held in memory changes nothing of what was opened for those read in place.
LEMMA OpenedInMemory ==
  ASSUME Types, OpenedAlike, at \notin Ended, Opening # {}, Opened("memory"),
         authorities' = authorities, dataFiles' = dataFiles, at' \in Asking
  PROVE  OpenedAlike'
<1>1. /\ DOMAIN sources = 1 .. Len(sources) /\ Len(sources) \in Nat
      /\ DOMAIN sources' = 1 .. Len(sources) + 1
      /\ \A i \in DOMAIN sources : sources'[i] = sources[i]
      /\ sources'[Len(sources) + 1].kind = "memory"
  <2>1. sources'[Len(sources) + 1] = [place |-> Min(Opening), table |-> Table, kind |-> "memory"]
    BY OpenedOne
  <2> QED
    BY <2>1, OpenedOne
<1>2. DOMAIN sources \subseteq DOMAIN sources'
  BY <1>1
<1>3. \A i \in DOMAIN sources' :
        sources'[i].kind \in Stored => i \in DOMAIN sources /\ sources'[i] = sources[i]
  BY <1>1 DEF Stored
<1>4. ~ Planned'
  BY DEF Planned
<1>5. \A i \in DOMAIN sources' : sources'[i].kind \in Stored =>
        /\ sources'[i].table.site \in DOMAIN authorities'
        /\ authorities'[sources'[i].table.site] = sources'[i].table.options
  BY <1>3 DEF OpenedAlike
<1>6. \A i \in DOMAIN sources' : sources'[i].kind = "hats" =>
        \/ dataFiles' = sources'[i].table.list
        \/ \E j \in DOMAIN sources' :
             sources'[j].kind = "hats" /\ sources'[j].table.list # sources'[i].table.list
  <2> SUFFICES ASSUME NEW i \in DOMAIN sources', sources'[i].kind = "hats",
                      dataFiles' # sources'[i].table.list
               PROVE  \E j \in DOMAIN sources' :
                        sources'[j].kind = "hats" /\ sources'[j].table.list # sources'[i].table.list
    OBVIOUS
  <2>1. i \in DOMAIN sources /\ sources'[i] = sources[i]
    BY <1>3 DEF Stored
  <2>2. PICK j \in DOMAIN sources :
          sources[j].kind = "hats" /\ sources[j].table.list # sources[i].table.list
    BY <2>1 DEF OpenedAlike
  <2> QED
    BY <1>1, <1>2, <2>1, <2>2
<1> QED
  BY <1>4, <1>5, <1>6 DEF OpenedAlike

\* What a step of opening changes, and that budget, list and authorities follow it.
LEMMA OpeningEffect ==
  ASSUME StatementInv, OpenOne
  PROVE  /\ UNCHANGED <<request, registry, execution, holding, told, files, body>>
         /\ at \in Asking /\ at' \in Asking \cup {"refused"}
         /\ left' \in Nat /\ held' \in Nat /\ held' + left' = MaxUpload
         /\ fetched' \in Nat
         /\ at' = "fetching" => Opening' # {} /\ fetched' <= Table'.size
         /\ sources' \in Seq(OneSource)
         /\ dataFiles' \in {NoList} \cup {t.list : t \in Range(request.tables)}
         /\ OpenedAlike'
<1> USE DEF StatementInv, Asking, Ended
<1>0. /\ Types /\ left \in Nat /\ held \in Nat /\ held + left = MaxUpload
      /\ sources \in Seq(OneSource) /\ MaxUpload \in Nat
  BY RequestsAssumption DEF Types, WithinAllowances, OneSource
<1>1. CASE ChargeParts
  <2>1. PartBytes \in Nat
    BY <1>0, PartBytesAreCounted
  <2>2. UNCHANGED <<request, fetched, sources, authorities, dataFiles, registry>>
    BY <1>1 DEF ChargeParts
  <2>3. at = "asked" /\ Spend(PartBytes, "opening")
    BY <1>1 DEF ChargeParts
  <2>4. left' \in Nat /\ held' \in Nat /\ held' + left' = MaxUpload
    BY <1>0, <2>1, <2>3 DEF Spend
  <2>5. at' \in {"opening", "refused"}
    BY <2>3 DEF Spend, Refused
  <2>6. OpenedAlike'
    BY <2>2, <2>3, <2>5 DEF OpenedAlike, Planned
  <2> QED
    BY <1>0, <2>2, <2>3, <2>4, <2>5, <2>6 DEF OpenOne, Types
<1>2. CASE OpenMemory
  <2>1. Opened("memory") /\ More
    BY <1>2 DEF OpenMemory
  <2>2. UNCHANGED <<request, at, left, held, fetched, authorities, dataFiles, registry>>
    BY <1>2 DEF OpenMemory
  <2>3. OpenedAlike'
    BY <1>0, <2>1, <2>2, OpenedInMemory DEF More
  <2> QED
    BY <1>0, <2>1, <2>2, <2>3, OpenedOne DEF OpenOne, Types, More
<1>3. CASE StartFetch
  <2>1. at = "opening" /\ Opening # {} /\ at' = "fetching" /\ fetched' = 0
    BY <1>3 DEF StartFetch, More
  <2>2. UNCHANGED <<request, left, held, sources, authorities, dataFiles, registry>>
    BY <1>3 DEF StartFetch
  <2>3. Opening' = Opening /\ Table' = Table
    BY <2>2 DEF Opening, Table
  <2>4. OpenedAlike'
    BY <2>1, <2>2 DEF OpenedAlike, Planned
  <2>5. fetched' <= Table'.size
    BY <1>0, <2>1, <2>3, NextTable
  <2> QED
    BY <1>0, <2>1, <2>2, <2>3, <2>4, <2>5 DEF OpenOne, Types
<1>4. CASE FetchChunk
  <2>1. PICK n \in 1 .. (Table.size - fetched) : Spend(n, at) /\ fetched' = fetched + n
    BY <1>4 DEF FetchChunk
  <2>2. UNCHANGED <<request, sources, authorities, dataFiles, registry>> /\ at = "fetching"
    BY <1>4 DEF FetchChunk
  <2>3. Opening' = Opening /\ Table' = Table /\ Opening # {}
    BY <2>2 DEF Opening, Table, WithinAllowances
  <2>4. Table.size \in Nat /\ fetched \in Nat /\ n \in Nat /\ fetched + n <= Table.size
    BY <1>0, <2>1, <2>3, NextTable DEF Types
  <2>5. left' \in Nat /\ held' \in Nat /\ held' + left' = MaxUpload
    BY <1>0, <2>1, <2>4 DEF Spend
  <2>6. at' \in {"fetching", "refused"}
    BY <2>1, <2>2 DEF Spend, Refused
  <2>7. OpenedAlike'
    BY <2>2, <2>6 DEF OpenedAlike, Planned
  <2>8. Opening' # {} /\ fetched' <= Table'.size /\ fetched' \in Nat
    BY <2>1, <2>3, <2>4
  <2> QED
    BY <1>0, <2>2, <2>5, <2>6, <2>7, <2>8 DEF OpenOne, Types
<1>5. CASE FetchEnds
  <2>1. Opened("memory") /\ at = "fetching" /\ at' = "opening"
    BY <1>5 DEF FetchEnds
  <2>2. UNCHANGED <<request, left, held, fetched, authorities, dataFiles, registry>>
    BY <1>5 DEF FetchEnds
  <2>3. Opening # {}
    BY <2>1 DEF WithinAllowances
  <2>4. OpenedAlike'
    BY <1>0, <2>1, <2>2, <2>3, OpenedInMemory
  <2> QED
    BY <1>0, <2>1, <2>2, <2>3, <2>4, OpenedOne DEF OpenOne, Types
<1>6. CASE OpenStored
  <2>1. PICK kind \in Kinds(Table) \cap Stored :
          /\ dataFiles' = IF kind = "hats" THEN Table.list ELSE dataFiles
          /\ IF Collides(Table)
             THEN Refused /\ UNCHANGED <<sources, authorities>>
             ELSE /\ Opened(kind)
                  /\ authorities' = [s \in DOMAIN authorities \cup {Table.site} |->
                       IF s \in DOMAIN authorities THEN authorities[s] ELSE Table.options]
                  /\ UNCHANGED at
    BY <1>6 DEF OpenStored
  <2>2. UNCHANGED <<request, left, held, fetched, registry>> /\ at = "opening" /\ Opening # {}
    BY <1>6 DEF OpenStored, More
  <2>3. Table \in Range(request.tables)
    BY <1>0, <2>2, NextTable
  <2>4. dataFiles' \in {NoList} \cup {t.list : t \in Range(request.tables)}
    BY <2>1, <2>3 DEF Types
  <2>5. CASE Collides(Table)
    BY <1>0, <2>1, <2>2, <2>4, <2>5 DEF OpenOne, Types, Refused, OpenedAlike
  <2>6. CASE ~ Collides(Table)
    <3>1. Opened(kind) /\ at' = at
      BY <2>1, <2>6
    <3>2. authorities' = [s \in DOMAIN authorities \cup {Table.site} |->
            IF s \in DOMAIN authorities THEN authorities[s] ELSE Table.options]
      BY <2>1, <2>6
    <3>3. /\ DOMAIN sources = 1 .. Len(sources) /\ Len(sources) \in Nat
          /\ DOMAIN sources' = 1 .. Len(sources) + 1
          /\ \A i \in DOMAIN sources : sources'[i] = sources[i]
          /\ sources'[Len(sources) + 1].kind = kind
          /\ sources'[Len(sources) + 1].table = Table
          /\ sources' \in Seq(OneSource)
      <4>1. kind \in {"memory"} \cup Stored
        BY <2>1
      <4>2. sources'[Len(sources) + 1] = [place |-> Min(Opening), table |-> Table, kind |-> kind]
        BY <1>0, <2>2, <3>1, <4>1, OpenedOne
      <4> QED
        BY <1>0, <2>2, <3>1, <4>1, <4>2, OpenedOne
    <3>4. \A i \in DOMAIN sources' : i \in DOMAIN sources \/ i = Len(sources) + 1
      BY <3>3
    <3>5. \A i \in DOMAIN sources' : sources'[i].kind \in Stored =>
            /\ sources'[i].table.site \in DOMAIN authorities'
            /\ authorities'[sources'[i].table.site] = sources'[i].table.options
      BY <2>2, <2>6, <3>2, <3>3, <3>4 DEF OpenedAlike, Collides
    <3>6. \A i \in DOMAIN sources' : sources'[i].kind = "hats" =>
            \/ dataFiles' = sources'[i].table.list
            \/ \E j \in DOMAIN sources' :
                 sources'[j].kind = "hats" /\ sources'[j].table.list # sources'[i].table.list
      BY <2>1, <2>2, <3>3, <3>4 DEF OpenedAlike
    <3>7. OpenedAlike'
      BY <2>2, <3>1, <3>5, <3>6 DEF OpenedAlike, Planned
    <3> QED
      BY <1>0, <2>2, <2>4, <3>1, <3>3, <3>7 DEF OpenOne, Types
  <2> QED
    BY <2>5, <2>6
<1>7. CASE RefuseTable
  <2>1. /\ at \in {"opening", "fetching"} /\ at' = "refused"
        /\ UNCHANGED <<request, opening, registry>>
    BY <1>7 DEF RefuseTable, Refused, More
  <2> QED
    BY <1>0, <2>1 DEF OpenOne, Types, opening, OpenedAlike
<1> QED
  BY <1>1, <1>2, <1>3, <1>4, <1>5, <1>6, <1>7 DEF OpenOne, OpenTables

-----------------------------------------------------------------------------
(* The steps after the tables are open, one conjunct at a time.            *)

Writing ==
  \/ Collect \/ Encode \/ StreamHead \/ StreamRows \/ StreamEnds
  \/ Spool \/ FileHead \/ FileRows \/ FileEnd \/ Rename \/ FileFails

\* What a request asks for does not change.
LEMMA AskedAlike ==
  ASSUME request' = request
  PROVE  /\ Bound' = Bound /\ (Truncates' <=> Truncates) /\ (Measured' <=> Measured)
         /\ \A names : Driver(names)' <=> Driver(names)
  BY DEF Bound, Allowed, Truncates, Measured, Driver, Format

\* Writing an answer leaves the tables as they are, whichever way it is written.
LEMMA WritingEffect ==
  ASSUME Writing
  PROVE  /\ UNCHANGED <<request, left, held, fetched, sources, authorities, dataFiles, registry>>
         /\ at \notin Ended \cup Asking /\ at' \notin Asking
<1> USE DEF Ended, Asking, tables, opening, Refused
<1>1. CASE Collect
  BY <1>1 DEF Collect
<1>2. CASE Encode
  BY <1>2 DEF Encode
<1>3. CASE StreamHead
  BY <1>3 DEF StreamHead, Streaming
<1>4. CASE StreamRows
  BY <1>4 DEF StreamRows, Streaming
<1>5. CASE StreamEnds
  BY <1>5 DEF StreamEnds, Streaming
<1>6. CASE Spool
  BY <1>6 DEF Spool
<1>7. CASE FileHead
  BY <1>7 DEF FileHead, Keep
<1>8. CASE FileRows
  BY <1>8 DEF FileRows, KeepRows, Keep
<1>9. CASE FileEnd
  BY <1>9 DEF FileEnd, Keep
<1>10. CASE Rename
  BY <1>10 DEF Rename
<1>11. CASE FileFails
  BY <1>11 DEF FileFails
<1> QED
  BY <1>1, <1>2, <1>3, <1>4, <1>5, <1>6, <1>7, <1>8, <1>9, <1>10, <1>11 DEF Writing

\* What writing does to the rows still to come, whichever way it is written: a batch is
\* read, the rows end, or nothing is, or what was read on is not.
LEMMA WritingReads ==
  ASSUME Writing
  PROVE  \/ \E n \in Batches : NextBatch(n)
         \/ NextEnds \/ NextFails \/ UNCHANGED execution
<1>1. CASE Collect
  BY <1>1 DEF Collect
<1>2. CASE Encode
  BY <1>2 DEF Encode
<1>3. CASE StreamHead
  BY <1>3 DEF StreamHead
<1>4. CASE StreamRows
  BY <1>4 DEF StreamRows
<1>5. CASE StreamEnds
  BY <1>5 DEF StreamEnds
<1>6. CASE Spool
  BY <1>6 DEF Spool
<1>7. CASE FileHead
  BY <1>7 DEF FileHead
<1>8. CASE FileRows
  BY <1>8 DEF FileRows
<1>9. CASE FileEnd
  BY <1>9 DEF FileEnd
<1>10. CASE Rename
  BY <1>10 DEF Rename
<1>11. CASE FileFails
  BY <1>11 DEF FileFails
<1> QED
  BY <1>1, <1>2, <1>3, <1>4, <1>5, <1>6, <1>7, <1>8, <1>9, <1>10, <1>11 DEF Writing

\* Until it ends, whatever is being written reads on or has stopped at the bound.
LEMMA WhileWriting ==
  ASSUME StatementInv, Writing
  PROVE  closed = "open" /\ told = "nothing" /\ (Going \/ Stopped)
<1>1. closed = "open"
  <2>1. at # "answered"
    BY WritingEffect DEF Ended
  <2>2. at = "streaming" => Streaming
    BY DEF Writing, Collect, Encode, StreamHead, StreamRows, StreamEnds, Spool, FileHead,
           FileRows, FileEnd, Rename, FileFails
  <2> QED
    BY <2>1, <2>2 DEF StatementInv, InItsWay, Streaming
<1> QED
  BY <1>1, WritingEffect DEF StatementInv, ReadToTheBound, Planned, InItsWay

\* How much was read stays within the bound and the statement.
LEMMA ReadingTyped ==
  ASSUME StatementInv, Writing
  PROVE  /\ read' \in 0 .. Bound /\ ahead' \in 0 .. request.rows
         /\ reading' \in BOOLEAN /\ overflow' \in BOOLEAN
<1>1. Types /\ request' = request /\ (Going \/ Stopped)
  BY WritingEffect, WhileWriting DEF StatementInv
<1>2. CASE \E n \in Batches : NextBatch(n)
  BY <1>1, <1>2, BatchEffect
<1>3. CASE NextEnds
  BY <1>1, <1>3, EndsEffect DEF Types
<1>4. CASE NextFails
  BY <1>1, <1>4 DEF Types, NextFails
<1>5. CASE UNCHANGED execution
  BY <1>1, <1>5 DEF Types, execution
<1> QED
  BY <1>2, <1>3, <1>4, <1>5, WritingReads

\* Rows read and kept.
LEMMA RowsKept ==
  ASSUME StatementInv, Writing, NEW n \in Batches, NextBatch(n),
         holding' = holding \o NewRows(n), sent' = sent
  PROVE  /\ holding' \in Seq(Nat) /\ Len(sent') <= read'
         /\ sent' = Stretch(0, Len(sent')) /\ holding' = Stretch(Len(sent'), read')
<1>1. Types /\ request' = request /\ (Going \/ Stopped) /\ closed = "open"
  BY WritingEffect, WhileWriting DEF StatementInv
<1>2. Kept(n) \in Nat /\ read' = read + Kept(n) /\ NewRows(n) = Stretch(read, read')
  BY <1>1, BatchEffect
<1>3. /\ Len(sent) <= read /\ Len(sent) \in Nat /\ read \in Nat
      /\ sent = Stretch(0, Len(sent)) /\ holding = Stretch(Len(sent), read)
  BY <1>1, BoundIs, LenProperties DEF StatementInv, RowsInOrder, Types
<1>4. read' \in Nat /\ read <= read' /\ Len(sent) <= read'
  BY <1>2, <1>3
<1>5. holding' = Stretch(Len(sent), read')
  <2>1. Stretch(Len(sent), read) \o Stretch(read, read') = Stretch(Len(sent), read')
    BY <1>3, <1>4, StretchJoins
  <2> QED
    BY <1>2, <1>3, <2>1
<1>6. holding' \in Seq(Nat)
  BY <1>3, <1>4, <1>5, StretchIs
<1> QED
  BY <1>3, <1>4, <1>5, <1>6

\* Rows read and sent, where none are kept.
LEMMA RowsSent ==
  ASSUME StatementInv, Writing, NEW n \in Batches, NextBatch(n),
         sent' = sent \o NewRows(n), holding = <<>>, holding' = holding
  PROVE  /\ sent' \in Seq(Nat) /\ Len(sent') <= read'
         /\ sent' = Stretch(0, Len(sent')) /\ holding' = Stretch(Len(sent'), read')
<1>1. Types /\ request' = request /\ (Going \/ Stopped) /\ closed = "open"
  BY WritingEffect, WhileWriting DEF StatementInv
<1>2. Kept(n) \in Nat /\ read' = read + Kept(n) /\ NewRows(n) = Stretch(read, read')
  BY <1>1, BatchEffect
<1>3. /\ Len(sent) <= read /\ Len(sent) \in Nat /\ read \in Nat
      /\ sent = Stretch(0, Len(sent)) /\ holding = Stretch(Len(sent), read)
  BY <1>1, BoundIs, LenProperties DEF StatementInv, RowsInOrder, Types
<1>4. Len(sent) = read
  <2>1. Len(holding) = read - Len(sent)
    BY <1>3, StretchIs
  <2>2. Len(holding) = 0
    OBVIOUS
  <2> QED
    BY <2>1, <2>2, <1>3
<1>5. read' \in Nat /\ read <= read' /\ 0 <= read /\ 0 <= read'
  BY <1>2, <1>3
<1>6. sent' = Stretch(0, read')
  <2>1. Stretch(0, read) \o Stretch(read, read') = Stretch(0, read')
    BY <1>3, <1>5, StretchJoins
  <2> QED
    BY <1>2, <1>3, <1>4, <2>1
<1>7. sent' \in Seq(Nat) /\ Len(sent') = read'
  BY <1>5, <1>6, StretchIs
<1>8. holding' = Stretch(read', read')
  <2>1. Stretch(read', read') = <<>>
    BY <1>5, StretchOfNone
  <2> QED
    BY <2>1
<1> QED
  BY <1>5, <1>6, <1>7, <1>8

\* Rows kept and read back.
LEMMA RowsReadBack ==
  ASSUME StatementInv, Writing, NEW n \in Batches, n <= Len(holding),
         sent' = sent \o SubSeq(holding, 1, n),
         holding' = SubSeq(holding, n + 1, Len(holding)), read' = read
  PROVE  /\ sent' \in Seq(Nat) /\ holding' \in Seq(Nat) /\ Len(sent') <= read'
         /\ sent' = Stretch(0, Len(sent')) /\ holding' = Stretch(Len(sent'), read')
<1>1. Types /\ closed = "open" /\ n \in Nat
  BY WhileWriting, BoundsAssumption DEF StatementInv, Batches
<1>2. /\ Len(sent) <= read /\ Len(sent) \in Nat /\ read \in Nat
      /\ sent = Stretch(0, Len(sent)) /\ holding = Stretch(Len(sent), read)
  BY <1>1, BoundIs, LenProperties DEF StatementInv, RowsInOrder, Types
<1> DEFINE m == Len(sent)
<1> HIDE DEF m
<1>3. m \in Nat /\ m <= read /\ sent = Stretch(0, m) /\ holding = Stretch(m, read)
  BY <1>2 DEF m
<1>4. Len(holding) = read - m
  BY <1>2, <1>3, StretchIs
<1>5. n <= read - m /\ m + n \in Nat /\ m <= m + n /\ m + n <= read /\ 0 <= m /\ 0 <= m + n
  BY <1>1, <1>2, <1>3, <1>4
<1>6. SubSeq(holding, 1, n) = Stretch(m, m + n) /\ holding' = Stretch(m + n, read)
  <2>1. /\ SubSeq(Stretch(m, read), 1, n) = Stretch(m, m + n)
        /\ SubSeq(Stretch(m, read), n + 1, Len(Stretch(m, read))) = Stretch(m + n, read)
    BY <1>1, <1>2, <1>3, <1>5, StretchSplits
  <2>2. holding = Stretch(m, read)
    BY <1>2 DEF m
  <2> QED
    BY <2>1, <2>2
<1>7. sent' = Stretch(0, m + n)
  BY <1>3, <1>5, <1>6, StretchJoins
<1>8. sent' \in Seq(Nat) /\ Len(sent') = m + n
  <2>1. Stretch(0, m + n) \in Seq(Nat) /\ Len(Stretch(0, m + n)) = (m + n) - 0
    BY <1>5, StretchIs
  <2>2. (m + n) - 0 = m + n
    BY <1>5
  <2> QED
    BY <2>1, <2>2, <1>7
<1>9. holding' \in Seq(Nat)
  BY <1>2, <1>5, <1>6, StretchIs
<1> QED
  BY <1>5, <1>6, <1>7, <1>8, <1>9

\* Rows nobody touched.
LEMMA RowsStay ==
  ASSUME StatementInv, Writing, sent' = sent, holding' = holding, read' = read
  PROVE  /\ sent' \in Seq(Nat) /\ holding' \in Seq(Nat) /\ Len(sent') <= read'
         /\ sent' = Stretch(0, Len(sent')) /\ holding' = Stretch(Len(sent'), read')
  BY WhileWriting DEF StatementInv, Types, RowsInOrder

\* What stops the reading leaves what was read.
LEMMA NothingRead ==
  ASSUME NextEnds \/ NextFails
  PROVE  read' = read
  BY DEF NextEnds, NextFails, execution

\* Until there is an answer, what left and what is kept back are the rows read, in order.
LEMMA WritingKeepsRows ==
  ASSUME StatementInv, Writing
  PROVE  /\ sent' \in Seq(Nat) /\ holding' \in Seq(Nat)
         /\ closed' = "open" =>
              /\ Len(sent') <= read'
              /\ sent' = Stretch(0, Len(sent')) /\ holding' = Stretch(Len(sent'), read')
<1>0. sent \in Seq(Nat) /\ holding \in Seq(Nat)
  BY DEF StatementInv, Types
<1>1. CASE Collect
  <2>1. sent' = sent
    BY <1>1 DEF Collect, body
  <2>2. CASE \E n \in Batches : NextBatch(n) /\ holding' = holding \o NewRows(n)
    BY <2>1, <2>2, <1>0, RowsKept
  <2>3. CASE (NextEnds \/ NextFails) /\ holding' = holding
    BY <2>1, <2>3, NothingRead, RowsStay
  <2> QED
    BY <1>1, <2>2, <2>3 DEF Collect
<1>2. CASE Encode
  <2>1. holding' = holding /\ read' = read
    BY <1>2 DEF Encode, execution
  <2>2. CASE sent' = holding /\ closed' = "whole"
    BY <2>1, <2>2, <1>0
  <2>3. CASE sent' = sent
    BY <2>1, <2>3, RowsStay
  <2> QED
    BY <1>2, <2>2, <2>3 DEF Encode, Close, body
<1>3. CASE StreamHead
  <2>1. sent' = sent /\ holding' = holding /\ read' = read
    BY <1>3 DEF StreamHead, Begin, SendHead, body, execution
  <2> QED
    BY <2>1, RowsStay
<1>4. CASE StreamRows
  <2>1. PICK n \in Batches : NextBatch(n) /\ SendRows(NewRows(n))
    BY <1>4 DEF StreamRows
  <2>2. holding' = holding /\ holding = <<>>
    BY <1>4 DEF StreamRows, Streaming, StatementInv, RowsInOrder, InItsWay, Driver
  <2>3. CASE sent' = sent \o NewRows(n)
    BY <2>1, <2>2, <2>3, <1>0, RowsSent
  <2>4. CASE closed' = "cut" /\ sent' = sent
    BY <2>2, <2>4, <1>0
  <2> QED
    BY <2>1, <2>3, <2>4 DEF SendRows, Close
<1>5. CASE StreamEnds
  <2>1. sent' = sent /\ holding' = holding /\ read' = read
    BY <1>5, NothingRead DEF StreamEnds, FinishBody
  <2> QED
    BY <2>1, RowsStay
<1>6. CASE Spool
  <2>1. sent' = sent
    BY <1>6 DEF Spool, body
  <2>2. CASE \E n \in Batches : NextBatch(n) /\ holding' = holding \o NewRows(n)
    BY <2>1, <2>2, <1>0, RowsKept
  <2>3. CASE (NextEnds \/ NextFails) /\ holding' = holding
    BY <2>1, <2>3, NothingRead, RowsStay
  <2> QED
    BY <1>6, <2>2, <2>3 DEF Spool
<1>7. CASE FileHead
  <2>1. sent' = sent /\ holding' = holding /\ read' = read
    BY <1>7 DEF FileHead, body, execution
  <2> QED
    BY <2>1, RowsStay
<1>8. CASE FileRows
  <2>1. PICK n \in Batches :
          IF Measured
          THEN /\ n <= Len(holding)
               /\ sent' = sent \o SubSeq(holding, 1, n)
               /\ holding' = SubSeq(holding, n + 1, Len(holding))
               /\ UNCHANGED execution
          ELSE /\ NextBatch(n)
               /\ sent' = sent \o NewRows(n)
               /\ UNCHANGED holding
    BY <1>8 DEF FileRows
  <2>2. CASE Measured
    BY <2>1, <2>2, RowsReadBack DEF execution
  <2>3. CASE ~ Measured
    <3>1. holding = <<>>
      BY <1>8, <2>3 DEF FileRows, StatementInv, RowsInOrder
    <3> QED
      BY <2>1, <2>3, <3>1, <1>0, RowsSent
  <2> QED
    BY <2>2, <2>3
<1>9. CASE FileEnd
  <2>1. sent' = sent /\ holding' = holding
    BY <1>9 DEF FileEnd, body
  <2>2. read' = read
    BY <1>9, NothingRead DEF FileEnd, execution
  <2> QED
    BY <2>1, <2>2, RowsStay
<1>10. CASE Rename
  <2>1. sent' = sent /\ holding' = holding /\ read' = read
    BY <1>10 DEF Rename, execution
  <2> QED
    BY <2>1, RowsStay
<1>11. CASE FileFails
  <2>1. sent' = sent /\ holding' = holding /\ read' = read
    BY <1>11 DEF FileFails, body, execution
  <2> QED
    BY <2>1, RowsStay
<1> QED
  BY <1>1, <1>2, <1>3, <1>4, <1>5, <1>6, <1>7, <1>8, <1>9, <1>10, <1>11 DEF Writing

\* Where a way of writing has got to, and what was sent and kept there.
LEMMA WritingPlaces ==
  ASSUME StatementInv, Writing
  PROVE  /\ at' \in Ended \cup {"collecting", "encoding", "head", "streaming", "spooling",
                                "writing", "closing"}
         /\ closed' \in {"open", "whole", "short", "cut"}
         /\ told' \in {"nothing", "overflow", "failed"}
         /\ InItsWay'
<1> USE DEF StatementInv, Types, InItsWay, Driver, Ended, Refused, body
<1>0. request' = request /\ (Measured' <=> Measured)
  BY WritingEffect, AskedAlike
<1>1. CASE Collect
  BY <1>0, <1>1 DEF Collect
<1>2. CASE Encode
  BY <1>0, <1>2 DEF Encode, Close
<1>3. CASE StreamHead
  BY <1>0, <1>3 DEF StreamHead, Begin, SendHead, Streaming
<1>4. CASE StreamRows
  BY <1>0, <1>4 DEF StreamRows, SendRows, Close, Streaming
<1>5. CASE StreamEnds
  BY <1>0, <1>5 DEF StreamEnds, FinishBody, Close, Streaming
<1>6. CASE Spool
  BY <1>0, <1>6 DEF Spool
<1>7. CASE FileHead
  BY <1>0, <1>7 DEF FileHead, Keep
<1>8. CASE FileRows
  BY <1>0, <1>8 DEF FileRows, KeepRows, Keep
<1>9. CASE FileEnd
  BY <1>0, <1>9 DEF FileEnd, Keep
<1>10. CASE Rename
  BY <1>0, <1>10 DEF Rename, Close
<1>11. CASE FileFails
  BY <1>0, <1>11 DEF FileFails
<1> QED
  BY <1>1, <1>2, <1>3, <1>4, <1>5, <1>6, <1>7, <1>8, <1>9, <1>10, <1>11 DEF Writing

\* Rows are sent and kept only where a driver does so.
LEMMA WritingRowsInOrder ==
  ASSUME StatementInv, Writing
  PROVE  RowsInOrder'
<1> DEFINE Empty ==
      /\ at \in Asking \cup {"collecting", "encoding", "spooling", "head"} => sent = <<>>
      /\ at \in {"head", "streaming", "writing"} /\ ~ (Measured /\ Driver({"job"}))
           => holding = <<>>
      /\ at \in Asking \cup {"closing"} => holding = <<>>
<1> SUFFICES Empty'
  BY WritingKeepsRows DEF RowsInOrder
<1>0. /\ request' = request /\ (Measured' <=> Measured) /\ Empty /\ InItsWay
  BY WritingEffect, AskedAlike DEF StatementInv, RowsInOrder
<1> USE DEF InItsWay, Driver, Ended, Asking, Refused, body
<1>1. CASE Collect
  BY <1>0, <1>1 DEF Collect
<1>2. CASE Encode
  BY <1>0, <1>2 DEF Encode, Close
<1>3. CASE StreamHead
  BY <1>0, <1>3 DEF StreamHead, Begin, SendHead, Streaming
<1>4. CASE StreamRows
  BY <1>0, <1>4 DEF StreamRows, SendRows, Close, Streaming
<1>5. CASE StreamEnds
  BY <1>0, <1>5 DEF StreamEnds, FinishBody, Close, Streaming
<1>6. CASE Spool
  BY <1>0, <1>6 DEF Spool
<1>7. CASE FileHead
  BY <1>0, <1>7 DEF FileHead, Keep
<1>8. CASE FileRows
  BY <1>0, <1>8 DEF FileRows, KeepRows, Keep
<1>9. CASE FileEnd
  BY <1>0, <1>9 DEF FileEnd, Keep
<1>10. CASE Rename
  BY <1>0, <1>10 DEF Rename, Close
<1>11. CASE FileFails
  BY <1>0, <1>11 DEF FileFails
<1> QED
  BY <1>1, <1>2, <1>3, <1>4, <1>5, <1>6, <1>7, <1>8, <1>9, <1>10, <1>11 DEF Writing

\* What cannot be read on was read to the bound or to the end.
LEMMA WritingReadToTheBound ==
  ASSUME StatementInv, Writing
  PROVE  ReadToTheBound'
<1> DEFINE Done == at \in {"encoding", "closing"} \/ (Measured /\ Driver({"job"})
                                                      /\ at \in {"head", "writing"})
<1>0. /\ request' = request /\ (Measured' <=> Measured) /\ InItsWay /\ at' \notin Asking
      /\ Types /\ (Going \/ Stopped) /\ (Done => Stopped \/ ahead = 0)
      /\ Bound' = Bound /\ (Truncates' <=> Truncates)
  BY WritingEffect, WhileWriting, AskedAlike DEF StatementInv, ReadToTheBound
<1>00. ASSUME UNCHANGED execution
       PROVE  /\ Going' \/ Stopped'
              /\ Stopped \/ ahead = 0 => Stopped' \/ ahead' = 0
  BY <1>0, <1>00 DEF Going, Stopped, execution
<1>01. ASSUME NEW n \in Batches, NextBatch(n)
       PROVE  Going' \/ Stopped'
  BY <1>0, <1>01, BatchEffect
<1>02. ASSUME NextEnds
       PROVE  Stopped' \/ (Going' /\ ahead' = 0)
  BY <1>0, <1>02, EndsEffect
<1> DEFINE Goes == at' \notin Ended /\ closed' = "open" => Going' \/ Stopped'
           Ends == Done' => Stopped' \/ ahead' = 0
<1> SUFFICES Goes /\ Ends
  BY <1>0 DEF ReadToTheBound, Planned
<1> USE DEF InItsWay, Driver, Ended, Asking, Refused, body
<1>1. CASE Collect
  BY <1>0, <1>00, <1>01, <1>02, <1>1 DEF Collect
<1>2. CASE Encode
  BY <1>0, <1>00, <1>01, <1>02, <1>2 DEF Encode, Close
<1>3. CASE StreamHead
  BY <1>0, <1>00, <1>01, <1>02, <1>3 DEF StreamHead, Begin, SendHead, Streaming
<1>4. CASE StreamRows
  BY <1>0, <1>00, <1>01, <1>02, <1>4 DEF StreamRows, SendRows, Close, Streaming
<1>5. CASE StreamEnds
  BY <1>0, <1>00, <1>01, <1>02, <1>5 DEF StreamEnds, FinishBody, Close, Streaming
<1>6. CASE Spool
  BY <1>0, <1>00, <1>01, <1>02, <1>6 DEF Spool
<1>7. CASE FileHead
  BY <1>0, <1>00, <1>01, <1>02, <1>7 DEF FileHead, Keep
<1>8. CASE FileRows
  BY <1>0, <1>00, <1>01, <1>02, <1>8 DEF FileRows, KeepRows, Keep
<1>9. CASE FileEnd
  BY <1>0, <1>00, <1>01, <1>02, <1>9 DEF FileEnd, Keep
<1>10. CASE Rename
  BY <1>0, <1>00, <1>01, <1>02, <1>10 DEF Rename, Close
<1>11. CASE FileFails
  BY <1>0, <1>00, <1>01, <1>02, <1>11 DEF FileFails
<1> QED
  BY <1>1, <1>2, <1>3, <1>4, <1>5, <1>6, <1>7, <1>8, <1>9, <1>10, <1>11 DEF Writing

\* What a job writes is within the ceiling, and its spool goes with the work.
LEMMA WritingWithinAllowances ==
  ASSUME StatementInv, Writing
  PROVE  WithinAllowances'
<1>0. /\ request' = request /\ (Measured' <=> Measured) /\ InItsWay /\ WithinAllowances
      /\ left' = left /\ held' = held /\ at' # "fetching" /\ 0 <= Ceiling
  BY WritingEffect, AskedAlike, BoundsAssumption DEF StatementInv, Asking
<1> DEFINE Files ==
      /\ sink <= Ceiling /\ spool <= Ceiling
      /\ at \notin {"spooling", "head", "writing"} \/ ~ (Measured /\ Driver({"job"})) => spool = 0
<1>01. Files
  BY <1>0 DEF WithinAllowances
<1> SUFFICES Files'
  BY <1>0 DEF WithinAllowances
<1> USE DEF InItsWay, Driver, Ended, Refused, files, DropSpool
<1>1. CASE Collect
  BY <1>0, <1>01, <1>1 DEF Collect
<1>2. CASE Encode
  BY <1>0, <1>01, <1>2 DEF Encode, Close
<1>3. CASE StreamHead
  BY <1>0, <1>01, <1>3 DEF StreamHead, Begin, SendHead, Streaming
<1>4. CASE StreamRows
  BY <1>0, <1>01, <1>4 DEF StreamRows, SendRows, Close, Streaming
<1>5. CASE StreamEnds
  BY <1>0, <1>01, <1>5 DEF StreamEnds, FinishBody, Close, Streaming
<1>6. CASE Spool
  BY <1>0, <1>01, <1>6 DEF Spool
<1>7. CASE FileHead
  BY <1>0, <1>01, <1>7 DEF FileHead, Keep
<1>8. CASE FileRows
  BY <1>0, <1>01, <1>8 DEF FileRows, KeepRows, Keep
<1>9. CASE FileEnd
  BY <1>0, <1>01, <1>9 DEF FileEnd, Keep
<1>10. CASE Rename
  BY <1>0, <1>01, <1>10 DEF Rename, Close
<1>11. CASE FileFails
  BY <1>0, <1>01, <1>11 DEF FileFails
<1> QED
  BY <1>1, <1>2, <1>3, <1>4, <1>5, <1>6, <1>7, <1>8, <1>9, <1>10, <1>11 DEF Writing

LEMMA WritingKeepsInv ==
  ASSUME StatementInv, Writing
  PROVE  StatementInv'
<1>0. /\ UNCHANGED <<request, left, held, fetched, sources, authorities, dataFiles, registry>>
      /\ at \notin Ended \cup Asking /\ at' \notin Asking
  BY WritingEffect
<1>1. Types'
  <2>1. Bound' = Bound
    BY <1>0, AskedAlike
  <2> QED
    BY <1>0, <2>1, ReadingTyped, WritingKeepsRows, WritingPlaces DEF StatementInv, Types
<1>2. OpenedAlike'
  <2>1. Registered' = Registered
    BY <1>0 DEF Registered
  <2>2. Planned
    BY <1>0 DEF Planned
  <2> QED
    BY <1>0, <2>1, <2>2 DEF StatementInv, OpenedAlike
<1> QED
  BY <1>1, <1>2, WritingPlaces, WritingRowsInOrder, WritingReadToTheBound, WritingWithinAllowances
     DEF StatementInv

-----------------------------------------------------------------------------
(* The steps that write nothing, and the invariant.                        *)

LEMMA OpeningKeepsInv ==
  ASSUME StatementInv, OpenOne
  PROVE  StatementInv'
<1>0. /\ UNCHANGED <<request, registry, execution, holding, told, files, body>>
      /\ at \in Asking /\ at' \in Asking \cup {"refused"}
      /\ Bound' = Bound /\ (Measured' <=> Measured) /\ (Truncates' <=> Truncates)
  BY OpeningEffect, AskedAlike
<1> USE DEF StatementInv, execution, files, body
<1>1. Types'
  BY <1>0, OpeningEffect DEF Types, OneSource, Ended
<1>2. WithinAllowances'
  BY <1>0, OpeningEffect DEF WithinAllowances, Asking, Driver
<1>3. InItsWay'
  BY <1>0 DEF InItsWay, Asking
<1>4. RowsInOrder'
  BY <1>0 DEF RowsInOrder, Asking
<1>5. ReadToTheBound'
  BY <1>0 DEF ReadToTheBound, Asking, Planned, Ended
<1> QED
  BY <1>1, <1>2, <1>3, <1>4, <1>5, OpeningEffect

LEMMA PlanKeepsInv ==
  ASSUME StatementInv, Plan
  PROVE  StatementInv'
<1>0. /\ UNCHANGED <<request, opening, ahead, read, holding, told, files, body>>
      /\ at = "opening" /\ registry' = Registered
      /\ reading' = ~ (Truncates /\ Bound = 0) /\ overflow' = (Truncates /\ Bound = 0)
  BY DEF Plan
<1>1. at' = CASE Driver({"adql", "sync"}) -> "collecting"
              [] Driver({"job"}) /\ Measured -> "spooling"
              [] OTHER -> "head"
  BY DEF Plan
<1>2. request.driver \in {"adql", "sync", "stream", "job"} /\ request.rows \in Nat
  BY RequestsAssumption DEF StatementInv, Types
<1>3. Bound' = Bound /\ (Measured' <=> Measured) /\ (Truncates' <=> Truncates)
  BY <1>0, AskedAlike
<1>4. /\ at' \in {"collecting", "spooling", "head"}
      /\ at' = "collecting" => request.driver \in {"adql", "sync"}
      /\ at' = "spooling" => request.driver = "job" /\ Measured
      /\ at' = "head" => request.driver \in {"stream", "job"}
                          /\ ~ (Measured /\ request.driver = "job")
  BY <1>1, <1>2 DEF Driver
<1>5. reading' \in BOOLEAN /\ overflow' \in BOOLEAN
  BY <1>0 DEF Truncates
<1> USE DEF StatementInv, opening, files, body
<1>6. Types'
  BY <1>0, <1>3, <1>4, <1>5 DEF Types
<1>7. WithinAllowances'
  BY <1>0, <1>4 DEF WithinAllowances, Driver
<1>8. InItsWay'
  BY <1>0, <1>3, <1>4 DEF InItsWay, Driver
<1>9. RowsInOrder'
  BY <1>0, <1>4 DEF RowsInOrder, Asking
<1>10. Going' \/ Stopped'
  <2>1. read = 0 /\ ahead = request.rows /\ ahead' = ahead /\ read' = read /\ request' = request
    BY <1>0 DEF ReadToTheBound, Asking
  <2>2. CASE Truncates /\ Bound = 0
    <3>1. reading' = FALSE /\ overflow' = TRUE
      BY <1>0, <2>2
    <3> QED
      BY <1>3, <2>1, <2>2, <3>1 DEF Stopped
  <2>3. CASE ~ (Truncates /\ Bound = 0)
    <3>1. reading' = TRUE /\ overflow' = FALSE
      BY <1>0, <2>3
    <3>2. Bound \in Nat
      BY BoundIs DEF Types
    <3> QED
      BY <1>2, <1>3, <2>1, <2>3, <3>1, <3>2 DEF Going
  <2> QED
    BY <2>2, <2>3
<1>11. ReadToTheBound'
  BY <1>3, <1>4, <1>10, <1>0 DEF ReadToTheBound, Asking, Driver
<1>12. OpenedAlike'
  <2>1. Registered' = Registered
    BY <1>0 DEF Registered
  <2> QED
    BY <1>0, <1>4, <2>1 DEF OpenedAlike, Ended
<1> QED
  BY <1>6, <1>7, <1>8, <1>9, <1>11, <1>12

\* Work that stops leaves what it had, but for the spool.
LEMMA EndingKeepsInv ==
  ASSUME StatementInv, PlanFails \/ Drop
  PROVE  StatementInv'
<1>0. /\ UNCHANGED <<request, left, held, fetched, sources, authorities, dataFiles, registry,
                     ahead, read, reading, overflow, holding, told, sink, sent>>
      /\ \/ closed' = closed /\ at' \in {"refused", "late"} /\ at \notin Ended \cup {"streaming"}
            /\ spool' = 0
         \/ closed' = "cut" /\ at' = at /\ at = "streaming" /\ spool' = spool
  <2>1. CASE PlanFails
    BY <2>1 DEF PlanFails, Refused, tables, opening, execution, files, body, Ended,
                StatementInv, WithinAllowances
  <2>2. CASE Drop
    BY <2>2 DEF Drop, Streaming, CutOff, Close, DropSpool, tables, opening, execution, files,
                body, Ended
  <2> QED
    BY <2>1, <2>2
<1>1. Bound' = Bound /\ (Measured' <=> Measured) /\ (Truncates' <=> Truncates)
  BY <1>0, AskedAlike
<1>2. 0 <= Ceiling
  BY BoundsAssumption
<1> USE DEF StatementInv, Ended, Asking
<1>3. Types'
  BY <1>0, <1>1 DEF Types
<1>4. WithinAllowances'
  BY <1>0, <1>1, <1>2 DEF WithinAllowances, Driver
<1>5. InItsWay'
  BY <1>0, <1>1 DEF InItsWay, Driver
<1>6. RowsInOrder'
  BY <1>0, <1>1 DEF RowsInOrder, Driver
<1>7. ReadToTheBound'
  BY <1>0 DEF ReadToTheBound, Planned
<1>8. OpenedAlike'
  <2>1. Registered' = Registered
    BY <1>0 DEF Registered
  <2> QED
    BY <1>0, <2>1 DEF OpenedAlike, Planned
<1> QED
  BY <1>3, <1>4, <1>5, <1>6, <1>7, <1>8

\* A step that is none is none of the invariant's.
LEMMA StutterKeepsInv ==
  ASSUME StatementInv, UNCHANGED vars
  PROVE  StatementInv'
<1> USE DEF vars, tables, opening, execution, files, body
<1>0. UNCHANGED <<request, at, left, held, fetched, sources, authorities, dataFiles, registry,
                  ahead, read, reading, overflow, holding, told, sink, spool, sent, closed>>
  OBVIOUS
<1>1. Bound' = Bound /\ (Measured' <=> Measured) /\ (Truncates' <=> Truncates)
  BY <1>0, AskedAlike
<1>2. Registered' = Registered /\ Opening' = Opening /\ Table' = Table
  BY <1>0 DEF Registered, Opening, Table
<1>3. Types' /\ WithinAllowances'
  BY <1>0, <1>1, <1>2 DEF StatementInv, Types, WithinAllowances, Driver
<1>4. InItsWay' /\ RowsInOrder'
  BY <1>0, <1>1 DEF StatementInv, InItsWay, RowsInOrder, Driver
<1>5. ReadToTheBound'
  BY <1>0, <1>1 DEF StatementInv, ReadToTheBound, Planned, Driver, Going, Stopped
<1>6. OpenedAlike'
  BY <1>0, <1>2 DEF StatementInv, OpenedAlike, Planned
<1> QED
  BY <1>3, <1>4, <1>5, <1>6 DEF StatementInv

LEMMA NextStatementInv ==
  ASSUME StatementInv, [Next]_vars
  PROVE  StatementInv'
<1>1. Next => OpenOne \/ Plan \/ PlanFails \/ Writing \/ Drop
  BY DEF Next, Work, Writing
<1> QED
  BY <1>1, OpeningKeepsInv, PlanKeepsInv, WritingKeepsInv, EndingKeepsInv, StutterKeepsInv

LEMMA InitStatementInv ==
  ASSUME InitStatement
  PROVE  StatementInv
<1>0. /\ request \in Requests /\ at = "asked" /\ left = MaxUpload /\ held = 0 /\ fetched = 0
      /\ sources = <<>> /\ dataFiles = NoList
      /\ ahead = request.rows /\ read = 0 /\ reading = FALSE /\ overflow = FALSE
      /\ holding = <<>> /\ told = "nothing" /\ sink = 0 /\ spool = 0
      /\ sent = <<>> /\ closed = "open"
  BY DEF InitStatement, InitTables, InitBody
<1>1. Bound \in Nat /\ request.rows \in Nat /\ MaxUpload \in Nat /\ Ceiling \in Nat
  BY <1>0, BoundIs, RequestsAssumption, BoundsAssumption
<1>2. Types
  <2>1. <<>> \in Seq(OneSource) /\ <<>> \in Seq(Nat)
    BY EmptySeq
  <2>2. read \in 0 .. Bound /\ ahead \in 0 .. request.rows
    BY <1>0, <1>1
  <2> QED
    BY <1>0, <1>1, <2>1, <2>2 DEF Types, Asking, OneSource
<1>3. WithinAllowances
  BY <1>0, <1>1 DEF WithinAllowances
<1>4. InItsWay
  BY <1>0 DEF InItsWay
<1>5. RowsInOrder
  <2>1. Stretch(0, 0) = <<>>
    BY StretchOfNone
  <2>2. Len(sent) = 0
    BY <1>0
  <2> QED
    BY <1>0, <2>1, <2>2 DEF RowsInOrder
<1>6. ReadToTheBound
  BY <1>0 DEF ReadToTheBound, Planned, Asking
<1>7. OpenedAlike
  BY <1>0 DEF OpenedAlike, Planned, Asking
<1> QED
  BY <1>2, <1>3, <1>4, <1>5, <1>6, <1>7 DEF StatementInv

\* What is held, written and registered is what was counted, read and opened, and rows are read
\* in order to the bound, for any requests and bounds and wherever a statement stops.
\* app/uploaded.rs:87-98, adql/query.rs:157-184, output/stream.rs:144-151, results.rs:543-555.
THEOREM StatementsCorrect == Spec => []StatementInv
<1>1. InitStatement => StatementInv
  BY InitStatementInv
<1>2. StatementInv /\ [Next]_vars => StatementInv'
  BY NextStatementInv
<1> QED
  BY <1>1, <1>2, PTL DEF Spec

-----------------------------------------------------------------------------
(* Tables are read as their own.                                           *)

\* The store DataFusion has for an authority is one that some table read through it opened, and
\* all that share an authority were opened alike.
LEMMA AsItsOwn == StatementInv => ReadAsItsOwn
<1> SUFFICES ASSUME StatementInv, Planned
             PROVE  ReadAsItsOwn
  BY DEF ReadAsItsOwn
<1>0. at \notin Ended
  BY DEF Planned
<1>1. registry = Registered
  BY <1>0 DEF StatementInv, OpenedAlike
<1>2. ASSUME NEW i \in ReadInPlace
      PROVE  registry[sources[i].table.site] = sources[i].table.options
  <2> DEFINE alike == {k \in ReadInPlace : sources[k].table.site = sources[i].table.site}
             last == Max(alike)
  <2>1. registry[sources[i].table.site] = sources[last].table.options
    BY <1>1, <1>2 DEF Registered, ReadInPlace
  <2>2. Len(sources) \in Nat /\ DOMAIN sources = 1 .. Len(sources)
    BY LenProperties DEF StatementInv, Types
  <2>3. alike \in SUBSET (0 .. Len(sources)) /\ alike # {}
    BY <2>2, <1>2 DEF ReadInPlace
  <2> HIDE DEF alike
  <2>4. last \in alike
    BY <2>2, <2>3, MaxIs
  <2> HIDE DEF last
  <2>5. last \in ReadInPlace /\ sources[last].table.site = sources[i].table.site
    BY <2>4 DEF alike
  <2>6. /\ authorities[sources[i].table.site] = sources[i].table.options
        /\ authorities[sources[last].table.site] = sources[last].table.options
    BY <1>0, <1>2, <2>5 DEF StatementInv, OpenedAlike, ReadInPlace
  <2> QED
    BY <2>1, <2>5, <2>6
<1>3. \A i \in Catalogs :
         \/ dataFiles = sources[i].table.list
         \/ \E j \in DOMAIN sources :
              sources[j].kind = "hats" /\ sources[j].table.list # sources[i].table.list
  BY <1>0 DEF StatementInv, OpenedAlike, Catalogs, ReadInPlace
<1> QED
  BY <1>2, <1>3 DEF ReadAsItsOwn

\* Whatever a statement names and in whatever order, each table it reads in place is read through
\* a store its own options opened.  storage/options.rs:1066-1104, routes/tap/run.rs:471-473.
THEOREM TablesAreReadAsTheirOwn == Spec => []ReadAsItsOwn
  BY StatementsCorrect, AsItsOwn, PTL

-----------------------------------------------------------------------------
(* The promise.                                                            *)

LEMMA FirstIs ==
  ASSUME NEW n \in Nat
  PROVE  /\ Promise!First(n) = Stretch(0, n) /\ Len(Promise!First(n)) = n
         /\ Promise!First(n) = <<>> <=> n = 0
<1>1. Promise!First(n) = Stretch(0, n)
  BY DEF Promise!First, Stretch
<1>2. Stretch(0, n) \in Seq(Nat) /\ Len(Stretch(0, n)) = n - 0
  BY StretchIs
<1>3. n - 0 = n
  OBVIOUS
<1> QED
  BY <1>1, <1>2, <1>3, EmptySeq

\* What is asked does not change, and what going over the bound comes to is the driver's and
\* the format's.
LEMMA AskedIs ==
  ASSUME Types
  PROVE  /\ Asked.rows = request.rows /\ Asked.bound = Bound
         /\ Asked.streams <=> Driver({"stream"})
         /\ Asked.overflows = "refuse" <=> ~ Truncates
         /\ Asked.overflows = "break" <=> (Driver({"stream"}) /\ ~ Says)
         /\ Asked.overflows = "tell" <=> (Truncates /\ (Says \/ ~ Driver({"stream"})))
         /\ request.rows \in Nat /\ Bound \in Nat
<1>1. request.driver \in {"adql", "sync", "stream", "job"} /\ request.rows \in Nat
  BY RequestsAssumption DEF Types
<1>2. Truncates <=> request.driver # "adql"
  BY DEF Truncates, Driver
<1>3. Driver({"stream"}) <=> request.driver = "stream"
  BY DEF Driver
<1>4. /\ Asked.rows = request.rows /\ Asked.bound = Bound
      /\ Asked.streams = Driver({"stream"})
      /\ Asked.overflows = CASE ~ Truncates -> "refuse"
                             [] Driver({"stream"}) /\ ~ Says -> "break"
                             [] OTHER -> "tell"
  BY DEF Asked
<1>5. CASE ~ Truncates
  <2>1. Asked.overflows = "refuse"
    BY <1>2, <1>3, <1>4, <1>5
  <2> QED
    BY <1>1, <1>2, <1>3, <1>4, <1>5, <2>1, BoundIs DEF Types
<1>6. CASE Truncates /\ Driver({"stream"}) /\ ~ Says
  <2>1. Asked.overflows = "break"
    BY <1>4, <1>6
  <2> QED
    BY <1>1, <1>4, <1>6, <2>1, BoundIs DEF Types
<1>7. CASE Truncates /\ ~ (Driver({"stream"}) /\ ~ Says)
  <2>1. Asked.overflows = "tell"
    BY <1>4, <1>7
  <2> QED
    BY <1>1, <1>4, <1>7, <2>1, BoundIs DEF Types
<1> QED
  BY <1>5, <1>6, <1>7

LEMMA AskedStays ==
  ASSUME request' = request
  PROVE  Asked' = Asked
  BY DEF Asked, Bound, Allowed, Truncates, Driver, Says, Format

\* An error in place of an answer, or nothing to be seen.
LEMMA QuietSteps ==
  ASSUME StatementInv, StatementInv', request' = request,
         at \notin Ended \cup {"streaming"}, at' \notin {"answered", "streaming"}
  PROVE  Promise!Refuse \/ UNCHANGED Promise!vars
<1>1. closed = "open" /\ closed' = "open"
  BY DEF StatementInv, InItsWay, Ended
<1>2. Asked' = Asked
  BY AskedStays
<1>3. Handed = <<>> /\ Handed' = <<>>
  BY DEF Handed, Ended
<1>4. Outcome = "open"
  BY <1>1 DEF Outcome, Ended
<1>5. CASE at' \in {"refused", "late"}
  <2>1. Outcome' = at'
    BY <1>5 DEF Outcome
  <2> QED
    BY <1>2, <1>3, <1>4, <1>5, <2>1 DEF Promise!Refuse
<1>6. CASE at' \notin {"refused", "late"}
  <2>1. Outcome' = "open"
    BY <1>1, <1>6 DEF Outcome
  <2> QED
    BY <1>2, <1>3, <1>4, <2>1 DEF Promise!vars
<1> QED
  BY <1>5, <1>6

\* An answer that was begun is broken off.
LEMMA BreakingOff ==
  ASSUME StatementInv, Streaming, request' = request, at' = at, sent' = sent,
         \/ closed' = "cut"
         \/ closed' = "short" /\ told' = "failed" /\ Says
  PROVE  Promise!Break
<1>1. Asked' = Asked
  BY AskedStays
<1>2. Handed' = Handed
  BY DEF Handed
<1>3. Outcome = "open" /\ Outcome' = IF closed' = "cut" THEN "cut" ELSE "failed"
  BY DEF Outcome, Streaming
<1>4. Driver({"stream"}) /\ Truncates
  BY DEF StatementInv, InItsWay, Streaming, Driver, Truncates
<1>5. Asked.streams /\ (Says => Asked.overflows = "tell")
  BY <1>4, AskedIs DEF StatementInv
<1> QED
  BY <1>1, <1>2, <1>3, <1>5 DEF Promise!Break

\* The rows of an answer are all that was read, which is as far as the bound, and one that has
\* more to come says that it has, where it can.
LEMMA Completing ==
  ASSUME StatementInv, request' = request, NEW n \in Nat, NEW over \in BOOLEAN,
         Outcome = "open", Handed' = Stretch(0, n),
         \/ /\ over /\ n = Bound /\ Truncates /\ (request.rows > Bound \/ Bound = 0)
            /\ Asked.overflows = "tell" \/ Bound = 0
         \/ ~ over /\ n = request.rows /\ n <= Bound /\ (Truncates => Bound > 0),
         Outcome' = IF over /\ Asked.overflows = "tell" THEN "overflow" ELSE "whole"
  PROVE  Promise!Complete
<1>1. Asked' = Asked
  BY AskedStays
<1>2. /\ Asked.rows = request.rows /\ Asked.bound = Bound
      /\ Asked.overflows = "refuse" <=> ~ Truncates
      /\ Asked.overflows = "break" \/ Asked.overflows = "tell" \/ ~ Truncates
      /\ request.rows \in Nat /\ Bound \in Nat
  BY AskedIs DEF StatementInv
<1>3. Promise!Least(Asked.rows, Asked.bound) = n
  BY <1>2 DEF Promise!Least
<1>4. Handed' = Promise!Answer
  BY <1>3, FirstIs DEF Promise!Answer
<1>5. Promise!Over <=> over
  BY <1>2 DEF Promise!Over
<1>6. ~ Promise!Over \/ Asked.overflows = "tell" \/ (Asked.overflows = "break" /\ Asked.bound = 0)
  BY <1>2, <1>5
<1> QED
  BY <1>1, <1>4, <1>5, <1>6 DEF Promise!Complete

\* Where no more is to be read, what was read is all the rows or as many as the bound.
LEMMA NoMoreRows ==
  ASSUME Types, Going \/ Stopped, Stopped \/ ahead = 0
  PROVE  \/ overflow /\ read = Bound /\ Truncates /\ (request.rows > Bound \/ Bound = 0)
         \/ ~ overflow /\ read = request.rows /\ read <= Bound /\ (Truncates => Bound > 0)
<1>1. CASE Stopped
  BY <1>1 DEF Stopped
<1>2. CASE Going /\ ahead = 0
  <2>1. request.rows \in Nat /\ Bound \in Nat /\ read \in 0 .. Bound
    BY RequestsAssumption, BoundIs DEF Types
  <2> QED
    BY <1>2, <2>1 DEF Going
<1> QED
  BY <1>1, <1>2

\* The rows sent are those read where none are kept, and those kept where none are sent.
LEMMA AllInOnePlace ==
  ASSUME StatementInv, closed = "open"
  PROVE  /\ read \in Nat /\ Len(sent) \in Nat /\ sent = Stretch(0, Len(sent))
         /\ holding = <<>> => sent = Stretch(0, read) /\ Len(sent) = read
         /\ sent = <<>> => holding = Stretch(0, read)
<1>1. /\ Len(sent) <= read /\ Len(sent) \in Nat /\ read \in Nat
      /\ sent = Stretch(0, Len(sent)) /\ holding = Stretch(Len(sent), read)
  BY BoundIs, LenProperties DEF StatementInv, RowsInOrder, Types
<1>2. ASSUME holding = <<>>
      PROVE  Len(sent) = read
  <2>1. Len(holding) = read - Len(sent)
    BY <1>1, StretchIs
  <2>2. Len(holding) = 0
    BY <1>2
  <2> QED
    BY <2>1, <2>2, <1>1
<1>3. ASSUME sent = <<>>
      PROVE  Len(sent) = 0
  BY <1>3
<1> QED
  BY <1>1, <1>2, <1>3

LEMMA EncodingKeepsPromise ==
  ASSUME StatementInv, StatementInv', Encode
  PROVE  Promise!Next \/ UNCHANGED Promise!vars
<1>0. request' = request /\ Writing
  BY WritingEffect DEF Writing
<1>1. at = "encoding" /\ closed = "open" /\ (Going \/ Stopped) /\ (Stopped \/ ahead = 0)
  BY <1>0, WhileWriting DEF Encode, StatementInv, ReadToTheBound
<1>2. CASE at' = "refused"
  BY <1>0, <1>1, <1>2, QuietSteps DEF Promise!Next, Ended
<1>3. CASE at' # "refused"
  <2>1. /\ at' = "answered" /\ sent' = holding /\ closed' = "whole"
        /\ told' = IF overflow THEN "overflow" ELSE "nothing"
    BY <1>3 DEF Encode, Close, Refused
  <2>2. sent = <<>> /\ Driver({"adql", "sync"})
    BY <1>1 DEF StatementInv, RowsInOrder, InItsWay
  <2>3. Handed' = Stretch(0, read) /\ read \in Nat
    BY <1>1, <2>1, <2>2, AllInOnePlace DEF Handed
  <2>4. Outcome = "open"
    BY <1>1 DEF Outcome
  <2>5. Outcome' = IF overflow THEN "overflow" ELSE "whole"
    BY <2>1 DEF Outcome
  <2>6. overflow \in BOOLEAN /\ Types
    BY DEF StatementInv, Types
  <2>7. Truncates => Asked.overflows = "tell"
    BY <2>2, <2>6, AskedIs DEF Driver
  <2>8. \/ overflow /\ read = Bound /\ Truncates /\ (request.rows > Bound \/ Bound = 0)
        \/ ~ overflow /\ read = request.rows /\ read <= Bound /\ (Truncates => Bound > 0)
    BY <1>1, <2>6, NoMoreRows
  <2>9. Outcome' = IF overflow /\ Asked.overflows = "tell" THEN "overflow" ELSE "whole"
    BY <2>5, <2>7, <2>8
  <2>10. Promise!Complete
    BY <1>0, <2>3, <2>4, <2>6, <2>7, <2>8, <2>9, Completing
  <2> QED
    BY <2>10 DEF Promise!Next
<1> QED
  BY <1>2, <1>3

LEMMA RenamingKeepsPromise ==
  ASSUME StatementInv, StatementInv', Rename
  PROVE  Promise!Next
<1>0. request' = request /\ Writing
  BY WritingEffect DEF Writing
<1>1. at = "closing" /\ closed = "open" /\ (Going \/ Stopped) /\ (Stopped \/ ahead = 0)
  BY <1>0, WhileWriting DEF Rename, StatementInv, ReadToTheBound
<1>2. /\ at' = "answered" /\ sent' = sent /\ closed' = "whole"
      /\ told' = IF overflow THEN "overflow" ELSE "nothing"
  BY DEF Rename, Close
<1>3. holding = <<>> /\ Driver({"job"})
  BY <1>1 DEF StatementInv, RowsInOrder, InItsWay
<1>4. Handed' = Stretch(0, read) /\ read \in Nat
  BY <1>1, <1>2, <1>3, AllInOnePlace DEF Handed
<1>5. Outcome = "open"
  BY <1>1 DEF Outcome
<1>6. Outcome' = IF overflow THEN "overflow" ELSE "whole"
  BY <1>2 DEF Outcome
<1>7. overflow \in BOOLEAN /\ Types
  BY DEF StatementInv, Types
<1>8. Truncates => Asked.overflows = "tell"
  BY <1>3, <1>7, AskedIs DEF Driver
<1>9. \/ overflow /\ read = Bound /\ Truncates /\ (request.rows > Bound \/ Bound = 0)
      \/ ~ overflow /\ read = request.rows /\ read <= Bound /\ (Truncates => Bound > 0)
  BY <1>1, <1>7, NoMoreRows
<1>10. Outcome' = IF overflow /\ Asked.overflows = "tell" THEN "overflow" ELSE "whole"
  BY <1>6, <1>8, <1>9
<1>11. Promise!Complete
  BY <1>0, <1>4, <1>5, <1>7, <1>8, <1>9, <1>10, Completing
<1> QED
  BY <1>11 DEF Promise!Next

LEMMA StreamingKeepsPromise ==
  ASSUME StatementInv, StatementInv', StreamHead \/ StreamRows \/ StreamEnds
  PROVE  Promise!Next \/ UNCHANGED Promise!vars
<1>0. request' = request /\ Writing /\ closed = "open" /\ (Going \/ Stopped) /\ Types
  BY WritingEffect, WhileWriting DEF Writing, StatementInv
<1>1. Asked' = Asked
  BY <1>0, AskedStays
<1>2. CASE StreamHead
  <2>1. CASE at = "head"
    <3>1. at' = "streaming" \/ at' = "refused"
      BY <1>2, <2>1 DEF StreamHead, Streaming, Refused
    <3>2. CASE at' = "refused"
      BY <1>0, <2>1, <3>2, QuietSteps DEF Promise!Next, Ended
    <3>3. CASE at' = "streaming"
      <4>1. sent' = sent /\ closed' = closed /\ sent = <<>>
        BY <1>2, <2>1, <3>3
           DEF StreamHead, Streaming, Begin, body, StatementInv, RowsInOrder
      <4> QED
        BY <1>0, <1>1, <2>1, <3>3, <4>1 DEF Handed, Outcome, Promise!vars
    <3> QED
      BY <3>1, <3>2, <3>3
  <2>2. CASE Streaming
    <3>1. at = "streaming" /\ at' = at /\ sent' = sent /\ closed' = closed
      BY <1>2, <2>2 DEF StreamHead, Streaming, SendHead
    <3> QED
      BY <1>0, <1>1, <3>1 DEF Handed, Outcome, Promise!vars
  <2> QED
    BY <1>2, <2>1, <2>2 DEF StreamHead
<1>3. CASE StreamRows
  <2>1. PICK n \in Batches : NextBatch(n) /\ SendRows(NewRows(n))
    BY <1>3 DEF StreamRows
  <2>2. Streaming /\ at = "streaming" /\ at' = at /\ holding' = holding
    BY <1>3 DEF StreamRows, Streaming
  <2>3. CASE closed' = "cut" /\ sent' = sent
    BY <1>0, <2>2, <2>3, BreakingOff DEF Promise!Next
  <2>4. CASE closed' = closed /\ sent' = sent \o NewRows(n)
    <3>1. /\ read' = read + Kept(n) /\ Kept(n) \in Nat /\ read' \in 0 .. Bound
          /\ Going' \/ Stopped'
      BY <1>0, <2>1, BatchEffect
    <3>2. holding = <<>> /\ Driver({"stream"})
      BY <2>2 DEF StatementInv, RowsInOrder, InItsWay, Driver
    <3>3. read \in Nat /\ sent = Stretch(0, read) /\ Len(sent) = read
      BY <1>0, <3>2, AllInOnePlace
    <3>4. closed' = "open" /\ holding' = <<>>
      BY <1>0, <2>2, <2>4, <3>2
    <3>5. read' \in Nat /\ read <= read' /\ read' <= Bound
      BY <3>1, <3>3, <1>0, BoundIs DEF Types
    <3>6. sent' = Stretch(0, read')
      <4>1. NewRows(n) = Stretch(read, read')
        BY <1>0, <2>1, BatchEffect
      <4>2. 0 \in Nat /\ 0 <= read
        BY <3>3
      <4>3. Stretch(0, read) \o Stretch(read, read') = Stretch(0, read')
        BY <3>3, <3>5, <4>2, StretchJoins
      <4> QED
        BY <2>4, <3>3, <4>1, <4>3
    <3>7. read' <= request.rows
      <4>1. request.rows \in Nat /\ Bound \in Nat /\ Bound' = Bound
        BY <1>0, AskedIs, AskedAlike
      <4>2. ahead' \in Nat
        <5>1. ahead' \in 0 .. request.rows
          BY <1>0, <2>1, BatchEffect
        <5> QED
          BY <5>1, <4>1
      <4> QED
        BY <1>0, <3>1, <3>5, <4>1, <4>2 DEF Going, Stopped
    <3>8. Len(Promise!Answer) = Promise!Least(request.rows, Bound) /\ Asked.streams
      <4>1. Promise!Least(request.rows, Bound) \in Nat
        BY <1>0, AskedIs DEF Promise!Least
      <4> QED
        BY <1>0, <3>2, <4>1, AskedIs, FirstIs DEF Promise!Answer
    <3>9. read' \in read .. Len(Promise!Answer)
      BY <1>0, <3>3, <3>5, <3>7, <3>8, AskedIs DEF Promise!Least
    <3>10. Handed' = Promise!First(read') /\ Len(Handed) = read
      BY <2>2, <3>3, <3>5, <3>6, FirstIs DEF Handed
    <3>11. Outcome = "open" /\ Outcome' = "open"
      BY <1>0, <2>2, <3>4 DEF Outcome
    <3>12. Promise!Give
      BY <1>1, <3>8, <3>9, <3>10, <3>11 DEF Promise!Give
    <3> QED
      BY <3>12 DEF Promise!Next
  <2> QED
    BY <2>1, <2>3, <2>4 DEF SendRows, Close
<1>4. CASE StreamEnds
  <2>1. Streaming /\ at = "streaming" /\ at' = at /\ holding = <<>> /\ Driver({"stream"})
    BY <1>4 DEF StreamEnds, Streaming, StatementInv, RowsInOrder, InItsWay, Driver
  <2>2. told = "nothing" /\ Truncates
    BY <1>0, <2>1, WhileWriting DEF Truncates, Driver, StatementInv, InItsWay
  <2>3. CASE FinishBody(TRUE, Says) /\ told' = IF Says THEN "failed" ELSE told
    <3>1. sent' = sent /\ closed' = IF Says THEN "short" ELSE "cut"
      BY <2>3 DEF FinishBody, Close, Says, Format
    <3>2. CASE Says
      <4>1. closed' = "short" /\ told' = "failed"
        BY <2>3, <3>1, <3>2
      <4> QED
        BY <1>0, <2>1, <3>1, <3>2, <4>1, BreakingOff DEF Promise!Next
    <3>3. CASE ~ Says
      <4>1. closed' = "cut"
        BY <3>1, <3>3
      <4> QED
        BY <1>0, <2>1, <3>1, <4>1, BreakingOff DEF Promise!Next
    <3> QED
      BY <3>2, <3>3
  <2>4. CASE /\ NextEnds /\ FinishBody(overflow' /\ Bound > 0, Says)
             /\ told' = IF overflow' /\ Says THEN "overflow" ELSE told
    <3>1. read' = read /\ (Stopped' \/ (Going' /\ ahead' = 0)) /\ overflow' \in BOOLEAN
      BY <1>0, <2>4, EndsEffect
    <3>2. read \in Nat /\ sent = Stretch(0, read) /\ Bound \in Nat /\ request.rows \in Nat
      BY <1>0, <2>1, AllInOnePlace, AskedIs
    <3>3. sent' = sent /\ Handed' = Stretch(0, read)
      BY <2>1, <2>4, <3>2 DEF FinishBody, Handed
    <3>4. Bound' = Bound /\ (Truncates' <=> Truncates)
      BY <1>0, AskedAlike
    <3>5. \/ /\ overflow' /\ read = Bound /\ (request.rows > Bound \/ Bound = 0)
          \/ /\ ~ overflow' /\ read = request.rows /\ Bound > 0
             /\ read <= Bound
      <4>1. CASE Stopped'
        BY <1>0, <3>1, <3>4, <4>1 DEF Stopped
      <4>2. CASE Going' /\ ahead' = 0
        <5>1. read <= Bound
          BY <1>0, <3>2 DEF Types
        <5> QED
          BY <1>0, <2>2, <3>1, <3>2, <3>4, <4>2, <5>1 DEF Going
      <4> QED
        BY <3>1, <4>1, <4>2
    <3>6. /\ Asked.overflows = "tell" <=> Says
          /\ Outcome = "open"
      BY <1>0, <2>1, <2>2, AskedIs DEF Outcome
    <3>7. CASE overflow' /\ Bound > 0 /\ ~ Says
      <4>1. closed' = "cut"
        BY <2>4, <3>7 DEF FinishBody, Close
      <4> QED
        BY <1>0, <2>1, <3>3, <4>1, BreakingOff DEF Promise!Next
    <3>8. CASE ~ (overflow' /\ Bound > 0 /\ ~ Says)
      <4>1. closed' \in {"whole", "short"}
        BY <2>4, <3>8 DEF FinishBody, Close
      <4>2. Outcome' = IF overflow' /\ Says THEN "overflow" ELSE "whole"
        BY <2>1, <2>2, <2>4, <4>1 DEF Outcome
      <4>3. Outcome' = IF overflow' /\ Asked.overflows = "tell" THEN "overflow" ELSE "whole"
        BY <3>6, <4>2
      <4>4. \/ /\ overflow' /\ read = Bound /\ Truncates /\ (request.rows > Bound \/ Bound = 0)
               /\ Asked.overflows = "tell" \/ Bound = 0
            \/ /\ ~ overflow' /\ read = request.rows /\ read <= Bound
               /\ Truncates => Bound > 0
        BY <2>2, <3>2, <3>5, <3>6, <3>8
      <4>5. Promise!Complete
        BY <1>0, <3>1, <3>2, <3>3, <3>6, <4>3, <4>4, Completing
      <4> QED
        BY <4>5 DEF Promise!Next
    <3> QED
      BY <3>7, <3>8
  <2> QED
    BY <1>4, <2>3, <2>4 DEF StreamEnds
<1> QED
  BY <1>2, <1>3, <1>4

LEMMA NextKeepsPromise ==
  ASSUME StatementInv, StatementInv', [Next]_vars
  PROVE  Promise!Next \/ UNCHANGED Promise!vars
<1>1. CASE OpenOne
  BY <1>1, OpeningEffect, QuietSteps DEF Promise!Next, Ended, Asking
<1>2. CASE Plan
  <2>1. at = "opening" /\ at' \in {"collecting", "spooling", "head"} /\ request' = request
    BY <1>2 DEF Plan
  <2> QED
    BY <2>1, QuietSteps DEF Promise!Next, Ended
<1>3. CASE PlanFails
  <2>1. at = "opening" /\ at' = "refused" /\ request' = request
    BY <1>3 DEF PlanFails, Refused
  <2> QED
    BY <2>1, QuietSteps DEF Promise!Next, Ended
<1>4. CASE Encode
  BY <1>4, EncodingKeepsPromise
<1>5. CASE Rename
  BY <1>5, RenamingKeepsPromise
<1>6. CASE StreamHead \/ StreamRows \/ StreamEnds
  BY <1>6, StreamingKeepsPromise
<1>7. CASE Collect \/ Spool \/ FileHead \/ FileRows \/ FileEnd \/ FileFails
  <2>1. request' = request /\ at \notin Ended
    BY <1>7, WritingEffect DEF Writing
  <2>2. at # "streaming" /\ at' \notin {"answered", "streaming"}
    BY <1>7 DEF Collect, Spool, FileHead, FileRows, KeepRows, FileEnd, FileFails, Keep, Refused
  <2> QED
    BY <2>1, <2>2, QuietSteps DEF Promise!Next
<1>8. CASE Drop
  <2>1. request' = request
    BY <1>8 DEF Drop
  <2>2. CASE Streaming /\ CutOff /\ at' = at
    BY <2>1, <2>2, BreakingOff DEF CutOff, Close, Promise!Next
  <2>3. CASE at \notin Ended \cup {"streaming"} /\ at' = "late"
    BY <2>1, <2>3, QuietSteps DEF Promise!Next
  <2> QED
    BY <1>8, <2>2, <2>3 DEF Drop
<1>9. CASE UNCHANGED vars
  <2>1. /\ UNCHANGED <<request, at, sent, closed, told>>
    BY <1>9 DEF vars, body
  <2>2. Asked' = Asked
    BY <2>1, AskedStays
  <2> QED
    BY <2>1, <2>2 DEF Promise!vars, Handed, Outcome
<1> QED
  BY <1>1, <1>2, <1>3, <1>4, <1>5, <1>6, <1>7, <1>8, <1>9 DEF Next, Work

\* Whichever driver writes it, the caller has the first rows of its statement up to the bound, and
\* an answer that is less says so or shows it by having no end: the safety of KeepsThePromise.
\* adql/query.rs:157-184, output/stream.rs:144-151, routes/tap/run.rs:275-303.
THEOREM AnswersAreAsPromised == Spec => Promise!Safe
<1>1. InitStatement => Promise!Init
  BY DEF InitStatement, InitTables, InitBody, Promise!Init, Handed, Outcome
<1>2. StatementInv /\ StatementInv' /\ [Next]_vars => [Promise!Next]_(Promise!vars)
  BY NextKeepsPromise
<1> QED
  BY <1>1, <1>2, StatementsCorrect, PTL DEF Spec, Promise!Safe
=============================================================================
