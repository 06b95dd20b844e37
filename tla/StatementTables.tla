----------------------------- MODULE StatementTables -----------------------------
(***************************************************************************)
(* The tables one statement reads, opened before it is planned: what the   *)
(* request brought is held in memory under one allowance, what it names by *)
(* url or by a published name is read where it is, through the one store   *)
(* DataFusion keeps for each authority.                                    *)
(***************************************************************************)
EXTENDS Naturals, Sequences, FiniteSetsExt, SequencesExt

CONSTANTS
  Requests,   \* records: driver, format, columns, maxrec, rows and tables
  MaxUpload,  \* max_upload_bytes
  NoList      \* no catalog has said which of its files hold rows

ASSUME RequestsAssumption ==
  /\ MaxUpload \in Nat
  /\ \A r \in Requests :
       /\ r.driver \in {"adql", "sync", "stream", "job"}
       /\ r.rows \in Nat
       /\ r.tables \in Seq(Range(r.tables))
       /\ \A i \in DOMAIN r.tables : r.tables[i].size \in Nat

VARIABLES
  request,
  at,           \* where the request's work has got to
  left,         \* Budget::left
  held,         \* bytes of the request's own tables in memory
  fetched,      \* bytes of the document being fetched
  sources,      \* the tables opened, in the statement's order: [place, table, kind]
  authorities,  \* Authorities: what opened each authority first
  dataFiles,    \* the list that names a catalog's data files, for every catalog
  registry      \* the store DataFusion has for an authority, by the options that built it

opening == <<left, held, fetched, sources, authorities, dataFiles>>

\* The kinds read through a store, a file and a catalog.
Stored == {"parquet", "hats"}

\* What is still to be opened, in order: TAP opens the tables its statement names, `/adql`
\* every one the request declares.
Opening ==
  {i \in DOMAIN request.tables :
     /\ request.driver = "adql" \/ request.tables[i].named
     /\ \A k \in DOMAIN sources : sources[k].place < i}

Parts == {i \in DOMAIN request.tables : request.tables[i].how = "inline"}
PartBytes == SumFunctionOnSet([i \in Parts |-> request.tables[i].size], Parts)

InitTables ==
  /\ request \in Requests
  /\ at = "asked"
  /\ left = MaxUpload /\ held = 0 /\ fetched = 0
  /\ sources = <<>>
  /\ authorities = <<>> /\ registry = <<>>
  /\ dataFiles = NoList

Refused == at' = "refused"

\* Mutant of Spend: each table is held to the whole allowance.
SpendAgain(n, next) ==
  IF n <= MaxUpload
  THEN held' = held + n /\ at' = next /\ UNCHANGED left
  ELSE Refused /\ UNCHANGED <<left, held>>

\* Bytes are counted before they are kept.
Spend(n, next) ==
  IF n <= left
  THEN left' = left - n /\ held' = held + n /\ at' = next
  ELSE Refused /\ UNCHANGED <<left, held>>

\* Every part the request sent is counted, named in the statement or not.
ChargeParts ==
  /\ at = "asked"
  /\ Spend(PartBytes, "opening")
  /\ UNCHANGED <<request, fetched, sources, authorities, dataFiles, registry>>

(***************************************************************************)
(* A table is, in this order: what the request said it is; what its name   *)
(* or media type says; what its first bytes say.  An object that is not    *)
(* there, or whose store will not answer, may be a catalog's directory.    *)
(***************************************************************************)
Sniffed(t) ==
  IF t.bytes = "absent" \/ (t.bytes = "other" /\ t.web) THEN {"hats"}
  ELSE IF t.bytes = "other" THEN {"neither", "hats"} ELSE {t.bytes, "hats"}

Kinds(t) ==
  IF t.how = "schema" THEN {"memory"}
  ELSE IF t.how = "published" THEN {"hats"}
  ELSE IF t.kind # "unsaid" THEN {t.kind}
  ELSE IF t.how = "inline" THEN {IF t.media = "unsaid" THEN t.bytes ELSE t.media}
  ELSE IF t.listed THEN {"parquet"}
  ELSE IF t.slash THEN {"hats"} ELSE Sniffed(t)

More == at = "opening" /\ Opening # {}
Table == request.tables[Min(Opening)]
Opened(kind) ==
  sources' = Append(sources, [place |-> Min(Opening), table |-> Table, kind |-> kind])

OpenMemory ==
  /\ More
  /\ Table.how \in {"schema", "inline"}
  /\ \E kind \in Kinds(Table) \cap {"memory", "votable", "parquet"} : Opened("memory")
  /\ UNCHANGED <<request, at, left, held, fetched, authorities, dataFiles, registry>>

StartFetch ==
  /\ More
  /\ Table.how = "url" /\ "votable" \in Kinds(Table)
  /\ at' = "fetching" /\ fetched' = 0
  /\ UNCHANGED <<request, left, held, sources, authorities, dataFiles, registry>>

FetchChunk ==
  /\ at = "fetching"
  /\ \E n \in 1 .. (Table.size - fetched) :
       /\ Spend(n, at)
       /\ fetched' = fetched + n
  /\ UNCHANGED <<request, sources, authorities, dataFiles, registry>>

FetchEnds ==
  /\ at = "fetching" /\ fetched = Table.size
  /\ Opened("memory")
  /\ at' = "opening"
  /\ UNCHANGED <<request, left, held, fetched, authorities, dataFiles, registry>>

\* Mutant of Collides: tables share an authority whatever opened it.
CollidesNever(t) == FALSE

Collides(t) == t.site \in DOMAIN authorities /\ authorities[t.site] # t.options

\* A catalog brings the data-file list of whatever governs its url, and the last one's is kept.
OpenStored ==
  /\ More
  /\ Table.how \in {"url", "published"}
  /\ \E kind \in Kinds(Table) \cap Stored :
       /\ kind = "parquet" => Table.listed
       /\ dataFiles' = IF kind = "hats" THEN Table.list ELSE dataFiles
       /\ IF Collides(Table)
          THEN Refused /\ UNCHANGED <<sources, authorities>>
          ELSE /\ Opened(kind)
               /\ authorities' = [s \in DOMAIN authorities \cup {Table.site} |->
                    IF s \in DOMAIN authorities THEN authorities[s] ELSE Table.options]
               /\ UNCHANGED at
  /\ UNCHANGED <<request, left, held, fetched, registry>>

\* The access policy, a store, or the bytes themselves refuse a table, or it is of no kind.
RefuseTable ==
  /\ More \/ at = "fetching"
  /\ Refused
  /\ UNCHANGED <<request, opening, registry>>

\* The tables the statement names are registered in its order; a store takes the place of the
\* one its authority had.
Registered ==
  LET used == {i \in DOMAIN sources : sources[i].kind \in Stored /\ sources[i].table.named}
      sites == {sources[i].table.site : i \in used}
  IN [site \in sites |->
       sources[Max({i \in used : sources[i].table.site = site})].table.options]

OpenTables ==
  ChargeParts \/ OpenMemory \/ StartFetch \/ FetchChunk \/ FetchEnds \/ OpenStored \/ RefuseTable
===================================================================================
