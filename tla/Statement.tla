-------------------------------- MODULE Statement --------------------------------
(***************************************************************************)
(* One statement from its tables to its answer.  Four drivers write it:    *)
(* `/adql` and `/sync` keep the rows and encode them, a streamed `/sync`   *)
(* sends each batch on, and a job writes a file, from a spool beside it    *)
(* where the head of the document has to have seen every row.              *)
(***************************************************************************)
EXTENDS StatementTables, StreamedBody

CONSTANTS
  NoMaxrec,
  MaxRows, JobMaxRows,   \* max_rows, and [tap.async.limits] over it
  Ceiling,               \* what a job may keep, in bytes; a row, a head, an end are one each
  Group,                 \* the rows of a parquet row group
  MaxBatch

ASSUME BoundsAssumption ==
  /\ MaxRows \in Nat /\ JobMaxRows \in Nat /\ Ceiling \in Nat /\ MaxBatch \in Nat
  /\ \A r \in Requests : r.maxrec \in Nat \cup {NoMaxrec}

VARIABLES
  ahead,      \* rows the plan has not produced yet
  read,       \* Execution::rows
  reading,    \* there is a stream to read on
  overflow,   \* Execution::overflow
  holding,    \* rows kept: collected, or in the spool
  told,       \* what the answer says of itself
  sink,       \* bytes in the job's file
  spool,      \* bytes in its spool
  inside      \* rows a parquet writer has not let go of

execution == <<ahead, read, reading, overflow>>
files == <<sink, spool, inside>>
tables == <<opening, registry>>
vars == <<request, at, tables, execution, holding, told, files, body>>

Ended == {"answered", "refused", "late"}

InitStatement ==
  /\ InitTables /\ InitBody
  /\ ahead = request.rows /\ read = 0 /\ reading = FALSE /\ overflow = FALSE
  /\ holding = <<>> /\ told = "nothing"
  /\ sink = 0 /\ spool = 0 /\ inside = 0

Driver(names) == request.driver \in names
Format(names) == request.format \in names

Truncates == ~ Driver({"adql"})
Allowed == IF Driver({"job"}) THEN JobMaxRows ELSE MaxRows
Bound == IF request.maxrec = NoMaxrec THEN Allowed ELSE Min({request.maxrec, Allowed})

\* A VOTable whose head has to have seen every row.
Measured == Format({"votable"}) /\ request.columns = "strings"

\* What an encoder has no form for, which it says before the rows.
Unwritable ==
  \/ Format({"dsv"}) /\ request.columns # "flat"
  \/ Format({"votable"}) /\ request.columns = "struct"
  \/ Measured /\ Driver({"stream"})

(* Planning, which no longer needs the rest of the request. *)

Plan ==
  /\ at = "opening" /\ Opening = {}
  /\ registry' = Registered
  /\ reading' = ~ (Truncates /\ Bound = 0)
  /\ overflow' = (Truncates /\ Bound = 0)
  /\ at' = CASE Driver({"adql", "sync"}) -> "collecting"
             [] Driver({"job"}) /\ Measured -> "spooling"
             [] OTHER -> "head"
  /\ UNCHANGED <<request, opening, ahead, read, holding, told, files, body>>

PlanFails ==
  /\ at = "opening" /\ Opening = {}
  /\ Refused
  /\ UNCHANGED <<request, tables, execution, holding, told, files, body>>

(***************************************************************************)
(* Execution::next: a batch, which is cut where the bound is; the end of   *)
(* the rows, or of those there is room for; or an error.                   *)
(***************************************************************************)
Kept(n) == Min({n, Bound - read})

\* Mutant of Passes: a batch that reaches the bound is taken to have passed it.
Reaches(n) == read + n >= Bound

Passes(n) == read + n > Bound

NextBatch(n) ==
  /\ reading /\ n <= ahead
  /\ Passes(n) => Truncates /\ Kept(n) > 0
  /\ ahead' = ahead - n
  /\ read' = read + Kept(n)
  /\ overflow' = Passes(n)
  /\ reading' = ~ Passes(n)

NextEnds ==
  IF reading /\ ahead > 0
  THEN /\ Truncates /\ Kept(ahead) = 0
       /\ overflow' = TRUE /\ reading' = FALSE
       /\ UNCHANGED <<ahead, read>>
  ELSE UNCHANGED execution

NextFails ==
  /\ reading
  /\ reading' = FALSE
  /\ UNCHANGED <<ahead, read, overflow>>

Batches == 1 .. MaxBatch
NewRows(n) == [i \in 1 .. Kept(n) |-> read + i]

(* Kept whole, then encoded: `/adql` and a collected `/sync`. *)

Collect ==
  /\ at = "collecting"
  /\ \/ \E n \in Batches : NextBatch(n) /\ holding' = holding \o NewRows(n) /\ UNCHANGED at
     \/ NextEnds /\ at' = "encoding" /\ UNCHANGED holding
     \/ NextFails /\ Refused /\ UNCHANGED holding
  /\ UNCHANGED <<request, tables, told, files, body>>

\* The header says what a format cannot; a refusal is the encoder's, of a column or a value.
Encode ==
  /\ at = "encoding"
  /\ \/ /\ ~ Unwritable
        /\ at' = "answered" /\ sent' = holding /\ Close("whole")
        /\ told' = IF overflow THEN "overflow" ELSE "nothing"
     \/ /\ Unwritable \/ holding # <<>>
        /\ Refused /\ UNCHANGED <<told, body>>
  /\ UNCHANGED <<request, tables, execution, holding, files>>

(* Sent as it is read. *)

Streaming == at = "streaming" /\ closed = "open"

\* The head is written before the status is.
StreamHead ==
  /\ \/ /\ at = "head" /\ Driver({"stream"})
        /\ IF Unwritable THEN Refused /\ UNCHANGED body ELSE at' = "streaming" /\ Begin
     \/ Streaming /\ SendHead /\ UNCHANGED at
  /\ UNCHANGED <<request, tables, execution, holding, told, files>>

StreamRows ==
  /\ Streaming
  /\ \E n \in Batches : NextBatch(n) /\ SendRows(NewRows(n))
  /\ UNCHANGED <<request, at, tables, holding, told, files>>

Says == Format({"votable"})

\* A bound of no rows cuts nothing; a read that failed is why there are no more.
StreamEnds ==
  /\ Streaming
  /\ \/ /\ NextEnds /\ FinishBody(overflow' /\ Bound > 0, Says)
        /\ told' = IF overflow' /\ Says THEN "overflow" ELSE told
     \/ /\ NextFails /\ FinishBody(TRUE, Says)
        /\ told' = IF Says THEN "failed" ELSE told
  /\ UNCHANGED <<request, at, tables, holding, files>>

(* Written to a file under a ceiling: a job. *)

Keep(n, next) ==
  IF sink + n <= Ceiling
  THEN sink' = sink + n /\ at' = next
  ELSE Refused /\ UNCHANGED sink

\* What each piece of a document comes to: parquet's rows leave a group at a time.
Grouped == Format({"parquet"})
Leaving(n) == IF Grouped THEN Group * ((inside + n) \div Group) ELSE n
HeadBytes == IF Says THEN 1 ELSE 0
EndBytes == IF Grouped THEN inside + 1 ELSE 1

KeepRows(n) ==
  /\ Keep(Leaving(n), at)
  /\ inside' = IF Grouped THEN (inside + n) % Group ELSE 0

\* A spool is gone once the document was written from it, or never will be.
DropSpool == spool' = IF at' \in Ended \cup {"closing"} THEN 0 ELSE spool

\* Every row is put aside first, a batch and its own head at a time.
Spool ==
  /\ at = "spooling"
  /\ \/ \E n \in Batches :
          /\ NextBatch(n) /\ holding' = holding \o NewRows(n)
          /\ IF spool + Kept(n) + 1 <= Ceiling
             THEN spool' = spool + Kept(n) + 1 /\ UNCHANGED at
             ELSE Refused /\ DropSpool
     \/ NextEnds /\ at' = "head" /\ UNCHANGED <<holding, spool>>
     \/ NextFails /\ Refused /\ DropSpool /\ UNCHANGED holding
  /\ UNCHANGED <<request, tables, told, sink, inside, body>>

FileHead ==
  /\ at = "head" /\ Driver({"job"})
  /\ IF Unwritable THEN Refused /\ UNCHANGED sink ELSE Keep(HeadBytes, "writing")
  /\ DropSpool
  /\ UNCHANGED <<request, tables, execution, holding, told, inside, body>>

\* A batch off the plan, or one read back.
FileRows ==
  /\ at = "writing"
  /\ \E n \in Batches :
       IF Measured
       THEN /\ n <= Len(holding)
            /\ KeepRows(n)
            /\ sent' = sent \o SubSeq(holding, 1, n)
            /\ holding' = SubSeq(holding, n + 1, Len(holding))
            /\ UNCHANGED execution
       ELSE /\ NextBatch(n)
            /\ KeepRows(Kept(n))
            /\ sent' = sent \o NewRows(n)
            /\ UNCHANGED holding
  /\ DropSpool
  /\ UNCHANGED <<request, tables, told, writing, closed>>

\* The document's end is written with the spool gone.
FileEnd ==
  /\ at = "writing"
  /\ IF Measured THEN holding = <<>> /\ UNCHANGED execution ELSE NextEnds
  /\ Keep(EndBytes, "closing")
  /\ DropSpool
  /\ UNCHANGED <<request, tables, holding, told, inside, body>>

\* Only what is whole gets the answer's own name, and the record says what the header will.
Rename ==
  /\ at = "closing"
  /\ at' = "answered" /\ Close("whole")
  /\ told' = IF overflow THEN "overflow" ELSE "nothing"
  /\ UNCHANGED <<request, tables, execution, holding, files, sent>>

\* The disk, a value with no form, or the read fails; what a job leaves is swept.
FileFails ==
  /\ at \in {"spooling", "head", "writing", "closing"} /\ Driver({"job"})
  /\ Refused /\ DropSpool
  /\ UNCHANGED <<request, tables, execution, holding, told, sink, inside, body>>

(* The deadline, a client that went away, or a job that was aborted. *)
Drop ==
  \/ /\ Streaming /\ CutOff
     /\ UNCHANGED <<request, at, tables, execution, holding, told, files>>
  \/ /\ at \notin Ended \cup {"streaming"}
     /\ at' = "late" /\ DropSpool
     /\ UNCHANGED <<request, tables, execution, holding, told, sink, inside, body>>

OpenOne ==
  OpenTables /\ UNCHANGED <<execution, holding, told, files, body>>

Work ==
  \/ OpenOne \/ Plan \/ PlanFails
  \/ Collect \/ Encode
  \/ StreamHead \/ StreamRows \/ StreamEnds
  \/ Spool \/ FileHead \/ FileRows \/ FileEnd \/ Rename \/ FileFails

Next == Work \/ Drop

Spec == InitStatement /\ [][Next]_vars /\ WF_vars(Work)
===================================================================================
