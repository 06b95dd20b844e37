--------------------------- MODULE StatementProperties ---------------------------
(* What a statement is promised, and what it may take to answer it. *)
EXTENDS Statement

Asking == {"asked", "opening", "fetching"}
Planned == at \notin Asking \cup Ended

Types ==
  /\ request \in Requests
  /\ at \in Ended \cup Asking \cup {"collecting", "encoding", "head", "streaming", "spooling",
                                  "writing", "closing"}
  /\ sources \in Seq([place : DOMAIN request.tables, table : Range(request.tables),
                      kind : {"memory"} \cup Stored])
  /\ dataFiles \in {NoList} \cup {t.list : t \in Range(request.tables)}
  /\ left \in Nat /\ held \in Nat /\ fetched \in Nat
  /\ read \in 0 .. Bound /\ ahead \in 0 .. request.rows
  /\ reading \in BOOLEAN /\ overflow \in BOOLEAN
  /\ sent \in Seq(Nat) /\ holding \in Seq(Nat)
  /\ told \in {"nothing", "overflow", "failed"}
  /\ closed \in {"open", "whole", "short", "cut"}

\* The tables a request brings are within one allowance together, however many there are and at
\* every chunk of those that are fetched; a job's file and its spool are each within the ceiling,
\* and only what has to be measured has a spool, which does not outlive the work.
\* app/uploaded.rs:87-98, 148-150, tap/jobs/results.rs:543-555.
WithinAllowances ==
  /\ held + left = MaxUpload
  /\ at = "fetching" => Opening # {} /\ fetched <= Table.size
  /\ sink <= Ceiling /\ spool <= Ceiling
  /\ at \notin {"spooling", "head", "writing"} \/ ~ (Measured /\ Driver({"job"})) => spool = 0

\* Each driver has its own way to an answer, and tells nothing before it has one.
InItsWay ==
  /\ at \in {"collecting", "encoding"} => Driver({"adql", "sync"})
  /\ at = "streaming" => Driver({"stream"})
  /\ at \in {"spooling", "writing", "closing"} => Driver({"job"})
  /\ at = "spooling" => Measured
  /\ at = "head" => Driver({"stream", "job"})
  /\ at \notin {"answered", "streaming"} => closed = "open"
  /\ closed = "open" => told = "nothing"

\* The rows after the first so many, up to the last.
Stretch(after, last) == [i \in 1 .. last - after |-> after + i]

\* What left and then what is kept back are the rows read, in order, until there is an answer.
RowsInOrder ==
  /\ closed = "open" =>
       /\ Len(sent) <= read
       /\ sent = Stretch(0, Len(sent)) /\ holding = Stretch(Len(sent), read)
  /\ at \in Asking \cup {"collecting", "encoding", "spooling", "head"} => sent = <<>>
  /\ at \in {"head", "streaming", "writing"} /\ ~ (Measured /\ Driver({"job"})) => holding = <<>>
  /\ at \in Asking \cup {"closing"} => holding = <<>>

\* There are rows to come, all those that were not read, or the bound stopped the reading.
Going ==
  /\ reading /\ ~ overflow
  /\ read + ahead = request.rows
  /\ Truncates => Bound > 0
Stopped ==
  /\ ~ reading /\ overflow /\ Truncates
  /\ read = Bound
  /\ request.rows > Bound \/ Bound = 0

ReadToTheBound ==
  /\ at \in Asking => ~ overflow /\ read = 0 /\ ahead = request.rows
  /\ Planned /\ closed = "open" => Going \/ Stopped
  /\ at \in {"encoding", "closing"} \/ (Measured /\ Driver({"job"}) /\ at \in {"head", "writing"})
       => Stopped \/ ahead = 0

\* What opened a store is what opened its authority, and one list is under the catalogs opened
\* unless they are under several.
OpenedAlike ==
  at \notin Ended =>
    /\ \A i \in DOMAIN sources : sources[i].kind \in Stored =>
         /\ sources[i].table.site \in DOMAIN authorities
         /\ authorities[sources[i].table.site] = sources[i].table.options
    /\ \A i \in DOMAIN sources : sources[i].kind = "hats" =>
         \/ dataFiles = sources[i].table.list
         \/ \E j \in DOMAIN sources :
              sources[j].kind = "hats" /\ sources[j].table.list # sources[i].table.list
    /\ Planned => registry = Registered

\* Together: what is held, written and registered is what was counted, read and opened, wherever
\* a statement stops (Budget, Execution::next, the drivers of run.rs and results.rs).
StatementInv ==
  /\ Types
  /\ WithinAllowances
  /\ InItsWay
  /\ RowsInOrder
  /\ ReadToTheBound
  /\ OpenedAlike

-----------------------------------------------------------------------------------

ReadInPlace == {i \in DOMAIN sources : sources[i].kind \in Stored /\ sources[i].table.named}
Catalogs == {i \in ReadInPlace : sources[i].kind = "hats"}

\* Every table a running statement reads in place is read through a store that its own options
\* opened, whatever else the statement names at that authority and whichever registration was
\* the last; and a catalog's files are told by the list that governs it, where the request
\* opened no catalog under another.  storage/options.rs:1066-1104, routes/tap/run.rs:471-473.
ReadAsItsOwn ==
  Planned =>
    /\ \A i \in ReadInPlace : registry[sources[i].table.site] = sources[i].table.options
    /\ \A i \in Catalogs :
         \/ dataFiles = sources[i].table.list
         \/ \E j \in DOMAIN sources :
              sources[j].kind = "hats" /\ sources[j].table.list # sources[i].table.list

-----------------------------------------------------------------------------------

Asked ==
  [rows |-> request.rows, bound |-> Bound, streams |-> Driver({"stream"}),
   overflows |-> CASE ~ Truncates -> "refuse"
                   [] Driver({"stream"}) /\ ~ Says -> "break"
                   [] OTHER -> "tell"]

Handed == IF at \in {"answered", "streaming"} THEN sent ELSE <<>>

Outcome ==
  IF at \in {"refused", "late"} THEN at
  ELSE IF closed \in {"cut", "open"} THEN closed
  ELSE IF told = "nothing" THEN "whole" ELSE told

Promise == INSTANCE StatementPromise WITH asked <- Asked, given <- Handed, verdict <- Outcome

\* An answer is the rows of the statement up to the bound, and one that is less says so, or shows
\* it by having no end; whichever driver writes it, batches landing either side of the bound, and
\* reads, encoders, disks and clocks failing anywhere; and every statement is answered.
\* adql/query.rs:157-184, output/stream.rs:144-151, routes/tap/run.rs:275-303.
KeepsThePromise == Promise!Spec
===================================================================================
