------------------------------ MODULE CatalogReads ------------------------------
(* A request to a catalog from its choice of partitions to the end of its answer. *)
EXTENDS CatalogQuery, CatalogScan, Functions

vars == <<catalog, request, bounds, at, chosen, indexed, started, landed, taken, polling,
          answer, counted, gathered, items, rest, done, refused, beyond, pulled,
          writing, sent, closed>>

InitReads == Init /\ InitQuery /\ InitBody /\ InitScan

Choosing == (Resolve \/ ResolveFails \/ Consult) /\ UNCHANGED <<query, body, scan>>

\* What the partitions' servers do.
Lands == \E i \in 1..Len(chosen) : Land(i) /\ UNCHANGED <<query, body, scan>>

Querying ==
  /\ \/ Plan
     \/ AnswerColumns \/ StartCollecting \/ AwaitRead \/ CollectedAll
     \/ \E i \in DOMAIN chosen : Collect(i) \/ Walk(i)
     \/ StartStreaming \/ AwaitLanding \/ WalkEnds \/ Describe
     \/ FirstItem \/ WriteHead \/ WriteItem \/ WriteEnd
  /\ UNCHANGED scan

Scanning ==
  /\ \/ StartScan \/ PullNext \/ ScanEnds
     \/ \E i \in DOMAIN chosen : Pull(i)
  /\ UNCHANGED <<query, body>>

OutOfTime == (BodyCutOff \/ TimeIsUp) /\ UNCHANGED scan

Next == Choosing \/ Lands \/ Querying \/ Scanning \/ OutOfTime

Spec == InitReads /\ [][Next]_vars

\* A store answers or fails every read it was asked for while the read is awaited, and the
\* runtime goes on with a task that can go on.  The clock need not run out.
Fairness ==
  /\ WF_vars(Choosing) /\ WF_vars(Querying) /\ WF_vars(Scanning)
  /\ WF_vars(Lands)

FairSpec == Spec /\ Fairness

-----------------------------------------------------------------------------
(* What a request is promised, said of the catalog and the request alone: no   *)
(* property counts as the reads do.                                             *)

\* Every row the request matches, in the order of the catalog.
AllRows ==
  FlattenSeq([p \in DOMAIN catalog.partitions |->
    IF Partition(p).reached THEN PartitionRows(p, NoLimit) ELSE <<>>])

\* The rows that answer it.
AnswerRows == First(AllRows, request.limit)

\* The partitions a query reads, each with the whole limit, up to the one that meets it.
BytesUpTo(i) == SumFunction([j \in 1..i |-> Partition(chosen[j]).bytes])
RowsUpTo(i) == SumFunction([j \in 1..i |-> Len(ReadNext(j))])

Needed ==
  {i \in DOMAIN chosen : Limited => \A j \in 1..(i - 1) : RowsUpTo(j) < request.limit}
GoesOver(i) ==
  \/ IndexBytes + BytesUpTo(i) > bounds.bytes
  \/ RowsUpTo(i) > bounds.rows
  \/ Limited /\ i > bounds.partitions

Fails(i) == Partition(chosen[i]).fails

\* What a query comes to, whichever order its reads land in.
Verdict ==
  LET stops == {i \in Needed : Fails(i) \/ GoesOver(i)} IN
  IF request.limit = 0 /\ catalog.common /\ request.how = "collected" THEN "rows"
  ELSE IF TooManyPartitions THEN "refused"
  ELSE IF stops = {} THEN "rows"
  ELSE IF Fails(Min(stops)) THEN "failed" ELSE "refused"

\* An answer names its columns, the one without rows too, wherever a partition that was read or
\* the catalog could say them.  hats/query.rs:667-677, 774-795, app/routes/hats.rs:399-412.
Named == answer.named \/ ~ Describable

Chose == at \notin {"asked", "chosen"} /\ chosen # <<>>

-----------------------------------------------------------------------------

\* A collected read answers what the catalog and the request say, whatever order its concurrent
\* reads end in: all the rows, or the first `limit` of the catalog's order, their columns named, or
\* it is refused or fails, and which of the three depends on nothing else.
\* hats/query.rs:560-564, 629-661.
CollectedAsAsked ==
  request.how = "collected" /\ Chose /\ answer.status \in {"rows", "refused", "failed"} =>
    /\ answer.status = Verdict
    /\ answer.status = "rows" => answer.rows = AnswerRows /\ Named

\* Nothing is quietly short: a streamed body that ends as a whole one carries every row of the
\* answer and stayed within the bounds, and a body that began names its columns; one that says it
\* was stopped met a bound or a failure.  Rows already sent are sound: with a limit they are the
\* first of the answer, without one they are rows of it, none twice.  hats/query.rs:698-716, output/stream.rs:144-151.
NothingQuietlyShort ==
  request.how \in Streams =>
    /\ closed = "whole" =>
         /\ Len(sent) = Len(AnswerRows) /\ Range(sent) = Range(AnswerRows)
         /\ Verdict = "rows"
    /\ answer.status = "rows" => Named
    /\ closed = "short" => Verdict # "rows"
    /\ IF Limited THEN IsPrefix(sent, AnswerRows)
       ELSE /\ Range(sent) \subseteq Range(AnswerRows)
            /\ Cardinality(Range(sent)) = Len(sent)

\* A plan is the same answer: the entries read one by one with the request's limit, and the
\* first `limit` of them taken, are the rows of the request; so are those of the plan a refused
\* request is given, after an index narrowed it.  app/routes/hats.rs:595-597, 617-704.
PlanIsTheAnswer ==
  answer.status \in {"plan", "refused"} /\ request.how \in Queries =>
    LET read == FlattenSeq([e \in DOMAIN answer.plan |->
                  FileRows(answer.plan[e][1], answer.plan[e][2], request.limit)])
    IN First(read, request.limit) = AnswerRows

\* A statement over a catalog gets the rows it asked for or none: ordered by the index, the first
\* in that order from either end; otherwise as many as it asked for, each a row of the catalog
\* once.  It is refused only where the partitions one request may read hold too few, and then
\* some are left.  hats/scan.rs:338-368, 440-447.
ScanAsAsked ==
  request.how \in Scans =>
    LET allowed == FlattenSeq([i \in DOMAIN chosen |-> PartitionRows(chosen[i], NoLimit)]) IN
    /\ answer.status = "rows" =>
         IF Ordered THEN answer.rows = First(ByIndex(AllRows), request.limit)
         ELSE /\ Cardinality(Range(answer.rows)) = Len(answer.rows)
              /\ Range(answer.rows) \subseteq Range(AllRows)
              /\ Len(answer.rows) = Len(AnswerRows)
    /\ answer.status = "refused" =>
         /\ beyond
         /\ Limited => Len(allowed) < request.limit

\* The answer ends: no bound, failure or early stop leaves the reader awaiting a read nobody
\* polls.  hats/query.rs:610, 757-768, hats/scan.rs:293-352.
AnswersEnd == <>(at = "answered" \/ closed # "open")

-----------------------------------------------------------------------------
(* Why they hold.                                                              *)

Places == Nat \X Nat \X Nat

TypeOK ==
  /\ catalog \in Catalogs /\ request \in Requests /\ bounds \in Bounds
  /\ at \in {"asked", "chosen", "ready", "reading", "first", "body", "scanning", "answered"}
  /\ chosen \in Seq(DOMAIN catalog.partitions) /\ indexed \in BOOLEAN
  /\ started \in Nat /\ landed \subseteq Nat /\ polling \in BOOLEAN
  /\ taken \in Seq(DOMAIN chosen)
  /\ answer \in [status : {"none", "plan", "rows", "refused", "failed", "late"},
                 rows : Seq(Places), plan : Seq(Nat \X Nat), named : BOOLEAN]
  /\ counted \in [bytes : Nat, matched : Nat]
  /\ gathered \in Seq(Places) /\ sent \in Seq(Places) /\ pulled \in Seq(Places)
  /\ items \in Seq([failed : BOOLEAN, rows : Seq(Places)]) /\ Len(items) <= 1
  /\ rest \in {"reads", "describing", "nothing"}
  /\ done \in BOOLEAN /\ refused \in BOOLEAN /\ beyond \in BOOLEAN
  /\ writing \in {"none", "begin", "rows", "end"}
  /\ closed \in {"open", "whole", "short", "cut"}

\* The partitions a request is left with, and the order a scan walks them in.
Left ==
  LET reached == Those([p \in DOMAIN catalog.partitions |-> p], Reached)
  IN IF indexed THEN Those(reached, NamedByIndex) ELSE reached

Walked == IF request.how = "down" THEN Reverse(Left) ELSE Left

\* Until it is ready a request has read nothing, and each kind then goes its own way; what it
\* has chosen stays the same for as long as it reads.
ChosenOnce ==
  /\ at \in {"asked", "chosen", "ready"} => /\ taken = <<>> /\ answer = Nothing
                                            /\ InitQuery /\ InitScan
  /\ at \in {"asked", "chosen"} => ~ indexed
  /\ at = "asked" => chosen = <<>>
  /\ at \in {"chosen", "ready", "reading", "first", "body"} => chosen = Left
  /\ at = "scanning" => /\ chosen = First(Walked, bounds.partitions)
                        /\ beyond = (Len(Walked) > bounds.partitions)
  /\ at = "reading" => request.how = "collected"
  /\ at \in {"first", "body"} => request.how \in Streams
  /\ at = "scanning" => request.how \in Scans
  /\ at # "body" => InitBody
  /\ writing = "end" <=> closed # "open"

\* No read is yielded twice, and where the order matters each is in its turn.
TakenInTurn ==
  /\ \A i, j \in DOMAIN taken : taken[i] = taken[j] => i = j
  /\ at \in {"reading", "scanning"} \/ Limited => \A j \in DOMAIN taken : taken[j] = j

\* What the first k that were yielded come to.
TakenReads(k) == FlattenSeq([j \in 1..k |-> ReadNext(taken[j])])
TakenRows(k) == SumFunction([j \in 1..k |-> Len(ReadNext(taken[j]))])
TakenBytes(k) == SumFunction([j \in 1..k |-> Partition(chosen[taken[j]]).bytes])

Over(k) == Exceeded(IndexBytes + TakenBytes(k), TakenRows(k), k)

\* They left the reading going.
Going(k) ==
  \A j \in 1..k : ~ Fails(taken[j]) /\ ~ Over(j) /\ ~ Enough(TakenRows(j))

CountedSoFar ==
  counted = [bytes |-> IndexBytes + TakenBytes(Len(taken)), matched |-> TakenRows(Len(taken))]

Collecting ==
  at = "reading" =>
    /\ ~ TooManyPartitions /\ ~ (request.limit = 0 /\ catalog.common)
    /\ Going(Len(taken)) /\ CountedSoFar
    /\ gathered = TakenReads(Len(taken))

\* The walk goes on, or the k-th read ended it: it failed, went over a bound, or was enough.
WalkGoes ==
  /\ ~ done /\ ~ refused /\ items # <<Failure>>
  /\ Going(Len(taken)) /\ CountedSoFar
  /\ gathered = First(TakenReads(Len(taken)), request.limit)
  /\ rest = "reads" \/ Len(taken) = Len(chosen)

WalkEndedAt(k) ==
  /\ done /\ Going(k - 1)
  /\ \/ /\ Fails(taken[k])
        /\ items = <<Failure>> /\ ~ refused
        /\ gathered = First(TakenReads(k - 1), request.limit)
     \/ /\ ~ Fails(taken[k]) /\ Over(k)
        /\ items # <<Failure>> /\ refused
        /\ gathered = First(TakenReads(k - 1), request.limit)
     \/ /\ ~ Fails(taken[k]) /\ ~ Over(k) /\ Enough(TakenRows(k))
        /\ items # <<Failure>> /\ ~ refused
        /\ gathered = First(TakenReads(k), request.limit)

\* What the walk let out was sent, or is about to be.
Streaming ==
  at \in {"first", "body"} /\ writing # "end" =>
    /\ ~ TooManyPartitions
    /\ WalkGoes \/ \E k \in DOMAIN taken : WalkEndedAt(k)
    /\ gathered = IF items = <<>> THEN sent ELSE sent \o Head(items).rows
    /\ items # <<>> => Head(items) = Failure \/ (~ Head(items).failed /\ SaysColumns(Range(taken)))
    /\ rest = "nothing" => Named

Scanned ==
  at = "scanning" =>
    /\ pulled = First(FlattenSeq([j \in DOMAIN taken |-> ScanRows(chosen[j])]), request.limit)
    /\ Len(pulled) # request.limit

\* A plan is of what was chosen.
Planned == answer.status \in {"plan", "refused"} /\ request.how \in Queries =>
             chosen = Left /\ answer.plan = Entries

ReadsInv ==
  /\ TypeOK /\ ChosenOnce /\ TakenInTurn
  /\ Collecting /\ Streaming /\ Scanned /\ Planned
  /\ CollectedAsAsked /\ NothingQuietlyShort /\ ScanAsAsked
===============================================================================
