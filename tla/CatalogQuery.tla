----------------------------- MODULE CatalogQuery -----------------------------
(***************************************************************************)
(* A catalog's rows asked for in one request, three ways: the work it      *)
(* would take (a plan), the rows once all of them are in (collected), and  *)
(* the rows as their partitions land (streamed).  Each partition is read   *)
(* with the whole limit as its own, and what was read is counted as the    *)
(* pipeline yields it.                                                     *)
(***************************************************************************)
EXTENDS PartitionReads, StreamedBody

VARIABLES
  counted,   \* what the partitions yielded so far came to: [bytes, matched]
  gathered,  \* a collected read's batches, and of a streamed one the rows its walk let out
  items,     \* what the walk let out and the body has not had: batches, and a failure
  rest,      \* what is left of the stream: "reads", "describing" or "nothing"
  done,      \* Walk::done
  refused    \* Streamed::refused: whether a bound stopped the rows

query == <<counted, gathered, items, rest, done, refused>>

InitQuery ==
  /\ counted = [bytes |-> 0, matched |-> 0]
  /\ gathered = <<>> /\ items = <<>> /\ rest = "reads"
  /\ done = FALSE /\ refused = FALSE

ReadNext(i) == PartitionRows(chosen[i], request.limit)

\* A partition says what its columns are whether or not a row of it matched.
SaysColumns(reads) == \E i \in reads : Partition(chosen[i]).files # <<>>

\* Mutant of Entries: a partition written as a directory is taken for one file.
OneEntryEach ==
  IF request.limit = 0 THEN <<>>
  ELSE FlattenSeq([i \in DOMAIN chosen |->
         First([f \in DOMAIN Partition(chosen[i]).files |-> <<chosen[i], f>>], 1)])

\* The entries a plan names: each file of each of the chosen, to be read with the same limit.
Entries ==
  IF request.limit = 0 THEN <<>>
  ELSE FlattenSeq([i \in DOMAIN chosen |->
         [f \in DOMAIN Partition(chosen[i]).files |-> <<chosen[i], f>>]])

\* A bound reached is answered with the plan of the same search.
Refuse == Answer("refused", <<>>, Entries, FALSE)

TooManyPartitions == ~ Limited /\ Len(chosen) > bounds.partitions

\* The three bounds, looked at when a partition is yielded.
Exceeded(bytes, matched, partitions) ==
  \/ bytes > bounds.bytes
  \/ matched > bounds.rows
  \/ Limited /\ partitions > bounds.partitions

Enough(rows) == Limited /\ rows >= request.limit

-----------------------------------------------------------------------------

Plan ==
  /\ at = "ready" /\ request.how = "plan"
  /\ Answer("plan", <<>>, Entries, FALSE)
  /\ UNCHANGED <<asked, chosen, indexed, pipeline, query, body>>

-----------------------------------------------------------------------------
(* Search::run: the rows are gathered, and trimmed once they are all in.   *)

\* No row answers a limit of zero: the columns do, where the catalog keeps them apart.
AnswerColumns ==
  /\ at = "ready" /\ request.how = "collected"
  /\ request.limit = 0 /\ catalog.common
  /\ Answer("rows", <<>>, <<>>, TRUE)
  /\ UNCHANGED <<asked, chosen, indexed, pipeline, query, body>>

StartCollecting ==
  /\ at = "ready" /\ request.how = "collected"
  /\ ~ (request.limit = 0 /\ catalog.common)
  /\ \/ /\ TooManyPartitions /\ Refuse
        /\ UNCHANGED counted
     \/ /\ ~ TooManyPartitions
        /\ at' = "reading"
        /\ counted' = [counted EXCEPT !.bytes = IndexBytes]
        /\ UNCHANGED answer
  /\ UNCHANGED <<asked, chosen, indexed, pipeline, gathered, items, rest, done, refused, body>>

AwaitRead ==
  /\ at = "reading" /\ Poll
  /\ UNCHANGED <<asked, at, chosen, indexed, answer, query, body>>

\* What a collected read answers once it stops, having yielded those reads and those rows.
Gathered(reads, rows) ==
  Answer("rows", First(rows, request.limit), <<>>, SaysColumns(Range(reads)) \/ Describable)

\* One partition in: a failed one ends the request, a bound reached is looked at before the
\* rows are enough.
Collect(i) ==
  LET rows == gathered \o ReadNext(i)
      after == [bytes |-> counted.bytes + Partition(chosen[i]).bytes,
                matched |-> counted.matched + Len(ReadNext(i))]
      over == Exceeded(after.bytes, after.matched, Len(taken) + 1)
  IN
  /\ at = "reading" /\ Yield(i, TRUE)
  /\ \/ /\ Partition(chosen[i]).fails
        /\ Answer("failed", <<>>, <<>>, FALSE)
        /\ UNCHANGED <<counted, gathered>>
     \/ /\ ~ Partition(chosen[i]).fails
        /\ counted' = after /\ gathered' = rows
        /\ \/ over /\ Refuse
           \/ ~ over /\ Enough(Len(rows)) /\ Gathered(taken', rows)
           \/ ~ over /\ ~ Enough(Len(rows)) /\ UNCHANGED <<at, answer>>
  /\ UNCHANGED <<asked, chosen, indexed, items, rest, done, refused, body>>

CollectedAll ==
  /\ at = "reading" /\ Dry
  /\ Gathered(taken, gathered)
  /\ UNCHANGED <<asked, chosen, indexed, pipeline, query, body>>

-----------------------------------------------------------------------------
(* Search::stream: the rows leave as each partition lands, in the order of *)
(* the catalog only where a limit makes the order matter.                  *)

Failure == [failed |-> TRUE, rows |-> <<>>]
Batch(rows) == [failed |-> FALSE, rows |-> rows]

StartStreaming ==
  /\ at = "ready" /\ request.how \in Streams
  /\ \/ /\ TooManyPartitions /\ Refuse
        /\ UNCHANGED counted
     \/ /\ ~ TooManyPartitions
        /\ at' = "first"
        /\ counted' = [counted EXCEPT !.bytes = IndexBytes]
        /\ UNCHANGED answer
  /\ UNCHANGED <<asked, chosen, indexed, pipeline, gathered, items, rest, done, refused, body>>

\* The stream is polled by the handler for its first item, and then by the body.
Wanting == items = <<>> /\ (at = "first" \/ writing = "rows")

AwaitLanding ==
  /\ Wanting /\ rest = "reads" /\ Poll
  /\ UNCHANGED <<asked, at, chosen, indexed, answer, query, body>>

\* The batches of a partition, cut to the room left; those past it are not made.
Cut(rows) ==
  LET room == request.limit - Len(gathered) IN
  IF ~ Limited THEN rows ELSE SubSeq(rows, 1, IF Len(rows) < room THEN Len(rows) ELSE room)

\* Mutant of BoundReached: the rows end without a word.
BoundForgotten == UNCHANGED refused

BoundReached == refused' = TRUE

\* Counted::take.  The rows of the partition that went over a bound are left out; its bytes
\* are counted.
Counted(i) ==
  LET p == Partition(chosen[i])
      rows == ReadNext(i)
      after == [bytes |-> counted.bytes + p.bytes, matched |-> counted.matched + Len(rows)]
  IN
  IF p.fails
  THEN /\ items' = <<Failure>> /\ done' = TRUE
       /\ UNCHANGED <<counted, gathered, refused>>
  ELSE IF Exceeded(after.bytes, after.matched, Len(taken) + 1)
  THEN /\ BoundReached /\ done' = TRUE
       /\ counted' = [counted EXCEPT !.bytes = after.bytes]
       /\ UNCHANGED <<gathered, items>>
  ELSE /\ counted' = after
       /\ gathered' = gathered \o Cut(rows)
       /\ items' = IF Cut(rows) = <<>> THEN <<>> ELSE <<Batch(Cut(rows))>>
       /\ done' = Enough(Len(gathered'))
       /\ UNCHANGED refused

\* The walk sees a read only after the pipeline has yielded it: one that is done lets go of
\* the read it was given, and of the rest.
Walk(i) ==
  /\ Wanting /\ rest = "reads" /\ Yield(i, Limited)
  /\ IF done
     THEN /\ rest' = "describing"
          /\ UNCHANGED <<counted, gathered, items, done, refused>>
     ELSE Counted(i) /\ UNCHANGED rest
  /\ UNCHANGED <<asked, at, chosen, indexed, answer, body>>

WalkEnds ==
  /\ Wanting /\ rest = "reads" /\ Dry
  /\ rest' = "describing" /\ polling' = FALSE
  /\ UNCHANGED <<asked, at, chosen, indexed, started, landed, taken, answer,
                 counted, gathered, items, done, refused, body>>

\* Where no partition said what the columns were, the catalog is asked.  A failed read says
\* nothing of them.
Said == SaysColumns({i \in Range(taken) : ~ Partition(chosen[i]).fails})

Describe ==
  /\ Wanting /\ rest = "describing"
  /\ rest' = "nothing"
  /\ answer' = [answer EXCEPT !.named = Said \/ Describable]
  /\ UNCHANGED <<asked, at, chosen, indexed, pipeline,
                 counted, gathered, items, done, refused, body>>

\* The first item is waited for while a status can still be chosen, and goes back in front
\* of the rest; the head is written then, and a format may refuse the columns.
FirstItem ==
  /\ at = "first" /\ (items # <<>> \/ rest = "nothing")
  /\ \/ /\ items # <<Failure>>
        /\ at' = "body" /\ Begin
        /\ answer' = [answer EXCEPT !.status = "rows", !.named = @ \/ SaysColumns(Range(taken))]
     \/ /\ Answer("failed", <<>>, <<>>, FALSE)
        /\ UNCHANGED body
  /\ UNCHANGED <<asked, chosen, indexed, pipeline, query>>

WriteHead ==
  /\ SendHead
  /\ UNCHANGED <<asked, at, chosen, indexed, pipeline, answer, query>>

\* A read that fails part-way ends the document; what else the ending was going to say does
\* not matter then.
WriteItem ==
  /\ items # <<>> /\ items' = Tail(items)
  /\ IF Head(items).failed THEN FinishBody(TRUE, request.says) ELSE SendRows(Head(items).rows)
  /\ UNCHANGED <<asked, at, chosen, indexed, pipeline, answer,
                 counted, gathered, rest, done, refused>>

WriteEnd ==
  /\ items = <<>> /\ rest = "nothing"
  /\ FinishBody(refused, request.says)
  /\ UNCHANGED <<asked, at, chosen, indexed, pipeline, answer, query>>

BodyCutOff ==
  /\ CutOff
  /\ UNCHANGED <<asked, at, chosen, indexed, pipeline, answer, query>>

\* A request without a body yet is over when its time is up.
TimeIsUp ==
  /\ at \in {"reading", "first"}
  /\ Answer("late", <<>>, <<>>, FALSE)
  /\ UNCHANGED <<asked, chosen, indexed, pipeline, query, body>>
===============================================================================
