---------------------------- MODULE PartitionReads ----------------------------
(***************************************************************************)
(* What every read of a HATS catalog is made of: the partitions a request  *)
(* chooses, left as they are or narrowed by an index of the collection,    *)
(* and the pipeline that reads several at a time.                          *)
(*                                                                         *)
(* A partition is known by its place in the catalog's list; its record     *)
(* says how many rows of each of its files answer the request, what        *)
(* reading it fetches, and whether it fails.  A row is the partition, the  *)
(* file and its place among the file's rows that answer.                   *)
(***************************************************************************)
EXTENDS Naturals, SequencesExt

CONSTANTS
  Catalogs,   \* the catalogs asked: [partitions, common, index, indexBytes]
  Requests,   \* the requests made of them: [how, filters, limit, says]
  Bounds,     \* CatalogLimits: [bytes, rows, partitions, concurrency, minForIndex]
  NoLimit     \* a request that names no limit

Streams == {"streamed"}
Scans == {"up", "down", "unordered"}
Queries == {"plan", "collected"} \cup Streams

ASSUME PartitionReadsAssumption == NoLimit \notin Nat

ASSUME CatalogsAssumption ==
  \A c \in Catalogs :
    /\ c.partitions \in Seq([files : Seq(Nat), bytes : Nat,
                            fails : BOOLEAN, reached : BOOLEAN, named : BOOLEAN])
    /\ c.common \in BOOLEAN /\ c.indexBytes \in Nat
    \* An index that names the partitions of a value names all of them.
    /\ \A p \in Range(c.partitions) : ~ p.named => \A f \in DOMAIN p.files : p.files[f] = 0

\* A statement that wants no rows is planned without a scan.
ASSUME RequestsAssumption ==
  \A r \in Requests :
    /\ r.how \in Queries \cup Scans /\ r.limit \in Nat \cup {NoLimit}
    /\ r.how \in Scans => r.limit # 0
    /\ r.filters \in BOOLEAN /\ r.says \in BOOLEAN

ASSUME BoundsAssumption ==
  Bounds \subseteq
    [bytes : Nat, rows : Nat, partitions : Nat, concurrency : Nat, minForIndex : Nat]

VARIABLES
  catalog, request, bounds,
  at,        \* where the request has got to
  chosen,    \* Search::chosen, or the partitions of a scan: their places, in order of reading
  indexed,   \* whether an index narrowed them
  started,   \* how many of the chosen have been polled at all
  landed,    \* those whose read has ended
  taken,     \* those the pipeline has yielded, in that order
  polling,   \* whether the consumer is awaiting the pipeline
  answer     \* what the request came to: [status, rows, plan, named]

pipeline == <<started, landed, taken, polling>>
asked == <<catalog, request, bounds>>

Limited == request.limit # NoLimit

\* The first `limit` of them, or all of them.
First(s, limit) == IF limit = NoLimit \/ limit > Len(s) THEN s ELSE SubSeq(s, 1, limit)

Partition(p) == catalog.partitions[p]

\* Those of s that are in S, in their order.
Those(s, S) == FlattenSeq([i \in DOMAIN s |-> IF s[i] \in S THEN <<s[i]>> ELSE <<>>])

Reached == {p \in DOMAIN catalog.partitions : Partition(p).reached}
NamedByIndex == {p \in DOMAIN catalog.partitions : Partition(p).named}

\* The rows one file of a partition answers with, read with a limit of its own.
FileRows(p, f, limit) == First([k \in 1..Partition(p).files[f] |-> <<p, f, k>>], limit)
PartitionRows(p, limit) ==
  FlattenSeq([f \in DOMAIN Partition(p).files |-> FileRows(p, f, limit)])

\* What is known of the columns where no partition was read: _common_metadata's, else the
\* first partition's.
Describable ==
  \/ catalog.common
  \/ /\ catalog.partitions # <<>>
     /\ ~ Partition(1).fails /\ Partition(1).files # <<>>

Nothing == [status |-> "none", rows |-> <<>>, plan |-> <<>>, named |-> FALSE]

Init ==
  /\ catalog \in Catalogs /\ request \in Requests /\ bounds \in Bounds
  /\ at = "asked"
  /\ chosen = <<>> /\ indexed = FALSE
  /\ started = 0 /\ landed = {} /\ taken = <<>> /\ polling = FALSE
  /\ answer = Nothing

Answer(status, rows, plan, named) ==
  /\ at' = "answered"
  /\ answer' = [status |-> status, rows |-> rows, plan |-> plan, named |-> named]

-----------------------------------------------------------------------------
(* Choosing.                                                               *)

\* Opening the catalog, its partition list, and the partitions the region reaches.
Resolve ==
  /\ at = "asked"
  /\ chosen' = Those([p \in DOMAIN catalog.partitions |-> p], Reached)
  /\ at' = "chosen"
  /\ UNCHANGED <<asked, indexed, pipeline, answer>>

ResolveFails ==
  /\ at = "asked"
  /\ Answer("failed", <<>>, <<>>, FALSE)
  /\ UNCHANGED <<asked, chosen, indexed, pipeline>>

\* Whether an index is asked at all; a plan asks none, since asking one is reading it.
Consults ==
  /\ request.how # "plan"
  /\ request.filters
  /\ request.how \in Queries => request.limit # 0
  /\ Len(chosen) >= bounds.minForIndex
  /\ catalog.index # "none"

\* It narrows and never refuses: an index that cannot be read, or would cost more than a
\* request may fetch, leaves the chosen as they were.
Consult ==
  /\ at = "chosen"
  /\ indexed' = (Consults /\ catalog.index = "read" /\ catalog.indexBytes <= bounds.bytes)
  /\ chosen' = IF indexed' THEN Those(chosen, NamedByIndex) ELSE chosen
  /\ at' = "ready"
  /\ UNCHANGED <<asked, pipeline, answer>>

IndexBytes == IF indexed THEN catalog.indexBytes ELSE 0

-----------------------------------------------------------------------------
(* The pipeline: `buffered` and `buffer_unordered` over one future per     *)
(* chosen partition.                                                       *)

\* Mutant of AtOnce: a concurrency of none is taken at its word.
AtOnceAsConfigured == bounds.concurrency

AtOnce == IF bounds.concurrency = 0 THEN 1 ELSE bounds.concurrency

\* The consumer awaits the next: the pipeline first fills up to the reads it keeps in flight,
\* those that have landed and wait for their turn among them.
Poll ==
  /\ ~ polling /\ polling' = TRUE
  /\ started' = LET room == Len(taken) + AtOnce
                IN IF room < Len(chosen) THEN room ELSE Len(chosen)
  /\ UNCHANGED <<landed, taken>>

Land(i) ==
  /\ polling /\ i \in (1..started) \ landed
  /\ landed' = landed \cup {i}
  /\ UNCHANGED <<started, taken, polling, asked, at, chosen, indexed, answer>>

\* Mutant of InTurn: a read that landed is yielded, whatever was asked before it.
AnyLanded(i, ordered) == i \in landed \ Range(taken)

\* Whether the pipeline may yield that read next: in the order of the chosen, or as it landed.
InTurn(i, ordered) ==
  /\ i \in landed \ Range(taken)
  /\ ordered => i = Len(taken) + 1

Yield(i, ordered) ==
  /\ polling /\ polling' = FALSE
  /\ InTurn(i, ordered)
  /\ taken' = Append(taken, i)
  /\ UNCHANGED <<started, landed>>

\* Every read has been yielded, which is what the next poll says.
Dry == polling /\ Len(taken) = Len(chosen)
===============================================================================
