# hats-api, verified

TLA+ modules, TLC runs and TLAPS proofs kept beside [hats-api](../src/README.md), an HTTP
service (Rust, tokio, axum, DataFusion) that answers queries over HATS catalogs. Line
references below are to `src/src/…`.

`tlc -config <run>.cfg <module>` repeats a run, `tlapm <module>.tla` a proof; `PROJECT.json`
lists runs, proofs, hazards, findings, and which lines of the source each definition stands
for.

Contents: [the system](#the-system), [the plan](#the-plan), [the jobs of one
process](#the-jobs-of-one-process), [the results directory](#the-results-directory), [the file
and its answers](#one-file-of-a-mount-and-its-answers), [the catalog cache](#the-catalog-cache),
[transfers](#transfers), [catalog reads](#catalog-reads), [sky regions](#sky-regions), [what is
left unread](#what-is-left-unread), [TAP statements](#statements), [proofs](#what-is-proved),
[findings](#where-the-code-and-its-comments-differ), [what is left out](#what-is-not-modelled).

## The system

Three interfaces (file-server mounts, an API, TAP) over one pipeline: a location is checked
against the access rules, opened as a store, read as a catalog or a file, planned and run by
DataFusion, and encoded. Most requests keep nothing. What outlives a request is the
asynchronous TAP jobs, four caches and budgets shared by concurrent requests, and a scratch
directory shared by processes; that is where the hard behaviour is.

| component | state it keeps | operations | interacts with | hard behaviour | correct when |
|---|---|---|---|---|---|
| job records and store (`tap/jobs/{job,store,memory}.rs`) | phase, product, times, parameters per job, under a mutex | create, get, apply a change, delete, expire, shed | handlers, runner, timer | changes asked for by actors that each saw an older phase; quota after the fact | phases only as UWS has them; quota met by the oldest results |
| job runner (`tap/jobs/runner.rs`) | slots, abort handles (`running`), what a job was sent (`held`) | hold, start, abort, stop, execute, finish, reclaim, expire | store, results, the work | a task, its work, requests, clocks and sweeps interleave at every await; cancellation, panics | no result lost or left over, no work without a slot, every committed job ends |
| job results (`tap/jobs/results.rs`) | a directory per process, answers, half-written answers, uploads, lock files | open (and sweep), write, finish, abandon, remove, drop | runner, other processes | crash between any two calls, two starting processes, an aborted write that lands late | an answer under its name is whole; no live process loses its directory |
| job handlers (`app/routes/tap/jobs.rs`), timer (`main.rs`) | none of their own | the UWS resource; a sweep every minute | runner, store | a request dropped at an await | as above |
| answer cache (`app/cache.rs`) | entries, their order, a byte count | get, insert | file-server queries | expiry on the way past leaves the order behind | never over its bytes, drops the oldest |
| catalog cache and warmers (`hats/cache.rs`, `app/warm.rs`) | parts of catalogs keyed by the reading they belong to, weights, footprint | find or fill a part, offer, renew, refresh | catalog reads | slow fills re-inserted, renewals racing requests, evictions mid-request | one request never mixes two readings; a failed refresh loses nothing |
| transfers (`storage/materialize.rs`) | resident bytes, permits, one probe per object | probe, copy, read, drop | storage, uploads | cancelled copies, one probe for many readers | the budget is never passed and comes back |
| catalog scan and query (`hats/{scan,query}.rs`) | per request: partitions in flight, rows, bytes | run, stream, plan | catalog, engine | bounds met while reads are in flight; collected and streamed must agree | refuses only what needed more than the bound |
| output (`output/*.rs`) | per request: an encoder's phase | begin, rows, end | routes, deadline | failure after the status is gone; polls after the end | a cut body cannot pass for a whole one |
| catalog metadata (`hats/{catalog,partitions,properties,index,browse}.rs`) | none | open, list, look up | storage, cache | three partition sources by priority, fallbacks | the same partitions whichever answers |
| file-server mode (`app/{files,listing,answer}.rs`) | none | serve, list, query, range | mounts, cache | range arithmetic, what a path is | a slice is of the body it was asked of |
| API and router (`app/{service,request,uploaded}.rs`, `app/routes/*`) | upload budget per request, the deadline | routes | everything | the deadline drops handlers anywhere | nothing depends on a handler finishing |
| access rules (`access/*.rs`), storage (`storage/*.rs`) | policy read at start | check, resolve, connect, redirect | every read | resolution differs from naming | only what the config allows is reached |
| sky (`sky/*.rs`) | none | coverings, tests of cells | plans | edges, wrap-around | no row that belongs is pruned |
| SQL and ADQL (`engine/*.rs`, `adql/*.rs`) | none | check, translate, run | DataFusion | meaning of a rewrite | as the language says |
| VOTable reader (`votable/*.rs`) | none | parse | uploads | malformed documents | as the standard says |
| synchronous TAP and metadata (`app/routes/tap/*`, `tap/*.rs`) | none | documents, one statement | engine | – | – |
| configuration, errors, OpenAPI | none | – | – | – | – |
| conformance suites, benchmarks, tests | – | external programs | – | – | read as documentation |

How they meet: a handler checks the access policy, asks the catalog cache for the parts of a
catalog (which reads them through storage, itself through a transfer where the server does not
serve ranges), hands DataFusion a `CatalogScanExec`, and encodes the batches it yields, all
under the request deadline. A job runs the same path as a task of its own, and writes to a
file instead of a body.

## The plan

| part | modules | runs | theorems |
|---|---|---|---|
| jobs of one process | `JobPhases` (the table of changes), `JobRunner` (store, runner, files, handlers, timer, composed), `UwsJobs` (abstract), `JobProperties` | `jobs_pair`, `jobs_uploads`, `jobs_live` | `JobRunnerProofs` |
| results directory of several processes | `ResultsDir`, `ResultsDirProperties`; its `LiveDirectoryStays` is what `JobRunner` takes for granted of the disk | `results_dir` | `JobRunnerProofs` |
| one file of a mount | `AnswerCache`; `FileAnswers` (composes the cache with the file and its readers), `FileProperties` | `files` | `FileProofs` |
| catalog cache | `CatalogCache`, `CatalogWarm` (composes it with the warming task), `CatalogProperties` | `catalog` | `CatalogProofs` |
| transfers | `Transfers`, `TransfersProperties` | `transfers` | `TransfersProofs` |
| catalog reads | `PartitionReads` (the pipeline), `StreamedBody`, `CatalogQuery` (both), `CatalogScan`, `CatalogReads` (all of them) | `reads` | `ReadsProofs` |
| sky regions | `SkyRegion` (coverings, ranges, the predicate), `RegionSearch` (the walk), `RegionProperties` | `region` | `NarrowingProofs` |
| what is left unread | `Statistics`, `WholeFile`, `IndexLookup`, `Narrowing` | `narrowing`, `whole_nested` | `NarrowingProofs` |
| TAP statements | `StatementTables`, `Statement` (composes it with `StreamedBody`), `StatementPromise` (abstract), `StatementProperties` | `statements` | `StatementProofs` |

An `MC…` module gives each its instance. `DataLemmas` has what several proofs need of sums,
sequences, lists of lists and finite sets. Every safety property that a passing run checks has its
theorem. Left are models of what is read and not changed: `WAIT` on a job, the result's download
beside its destruction, mount resolution.

An abstract catalog, where a request reads one snapshot of it, would be refuted: see
[findings](#where-the-code-and-its-comments-differ).

## The jobs of one process

### State

| variable of `JobRunner` | in the code |
|---|---|
| `record` | `MemoryJobStore::jobs`: phase, whether the destruction time has passed (`due`), the product's size (`bytes`), which completed jobs ended earlier (`older`, from `ended`) |
| `creation` | how far `created` is with this id; an id is a capability, so nobody else acts on it before the 303 |
| `owes` | what a handler that acted on the job has left to do: `stop` (abort), `delete` and `remove` (destroyed) |
| `holding`, `held`, `uploads` | a `Runner::hold` between its files and its entry; `Runner::held`; the upload files |
| `task`, `ending` | where `Runner::execute` is, and its `Ending` |
| `work`, `given` | the spawned work and the `Held` it was started with |
| `running` | `Runner::running`, the abort handles |
| `partial`, `files` | the half-written answer, and the answers under their names |
| `doomed` | the list a sweep (`reclaim` in a task, `expire` in the timer) is working through |

The free slots are not a variable: a task holds one from `Admit` to `Finish` (`Executing`).

### Actions

One action is what happens between two points where another thread can interfere: a call of
the store, a table under its mutex, one file operation. What a handler or a task does next is
kept in the state, so that anything may come first. Two places take several such points in
one step, neither of which can be told apart from outside:

- `Start` commits the record and spawns the task: until it is spawned the task does nothing,
  and nobody but it looks at it.
- `Sweep` does one turn of a sweep's loop. A job with a product has no work left to stop (an
  invariant: its task is `Settled`), so the file and the stop do not interfere. `Stop` takes
  the handle and then the held entry under two locks; nothing reads the two together.

`Admit` is a slot that comes free *and* the transition to EXECUTING, or its refusal: a waiting
task that has the slot and has not yet asked the store is the same as one still waiting, to
anyone who cannot see the semaphore, and another task admitted in between only comes earlier.

Endings: the work is `done`, `failed` (an error or a panic: both record ERROR),
`cancelled` (a stop aborted it), or the clock ran out (`ending = "clock"`). An aborted task is
dropped at its next await (`WorkDropped`), so it may still end by itself first. A file
creation it had handed to a blocking thread goes on without it (`CreationLands`), the one
write that can land after the sweep.

Left out: the reads (documents, `WAIT`, the result's download), the parameters and the value
of the execution duration (its clock may fire at any moment of a run), what the work is (that
is [a statement](#statements)), and failures of removals, which the code logs and passes over.

### Claims

- `ResultIsThere`, `AnswerHasAnOwner`: a record that says COMPLETED has its file; a file has a
  record, or a task or sweep that is about to give it one or remove it. These are what the
  order "rename, record, or take it back" and "take the record, then the file" are for.
- `NothingHalfWritten`: a run that is over leaves no half-written answer (but for the
  creation that was still to land).
- `WorkWithinSlots`: never more work than slots, aborted work included.
- `TablesStayForTheRun`: the inline tables a run was given are there until it is stopped.
- `QuotaHolds`, `ShedsOldestOnly`: the quota is met once completions have been swept, by the
  oldest results and no more of them than needed.
- A terminal phase is left only by destruction, and that is for good (the theorem `JobsEndOnce`;
  every run that checks `ImplementsUws` checks it too).
- `ImplementsUws`: seen through its phase and whether its result could be collected, a job
  behaves as `UwsJobs` says, every step of the runner being a step of it or none.
- `SlotsComeBack`, `OrphansGo`, `OverdueGoes`, `CommittedSettles`: under fairness, a slot
  taken is given back, a stray answer goes, an overdue record goes, a committed job ends.

`UwsJobs` does not bound the jobs that are EXECUTING at once. The runner does not either: a job
being destroyed is stopped, and may give its slot to the next, before its record is gone, so
for a moment two records say EXECUTING over one slot. The bound is on the work
(`WorkWithinSlots`).

### Fairness

`FairSpec` adds weak fairness of what the process does unasked: the task, its clock, a
handler's remaining steps, blocking-thread writes, the sweeps' turns and the timer. tokio polls
every task that is ready, its semaphore is first come first served, its timers fire, and the
sweep is an interval. Each of these actions happens a bounded number of times for a job, so
one weak fairness condition on their disjunction (`Progress`) is as good as one each, and a
slot that is contended needs no strong fairness, each competitor taking it once. No fairness
for requests, for the passing of a destruction time, or for work that ends: that the work may
run for ever is what the clock is for.

### Runs and bounds

| run | instance | question | distinct states |
|---|---|---|---|
| `jobs_pair` | 2 jobs, 1 slot, quota of 1 result, no items, symmetric | all safety but the tables', and the refinement | 253,060 |
| `jobs_uploads` | 1 job, 1 credential, 1 table | what is held, and liveness of one job, with the timer | 103,305 |
| `jobs_live` | 2 jobs, 1 slot, no destruction times | a committed job ends though another competes and is aborted, destroyed or shed | 121,168 |

Two jobs are enough for every pair of actors the code has: a task and a request about its job,
a task and a sweep of another task, a task waiting for another's slot, the timer and both. One
slot makes them wait, a quota of one result of two makes every second completion shed. One
table and one credential distinguish what is a file from what is not. The code treats jobs
independently but for the slots, the quota and the timer, which the proofs cover for any
number. `MaxJobs` only refuses a creation. The instances stop where no id is left, so they are
run without a deadlock check. `jobs_live` keeps destruction times out (`TimelessSpec`) because
liveness needs the whole graph without symmetry; `jobs_uploads` has them.

## The results directory

`ResultsDir` is `Results::open`, `reclaim` and `Drop` as separate system calls of any number
of processes, each of which may be killed before any of them. A lock (`flock`) is on the file,
not on its name, and goes with the process. The names in the directory are read once per sweep.
`Stuck` are the runs whose directory cannot be removed: the code takes their lock file away all
the same and nothing is claimed of them.

- `LiveDirectoryStays`: no sweep takes the directory of a process that is up or starting.
- `LockOutlivesDirectory`: a lock file's name is removed after its directory, so that a sweep
  killed half-way leaves what the next one finds.
- `DeadRunsReclaimed` (weak fairness of a started process, none of kills or starts): what a
  killed process left with its lock file is gone once a later start is through, unless that
  one or a third process is killed too.

`results_dir` has three processes, one of them stuck: the dead one, the sweeper and another
sweeper or a live bystander (33,112 states).

A start that is overtaken (a sweep holds its lock file before it does) fails, and the service
with it; the model has that outcome (`TakeLock`) and nothing in the code says otherwise.

## One file of a mount and its answers

`AnswerCache` is `app/cache.rs`. An answer is its size, a url a name, the clock a number.

| variable | in the code |
|---|---|
| `entries`, `order`, `bytes` | `Kept`, under one mutex |
| `working` | the urls being answered: between `Answers::get` and `Answers::insert` a request runs its query and encodes it, and others may do the same for the same url |
| `now` | what `made` is read from |

`Hit` and `Miss` are `get`; `Insert` is `insert`, whole: `Aged` is how far `forget_expired` walks
off the front, `Dropped` how far the loop after it goes, `Keep` what is left once the new answer
is in. `Fail` is the query failing or its reader gone. `u64::saturating_sub` is `Less`.

`FileAnswers` puts `app/files.rs` around it: readers, each of which opens one url and asks for
slice after slice of what it answers, as a parquet reader does over HTTP. The url is the file, a
query about it or a query that is streamed. A body is named by what it is of and by the
versions of the file that went into it: a query reads the footer (`ReadFooter`), looks the answer
up (`AnswerHeld`, `FindNothing`), reads the rows (`ReadRows`), and encodes and keeps the answer
(`AnswerQuery`); on disk one open file is both the length and the bytes, a store is asked twice
(`AnswerFile`). `Whole` says to which urls the file is itself the answer. `Replace` is whoever
writes the mount, at any moment.

- `FilesInv`, of which `CacheInv`: the count, kept by hand in four places, is what the answers held weigh, and within
  `max_query_cache_bytes` (`CountedAndCapped`); the line names each url once, every answer is in
  it, by age (`OnePlaceInLine`); and no answer that is still good stands before a place whose
  answer is gone (`LinePlaces`). The last is why a url kept again cannot be in the line twice: a
  lookup that drops an expired answer leaves its place there, only a walk off the front removes
  it, and `insert` clears the old place only where there was an answer. The rest of `FilesInv` says
  what requests have seen and readers were given of the file's versions; see
  [what is proved](#what-is-proved).
- `SlicesAgree`: the slices one reader is given are of one body, the one its url asks for, though
  answers expire and are worked out again between them and other readers ask for other things,
  unless the file was replaced while it read, or an answer of an older file was still held or
  being worked out when it began.
- `NothingStaleForLong`: no answer that is still handed out was made of a file replaced as long
  ago as an answer is held and a request may take together.

Room is made before the answer that is replaced is taken out, so replacing a good answer by
one of the same size may drop another for nothing. The code does not claim otherwise.

`files` has two readers and four urls: the file, two queries, one of which the first version is
itself the answer to, and a streamed query; a mount on disk or in a store; answers of 1, 2 and
more than the 2 bytes the cache may hold; one replacement; and a clock of three ticks where an
answer is held for two and a request lasts one, so that an answer can expire and be kept
again (1,332,996 states, up to the symmetry of the readers; deadlock checked). It
assumes a deadline on requests (`max_request_seconds` not 0): without one
`NothingStaleForLong` has no bound to state.

## The catalog cache

`CatalogCache` is `hats/cache.rs` for one catalog. The store's side of a reading is the version
it finds, one of those published while it reads.

| variable | in the code |
|---|---|
| `drawn` | `Shared::generations` |
| `expires`, `anchorOf` | by generation, the anchor `Slot`'s deadline and value; the deadline is that of every part under it |
| `held` | the `OnceCell` of a part's slot. There may be several slots of one part under one generation, one in the cache and others, evicted, in the hands of those still filling them |
| `anchored`, `resident` | what `Shared::slots` has: the anchor's slot under the one key with generation 0, and at most one slot for each part under each generation |
| `opened`, `stack` | a `HatsCatalog`: its `Slots::anchor`, and where it is in `Slots::filled`, the inner calls on top |
| `walk`, `took` | the listing `walk_dataset` is offering; the versions of what the handle was given |

`Open`, `Ask` and `OpenRenewed` are `Slots::slot` and the first look at it; `Begin`, `Deliver`,
`Put` and `Fail` what follows in `filled`: the cell lets one handle read and the rest wait, one of
them reads if that one fails or is dropped (`Close` at any moment), and everyone who waited puts
the slot in the cache again, whatever has been put there under its key since. `Offer` is the
listing's; `EvictAnchor` and `Evict` are moka making room, taken as letting any entry go at any
time. moka is external: an entry is found until its deadline and not after it.

`Settle` drops what nobody can ask about any more and an empty slot in nobody's hand, so that
states which only differ in garbage are one.

`CatalogWarm` adds the task of `app/warm.rs`: `StartRound` opens, or opens renewed after a first
success, `ReadPart` asks for each part, `EndRound` sleeps nine tenths of the lifetime or stops
where the tables do not fit, `FailRound` sleeps `Retry` and tries again. A part read inside
another's filling may fail and the outer one go on without it (`ReadWithout`, `common_schema`).
What a table weighs is not modelled: it fits or it does not.

- `NothingOlder`: a request is given no part older than the properties it was given, through
  evictions, renewals and slots filled late: the generation in the key keeps them apart.
- `CatalogInv`: nothing in the cache is past the deadline of the reading it belongs to
  (`NothingOutlivesItsAnchor`), one handle reads a part at a time (`OneReads`), and what each handle
  and generation must be for this and the next to hold; see [what is proved](#what-is-proved).
- `StaysWarm`: from the task's first reading on, requests find the catalog, and between its
  readings the whole of it, provided that no reading failed and nothing was evicted. A renewal
  by the task, requests that fill parts under the old generation, and a late re-insertion of
  the old anchor are all in it.
- `NoCircle`: readings that wait for each other never do so in a circle.

A part may be *newer* than the properties, and two parts of different publications; see
[findings](#where-the-code-and-its-comments-differ). An anchor that was evicted and read again
can be put over by the older one, by a handle that waited for it; `NothingOlder` is not touched,
the generation coming with the slot.

### Runs and bounds

`catalog` has the task and one request, and two parts: `files`, which a walk also offers, and
`schema`, whose filling asks for it, so that fillings nest and cross. Two generations are the
reading and its renewal, or the reading and the one after an eviction; one publication, one
failure and one eviction may fall anywhere (984,888 states). A lifetime is two ticks of which the
task sleeps one (nine tenths, rounded down as the code's sleep is not).

Time has three bounds, all in `TimePasses`. It stops while the task reads: `StaysWarm` needs that
the whole of the catalog can be read in a tenth of its lifetime, which the default of a day
makes two hours. It stops where a handle only has to run. And it stops once the last generation
is drawn, as the next could not be. Because of such bounds the runs stop, and are without a
deadlock check.

## Transfers

`Transfers` is `storage/materialize.rs`: reading objects off servers that may not serve ranges.
A step is what runs between two awaits or two accesses of what threads share.

| variable | in the code |
|---|---|
| `source` | by object, what its `OnceCell<Source>` holds; `deleted` is a scratch file gone |
| `pc`, `queue` | where each read is in `source`, `probe` and `absorb`, and the semaphore's line |
| `held`, `disk`, `body` | by object, its `Claim`, its scratch file, and what the server sends |
| `chunk`, `seen` | by read, what `Claim::grow` is growing by, and the budget it last loaded |
| `resident`, `permits` | `Transfers`, shared by all requests |
| `over` | requests that have ended, whose `MaterializingStore` goes when their last read does |

`Probe` to `ProbeWhole` are one of many reads asking the server while the rest wait; `Begin` to
`Finish` the copy, a chunk at a time, with `Exchange` and `LookAgain` the two outcomes of the
compare-and-swap; `Break` is the server failing; `Drop` a reader gone at any await. A copy that
comes to nothing gives back its claim (`GiveBack`) and then unlinks its file and lets go of its
permit (`Unlink`), the order its locals are dropped in.

- `TransfersInv`: the budget counts what the claims hold and the permits what is under way
  (`Accounted`); who has what at each await (`InStep`), and who waits for a permit (`InLine`); the
  budget and the disk are within the limits (`WithinBudget`), but for a file being
  given up, whose bytes are back in the budget for the moment before it is deleted; one read of
  an object is at work at a time (`OneCopyEach`).
- `NeverCutShort`: what a cell hands out is all that the server had to send.
- `WaitersAreAnswered`: whoever waits for another's probe is served or told why not, however the
  other ends. `CopiesGo`: what a request took comes back once it is over.

Fairness: a server that was asked answers or breaks off, or the deadline drops the read; threads
run on; a read whose request ended is dropped; and strong fairness of a successful exchange, as a loop that
only compares and swaps is not beaten for ever by copies that wait for the network between two
tries. `transfers` has two requests, two reads of one object and one of another, bodies of 2
and 3, chunks of 1, and limits of 2 an object (or none allowed) and 3 in all, with one permit or two: either
body may be over its own limit, two of them over the total (58,106 states; deadlock checked).

## Catalog reads

`PartitionReads` is what `hats/query.rs` and `hats/scan.rs` share: the partitions chosen (by region,
limit, spans, and an index of the collection where it is worth it), and a buffer of `AtOnce`
reads polled in order while the consumer awaits it. A partition is its files, each with a
number of rows that match, what reading it fetches, and whether it fails. `Land` may end any read
under way at any moment; `InTurn` is which of those landed the pipeline yields.

- `CatalogQuery`: a request collected (`Collect`), planned (`Plan`) or streamed (`Walk`, then
  `FirstItem`, where the status is still to be chosen, then the body). `counted` is `Counted`,
  `done` and `refused` are `Walk::done` and `Streamed::refused`, `rest` what is left of the stream.
- `StreamedBody`: the phases of `output/stream.rs`, for any format. A body ends whole, short and
  saying so, or cut: `CutOff` is the deadline or the client gone.
- `CatalogScan`: the plan node DataFusion pulls (`CatalogScanExec`): ordered by the index from
  either end, or unordered, refusing past the partition bound only once they are asked for.
- `CatalogReads` composes them with the deadline.

The properties are said of the catalog and the request alone (`AnswerRows`, `Verdict`), with no
pipeline in them:

- `CollectedAsAsked`: a collected read is those rows, with their columns, or is refused or fails,
  and which of the three does not depend on how its reads land.
- `NothingQuietlyShort`: a streamed body that ends whole has every row within the bounds, one
  that says it stopped was stopped, and what was sent by then is rows of the answer, none twice.
- `PlanIsTheAnswer`: the entries of a plan, read one by one with the request's limit, are the same
  answer; so is the plan given with a refusal.
- `ScanAsAsked`: a statement's scan is the first rows in its order from either end, or as many as
  asked for; and it refuses only where the partitions it may read hold too few.
- `AnswersEnd`: under weak fairness of the reads and of the tasks, no bound, failure or early
  stop leaves a reader awaiting what nobody polls. The clock is not needed for it.

`reads` asks seven catalogs of up to four partitions (with several files, none, one that fails, one
out of reach, an index that is read, one that is not) everything: limits none to 3, filters or
none, five ways, with bounds that bind and do not (bytes, rows, partitions 1, 2 and 9,
concurrency 0, 2 and 3): 88,379 states.

## Sky regions

`SkyRegion` is the way from shapes to a predicate (`sky/region.rs`, `sky/healpix.rs`): the depth of
a covering, its inside and outside, cutting both to a partition, the ranges of a HEALPix column
rounded outward or inward to its order (`BoundsOf`), the range budget, and which terms are left out
where a shape has an exact test. `RegionSearch` is the request: partitions chosen by one walk of
sorted ranges along a sorted list with a galloping search (`Step`, `Resumes`), then each read with
a covering of its own.

The list comes from the first of three sources that is there (`Discovered`): `partition_info.csv`,
the footer `_metadata` unless it is too large to fetch, or a listing, which a store may not have.
A line that names no cell refuses the request; a path that names none is passed over; a partition
named twice is one.

The sky is a torus of whole degrees, with one point to each deepest cell; where cdshealpix
computes a covering the model takes one that keeps its contract, tight or (`loose`) not.

- `RowsOfTheRegion`: no row outside the region comes back, and every row inside does, for any
  covering, column and convention of right ascension. Completeness is claimed of what a row's column
  and coordinates can tell (`Told`): of a request that does not mix mocs with shapes that have a
  geometry (`Unmixed`), of mocs whose cells the column resolves (`Resolved`), and, in a file that
  writes right ascension from minus half a turn, of zones whose arc does not come back into the half
  of the turn it began in (`Unsplit`, see [below](#where-the-code-and-its-comments-differ)).
- `ReachedOnce`: the walk reaches the partitions that asking each one there is would, in the order
  of the sky, each once, whichever source lists them, in whatever order and however often.

`region` has seventeen regions (discs, a dot, zones over the turn, of no width and nearly all
around, scattered cells, unions, none), six tilings and files, and columns of three orders, of types that
just hold the cells or just do not, by name or by the standard, and six states of the three
sources of each tiling (44,684 states). The walk is deterministic; the bounds are the variety of
the inputs. A budget of 3 ranges and depths to 2 of an order-3 sky make every fallback happen.

## What is left unread

Two answers are given without reading all there is. `WholeFile` (`engine/whole.rs`) decides
from a footer that a query would keep every row and column, and answers with the file; `IndexLookup`
(`hats/index.rs`, `hats/catalog.rs`, `hats/table.rs`) finds from an index's statistics which
partitions can hold a value. `Statistics` is what they rest on, from outside: what a writer states
(bounds, null counts, or nothing), and DataFusion's comparisons, simplification and pruning.
`Narrowing` is one request of either kind.

- `FileIsTheAnswer`: the file is the answer only where the query would give those rows and columns.
  It is claimed of files whose nested columns come after the others and whose floats are numbers;
  `whole_nested` is the run in which one comes first.
- `NoRowIsMissed`: partitions dropped by spans or by any combination of indexes, and row groups
  pruned by the HEALPix values found, hold no row the filter keeps. The index is taken as truthful.

`narrowing`: files of two row groups and three rows whose values may be null, with statistics
that state all, bounds or none; catalogs of three rows anywhere in four cells with two indexes
of two files each; comparisons joined by and or or (186,048 states).

## Statements

One statement of `/adql`, `/tap/sync`, a streamed `/tap/sync` or a job. `StatementTables` opens its
tables, `Statement` plans it and writes the answer; these four drivers share `Execution` and
nothing else says that they agree.

| variable | in the code |
|---|---|
| `left`, `held`, `fetched` | `Budget`, and what the request's own tables take in memory |
| `sources` | the `Table`s opened, in the statement's order, with their places in it |
| `authorities` | `Authorities`: what opened each authority first |
| `dataFiles` | `data_files` of `prepare` and `query_adql` |
| `registry` | DataFusion's own: the last store registered for an authority |
| `ahead`, `read`, `reading`, `overflow` | the plan's rows to come, and `Execution`'s fields |
| `holding` | rows collected, or in the spool |
| `sink`, `spool`, `inside` | bytes in a job's file and in its spool; rows a parquet writer holds back |
| `writing`, `sent`, `closed` | the body, or the document in the file |
| `told` | what the answer says of itself: a header, an `INFO`, the job's record |

`Kinds` is what a table is taken for, in the order the code asks: the request, the media type, the
file globs, a slash at the end, the first bytes (and a store that will not give them makes it a
catalog). `NextBatch`, `NextEnds` and `NextFails` are `Execution::next`. `FileFails` and `Drop` fall
at any step. A row, a head and an end are one byte each; batches without rows are left out; that
the policy, a store or the parser refuses is a choice.

- `StatementInv`: what a request brings is within one allowance, however it comes; a job's
  document and its spool are each within the ceiling, and no spool outlives the work. Until there
  is an answer, what was sent and then what is kept back are the rows read, in order; reading goes
  on or stopped at the bound; every authority is known for the options of what was opened at it.
  It is inductive.
- `ReadAsItsOwn`: every table read in place is read through a store that its own options opened,
  and under the list of data files that governs it. The second half is claimed of a statement
  whose catalogs are all under one list; see [findings](#where-the-code-and-its-comments-differ).
- `KeepsThePromise`: every behaviour, seen through the rows the caller has and what it was told, is
  one of `StatementPromise`: the first rows up to the bound, all of them, or an answer that says or
  shows that it is less; and everyone is answered. This is where `MAXREC=0`, a batch that ends at the
  bound, a format with nowhere to say it, and an encoder or disk that fails meet. Under a
  bound of no rows an answer that may be cut is taken to go over it, and says so where it can;
  `/adql`, which is never cut, answers no rows with no rows.

Fairness is weak, of `Work` as a whole: each of its steps makes progress, and servers answer or
fail; none of `Drop`. `statements` has every driver and format, columns that are flat, lists of
strings (which a VOTable has to measure) or structs, 0 to 5 rows under a bound of 3 (4 for a job),
`MAXREC` none, 0, below and at or above them, batches of up to three, a ceiling of 6 that a spool
of four rows in three batches passes and the document of those rows does not; and every pair
of twenty-three tables at two authorities under two
sets of options and two lists (22,948 states). A statement ends, so deadlock is not checked.

A parquet stream's rows count as sent when the writer has them: a file without its footer
cannot be read at all, which is the point of ending it so.

## What is proved

With TLAPS, for every value of the constants, from the named assumptions of the modules only:

- `JobRunner`: the set of job ids is finite and the timer is not one of them, there is at least one
  slot, and sizes, quota and `MaxJobs` are naturals;
- `ResultsDir`: no process is `None`, and `Stuck` are processes;
- `AnswerCache`, `FileAnswers`: finitely many urls, `None` neither a url nor an entry, naturals;
- `Transfers`: finitely many objects and reads, limits in naturals;
- `CatalogCache`, `CatalogWarm`: finitely many handles and parts, the anchor none of the parts, a
  lifetime that is not 0 (which is `Lifetime::Off`), and no part that needs itself by
  way of others (`Depths`): in `hats/catalog.rs` only the schema and the example position ask for
  other parts, the common schema, the partitions and the files, which ask for none;
- `PartitionReads`: what a catalog, a request and the bounds are. An index that names the partitions
  of a value names all of them; and a scan is not asked for no rows, since a statement that wants
  none is planned without one;
- `StatementTables`, `Statement`: a request is of one of the four drivers, its rows and the sizes of
  its tables are naturals and it has finitely many; limits in naturals, and a `MAXREC` if any;
- `Narrowing`: what a file and a catalog are. A row has a value or none at every leaf; no value and
  an unknown one are no numbers; an index holds the rows of its table; a comparison with `<` or `>=`
  is with one value;
- `SkyRegion`, `RegionSearch`: every point has a position, coverings are no deeper than the deepest
  order, and each kind of shape has what it is made of. A catalog's partitions are cells and do not
  overlap, which the code takes for granted (`sky/healpix.rs:317`), and each of its sources that
  answers names all of them; the standard column is of the deepest order.

The sets are finite because the process is: each is of what is under way or held at once.

**Jobs** (`JobRunnerProofs`). None of the claims is inductive. That a COMPLETED job has its
file needs that whoever is to remove the file has taken the record out first, that nobody puts
the record back, and that the task is past recording; that in turn needs to know where a task
can be for each phase. `IInv` (`JobProperties`) is the conjunction of these, each for one
question:

- `WaitsWithItsTask`, `NothingBeforeCreation`: PENDING and QUEUED tell where the task is, so
  that a task which starts has not run before;
- `AnswerBeforeRecord`: the file is there from before the record says so;
- `RecordBeforeAnswer`, `SweepsInItsTurn`: a file to be removed has lost its record, for good;
- `WorkInItsTask`: work runs only between the spawn and the moment its end is seen, and what it
  half-wrote is there only until it is swept;
- `SlotsNotExceeded`: counted over the tasks that hold slots;
- `EndedInOrder`: the completed jobs stand in one order, and a job that ended before one of them
  never completes again;
- `StoppedForGood`: whoever has still to stop a job has ended it or taken its record out, so that
  a stop made late never stops a run;
- `KeptOnDisk`, `GivenIsHeld`: the items held and those about to be are different ones, the tables
  among them are on disk, and what a run was given is among them.

The proof has one lemma per group of actions with the same shape, each split by conjunct;
effect lemmas say what `Move`, `Forget` and their like do to each record. From `Invariance`
follow `TypeCorrect`, `ResultsAreThere`, `AnswersHaveOwners`, `NothingStaysHalfWritten`,
`WorkStaysWithinSlots` (work is a subset of the slot holders, both finite), `JobsEndOnce`,
`TablesStay`, `QuotaIsKept` and `OldestGoFirst`. The last two are about `Shed`, which takes every
completed job that does not fit with all that ended after it: what a job has to fit with shrinks
along the order (`ShedsOlder`); what is left is what ended after the first of it, which fits
(`FirstExists`, `LeftFits`); and with the last of what goes it would not (`LastExists`,
`ShedsNoMore`). A first and a last exist because a finite set of sets has a least.

**Refinement** (`JobRunnerProofs`): `RunnerImplementsUws`. The abstract phase is the record's,
with DESTROYED for a job whose record is gone; the abstract result is collectable when the
record says COMPLETED and the file is there. Every action maps to one step of `UwsJobs` or to a
stutter; only the invariant says that the file of a COMPLETED job is never the one removed.

**Results directory** (`JobRunnerProofs`): `DirInv` says that whoever makes or removes a
directory holds the lock that speaks for it, for any number of processes; the live directory
and the order of removal follow.

**One file** (`FileProofs`). `CacheCorrect` is of the cache alone, under any
order of lookups, insertions and failures: `CacheInv` is inductive, because a place in the line
whose answer is gone has no good answer before it (`LinePlaces`), so that the walk off the front
clears every place a url could have before it is kept again; without that conjunct a url could be
in line twice. The count is a sum over the urls; what the walk drops is a prefix of the line, each
url once, so its sizes are the sum over a set. Every step of `FileAnswers` is a step of the
cache or leaves it alone, which is how `CacheInv` is carried into `FilesInv`. `SlicesAlwaysAgree`
needs in addition that, as long as a reader is clean, everything held or being worked out for its
url is of the version that is there (`HoldsStill`); `NothingIsStaleForLong` that an answer was made
of what was there when its request began, and a request has its deadline (`MadeOfRecent`, `InTime`).

**Transfers** (`TransfersProofs`): `TransfersCorrect`, `CopiesAreWhole`. The budget is the sum of
the claims: each of a read's steps changes one claim and the budget by the same amount, the
compare-and-swap included, since it succeeds only on the budget it loaded. That a claim is
one read's needs to know who is at work on an object (`OneCopyEach`), what it has by then
(`InStep`), and that who waits for a permit is in the line, once (`InLine`).

**Catalog** (`CatalogProofs`). The cache is taken by itself first, for its operations in any
order, by any handles:

- `StacksInOrder`: a handle's frames are of its generation, each deeper than the one it is needed
  by; so a part is at most once in a stack, and of the handles in a circle of waits one would be at
  a part less deep than itself (`NobodyWaitsInACircle`);
- `OneReads`: a part is read by one handle; it keeps what a reading brings from being put over what
  another brought;
- `ReadAfterAnchor`: what a generation has, or a handle reads, lists or was given of it, is at least
  as new as its properties; a reading begins after its handle was given them. `NothingOlderIsGiven`
  is one of its conjuncts;
- `NothingOutlivesItsAnchor`: a slot that is put in the cache past the deadline is not found.

`CatalogStaysWarm` needs `WarmInv`, which ties the task to the cache where nothing failed or was let
go: after the first round there is always a whole catalog, the previous one until the task has the
properties of the next (`AlwaysWhole`); what the task asked for it has (`RoundInOrder`); and no
request has a generation that would be put in its place with less in it. The last is the reason
why a late re-insertion of an old anchor does no harm. All of it is under the three bounds on
the clock that `CatalogWarm` names, which are part of the specification.

**Statements** (`StatementProofs`): `StatementsCorrect`, `TablesAreReadAsTheirOwn`, and the safety
of the promise, `AnswersAreAsPromised`. The rows are stretches of one sequence, which join and
split (`StretchJoins`, `StretchSplits`); of the three answers of `Execution::next` a batch leaves a
stretch that reaches the bound or goes on, and an end comes when all was read or the bound stopped
it (`BatchEffect`, `EndsEffect`). The conjuncts of `StatementInv` are then kept one by one:

- `WithinAllowances`: what is held and what is left add up to the allowance;
- `InItsWay`, `RowsInOrder`: where a driver is tells which rows it has sent and which it keeps;
- `ReadToTheBound`: reading goes on (`Going`), with rows read and rows ahead adding up to the
  statement's, or was stopped at the bound by rows beyond it (`Stopped`). Without it an answer of as
  many rows as the bound would not be known to be whole;
- `OpenedAlike`: what was opened is what its authority is known for. So whichever of the
  tables at an authority was registered last, its options are those of all of them.

A step of a statement is then one of `StatementPromise`, or none: a batch streamed is `Give`, an
encoded or renamed answer `Complete`, a body that ends `Complete` or `Break`, all before it `Refuse`
or nothing.

**Catalog reads** (`ReadsProofs`): `CollectedIsAsAsked`, `NeverQuietlyShort`, `PlansAreTheAnswer` and
`ScansAreAsAsked`, for any number of partitions and files, and whatever order the concurrent reads
land in. None of the four is inductive: each speaks of the answer once it is there, and says nothing of
how far a read is. `ReadsInv` adds that:

- `ChosenOnce`: what was chosen is what the region and the index leave, in the catalog's order, and
  stays so while it is read; before, nothing was yielded;
- `TakenInTurn`: no read is yielded twice, and with a limit, collected or scanned, the j-th yielded is
  the j-th chosen. This is all the other conjuncts need to know of the pipeline;
- `Collecting`: what is gathered is what the reads yielded so far come to, and none of them failed,
  went over a bound or was enough (`Going`);
- `Streaming`: so it is for a stream, cut to the limit, or else its last read ended the walk, in
  one of three ways, each with the flags it leaves (`WalkEndedAt`). What was let out is sent, or the
  one item that is about to be. Without the three ways a body that ends whole would not be known to
  have seen all its reads;
- `Scanned`: what is pulled is what the partitions walked so far come to, cut to the limit;
- `Planned`: a plan is of the partitions chosen.

`AnswerRows` is the rows of the catalog's partitions one after the other, each read whole, and then
the first of them. A read differs from that in three ways, and each has its lemma. It cuts every
partition to the limit: who takes no more than the limit of all of them cannot tell (`ConcatSame`,
`SameFirst`). It leaves out partitions: those have no row, which is why an index changes no answer. And
without a limit its reads are yielded as they land: their rows are different places
(`ReadsApart`), and how many there are does not depend on the order, so that they are a permutation
of the answer. `Verdict` is of the reads in order. With a limit they are yielded so. Without one the
bounds are on sums that only grow and in the end are the same (`TakenSums`): a walk that saw all
its reads and was not stopped would have been stopped in no order (`VerdictAny`). Of an ordered
scan, partitions are apart along the index, so that sorting each is sorting all, from either
end (`OrderedWalk`).

**What is left unread** (`NarrowingProofs`). `NoRowMissed` needs every step on the way: a row that
the query keeps is in the partitions that are left, and in what the lookups came to, for as long
as anything is left to read (`StillToRead`, `NoRowGivenUp`). Under it is a lemma for each kind of
thing that is stated of rows: bounds hold of a value (`BoundsHold`), what may hold by them does
(`MayHoldSound`), row groups, files and spans hold their rows (`GroupHolds`, `FileHolds`,
`SpanHolds`), a column guaranteed by a filter has one of its values in every row kept
(`GuaranteeSound`), so an index asked about it names the partitions of all of them
(`LookupSound`). `WholeFileIsTheAnswer` is the other direction, that what statistics prove is so of
every row: a comparison is proved when its opposite cannot hold, which says nothing of a row without a
value, so that the null count has to be the column's (`JudgedRight`). Hence its two premises: in
every file nested columns come after the others (`NestedLast`), and its floats are numbers
(`OnlyNumbers`). Without the first it is false, and `whole_nested` shows it; without the second a
file with a NaN is answered whole, see [below](#where-the-code-and-its-comments-differ).

**Sky regions** (`NarrowingProofs`): `RowsAreOfTheRegion` and `EachReachedOnce`, for any number of
orders and any sky, tiling, covering and column. Three things are put together.

The coverings lie on both sides of the region (`CoverageEncloses`), whatever their depth: a tight
or a loose one by what the library promises (`CellsRound`), a disk wider than a hemisphere by the
one opposite, a zone by the pieces its arc is cut into, which leave out no point of it (`PiecesHold`).

The test of a row, on a column of any order, holds of rows of the region alone, and of all of
them (`PassingIs`). Rounded outward a covering has every cell of the column that it touches,
rounded inward the cells that lie in it whole (`WholeIs`, by `Rounding`; joined ranges change
nothing of that, `CarriedIs`); what is between the two is left to the geometry, which is the shape
itself where the three turns of an arc reach all of it (`ArcsAre`, `ExactIs`). With mocs alone there is
no geometry and the inside is the region, so it has to hold whole cells of the column
(`WholeOfMocs`).

`RegionInv` is for the walk. The conjunct that makes it inductive is in `Walking`: the partitions up
to the cursor are those that begin before the end of the last range walked (`Ended`). Ranges are
apart (`RangesApart`), so nothing of the covering lies between that end and the next range: the
partitions that the first of the two searches leaps over are met by none of it, those that the second
passes are met by this range, and no partition is passed twice (`RangeWalked`, `ReachedMore`; the
galloping search itself is `GallopIs`). What is not reached at the end has no point of the outer
covering, so none of the region.

Model-checked only: the liveness properties, that everyone is answered (`Answered` of
`StatementPromise`) and that a read ends (`AnswersEnd`) among them (the prover has no rules for
fairness). Sums over sets and lists of lists are within its reach
(`DataLemmas`, by the least counterexample, or by counting up through a set of naturals),
`SelectSeq` and `SetToSortSeq` are not: where the code takes a value out of a line, skips some or
sorts them, the models say `RemoveAt`, which places are left, a list of one or none for each
(`Those`), or the place of one among those before it (`ByIndex`, `Arranged`).

## Where the code and its comments differ

One is a run whose property TLC refutes:

- `whole_nested`: `keeps_every_row` takes a column's null count at the column's place among the
  file's columns (`engine/whole.rs:225`), where a row group counts leaves. Behind a struct or a list
  of structs it is another leaf's count, and a file with nulls in the filtered column is answered
  whole, against "it is never `true` for a request whose answer would differ from the file in any
  row, column or value" (`engine/whole.rs:58`).

The others were met while the models were written. Where a property would say otherwise it
excepts the case, and says so.

Jobs:

- DELETE stops the task before it deletes the record, "a job whose record is gone while its task
  runs on would write a file nothing points at" (`app/routes/tap/jobs.rs:378`). A stop takes an
  abort handle out of a table, and there is none before the work is spawned and for a moment
  after: a QUEUED job that starts between the stop and the delete, or one stopped before its
  handle is in, runs to its end or its clock without a record. The file it writes is taken back
  (`AnswerHasAnOwner`); its slot is what it costs. An abort in the same window leaves the work
  running too.
- What a job was sent is "forgotten once the job is over, so nothing holds it longer than the run"
  (test at `tap/jobs/runner.rs:673`). Credentials or tables posted alone to a job that is over, or
  landing after its task's last stop, stay until it is destroyed, and for the life of the process
  if it already was.
- "A job is also destroyed the moment a request touches it past its time" (`main.rs:170`). Only the
  timer destroys it; until it comes round the job can still be run.
- "The lock before the directory … a process that died between the two would otherwise leave a
  directory nothing could prove was dead" (`tap/jobs/results.rs:102`). Making the lock file and
  locking it are two calls; a sweep between them removes its name, and the directory made next is
  such a directory once its process is killed.
- "A spool over the ceiling is an answer that would have been too" (`tap/jobs/results.rs:490`). Arrow
  IPC has a head and a part of its own for every batch, so an answer of many small batches may be
  refused by its spool and fit.

Caches and files:

- "Without that, a partition list read before a catalog was republished could be paired with a file
  listing read after it" (`hats/cache.rs:19`). With it, too: parts are filled when they are first
  asked for, under the generation of an anchor that may have been read a lifetime ago. The
  generation rules out the reverse, a part older than the properties.
- "So the next reading is in before this one expires" (`app/warm.rs:151`). A first round that reads the
  properties and then fails leaves them in the cache with their deadline; the round that succeeds
  finds them, and sleeps nine tenths of a lifetime from then. If the store was down for more than a
  tenth of the lifetime (2.4 hours of the default day, six minutes of an hour), the catalog expires
  before it is read again.
- A file replaced just before a reader begins mixes slices as one replaced while it reads does: an
  answer of the older file may be held (`app/cache.rs:17`, `app/answer.rs:192`); and
  `app/answer.rs:198` still says that there is no cache.
- On a store, a file's length and ETag are asked for before its bytes, and a file replaced in
  between is sent with the old ones.
- A malformed circle on a plain directory of a store mount is answered 400, against the comment at
  `app/files.rs:248`.

Catalogs and regions:

- A moc asked for beside a shape with a geometry, of a file whose rows the covering cannot be tested
  on (or whose covering is over the budget), contributes no row: `predicate` takes the covering for
  optional as soon as one shape has a geometry (`sky/region.rs:270`), against "dropping it would
  return no rows at all, which reads like a region holding none" (`sky/healpix.rs:224`).
- A zone's arc is matched as it was written and a turn either side, which "covers both conventions and
  covers the wrap" (`sky/region.rs:675-678`). Where a file writes right ascension in [-180, 180), an arc
  that begins in the last half of the turn and comes back into it needs a second turn down: `arcs`
  (`sky/region.rs:680`) makes of right ascensions 190 to 185 the ranges -170 to 185, 190 to 545 and
  550 to 905, and rows from -180 to -175, which are 180 to 185, match none. The proof of
  `RowsAreOfTheRegion` stopped at it; without `Unsplit`, TLC finds it in `region`'s zone from 7 to 13 of
  a turn of 8.
- Rows are counted against `max_rows` before they are cut to the limit (`hats/query.rs:304`, `645`), so
  a request with a limit within it may be refused, against `config.rs:317`.
- Partitions past the limit are "never polled" (`hats/query.rs:340`); those already in the buffer were.
- "Still a status here" (`app/routes/hats.rs:399`): `streamed_rows` answers 200 for a `stopped` that
  comes first.
- "It narrows and never refuses" (`hats/query.rs:436`): each index is held to `max_bytes_fetched` by
  itself, and what two of them fetched counts against it in the answer, so two together may cause a refusal.
- Statistics leave NaN out, so a comparison is taken as proved over a file that has some
  (`engine/whole.rs`).

Statements:

- The list that says which files of a catalog hold rows is one per statement, and each catalog
  opened replaces it (`app/routes/tap/run.rs:473`, `app/routes/adql.rs:189`). A statement that joins
  two catalogs under mounts with different lists reads both with the last one's, and the rows of
  files it does not name are quietly missing; the index layout of the first, kept in the cache
  under a key without the list, is filtered too. `access/data.rs:10` and the comment at
  `app/routes/tap/run.rs:471` say that whichever mount governs a catalog decides.
- One document uploaded under two spellings is fetched and charged twice, one part named by two
  `UPLOAD`s charged twice.
- `resolve_identifiers` (`adql/query.rs:505`) respells an `ORDER BY` of an output alias as a column
  whose name differs in case only.

## What is not modelled

Left for later, as the plan says: `WAIT`, the download of a result and mount resolution. For good: parsing and encoding (VOTable, SQL, ADQL, configuration, what
a value becomes in each format), spherical geometry on floating point, pages, listings and the
documents that describe the service, access rules, and the construction of other libraries'
clients. They keep no state between requests, and what they compute is data that tests and the
conformance suites compare with references. What a table weighs in memory, and the memory a
scan is charged for, are amounts the code estimates and nothing here depends on.

Taken from outside, and named so in the map: moka's cache, tokio's semaphore and cells, DataFusion's
planning, pruning and batches, cdshealpix's coverings, parquet's statistics, whoever publishes a
catalog or writes the files of a mount.
