------------------------------ MODULE AnswerCache ------------------------------
(***************************************************************************)
(* The answers the file server holds for the moments a parquet reader      *)
(* spends opening one url: kept for a time, within a number of bytes, the  *)
(* oldest dropped first.                                                   *)
(*                                                                         *)
(* An answer is its size; a url is a name.  Looking up and keeping take    *)
(* one lock each, and between them a request works its answer out: any     *)
(* number of requests may be at that, for one url as well.  A lookup that  *)
(* meets an expired answer drops it and leaves its place in the line, so   *)
(* the line may hold places whose answer is gone.                          *)
(***************************************************************************)
EXTENDS Naturals, SequencesExt

CONSTANTS
  Urls,        \* what may be asked for
  Requests,    \* the requests that may be in progress at once
  Sizes,       \* the sizes an answer may have, in bytes
  Ttl,         \* how long an answer is held
  Capacity,    \* how many bytes are held at once
  LastTime,    \* bound: when the clock stops
  None         \* no answer, no url

ASSUME LimitsAssumption ==
  /\ IsFiniteSet(Urls)
  /\ None \notin Urls /\ None \notin [size : Nat, made : Nat]
  /\ Sizes \subseteq Nat
  /\ {Ttl, Capacity, LastTime} \subseteq Nat

VARIABLES
  entries,    \* the answer held for each url, or None
  order,      \* the line: urls, oldest first
  bytes,      \* what the answers held are counted to take
  working,    \* the url each request is working out an answer to, or None
  now         \* the clock

vars == <<entries, order, bytes, working, now>>

Held == {u \in Urls : entries[u] # None}
Expired(u) == now - entries[u].made >= Ttl
On == Ttl > 0 /\ Capacity > 0

\* What the answers to these urls take.
Size == [u \in Urls |-> IF entries[u] = None THEN 0 ELSE entries[u].size]
Weight(S) == SumFunctionOnSet(Size, S)

\* u64::saturating_sub
Less(a, b) == IF b > a THEN 0 ELSE a - b

First(n) == {order[i] : i \in 1..n}

-----------------------------------------------------------------------------
(* Answers::get.                                                           *)

\* Mutant of Hit: an answer handed out counts as just made.
HitRenews(u) ==
  /\ On
  /\ u \in Held
  /\ ~ Expired(u)
  /\ entries' = [entries EXCEPT ![u].made = now]
  /\ UNCHANGED <<order, bytes, working, now>>

Hit(u) ==
  /\ On
  /\ u \in Held
  /\ ~ Expired(u)
  /\ UNCHANGED vars

\* An expired answer is dropped on the way past, its place in the line is not.
Miss(r, u) ==
  /\ working[r] = None
  /\ working' = [working EXCEPT ![r] = u]
  /\ IF On
     THEN /\ u \in Held => Expired(u)
          /\ entries' = [entries EXCEPT ![u] = None]
          /\ bytes' = Less(bytes, Weight({u}))
     ELSE UNCHANGED <<entries, bytes>>
  /\ UNCHANGED <<order, now>>

-----------------------------------------------------------------------------
(* Answers::insert.                                                        *)

\* Mutant of Aged: the walk stops at a place whose answer is gone.
AgedWhileHeld ==
  Max({n \in 0..Len(order) : \A u \in First(n) : u \in Held /\ Expired(u)})

\* Kept::forget_expired walks this many places off the front of the line.
Aged == Max({n \in 0..Len(order) : \A u \in First(n) : u \in Held => Expired(u)})

\* And after it as many as leave room for the new answer, or all.
Dropped(size) ==
  Min({n \in Aged..Len(order) : n = Len(order) \/ Less(bytes, Weight(First(n))) + size <= Capacity})

Rest(n) == SubSeq(order, n + 1, Len(order))

\* A later answer to the same url takes the place of the one held, at the end of the line, where
\* a url has one place.
Keep(u, size) ==
  LET n    == Dropped(size)
      left == Less(bytes, Weight(First(n)))
      old  == (Held \cap {u}) \ First(n)
  IN  /\ entries' = [v \in Urls |-> CASE v = u -> [size |-> size, made |-> now]
                                      [] v # u /\ v \in First(n) -> None
                                      [] OTHER -> entries[v]]
      /\ IF old = {} THEN order' = Append(Rest(n), u)
         ELSE \E i \in DOMAIN Rest(n) :
                Rest(n)[i] = u /\ order' = Append(RemoveAt(Rest(n), i), u)
      /\ bytes' = Less(left, Weight(old)) + size

Insert(r, size) ==
  /\ working[r] # None
  /\ IF On /\ size <= Capacity
     THEN Keep(working[r], size)
     ELSE UNCHANGED <<entries, order, bytes>>
  /\ working' = [working EXCEPT ![r] = None]
  /\ UNCHANGED now

\* The query fails, or its reader goes: nothing is kept.
Fail(r) ==
  /\ working[r] # None
  /\ working' = [working EXCEPT ![r] = None]
  /\ UNCHANGED <<entries, order, bytes, now>>

Tick ==
  /\ now < LastTime
  /\ now' = now + 1
  /\ UNCHANGED <<entries, order, bytes, working>>

-----------------------------------------------------------------------------
Init ==
  /\ entries = [u \in Urls |-> None]
  /\ order = <<>>
  /\ bytes = 0
  /\ working = [r \in Requests |-> None]
  /\ now = 0

Next ==
  \/ \E u \in Urls : Hit(u)
  \/ \E r \in Requests, u \in Urls : Miss(r, u)
  \/ \E r \in Requests, size \in Sizes : Insert(r, size)
  \/ \E r \in Requests : Fail(r)
  \/ Tick

Spec == Init /\ [][Next]_vars

-----------------------------------------------------------------------------
(* What the answer cache promises.                                         *)

Entry == [size : Nat, made : 0..now]

TypeOK ==
  /\ entries \in [Urls -> Entry \cup {None}]
  /\ order \in Seq(Urls)
  /\ bytes \in Nat
  /\ working \in [Requests -> Urls \cup {None}]
  /\ now \in 0..LastTime

\* The byte count that decides what is dropped is what the answers held take, and they never
\* take more than max_query_cache_bytes, however many requests found the same answer missing
\* and each kept one (Answers::get, Answers::insert).
CountedAndCapped ==
  /\ bytes = Weight(Urls)
  /\ bytes <= Capacity

\* The line holds each url once, every answer held has its place there, and the places of the
\* answers held are in the order they were made: nothing is held that cannot be dropped, and
\* the line does not grow with the requests (Answers::insert, Kept::forget_oldest).
OnePlaceInLine ==
  /\ IsInjective(order)
  /\ \A u \in Held : \E i \in DOMAIN order : order[i] = u
  /\ \A i, j \in DOMAIN order :
       i < j /\ {order[i], order[j]} \subseteq Held
         => entries[order[i]].made <= entries[order[j]].made

\* A place in the line whose answer a lookup dropped has no answer before it that is still good:
\* this is why the walk off the front takes every such place before a url can be kept again
\* (Kept::forget_expired).
LinePlaces ==
  \A i, j \in DOMAIN order :
    i <= j /\ order[j] \notin Held /\ order[i] \in Held => Expired(order[i])

\* What is held is counted, within its limit and in line (Answers).
CacheInv == TypeOK /\ CountedAndCapped /\ OnePlaceInLine /\ LinePlaces
=============================================================================
