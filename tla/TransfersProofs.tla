---------------------------- MODULE TransfersProofs ----------------------------
(***************************************************************************)
(* The budget, the permits and the copies of MaterializingStore, for any   *)
(* number of requests, objects, reads and limits: TransfersInv holds       *)
(* initially and is kept by every step.                                    *)
(*                                                                         *)
(* Each conjunct of it is kept in a lemma of its own, with a step for each *)
(* action that can disturb it and one for those that cannot.               *)
(***************************************************************************)
EXTENDS TransfersProperties, DataLemmas

-----------------------------------------------------------------------------
(* What is read off the invariant more than once.                          *)

\* What the assumption on the constants says of each of them.
LEMMA Constants ==
  /\ IsFiniteSet(Objects) /\ IsFiniteSet(Reads)
  /\ \A r \in Reads : ObjectOf[r] \in Objects
  /\ \A o \in Objects : RequestOf[o] \in Requests
  /\ Bodies \subseteq Nat /\ Chunks \subseteq Nat
  /\ \A l \in Limits : l.object \in Nat /\ l.total \in Nat /\ l.copies \in Nat \ {0}
  BY TransfersAssumption

\* A read at work on an object is alone at it, and nothing is known of the object yet.
LEMMA Alone ==
  ASSUME OneCopyEach, NEW r \in Reads, pc[r] \in AtWork, NEW s \in Reads, s # r,
         ObjectOf[s] = ObjectOf[r]
  PROVE  pc[s] \notin AtWork
  BY DEF OneCopyEach, Working

\* Before a copy has its permit nothing is taken for it.
LEMMA NothingTakenYet ==
  ASSUME TypeOK, Accounted, OneCopyEach, NEW r \in Reads, pc[r] \in {"probing", "queued"}
  PROVE  held[ObjectOf[r]] = 0 /\ disk[ObjectOf[r]] = 0
<1>1. ObjectOf[r] \in Objects /\ source[ObjectOf[r]] = "unknown"
  BY Constants DEF OneCopyEach, Working, AtWork
<1>2. \A s \in ReadsOf(ObjectOf[r]) : pc[s] \notin Permitted
  BY Alone DEF ReadsOf, AtWork, Permitted
<1>3. held[ObjectOf[r]] \in Nat /\ disk[ObjectOf[r]] \in Nat
  BY <1>1 DEF TypeOK
<1> QED
  BY <1>1, <1>2, <1>3 DEF Accounted

\* The head of the line is a read that waits for a permit.
LEMMA HeadQueued ==
  ASSUME TypeOK, InLine, queue # <<>>
  PROVE  Head(queue) \in Reads /\ pc[Head(queue)] = "queued"
  BY DEF TypeOK, InLine

-----------------------------------------------------------------------------
(* The line for a permit.                                                  *)

\* A read joins the line at its end, and leaves it from its head or from where it is dropped.
LEMMA InLineKept ==
  ASSUME TypeOK, InLine, [Next]_vars
  PROVE  queue' \in Seq(Reads) /\ InLine'
<1> DEFINE Queued(line) ==
             line \in Seq(Reads) /\ Distinct(line) /\ \A i \in 1 .. Len(line) : pc'[line[i]] = "queued"
<1> SUFFICES Queued(queue')
  BY DEF InLine, Distinct
<1>1. queue \in Seq(Reads) /\ Len(queue) \in Nat /\ Distinct(queue)
  BY LenProperties DEF TypeOK, InLine, Distinct
<1>2. \A i \in 1 .. Len(queue) : queue[i] \in Reads /\ pc[queue[i]] = "queued"
  BY <1>1, ElementOfSeq DEF InLine
<1>3. pc \in [Reads -> {"idle", "waiting"} \cup AtWork \cup Ended]
  BY DEF TypeOK
<1> USE DEF Go
<1>4. CASE UNCHANGED vars
  BY <1>1, <1>2, <1>4 DEF vars
<1>5. ASSUME NEW r \in Reads, Ask(r) \/ Serve(r) \/ Probe(r) \/ ProbeFails(r) \/ ProbeRanged(r)
      PROVE  Queued(queue')
  BY <1>1, <1>2, <1>3, <1>5 DEF Ask, Serve, Probe, ProbeFails, ProbeRanged
<1>6. ASSUME NEW r \in Reads, ProbeWhole(r) PROVE Queued(queue')
  <2>1. pc[r] = "probing"
    BY <1>6 DEF ProbeWhole
  <2>2. \A i \in 1 .. Len(queue) : queue[i] # r
    BY <1>2, <2>1
  <2>3. CASE pc' = [pc EXCEPT ![r] = "unserved"] /\ queue' = queue
    BY <1>1, <1>2, <1>3, <2>2, <2>3
  <2>4. CASE pc' = [pc EXCEPT ![r] = "queued"] /\ queue' = Append(queue, r)
    <3>1. Distinct(queue')
      BY <1>1, <2>2, <2>4, AppendKeepsDistinct
    <3> QED
      BY <1>1, <1>2, <1>3, <2>4, <3>1, AppendProperties
  <2> QED
    BY <1>6, <2>3, <2>4 DEF ProbeWhole
<1>7. ASSUME NEW r \in Reads, Begin(r) PROVE Queued(queue')
  <2>1. queue # <<>> /\ r = queue[1] /\ queue' = Tail(queue)
    BY <1>1, <1>7 DEF Begin
  <2>2. /\ Distinct(queue') /\ Among(queue', queue)
        /\ \A i \in 1 .. Len(queue') : queue'[i] # r
    BY <1>1, <2>1, TailKeepsDistinct
  <2>3. queue' \in Seq(Reads)
    BY <1>1, <2>1, HeadTailProperties
  <2>4. \E where : pc' = [pc EXCEPT ![r] = where]
    BY <1>7 DEF Begin
  <2> QED
    BY <1>2, <1>3, <2>2, <2>3, <2>4, ElementOfSeq DEF Among
<1>8. ASSUME NEW r \in Reads, Arrive(r) \/ Exchange(r) \/ LookAgain(r) \/ Write(r) \/ Break(r)
                              \/ Finish(r) \/ GiveBack(r) \/ Unlink(r)
      PROVE  Queued(queue')
  <2>1. pc[r] # "queued" /\ queue' = queue /\ \E where : pc' = [pc EXCEPT ![r] = where]
    BY <1>3, <1>8 DEF Arrive, Exchange, Claimed, LookAgain, Write, Break, Finish, GiveBack,
                      Unlink, GiveUp, Growing
  <2> QED
    BY <1>1, <1>2, <1>3, <2>1
<1>9. ASSUME NEW r \in Reads, Drop(r) PROVE Queued(queue')
  <2>1. CASE pc[r] = "queued"
    <3>1. PICK i \in 1 .. Len(queue) : queue[i] = r /\ queue' = RemoveAt(queue, i)
      BY <1>1, <1>9, <2>1, LenProperties DEF Drop
    <3>2. /\ Distinct(queue') /\ Among(queue', queue)
          /\ \A j \in 1 .. Len(queue') : queue'[j] # r
      BY <1>1, <3>1, RemoveAtKeepsDistinct
    <3>3. queue' \in Seq(Reads)
      BY <1>1, <3>1, RemoveAtEffect
    <3>4. pc' = [pc EXCEPT ![r] = "unserved"]
      BY <1>9, <2>1 DEF Drop
    <3> QED
      BY <1>2, <1>3, <3>2, <3>3, <3>4, ElementOfSeq DEF Among
  <2>2. CASE pc[r] # "queued"
    BY <1>1, <1>2, <1>3, <1>9, <2>2 DEF Drop, GiveUp, Growing
  <2> QED
    BY <2>1, <2>2
<1>10. ASSUME NEW q \in Requests, EndRequest(q) PROVE Queued(queue')
  BY <1>1, <1>2, <1>10 DEF EndRequest
<1>11. ASSUME NEW q \in Requests, NextRequest(q) PROVE Queued(queue')
  <2>1. \A r \in Reads : pc[r] = "queued" => pc'[r] = "queued"
    <3>1. \A r \in Reads : RequestOf[ObjectOf[r]] = q => pc[r] # "queued"
      BY <1>11, Constants DEF NextRequest, Quiet, ReadsOf, Ended
    <3> QED
      BY <1>3, <1>11, <3>1 DEF NextRequest
  <2> QED
    BY <1>1, <1>2, <1>11, <2>1 DEF NextRequest
<1>12. ASSUME NEW o \in Objects, DeleteCopy(o) \/ ReleaseCopy(o) PROVE Queued(queue')
  BY <1>1, <1>2, <1>12 DEF DeleteCopy, ReleaseCopy
<1> QED
  BY <1>4, <1>5, <1>6, <1>7, <1>8, <1>9, <1>10, <1>11, <1>12 DEF Next

-----------------------------------------------------------------------------
(* Types, but for the budget and the permits, which their counts give.     *)

\* Where a read can be.
Places == {"idle", "waiting"} \cup AtWork \cup Ended

\* Every variable but the line and the budget keeps its type.
LEMMA TypeKept ==
  ASSUME TransfersInv, [Next]_vars
  PROVE  /\ limits' \in Limits
         /\ pc' \in [Reads -> Places]
         /\ source' \in [Objects -> {"unknown", "ranged", "scratch", "deleted"}]
         /\ body' \in [Objects -> Nat] /\ held' \in [Objects -> Nat] /\ disk' \in [Objects -> Nat]
         /\ chunk' \in [Reads -> Nat] /\ seen' \in [Reads -> Nat]
         /\ permits' \in Nat /\ over' \subseteq Requests
<1> DEFINE Typed ==
             /\ limits' \in Limits
             /\ pc' \in [Reads -> Places]
             /\ source' \in [Objects -> {"unknown", "ranged", "scratch", "deleted"}]
             /\ body' \in [Objects -> Nat] /\ held' \in [Objects -> Nat]
             /\ disk' \in [Objects -> Nat]
             /\ chunk' \in [Reads -> Nat] /\ seen' \in [Reads -> Nat]
             /\ permits' \in Nat /\ over' \subseteq Requests
<1>1. /\ limits \in Limits
      /\ pc \in [Reads -> Places]
      /\ source \in [Objects -> {"unknown", "ranged", "scratch", "deleted"}]
      /\ body \in [Objects -> Nat] /\ held \in [Objects -> Nat] /\ disk \in [Objects -> Nat]
      /\ chunk \in [Reads -> Nat] /\ seen \in [Reads -> Nat]
      /\ resident \in Nat /\ permits \in Nat /\ over \subseteq Requests
  BY Constants DEF TransfersInv, TypeOK, Places
<1>2. ASSUME NEW where \in Places, NEW r \in Reads, Go(r, where) PROVE pc' \in [Reads -> Places]
  BY <1>1, <1>2 DEF Go
<1>3. ASSUME NEW r \in Reads, NEW n \in Nat, NEW budget \in Nat, Growing(r, n, budget)
      PROVE  chunk' \in [Reads -> Nat] /\ seen' \in [Reads -> Nat]
  BY <1>1, <1>3 DEF Growing
<1>4. ASSUME NEW r \in Reads, GiveUp(r)
      PROVE  pc' \in [Reads -> Places] /\ chunk' \in [Reads -> Nat] /\ seen' \in [Reads -> Nat]
  <2>1. "dropping" \in Places
    BY DEF Places, AtWork
  <2> QED
    BY <1>2, <1>3, <1>4, <2>1 DEF GiveUp
<1>5. {"waiting", "served", "probing", "unserved", "queued", "copying", "growing", "writing",
       "unlinking", "idle"} \subseteq Places
  BY DEF Places, AtWork, Ended
<1>6. \A r \in Reads : ObjectOf[r] \in Objects /\ held[ObjectOf[r]] \in Nat /\ chunk[r] \in Nat
  BY <1>1, Constants
<1>7. ASSUME UNCHANGED vars PROVE Typed
  BY <1>1, <1>7 DEF vars
<1>8. ASSUME NEW r \in Reads, Ask(r) \/ Serve(r) \/ Probe(r) \/ ProbeFails(r) \/ ProbeRanged(r)
      PROVE  Typed
  BY <1>1, <1>2, <1>5, <1>8 DEF Ask, Serve, Probe, ProbeFails, ProbeRanged, copyVars
<1>9. ASSUME NEW r \in Reads, ProbeWhole(r) PROVE Typed
  BY <1>1, <1>2, <1>5, <1>9, Constants DEF ProbeWhole
<1>10. ASSUME NEW r \in Reads, Begin(r) PROVE Typed
  <2>1. permits' \in Nat
    BY <1>1, <1>10 DEF Begin
  <2>2. body' \in [Objects -> Nat]
    BY <1>1, <1>10 DEF Begin
  <2> QED
    BY <1>1, <1>2, <1>5, <1>10, <2>1, <2>2 DEF Begin
<1>11. ASSUME NEW r \in Reads, Arrive(r) PROVE Typed
  <2>1. \/ GiveUp(r)
        \/ \E n \in Nat : Go(r, "growing") /\ Growing(r, n, resident)
    BY <1>11, Constants DEF Arrive
  <2>2. pc' \in [Reads -> Places] /\ chunk' \in [Reads -> Nat] /\ seen' \in [Reads -> Nat]
    BY <1>1, <1>2, <1>3, <1>4, <1>5, <2>1
  <2> QED
    BY <1>1, <1>11, <2>2 DEF Arrive
<1>12. ASSUME NEW r \in Reads, Exchange(r) PROVE Typed
  <2>1. held' \in [Objects -> Nat]
    BY <1>1, <1>6, <1>12 DEF Exchange, Claimed
  <2> QED
    BY <1>1, <1>2, <1>3, <1>5, <1>12, <2>1 DEF Exchange, Claimed
<1>13. ASSUME NEW r \in Reads, LookAgain(r) PROVE Typed
  <2>1. \/ GiveUp(r)
        \/ Growing(r, chunk[r], resident) /\ pc' = pc
    BY <1>13 DEF LookAgain
  <2>2. pc' \in [Reads -> Places] /\ chunk' \in [Reads -> Nat] /\ seen' \in [Reads -> Nat]
    BY <1>1, <1>3, <1>4, <1>6, <2>1
  <2> QED
    BY <1>1, <1>13, <2>2 DEF LookAgain
<1>14. ASSUME NEW r \in Reads, Write(r) \/ Break(r) PROVE Typed
  <2>1. disk' \in [Objects -> Nat]
    BY <1>1, <1>6, <1>14 DEF Write, Break, Size
  <2> QED
    BY <1>1, <1>2, <1>4, <1>5, <1>14, <2>1 DEF Write, Break
<1>15. ASSUME NEW r \in Reads, Finish(r) PROVE Typed
  <2>1. permits' \in Nat
    BY <1>1, <1>15 DEF Finish
  <2> QED
    BY <1>1, <1>2, <1>5, <1>15, <2>1 DEF Finish
<1>16. ASSUME NEW r \in Reads, Drop(r) PROVE Typed
  <2>1. body' \in [Objects -> Nat]
    BY <1>1, <1>16 DEF Drop
  <2> QED
    BY <1>1, <1>2, <1>4, <1>5, <1>16, <2>1 DEF Drop
<1>17. ASSUME NEW r \in Reads, GiveBack(r) PROVE Typed
  BY <1>1, <1>2, <1>5, <1>17 DEF GiveBack
<1>18. ASSUME NEW r \in Reads, Unlink(r) PROVE Typed
  <2>1. permits' \in Nat
    BY <1>1, <1>18 DEF Unlink
  <2> QED
    BY <1>1, <1>2, <1>5, <1>18, <2>1 DEF Unlink
<1>19. ASSUME NEW q \in Requests, EndRequest(q) \/ NextRequest(q) PROVE Typed
  BY <1>1, <1>5, <1>19 DEF EndRequest, NextRequest, copyVars
<1>20. ASSUME NEW o \in Objects, DeleteCopy(o) PROVE Typed
  BY <1>1, <1>20 DEF DeleteCopy
<1>21. ASSUME NEW o \in Objects, ReleaseCopy(o) PROVE Typed
  BY <1>1, <1>21 DEF ReleaseCopy
<1> HIDE DEF Typed
<1>22. Typed
  BY <1>7, <1>8, <1>9, <1>10, <1>11, <1>12, <1>13, <1>14, <1>15, <1>16, <1>17, <1>18, <1>19,
     <1>20, <1>21 DEF Next
<1> QED
  BY <1>22 DEF Typed

-----------------------------------------------------------------------------
(* One read at a time.                                                     *)

\* A read starts on an object only when none is at work on it and nothing is known of it.
LEMMA OneCopyEachKept ==
  ASSUME TransfersInv, [Next]_vars
  PROVE  OneCopyEach'
<1> DEFINE One ==
             /\ \A r, s \in Reads :
                  pc'[r] \in AtWork /\ pc'[s] \in AtWork /\ ObjectOf[r] = ObjectOf[s] => r = s
             /\ \A r \in Reads : pc'[r] \in AtWork => source'[ObjectOf[r]] = "unknown"
<1> SUFFICES One
  BY DEF OneCopyEach, Working
<1>1. /\ \A r, s \in Reads :
           pc[r] \in AtWork /\ pc[s] \in AtWork /\ ObjectOf[r] = ObjectOf[s] => r = s
      /\ \A r \in Reads : pc[r] \in AtWork => source[ObjectOf[r]] = "unknown"
  BY DEF TransfersInv, OneCopyEach, Working
<1>2. /\ pc \in [Reads -> {"idle", "waiting"} \cup AtWork \cup Ended]
      /\ source \in [Objects -> {"unknown", "ranged", "scratch", "deleted"}]
  BY DEF TransfersInv, TypeOK
\* A read already at work goes on, or a read stops being at work.
<1>3. ASSUME NEW r \in Reads, NEW where, pc' = [pc EXCEPT ![r] = where], source' = source,
             pc[r] \in AtWork \/ where \notin AtWork
      PROVE  One
  BY <1>1, <1>2, <1>3
<1>4. CASE UNCHANGED vars
  BY <1>1, <1>4 DEF vars
<1>5. ASSUME NEW r \in Reads, Ask(r) \/ Serve(r) \/ ProbeFails(r) \/ Arrive(r) \/ Exchange(r)
                              \/ Write(r) \/ Break(r) \/ GiveBack(r) \/ Unlink(r)
      PROVE  One
  <2>1. \E where : /\ pc' = [pc EXCEPT ![r] = where] /\ source' = source
                   /\ pc[r] \in AtWork \/ where \notin AtWork
    BY <1>5 DEF Ask, Serve, ProbeFails, Arrive, Exchange, Claimed, Write, Break,
                GiveBack, Unlink, GiveUp, Growing, Go, AtWork
  <2> QED
    BY <1>3, <2>1
<1>6. ASSUME NEW r \in Reads, ProbeWhole(r) \/ Begin(r) \/ Drop(r) PROVE One
  <2>1. Begin(r) => pc[r] = "queued"
    BY HeadQueued DEF Begin, TransfersInv
  <2>2. \E where : /\ pc' = [pc EXCEPT ![r] = where] /\ source' = source
                   /\ pc[r] \in AtWork \/ where \notin AtWork
    BY <1>6, <2>1 DEF ProbeWhole, Begin, Drop, GiveUp, Growing, Go, AtWork
  <2> QED
    BY <1>3, <2>2
<1>7. ASSUME NEW r \in Reads, LookAgain(r) PROVE One
  <2>1. CASE pc' = pc
    BY <1>1, <1>7, <2>1 DEF LookAgain
  <2>2. CASE pc' # pc
    BY <1>3, <1>7, <2>2 DEF LookAgain, GiveUp, Go, AtWork
  <2> QED
    BY <2>1, <2>2
<1>8. ASSUME NEW r \in Reads, Probe(r) PROVE One
  BY <1>1, <1>2, <1>8 DEF Probe, Go, ReadsOf, AtWork
<1>9. ASSUME NEW r \in Reads, ProbeRanged(r) \/ Finish(r) PROVE One
  <2>1. pc[r] \in AtWork /\ pc' = [pc EXCEPT ![r] = "served"]
    BY <1>9 DEF ProbeRanged, Finish, Go, AtWork
  <2>2. \E kind : source' = [source EXCEPT ![ObjectOf[r]] = kind]
    BY <1>9 DEF ProbeRanged, Finish
  <2> QED
    BY <1>1, <1>2, <2>1, <2>2 DEF AtWork
<1>10. ASSUME NEW q \in Requests, EndRequest(q) PROVE One
  BY <1>1, <1>10 DEF EndRequest
<1>11. ASSUME NEW q \in Requests, NextRequest(q) PROVE One
  <2>1. \A r \in Reads : pc'[r] \in AtWork =>
                           pc[r] \in AtWork /\ source'[ObjectOf[r]] = source[ObjectOf[r]]
    BY <1>2, <1>11, Constants DEF NextRequest, AtWork
  <2> QED
    BY <1>1, <2>1
<1>12. ASSUME NEW o \in Objects, DeleteCopy(o) \/ ReleaseCopy(o) PROVE One
  <2>1. pc' = pc /\ source[o] # "unknown"
    BY <1>12 DEF DeleteCopy, ReleaseCopy
  <2>2. \A r \in Reads : pc[r] \in AtWork => source'[ObjectOf[r]] = source[ObjectOf[r]]
    BY <1>1, <1>2, <1>12, <2>1, Constants DEF DeleteCopy, ReleaseCopy
  <2> QED
    BY <1>1, <2>1, <2>2
<1> QED
  BY <1>4, <1>5, <1>6, <1>7, <1>8, <1>9, <1>10, <1>11, <1>12 DEF Next

-----------------------------------------------------------------------------
(* Where a copy is says what has been taken for it.                        *)

\* What is claimed and on disk goes on saying where the copy is, and a copy handed out is whole.
LEMMA InStepKept ==
  ASSUME TransfersInv, [Next]_vars
  PROVE  InStep' /\ NeverCutShort'
<1> DEFINE OfRead(r) ==
             /\ pc'[r] = "copying" => disk'[ObjectOf[r]] = held'[ObjectOf[r]]
             /\ pc'[r] = "growing" => /\ held'[ObjectOf[r]] + chunk'[r] <= limits.object
                                      /\ seen'[r] + chunk'[r] <= limits.total
             /\ pc'[r] = "unlinking" => held'[ObjectOf[r]] = 0
           OfObject(o) ==
             /\ held'[o] <= limits.object
             /\ source'[o] = "deleted" => disk'[o] = 0
             /\ source'[o] = "scratch" => disk'[o] = body'[o] /\ held'[o] = body'[o]
           Good == limits' = limits /\ (\A r \in Reads : OfRead(r)) /\ (\A o \in Objects : OfObject(o))
<1> SUFFICES Good
  BY DEF InStep, NeverCutShort, Size
<1>1. /\ \A r \in Reads :
           /\ pc[r] = "copying" => disk[ObjectOf[r]] = held[ObjectOf[r]]
           /\ pc[r] = "growing" => /\ held[ObjectOf[r]] + chunk[r] <= limits.object
                                   /\ seen[r] + chunk[r] <= limits.total
           /\ pc[r] = "unlinking" => held[ObjectOf[r]] = 0
      /\ \A o \in Objects :
           /\ held[o] <= limits.object
           /\ source[o] = "deleted" => disk[o] = 0
           /\ source[o] = "scratch" => disk[o] = body[o] /\ held[o] = body[o]
  BY DEF TransfersInv, InStep, NeverCutShort, Size
<1>2. /\ pc \in [Reads -> Places]
      /\ source \in [Objects -> {"unknown", "ranged", "scratch", "deleted"}]
      /\ body \in [Objects -> Nat] /\ held \in [Objects -> Nat] /\ disk \in [Objects -> Nat]
      /\ chunk \in [Reads -> Nat] /\ seen \in [Reads -> Nat] /\ resident \in Nat
      /\ limits.object \in Nat /\ limits.total \in Nat
  BY Constants DEF TransfersInv, TypeOK, Places
<1>3. \A r \in Reads : ObjectOf[r] \in Objects
  BY Constants
\* What is done for the object of a read at work is nothing to the reads of others.
<1>4. ASSUME NEW r \in Reads, pc[r] \in AtWork
      PROVE  /\ source[ObjectOf[r]] = "unknown"
             /\ \A s \in Reads : s # r /\ pc[s] \in AtWork => ObjectOf[s] # ObjectOf[r]
  BY <1>4 DEF TransfersInv, OneCopyEach, Working
\* A read moves, or gives up, and nothing is taken or given back.
<1>5. ASSUME NEW r \in Reads, NEW where, pc' = [pc EXCEPT ![r] = where], UNCHANGED limits,
             UNCHANGED <<source, body, held, disk, chunk, seen>>,
             where \notin {"copying", "growing", "unlinking"}
      PROVE  Good
  BY <1>1, <1>2, <1>3, <1>5
<1>6. ASSUME NEW r \in Reads, GiveUp(r), UNCHANGED <<limits, source, body, held, disk>> PROVE Good
  BY <1>1, <1>2, <1>3, <1>6 DEF GiveUp, Go, Growing
<1>7. CASE UNCHANGED vars
  BY <1>1, <1>2, <1>7 DEF vars
<1>8. ASSUME NEW r \in Reads, Ask(r) \/ Serve(r) \/ Probe(r) \/ ProbeFails(r) PROVE Good
  BY <1>5, <1>8 DEF Ask, Serve, Probe, ProbeFails, Go, copyVars
<1>9. ASSUME NEW r \in Reads, ProbeRanged(r) PROVE Good
  <2>1. /\ pc' = [pc EXCEPT ![r] = "served"] /\ UNCHANGED <<limits, body, held, disk, chunk, seen>>
        /\ source' = [source EXCEPT ![ObjectOf[r]] = "ranged"]
    BY <1>9 DEF ProbeRanged, Go, copyVars
  <2> QED
    BY <1>1, <1>2, <1>3, <2>1
\* The length of a copy is noted or forgotten only while nothing is known of its object.
<1>10. ASSUME NEW r \in Reads, pc[r] \in AtWork, NEW where, NEW n \in Nat,
              pc' = [pc EXCEPT ![r] = where], where \notin {"copying", "growing", "unlinking"},
              body' = body \/ body' = [body EXCEPT ![ObjectOf[r]] = n],
              UNCHANGED <<limits, source, held, disk, chunk, seen>>
       PROVE  Good
  BY <1>1, <1>2, <1>3, <1>4, <1>10
<1>11. ASSUME NEW r \in Reads, ProbeWhole(r) PROVE Good
  <2>1. pc[r] \in AtWork
    BY <1>11 DEF ProbeWhole, AtWork
  <2>2. \E n \in Nat, where \in {"unserved", "queued"} :
          /\ pc' = [pc EXCEPT ![r] = where]
          /\ body' = body \/ body' = [body EXCEPT ![ObjectOf[r]] = n]
    BY <1>11, Constants DEF ProbeWhole, Go
  <2>3. UNCHANGED <<limits, source, held, disk, chunk, seen>>
    BY <1>11 DEF ProbeWhole
  <2> QED
    BY <1>10, <2>1, <2>2, <2>3
<1>12. ASSUME NEW r \in Reads, Begin(r) PROVE Good
  <2>1. pc[r] = "queued" /\ pc[r] \in AtWork
    BY <1>12, HeadQueued DEF Begin, TransfersInv, AtWork
  <2>2. held[ObjectOf[r]] = 0 /\ disk[ObjectOf[r]] = 0
    BY <2>1, NothingTakenYet DEF TransfersInv
  <2>3. CASE Go(r, "copying") /\ body' = body
    BY <1>1, <1>2, <1>3, <1>12, <2>2, <2>3 DEF Begin, Go
  <2>4. CASE Go(r, "unserved") /\ body' = [body EXCEPT ![ObjectOf[r]] = 0]
    BY <1>10, <1>12, <2>1, <2>4 DEF Begin, Go
  <2> QED
    BY <1>12, <2>3, <2>4 DEF Begin
<1>13. ASSUME NEW r \in Reads, Arrive(r) PROVE Good
  <2>1. PICK n \in Chunks :
          IF held[ObjectOf[r]] + n > limits.object \/ resident + n > limits.total
          THEN GiveUp(r) ELSE Go(r, "growing") /\ Growing(r, n, resident)
    BY <1>13 DEF Arrive, Size
  <2>2. UNCHANGED <<limits, source, body, held, disk>> /\ n \in Nat
    BY <1>13, Constants DEF Arrive
  <2>3. CASE GiveUp(r)
    BY <1>6, <2>2, <2>3
  <2>4. CASE /\ ~ (held[ObjectOf[r]] + n > limits.object) /\ ~ (resident + n > limits.total)
             /\ Go(r, "growing") /\ Growing(r, n, resident)
    <3>1. /\ pc' = [pc EXCEPT ![r] = "growing"] /\ chunk' = [chunk EXCEPT ![r] = n]
          /\ seen' = [seen EXCEPT ![r] = resident]
      BY <2>4 DEF Go, Growing
    <3>2. held[ObjectOf[r]] + n <= limits.object /\ resident + n <= limits.total
      BY <1>2, <1>3, <2>2, <2>4
    <3> QED
      BY <1>1, <1>2, <1>3, <2>2, <3>1, <3>2
  <2> QED
    BY <2>1, <2>3, <2>4
<1>14. ASSUME NEW r \in Reads, Exchange(r) PROVE Good
  <2>1. /\ pc[r] = "growing" /\ pc' = [pc EXCEPT ![r] = "writing"]
        /\ held' = [held EXCEPT ![ObjectOf[r]] = @ + chunk[r]]
        /\ chunk' = [chunk EXCEPT ![r] = 0] /\ seen' = [seen EXCEPT ![r] = 0]
        /\ UNCHANGED <<limits, source, body, disk>>
    BY <1>14 DEF Exchange, Claimed, Growing, Go
  <2>2. pc[r] \in AtWork
    BY <2>1 DEF AtWork
  <2>3. \A q \in Reads : OfRead(q)
    BY <1>1, <1>2, <1>3, <1>4, <2>1, <2>2 DEF AtWork
  <2>4. \A o \in Objects : OfObject(o)
    BY <1>1, <1>2, <1>3, <1>4, <2>1, <2>2
  <2> QED
    BY <2>1, <2>3, <2>4
<1>15. ASSUME NEW r \in Reads, LookAgain(r) PROVE Good
  <2>1. CASE GiveUp(r)
    BY <1>6, <1>15, <2>1 DEF LookAgain
  <2>2. CASE /\ ~ (resident + chunk[r] > limits.total) /\ pc' = pc
             /\ Growing(r, chunk[r], resident)
    <3>1. /\ UNCHANGED <<pc, limits, source, body, held, disk>>
          /\ chunk' = [chunk EXCEPT ![r] = chunk[r]] /\ seen' = [seen EXCEPT ![r] = resident]
      BY <1>15, <2>2 DEF LookAgain, Growing
    <3>2. resident + chunk[r] <= limits.total
      BY <1>2, <2>2
    <3> QED
      BY <1>1, <1>2, <1>3, <3>1, <3>2
  <2> QED
    BY <1>15, <2>1, <2>2 DEF LookAgain
<1>16. ASSUME NEW r \in Reads, Write(r) PROVE Good
  <2>1. pc[r] \in AtWork /\ UNCHANGED <<limits, source, body, held>>
    BY <1>16 DEF Write, AtWork
  <2>2. CASE GiveUp(r) /\ disk' = disk
    BY <1>6, <2>1, <2>2
  <2>3. CASE /\ disk' = [disk EXCEPT ![ObjectOf[r]] = held[ObjectOf[r]]]
             /\ Go(r, "copying") /\ UNCHANGED <<chunk, seen>>
    <3>1. \A q \in Reads : OfRead(q)
      BY <1>1, <1>2, <1>3, <1>4, <2>1, <2>3 DEF AtWork, Go
    <3>2. \A o \in Objects : OfObject(o)
      BY <1>1, <1>2, <1>3, <1>4, <2>1, <2>3
    <3> QED
      BY <2>1, <3>1, <3>2
  <2> QED
    BY <1>16, <2>2, <2>3 DEF Write, Size
<1>17. ASSUME NEW r \in Reads, Break(r) PROVE Good
  BY <1>6, <1>17 DEF Break
<1>18. ASSUME NEW r \in Reads, Finish(r) PROVE Good
  <2>1. /\ pc[r] = "copying" /\ held[ObjectOf[r]] = body[ObjectOf[r]]
        /\ source' = [source EXCEPT ![ObjectOf[r]] = "scratch"]
        /\ pc' = [pc EXCEPT ![r] = "served"]
        /\ UNCHANGED <<limits, body, held, disk, chunk, seen>>
    BY <1>18 DEF Finish, Size, Go
  <2> QED
    BY <1>1, <1>2, <1>3, <2>1
<1>19. ASSUME NEW r \in Reads, Drop(r) PROVE Good
  <2>1. CASE pc[r] \in {"waiting", "probing"}
    BY <1>5, <1>19, <2>1 DEF Drop, Go
  <2>2. CASE pc[r] = "queued"
    BY <1>10, <1>19, <2>2 DEF Drop, Go, AtWork
  <2>3. CASE pc[r] = "copying"
    BY <1>6, <1>19, <2>3 DEF Drop
  <2> QED
    BY <1>19, <2>1, <2>2, <2>3 DEF Drop
<1>20. ASSUME NEW r \in Reads, GiveBack(r) PROVE Good
  <2>1. /\ pc[r] \in AtWork /\ pc' = [pc EXCEPT ![r] = "unlinking"]
        /\ held' = [held EXCEPT ![ObjectOf[r]] = 0]
        /\ UNCHANGED <<limits, source, body, disk, chunk, seen>>
    BY <1>20 DEF GiveBack, Go, AtWork
  <2>2. \A q \in Reads : OfRead(q)
    BY <1>1, <1>2, <1>3, <1>4, <2>1 DEF AtWork
  <2>3. \A o \in Objects : OfObject(o)
    BY <1>1, <1>2, <1>3, <1>4, <2>1
  <2> QED
    BY <2>1, <2>2, <2>3
<1>21. ASSUME NEW r \in Reads, Unlink(r) PROVE Good
  <2>1. /\ pc[r] \in AtWork /\ pc' = [pc EXCEPT ![r] = "unserved"]
        /\ disk' = [disk EXCEPT ![ObjectOf[r]] = 0]
        /\ body' = [body EXCEPT ![ObjectOf[r]] = 0]
        /\ UNCHANGED <<limits, source, held, chunk, seen>>
    BY <1>21 DEF Unlink, Go, AtWork
  <2>2. \A q \in Reads : OfRead(q)
    BY <1>1, <1>2, <1>3, <1>4, <2>1 DEF AtWork
  <2>3. \A o \in Objects : OfObject(o)
    BY <1>1, <1>2, <1>3, <1>4, <2>1
  <2> QED
    BY <2>1, <2>2, <2>3
<1>22. ASSUME NEW q \in Requests, EndRequest(q) PROVE Good
  BY <1>1, <1>2, <1>22 DEF EndRequest, copyVars
<1>23. ASSUME NEW q \in Requests, NextRequest(q) PROVE Good
  <2>1. UNCHANGED <<limits, held, disk, chunk, seen>>
    BY <1>23 DEF NextRequest
  <2>2. \A r \in Reads : pc'[r] = pc[r] \/ pc'[r] = "idle"
    BY <1>23 DEF NextRequest
  <2>3. \A o \in Objects : \/ source'[o] = "unknown"
                           \/ source'[o] = source[o] /\ body'[o] = body[o]
    BY <1>23 DEF NextRequest
  <2>4. \A r \in Reads : OfRead(r)
    BY <1>1, <2>1, <2>2
  <2>5. \A o \in Objects : OfObject(o)
    BY <1>1, <2>1, <2>3
  <2> QED
    BY <2>1, <2>4, <2>5
<1>24. ASSUME NEW o \in Objects, DeleteCopy(o) PROVE Good
  <2>1. /\ source[o] = "scratch" /\ source' = [source EXCEPT ![o] = "deleted"]
        /\ disk' = [disk EXCEPT ![o] = 0]
        /\ UNCHANGED <<limits, pc, body, held, chunk, seen>>
    BY <1>24 DEF DeleteCopy
  <2>2. \A r \in Reads : OfRead(r)
    BY <1>1, <1>2, <1>3, <1>4, <2>1 DEF AtWork
  <2>3. \A x \in Objects : OfObject(x)
    BY <1>1, <1>2, <2>1
  <2> QED
    BY <2>1, <2>2, <2>3
<1>25. ASSUME NEW o \in Objects, ReleaseCopy(o) PROVE Good
  <2>1. /\ source[o] = "deleted" /\ source' = [source EXCEPT ![o] = "unknown"]
        /\ held' = [held EXCEPT ![o] = 0]
        /\ UNCHANGED <<limits, pc, body, disk, chunk, seen>>
    BY <1>25 DEF ReleaseCopy
  <2>2. \A r \in Reads : OfRead(r)
    BY <1>1, <1>2, <1>3, <1>4, <2>1 DEF AtWork
  <2>3. \A x \in Objects : OfObject(x)
    BY <1>1, <1>2, <2>1
  <2> QED
    BY <2>1, <2>2, <2>3
<1> QED
  <2> HIDE DEF Good
  <2>1. CASE Next
    BY <2>1, <1>8, <1>9, <1>11, <1>12, <1>13, <1>14, <1>15, <1>16, <1>17, <1>18, <1>19, <1>20,
       <1>21, <1>22, <1>23, <1>24, <1>25 DEF Next
  <2> QED
    BY <1>7, <2>1

-----------------------------------------------------------------------------
(* The budget.                                                             *)

\* The budget counts the claims after every step, and stays within its limit: the exchange
\* succeeds only on the budget the sum was worked out from.
LEMMA ResidentKept ==
  ASSUME TransfersInv, [Next]_vars
  PROVE  /\ resident' = SumFunctionOnSet(held', Objects)
         /\ resident' \in Nat /\ resident' <= limits.total
<1> DEFINE Counted == resident' = SumFunctionOnSet(held', Objects) /\ resident' <= limits.total
<1>1. /\ held \in [Objects -> Nat] /\ held' \in [Objects -> Nat] /\ chunk \in [Reads -> Nat]
      /\ resident \in Nat /\ limits.total \in Nat
  BY TypeKept, Constants DEF TransfersInv, TypeOK
<1>2. resident = SumFunctionOnSet(held, Objects) /\ resident <= limits.total
  BY DEF TransfersInv, Accounted, WithinBudget
<1>3. \A r \in Reads : ObjectOf[r] \in Objects
  BY Constants
<1>4. ASSUME UNCHANGED <<resident, held>> PROVE Counted
  BY <1>2, <1>4
\* What is added to one claim is added to the sum, and what is taken from it is taken.
<1>5. ASSUME NEW o \in Objects, NEW n \in Nat, held' = [held EXCEPT ![o] = n],
             resident' = resident - held[o] + n
      PROVE  resident' = SumFunctionOnSet(held', Objects)
  <2>1. held'[o] = n /\ \A x \in Objects \ {o} : held'[x] = held[x]
    BY <1>1, <1>5
  <2>2. \A x \in Objects : held[x] \in Nat /\ held'[x] \in Nat
    BY <1>1
  <2>3. SumFunctionOnSet(held', Objects) = SumFunctionOnSet(held, Objects) - held[o] + held'[o]
    <3> DEFINE f == held
               h == held'
    <3>1. /\ \A x \in Objects : f[x] \in Nat /\ h[x] \in Nat
          /\ \A x \in Objects \ {o} : h[x] = f[x]
      BY <2>1, <2>2
    <3>2. IsFiniteSet(Objects)
      BY Constants
    <3> HIDE DEF f, h
    <3>3. SumFunctionOnSet(h, Objects) = SumFunctionOnSet(f, Objects) - f[o] + h[o]
      BY <3>1, <3>2, SumChange
    <3> QED
      BY <3>3 DEF f, h
  <2> QED
    BY <1>2, <1>5, <2>1, <2>3
<1>6. ASSUME NEW r \in Reads, Exchange(r) PROVE Counted
  <2>1. /\ pc[r] = "growing" /\ resident = seen[r] /\ resident' = resident + chunk[r]
        /\ held' = [held EXCEPT ![ObjectOf[r]] = held[ObjectOf[r]] + chunk[r]]
    BY <1>6 DEF Exchange, Claimed
  <2>2. seen[r] + chunk[r] <= limits.total
    BY <2>1 DEF TransfersInv, InStep
  <2>3. held[ObjectOf[r]] \in Nat /\ chunk[r] \in Nat
    BY <1>1, <1>3
  <2>4. resident' = resident - held[ObjectOf[r]] + (held[ObjectOf[r]] + chunk[r])
    BY <1>1, <2>1, <2>3
  <2>5. resident' = SumFunctionOnSet(held', Objects)
    <3> DEFINE o == ObjectOf[r]
               n == held[o] + chunk[r]
    <3>1. /\ o \in Objects /\ n \in Nat /\ held' = [held EXCEPT ![o] = n]
          /\ resident' = resident - held[o] + n
      BY <1>3, <2>1, <2>3, <2>4
    <3> HIDE DEF o, n
    <3> QED
      BY <1>5, <3>1
  <2> QED
    BY <2>1, <2>2, <2>5
<1>7. ASSUME NEW o \in Objects, held' = [held EXCEPT ![o] = 0], resident' = resident - held[o]
      PROVE  Counted
  <2>1. held[o] \in Nat
    BY <1>1
  <2>2. resident' = resident - held[o] + 0
    BY <1>1, <1>7, <2>1
  <2>3. resident' = SumFunctionOnSet(held', Objects)
    BY <1>5, <1>7, <2>2
  <2>4. resident' <= limits.total
    BY <1>1, <1>2, <1>7, <2>1
  <2> QED
    BY <2>3, <2>4
<1>8. CASE Next
  <2>1. ASSUME NEW r \in Reads, GiveBack(r) PROVE Counted
    BY <1>3, <1>7, <2>1 DEF GiveBack
  <2>2. ASSUME NEW o \in Objects, ReleaseCopy(o) PROVE Counted
    BY <1>7, <2>2 DEF ReleaseCopy
  <2>3. \/ UNCHANGED <<resident, held>>
        \/ \E r \in Reads : Exchange(r) \/ GiveBack(r)
        \/ \E o \in Objects : ReleaseCopy(o)
    BY <1>8 DEF Next, Ask, Serve, Probe, ProbeFails, ProbeRanged, ProbeWhole, Begin, Arrive,
                LookAgain, Write, Break, Finish, Drop, Unlink, EndRequest, NextRequest,
                DeleteCopy, copyVars
  <2> HIDE DEF Counted
  <2>4. Counted
    BY <1>4, <1>6, <2>1, <2>2, <2>3
  <2>5. SumFunctionOnSet(held', Objects) \in Nat
    BY <1>1, Constants, SumNat
  <2> QED
    BY <2>4, <2>5 DEF Counted
<1>9. CASE UNCHANGED vars
  BY <1>1, <1>2, <1>9 DEF vars
<1> QED
  BY <1>8, <1>9

-----------------------------------------------------------------------------
(* The permits.                                                            *)

\* The reads that hold a permit.
Holders == {r \in Reads : pc[r] \in Permitted}

\* A permit is taken by the copy that begins and comes back once, however the copy ends.
LEMMA PermitsKept ==
  ASSUME TransfersInv, [Next]_vars
  PROVE  /\ limits' = limits
         /\ permits' + Cardinality(Holders') = limits.copies /\ permits' \in 0 .. limits.copies
<1> DEFINE Counted == permits' + Cardinality(Holders') = limits.copies
<1>1. permits + Cardinality(Holders) = limits.copies
  BY DEF TransfersInv, Accounted, Holders
<1>2. /\ IsFiniteSet(Holders) /\ IsFiniteSet(Holders')
      /\ Cardinality(Holders) \in Nat /\ Cardinality(Holders') \in Nat
  BY Constants, FS_Subset, FS_CardinalityType DEF Holders
<1>3. /\ permits \in Nat /\ permits' \in Nat /\ limits.copies \in Nat
      /\ pc \in [Reads -> Places] /\ pc' \in [Reads -> Places]
  BY TypeKept, Constants DEF TransfersInv, TypeOK, Places
<1>4. ASSUME permits' = permits, \A r \in Reads : pc'[r] \in Permitted <=> pc[r] \in Permitted
      PROVE  Counted
  <2>1. Holders' = Holders
    BY <1>4 DEF Holders
  <2> QED
    BY <1>1, <1>4, <2>1
<1>5. ASSUME NEW r \in Reads, Begin(r) PROVE Counted
  <2>1. pc[r] = "queued"
    BY <1>5, HeadQueued DEF Begin, TransfersInv
  <2>2. CASE Go(r, "copying") /\ permits' = permits - 1
    <3>1. Holders' = Holders \cup {r} /\ r \notin Holders
      BY <1>3, <2>1, <2>2 DEF Go, Holders, Permitted
    <3>2. Cardinality(Holders') = Cardinality(Holders) + 1
      BY <1>2, <3>1, FS_AddElement
    <3> QED
      BY <1>1, <1>2, <1>3, <2>2, <3>2
  <2>3. CASE Go(r, "unserved") /\ permits' = permits
    BY <1>3, <1>4, <2>1, <2>3 DEF Go, Permitted
  <2> QED
    BY <1>5, <2>2, <2>3 DEF Begin
<1>6. ASSUME NEW r \in Reads, Finish(r) \/ Unlink(r) PROVE Counted
  <2>1. permits' = permits + 1 /\ pc[r] \in Permitted /\ \E where \in Ended : Go(r, where)
    BY <1>6 DEF Finish, Unlink, Permitted, Ended
  <2>2. Holders' = Holders \ {r} /\ r \in Holders
    BY <1>3, <2>1 DEF Go, Holders, Permitted, Ended
  <2>3. Cardinality(Holders') = Cardinality(Holders) - 1
    BY <1>2, <2>2, FS_RemoveElement
  <2> QED
    BY <1>1, <1>2, <1>3, <2>1, <2>3
\* A copy under way moves on, or a read without a permit does.
<1>7. ASSUME NEW r \in Reads, NEW where, Go(r, where), permits' = permits,
             where \in Permitted <=> pc[r] \in Permitted
      PROVE  Counted
  BY <1>3, <1>4, <1>7 DEF Go
<1>8. ASSUME NEW r \in Reads, Ask(r) \/ Serve(r) \/ Probe(r) \/ ProbeFails(r) \/ ProbeRanged(r)
                              \/ ProbeWhole(r)
      PROVE  Counted
  <2>1. permits' = permits /\ pc[r] \notin Permitted /\
        \E where \in {"waiting", "served", "probing", "unserved", "queued"} : Go(r, where)
    BY <1>8 DEF Ask, Serve, Probe, ProbeFails, ProbeRanged, ProbeWhole, copyVars, Permitted
  <2> QED
    BY <1>7, <2>1 DEF Permitted
<1>9. ASSUME NEW r \in Reads, Arrive(r) \/ Exchange(r) \/ Write(r) \/ Break(r) \/ GiveBack(r)
      PROVE  Counted
  <2>1. permits' = permits /\ pc[r] \in Permitted /\ \E where \in Permitted : Go(r, where)
    BY <1>9 DEF Arrive, Exchange, Claimed, Write, Break, GiveBack, GiveUp, Permitted
  <2> QED
    BY <1>7, <2>1
<1>10. ASSUME NEW r \in Reads, LookAgain(r) PROVE Counted
  <2>1. permits' = permits /\ pc[r] \in Permitted /\ (Go(r, "dropping") \/ pc' = pc)
    BY <1>10 DEF LookAgain, GiveUp, Permitted
  <2> QED
    BY <1>4, <1>7, <2>1 DEF Permitted
<1>11. ASSUME NEW r \in Reads, Drop(r) PROVE Counted
  <2>1. /\ permits' = permits
        /\ \/ pc[r] \in {"waiting", "probing", "queued"} /\ Go(r, "unserved")
           \/ pc[r] = "copying" /\ Go(r, "dropping")
    BY <1>11 DEF Drop, GiveUp
  <2> QED
    BY <1>7, <2>1 DEF Permitted
<1>12. ASSUME NEW q \in Requests, EndRequest(q) PROVE Counted
  BY <1>4, <1>12 DEF EndRequest, copyVars
<1>13. ASSUME NEW q \in Requests, NextRequest(q) PROVE Counted
  <2>1. \A r \in Reads : RequestOf[ObjectOf[r]] = q => pc[r] \notin Permitted
    BY <1>13, Constants DEF NextRequest, Quiet, ReadsOf, Ended, Permitted
  <2>2. \A r \in Reads : pc'[r] = IF RequestOf[ObjectOf[r]] = q THEN "idle" ELSE pc[r]
    BY <1>13 DEF NextRequest
  <2> QED
    BY <1>4, <1>13, <2>1, <2>2 DEF NextRequest, Permitted
<1>14. ASSUME NEW o \in Objects, DeleteCopy(o) \/ ReleaseCopy(o) PROVE Counted
  BY <1>4, <1>14 DEF DeleteCopy, ReleaseCopy
<1>15. ASSUME UNCHANGED vars PROVE Counted
  BY <1>4, <1>15 DEF vars
<1>16. limits' = limits
  BY DEF Next, Ask, Serve, Probe, ProbeFails, ProbeRanged, ProbeWhole, Begin, Arrive, Exchange,
         Claimed, LookAgain, Write, Break, Finish, Drop, GiveBack, Unlink, EndRequest,
         NextRequest, DeleteCopy, ReleaseCopy, copyVars, vars
<1>17. Counted
  <2> HIDE DEF Counted
  <2> QED
    BY <1>5, <1>6, <1>8, <1>9, <1>10, <1>11, <1>12, <1>13, <1>14, <1>15 DEF Next
<1> QED
  BY <1>2, <1>3, <1>16, <1>17

-----------------------------------------------------------------------------
(* What is claimed, and what is on disk.                                   *)

\* Bytes are held only for a copy under way, or for one its request keeps.
LEMMA ClaimedForCopiesKept ==
  ASSUME TransfersInv, [Next]_vars
  PROVE  \A o \in Objects :
           held'[o] + disk'[o] > 0 =>
             source'[o] \in {"scratch", "deleted"} \/ \E r \in ReadsOf(o) : pc'[r] \in Permitted
<1> DEFINE Bare(o) == held[o] = 0 /\ disk[o] = 0
           BareNext(o) == held'[o] = 0 /\ disk'[o] = 0
           Kept(o) == source[o] \in {"scratch", "deleted"}
           KeptNext(o) == source'[o] \in {"scratch", "deleted"}
           Claims == \A o \in Objects :
                       BareNext(o) \/ KeptNext(o) \/ \E r \in ReadsOf(o) : pc'[r] \in Permitted
<1>1. /\ held \in [Objects -> Nat] /\ disk \in [Objects -> Nat] /\ pc \in [Reads -> Places]
      /\ source \in [Objects -> {"unknown", "ranged", "scratch", "deleted"}]
      /\ held' \in [Objects -> Nat] /\ disk' \in [Objects -> Nat] /\ pc' \in [Reads -> Places]
  BY TypeKept DEF TransfersInv, TypeOK, Places
<1> SUFFICES Claims
  BY <1>1
<1>2. \A o \in Objects : Bare(o) \/ Kept(o) \/ \E r \in ReadsOf(o) : pc[r] \in Permitted
  <2>1. \A o \in Objects : held[o] + disk[o] > 0 => Kept(o) \/ \E r \in ReadsOf(o) : pc[r] \in Permitted
    BY DEF TransfersInv, Accounted
  <2>2. \A o \in Objects : held[o] \in Nat /\ disk[o] \in Nat
    BY <1>1
  <2>3. \A o \in Objects : held[o] + disk[o] > 0 \/ Bare(o)
    BY <2>2
  <2> QED
    BY <2>1, <2>3
<1>3. \A r \in Reads : ObjectOf[r] \in Objects /\ r \in ReadsOf(ObjectOf[r])
  BY Constants DEF ReadsOf
<1>4. \A o \in Objects : \A r \in ReadsOf(o) : r \in Reads /\ ObjectOf[r] = o
  BY DEF ReadsOf
\* Nothing changes for an object but where a read is that has no permit, or keeps it.
<1>5. ASSUME UNCHANGED <<held, disk>>, \A o \in Objects : Kept(o) => KeptNext(o),
             \A r \in Reads : pc[r] \in Permitted => pc'[r] \in Permitted
      PROVE  Claims
  BY <1>2, <1>4, <1>5
<1>6. ASSUME NEW r \in Reads, NEW where, Go(r, where), UNCHANGED <<held, disk, source>>,
             pc[r] \notin Permitted \/ where \in Permitted
      PROVE  Claims
  <2>1. \A s \in Reads : pc[s] \in Permitted => pc'[s] \in Permitted
    BY <1>1, <1>6 DEF Go
  <2> QED
    BY <1>5, <1>6, <2>1
\* A copy under way takes something, or gives it back, and keeps its permit.
<1>7. ASSUME NEW r \in Reads, NEW where \in Permitted, Go(r, where), source' = source,
             pc[r] \in Permitted,
             \A o \in Objects \ {ObjectOf[r]} : held'[o] = held[o] /\ disk'[o] = disk[o]
      PROVE  Claims
  <2>1. \A s \in Reads : pc[s] \in Permitted => pc'[s] \in Permitted
    BY <1>1, <1>7 DEF Go
  <2>2. pc'[r] \in Permitted
    BY <1>7, <2>1
  <2> QED
    BY <1>2, <1>3, <1>4, <1>7, <2>1, <2>2
<1>8. CASE UNCHANGED vars
  BY <1>5, <1>8 DEF vars
<1>9. ASSUME NEW r \in Reads, Ask(r) \/ Serve(r) \/ Probe(r) \/ ProbeFails(r) \/ ProbeWhole(r)
      PROVE  Claims
  <2>1. /\ UNCHANGED <<held, disk, source>> /\ pc[r] \notin Permitted
        /\ \E where : Go(r, where)
    BY <1>9 DEF Ask, Serve, Probe, ProbeFails, ProbeWhole, copyVars, Permitted
  <2> QED
    BY <1>6, <2>1
<1>10. ASSUME NEW r \in Reads, ProbeRanged(r) PROVE Claims
  <2>1. pc[r] = "probing" /\ pc' = [pc EXCEPT ![r] = "served"] /\ UNCHANGED <<held, disk>>
        /\ source' = [source EXCEPT ![ObjectOf[r]] = "ranged"]
    BY <1>10 DEF ProbeRanged, Go, copyVars
  <2>2. source[ObjectOf[r]] = "unknown"
    BY <2>1 DEF TransfersInv, OneCopyEach, Working, AtWork
  <2>3. \A o \in Objects : Kept(o) => KeptNext(o)
    BY <1>1, <2>1, <2>2
  <2>4. \A s \in Reads : pc[s] \in Permitted => pc'[s] \in Permitted
    BY <1>1, <2>1 DEF Permitted
  <2> QED
    BY <1>5, <2>1, <2>3, <2>4
<1>11. ASSUME NEW r \in Reads, Begin(r) PROVE Claims
  <2>1. pc[r] = "queued"
    BY <1>11, HeadQueued DEF Begin, TransfersInv
  <2>2. UNCHANGED <<held, disk, source>> /\ \E where : Go(r, where)
    BY <1>11 DEF Begin
  <2> QED
    BY <1>6, <2>1, <2>2 DEF Permitted
<1>12. ASSUME NEW r \in Reads, Arrive(r) \/ Break(r) PROVE Claims
  <2>1. UNCHANGED <<held, disk, source>> /\ \E where \in Permitted : Go(r, where)
    BY <1>12 DEF Arrive, Break, GiveUp, Permitted
  <2> QED
    BY <1>6, <2>1
<1>13. ASSUME NEW r \in Reads, LookAgain(r) PROVE Claims
  <2>1. UNCHANGED <<held, disk, source>> /\ (Go(r, "dropping") \/ pc' = pc)
    BY <1>13 DEF LookAgain, GiveUp
  <2> QED
    BY <1>5, <1>6, <2>1 DEF Permitted
<1>14. ASSUME NEW r \in Reads, Exchange(r) \/ Write(r) \/ GiveBack(r) PROVE Claims
  <2>1. /\ source' = source /\ pc[r] \in Permitted /\ \E where \in Permitted : Go(r, where)
        /\ held' = held \/ \E n : held' = [held EXCEPT ![ObjectOf[r]] = n]
        /\ disk' = disk \/ \E n : disk' = [disk EXCEPT ![ObjectOf[r]] = n]
    BY <1>14 DEF Exchange, Claimed, Write, GiveBack, GiveUp, Permitted
  <2>2. \A o \in Objects \ {ObjectOf[r]} : held'[o] = held[o] /\ disk'[o] = disk[o]
    BY <1>1, <2>1
  <2> QED
    BY <1>7, <2>1, <2>2
<1>15. ASSUME NEW r \in Reads, Finish(r) PROVE Claims
  <2>1. /\ pc' = [pc EXCEPT ![r] = "served"] /\ UNCHANGED <<held, disk>>
        /\ source' = [source EXCEPT ![ObjectOf[r]] = "scratch"]
    BY <1>15 DEF Finish, Go
  <2>2. KeptNext(ObjectOf[r]) /\ \A o \in Objects : Kept(o) => KeptNext(o)
    BY <1>1, <1>3, <2>1
  <2>3. \A s \in Reads : s # r => pc'[s] = pc[s]
    BY <1>1, <2>1
  <2> QED
    BY <1>2, <1>4, <2>1, <2>2, <2>3
<1>16. ASSUME NEW r \in Reads, Drop(r) PROVE Claims
  <2>1. /\ UNCHANGED <<held, disk, source>>
        /\ \/ pc[r] \in {"waiting", "probing", "queued"} /\ Go(r, "unserved")
           \/ pc[r] = "copying" /\ Go(r, "dropping")
    BY <1>16 DEF Drop, GiveUp
  <2> QED
    BY <1>6, <2>1 DEF Permitted
<1>17. ASSUME NEW r \in Reads, Unlink(r) PROVE Claims
  <2>1. /\ pc[r] = "unlinking" /\ pc' = [pc EXCEPT ![r] = "unserved"]
        /\ UNCHANGED <<held, source>> /\ disk' = [disk EXCEPT ![ObjectOf[r]] = 0]
    BY <1>17 DEF Unlink, Go
  <2>2. BareNext(ObjectOf[r])
    BY <1>1, <1>3, <2>1 DEF TransfersInv, InStep, Size
  <2>3. \A s \in Reads : s # r => pc'[s] = pc[s]
    BY <1>1, <2>1
  <2>4. \A o \in Objects : o # ObjectOf[r] => held'[o] = held[o] /\ disk'[o] = disk[o]
    BY <1>1, <2>1
  <2> QED
    BY <1>2, <1>4, <2>1, <2>2, <2>3, <2>4
<1>18. ASSUME NEW q \in Requests, EndRequest(q) PROVE Claims
  BY <1>5, <1>18 DEF EndRequest, copyVars
<1>19. ASSUME NEW q \in Requests, NextRequest(q) PROVE Claims
  <2>1. /\ UNCHANGED <<held, disk>>
        /\ \A o \in Objects : source'[o] = IF RequestOf[o] = q THEN "unknown" ELSE source[o]
        /\ \A r \in Reads : pc'[r] = IF RequestOf[ObjectOf[r]] = q THEN "idle" ELSE pc[r]
        /\ \A o \in Objects : RequestOf[o] = q => Quiet(o) /\ ~ Kept(o)
    BY <1>19 DEF NextRequest
  <2>2. \A o \in Objects : Kept(o) => KeptNext(o)
    BY <2>1
  <2>3. \A r \in Reads : pc[r] \in Permitted => pc'[r] \in Permitted
    BY <1>3, <2>1 DEF Quiet, Ended, Permitted
  <2> QED
    BY <1>5, <2>1, <2>2, <2>3
<1>20. ASSUME NEW o \in Objects, DeleteCopy(o) PROVE Claims
  <2>1. /\ pc' = pc /\ held' = held /\ disk' = [disk EXCEPT ![o] = 0]
        /\ source' = [source EXCEPT ![o] = "deleted"]
    BY <1>20 DEF DeleteCopy
  <2>2. KeptNext(o)
    BY <1>1, <2>1
  <2>3. \A x \in Objects : x # o => held'[x] = held[x] /\ disk'[x] = disk[x] /\ source'[x] = source[x]
    BY <1>1, <2>1
  <2> QED
    BY <1>2, <1>4, <2>1, <2>2, <2>3
<1>21. ASSUME NEW o \in Objects, ReleaseCopy(o) PROVE Claims
  <2>1. /\ pc' = pc /\ disk' = disk /\ held' = [held EXCEPT ![o] = 0] /\ source[o] = "deleted"
        /\ source' = [source EXCEPT ![o] = "unknown"]
    BY <1>21 DEF ReleaseCopy
  <2>2. BareNext(o)
    BY <1>1, <2>1 DEF TransfersInv, InStep
  <2>3. \A x \in Objects : x # o => held'[x] = held[x] /\ disk'[x] = disk[x] /\ source'[x] = source[x]
    BY <1>1, <2>1
  <2> QED
    BY <1>2, <1>4, <2>1, <2>2, <2>3
<1> QED
  <2> HIDE DEF Claims
  <2>1. CASE Next
    BY <2>1, <1>9, <1>10, <1>11, <1>12, <1>13, <1>14, <1>15, <1>16, <1>17, <1>18, <1>19, <1>20,
       <1>21 DEF Next
  <2> QED
    BY <1>8, <2>1

\* What is on disk stays covered by a claim but while it is being dropped, so within the limits.
LEMMA WithinBudgetKept ==
  ASSUME TransfersInv, [Next]_vars
  PROVE  WithinBudget'
<1> DEFINE Covered(o) == disk'[o] <= limits.object /\ (o \notin BeingDropped' => disk'[o] <= held'[o])
           All == \A o \in Objects : Covered(o)
<1>1. /\ held \in [Objects -> Nat] /\ disk \in [Objects -> Nat] /\ pc \in [Reads -> Places]
      /\ held' \in [Objects -> Nat] /\ disk' \in [Objects -> Nat] /\ pc' \in [Reads -> Places]
      /\ chunk \in [Reads -> Nat] /\ limits.object \in Nat /\ limits.total \in Nat
      /\ \A r \in Reads : ObjectOf[r] \in Objects
  BY TypeKept, Constants DEF TransfersInv, TypeOK, Places
<1>2. /\ \A o \in Objects : held[o] <= limits.object /\ (source[o] = "deleted" => disk[o] = 0)
      /\ \A o \in Objects : disk[o] <= limits.object /\ (o \notin BeingDropped => disk[o] <= held[o])
  BY DEF TransfersInv, InStep, WithinBudget
\* An object is being dropped as long as nobody ends that.
<1>3. ASSUME \A r \in Reads : pc[r] = "unlinking" => pc'[r] = "unlinking"
      PROVE  \A o \in Objects : o \notin BeingDropped' => o \notin BeingDropped
  BY <1>3 DEF BeingDropped, ReadsOf
<1>4. ASSUME UNCHANGED <<held, disk>>, \A r \in Reads : pc[r] = "unlinking" => pc'[r] = "unlinking"
      PROVE  All
  BY <1>2, <1>3, <1>4
<1>5. ASSUME NEW r \in Reads, NEW where, Go(r, where), pc[r] # "unlinking", UNCHANGED <<held, disk>>
      PROVE  All
  BY <1>1, <1>4, <1>5 DEF Go
<1>6. ASSUME UNCHANGED vars PROVE All
  BY <1>4, <1>6 DEF vars
<1>7. ASSUME NEW r \in Reads, Ask(r) \/ Serve(r) \/ Probe(r) \/ ProbeFails(r) \/ ProbeRanged(r)
                              \/ ProbeWhole(r) \/ Arrive(r) \/ Break(r) \/ Finish(r) \/ Drop(r)
      PROVE  All
  <2>1. pc[r] # "unlinking" /\ UNCHANGED <<held, disk>> /\ \E where : Go(r, where)
    BY <1>7 DEF Ask, Serve, Probe, ProbeFails, ProbeRanged, ProbeWhole, Arrive, Break, Finish, Drop,
                GiveUp, copyVars
  <2> QED
    BY <1>5, <2>1
<1>8. ASSUME NEW r \in Reads, Begin(r) PROVE All
  <2>1. pc[r] = "queued" /\ UNCHANGED <<held, disk>> /\ \E where : Go(r, where)
    BY <1>8, HeadQueued DEF Begin, TransfersInv
  <2> QED
    BY <1>5, <2>1
<1>9. ASSUME NEW r \in Reads, LookAgain(r) PROVE All
  <2>1. /\ pc[r] = "growing" /\ UNCHANGED <<held, disk>>
        /\ pc' = pc \/ Go(r, "dropping")
    BY <1>9 DEF LookAgain, GiveUp
  <2> QED
    BY <1>4, <1>5, <2>1
<1>10. ASSUME NEW r \in Reads, Exchange(r) PROVE All
  <2>1. /\ pc[r] = "growing" /\ Go(r, "writing") /\ disk' = disk
        /\ held' = [held EXCEPT ![ObjectOf[r]] = @ + chunk[r]]
    BY <1>10 DEF Exchange, Claimed
  <2>2. \A q \in Reads : pc[q] = "unlinking" => pc'[q] = "unlinking"
    BY <1>1, <2>1 DEF Go
  <2>3. \A o \in Objects : held[o] <= held'[o]
    BY <1>1, <2>1
  <2>4. \A o \in Objects : o \notin BeingDropped' => disk'[o] <= held[o]
    BY <1>2, <1>3, <2>1, <2>2
  <2>5. \A o \in Objects : disk'[o] \in Nat /\ held[o] \in Nat /\ held'[o] \in Nat
    BY <1>1
  <2> QED
    BY <1>2, <2>1, <2>3, <2>4, <2>5
<1>11. ASSUME NEW r \in Reads, Write(r) PROVE All
  <2>1. pc[r] = "writing" /\ held' = held
    BY <1>11 DEF Write
  <2>2. CASE disk' = disk /\ Go(r, "dropping")
    BY <1>5, <2>1, <2>2
  <2>3. CASE disk' = [disk EXCEPT ![ObjectOf[r]] = held[ObjectOf[r]]] /\ Go(r, "copying")
    <3>1. \A q \in Reads : pc[q] = "unlinking" => pc'[q] = "unlinking"
      BY <1>1, <2>1, <2>3 DEF Go
    <3>2. \A o \in Objects : disk'[o] = disk[o] \/ disk'[o] = held[o]
      BY <1>1, <2>3
    <3>3. \A o \in Objects : held[o] \in Nat /\ held[o] <= held[o]
      BY <1>1
    <3> QED
      BY <1>2, <1>3, <2>1, <3>1, <3>2, <3>3
  <2> QED
    BY <1>11, <2>2, <2>3 DEF Write, GiveUp, Size
\* What goes back into the budget first is the claim of an object then being dropped.
<1>12. ASSUME NEW r \in Reads, GiveBack(r) PROVE All
  <2>1. /\ pc[r] = "dropping" /\ Go(r, "unlinking") /\ disk' = disk
        /\ held' = [held EXCEPT ![ObjectOf[r]] = 0]
    BY <1>12 DEF GiveBack
  <2>2. \A q \in Reads : pc[q] = "unlinking" => pc'[q] = "unlinking"
    BY <1>1, <2>1 DEF Go
  <2>3. ObjectOf[r] \in BeingDropped'
    BY <1>1, <2>1 DEF Go, BeingDropped, ReadsOf
  <2>4. \A o \in Objects : o # ObjectOf[r] => held'[o] = held[o]
    BY <1>1, <2>1
  <2> QED
    BY <1>2, <1>3, <2>1, <2>2, <2>3, <2>4
<1>13. ASSUME NEW r \in Reads, Unlink(r) PROVE All
  <2>1. /\ pc' = [pc EXCEPT ![r] = "unserved"] /\ held' = held
        /\ disk' = [disk EXCEPT ![ObjectOf[r]] = 0]
    BY <1>13 DEF Unlink, Go
  <2>2. \A o \in Objects : o # ObjectOf[r] /\ o \in BeingDropped => o \in BeingDropped'
    BY <1>1, <2>1 DEF BeingDropped, ReadsOf
  <2>3. /\ disk'[ObjectOf[r]] = 0
        /\ \A o \in Objects : o # ObjectOf[r] => disk'[o] = disk[o]
    BY <1>1, <2>1
  <2>4. \A o \in Objects : held'[o] \in Nat
    BY <1>1
  <2> QED
    BY <1>1, <1>2, <2>1, <2>2, <2>3, <2>4
<1>14. ASSUME NEW q \in Requests, EndRequest(q) PROVE All
  BY <1>4, <1>14 DEF EndRequest, copyVars
<1>15. ASSUME NEW q \in Requests, NextRequest(q) PROVE All
  <2>1. /\ UNCHANGED <<held, disk>>
        /\ \A r \in Reads : pc'[r] = IF RequestOf[ObjectOf[r]] = q THEN "idle" ELSE pc[r]
        /\ \A o \in Objects : RequestOf[o] = q => Quiet(o)
    BY <1>15 DEF NextRequest
  <2>2. \A r \in Reads : pc[r] = "unlinking" => pc'[r] = "unlinking"
    BY <1>1, <2>1 DEF Quiet, ReadsOf, Ended
  <2> QED
    BY <1>4, <2>1, <2>2
<1>16. ASSUME NEW o \in Objects, DeleteCopy(o) PROVE All
  <2>1. pc' = pc /\ held' = held /\ disk' = [disk EXCEPT ![o] = 0]
    BY <1>16 DEF DeleteCopy
  <2>2. \A x \in Objects : disk'[x] = disk[x] \/ disk'[x] = 0
    BY <1>1, <2>1
  <2>3. \A x \in Objects : held'[x] \in Nat
    BY <1>1
  <2> QED
    BY <1>1, <1>2, <1>3, <2>1, <2>2, <2>3
<1>17. ASSUME NEW o \in Objects, ReleaseCopy(o) PROVE All
  <2>1. /\ source[o] = "deleted" /\ pc' = pc /\ disk' = disk
        /\ held' = [held EXCEPT ![o] = 0]
    BY <1>17 DEF ReleaseCopy
  <2>2. held'[o] = 0 /\ disk'[o] = 0
    BY <1>1, <1>2, <2>1
  <2>3. \A x \in Objects : x # o => held'[x] = held[x]
    BY <1>1, <2>1
  <2> QED
    BY <1>1, <1>2, <1>3, <2>1, <2>2, <2>3
<1>18. All
  <2> HIDE DEF All
  <2>1. CASE Next
    BY <2>1, <1>7, <1>8, <1>9, <1>10, <1>11, <1>12, <1>13, <1>14, <1>15, <1>16, <1>17 DEF Next
  <2> QED
    BY <1>6, <2>1
<1>19. SumFunctionOnSet(disk', Objects \ BeingDropped') <= limits.total
  <2> DEFINE f == disk'
             h == held'
             T == Objects \ BeingDropped'
  <2>1. /\ IsFiniteSet(Objects) /\ T \in SUBSET Objects
        /\ \A o \in Objects : h[o] \in Nat
        /\ \A o \in T : f[o] \in Nat /\ f[o] <= h[o]
    BY <1>1, <1>18, Constants
  <2> HIDE DEF f, h, T
  <2>2. SumFunctionOnSet(f, T) <= SumFunctionOnSet(h, Objects)
    BY <2>1, SumGrows
  <2>3. /\ SumFunctionOnSet(h, Objects) \in Nat /\ SumFunctionOnSet(h, Objects) <= limits.total
    BY ResidentKept DEF h
  <2>4. IsFiniteSet(T)
    BY <2>1, FS_Subset
  <2>5. SumFunctionOnSet(f, T) \in Nat
    BY <2>1, <2>4, SumNat
  <2>6. SumFunctionOnSet(f, T) <= limits.total
    BY <1>1, <2>2, <2>3, <2>5
  <2> QED
    BY <2>6 DEF f, T
<1>20. limits' = limits
  BY PermitsKept
<1>21. resident' <= limits.total
  BY ResidentKept
<1> QED
  BY <1>18, <1>19, <1>20, <1>21 DEF WithinBudget

-----------------------------------------------------------------------------
(* Together.                                                               *)

\* Nothing has been taken at first.
LEMMA InitTransfersInv == Init => TransfersInv
<1> SUFFICES ASSUME Init PROVE TransfersInv
  OBVIOUS
<1>1. /\ limits \in Limits /\ limits.object \in Nat /\ limits.total \in Nat
      /\ limits.copies \in Nat \ {0} /\ permits = limits.copies
  BY Constants DEF Init
<1>2. TypeOK
  BY <1>1 DEF Init, TypeOK, Ended, AtWork
<1>3. SumFunctionOnSet([o \in Objects |-> 0], Objects) = 0
      /\ SumFunctionOnSet([o \in Objects |-> 0], Objects \ BeingDropped) = 0
  <2> DEFINE f == [o \in Objects |-> 0]
  <2>1. /\ IsFiniteSet({}) /\ IsFiniteSet(Objects)
        /\ \A o \in Objects : f[o] = 0
    BY Constants, FS_EmptySet
  <2> HIDE DEF f
  <2>2. ASSUME NEW S \in SUBSET Objects PROVE SumFunctionOnSet(f, S) = 0
    BY <2>1, FS_Subset, SumOfZeros
  <2> QED
    BY <2>2 DEF f
<1>4. {r \in Reads : pc[r] \in Permitted} = {} /\ Cardinality({}) = 0
  BY FS_EmptySet DEF Init, Permitted
<1>5. Accounted
  <2>1. resident = SumFunctionOnSet(held, Objects)
    BY <1>3 DEF Init
  <2>2. permits + Cardinality({r \in Reads : pc[r] \in Permitted}) = limits.copies
    BY <1>1, <1>4
  <2>3. \A o \in Objects : ~ (held[o] + disk[o] > 0)
    BY DEF Init
  <2> QED
    BY <2>1, <2>2, <2>3 DEF Accounted
<1>6. WithinBudget
  BY <1>1, <1>3 DEF Init, WithinBudget
<1>7. OneCopyEach /\ NeverCutShort /\ InStep /\ InLine
  BY <1>1, Constants DEF Init, OneCopyEach, NeverCutShort, InStep, InLine, Working, AtWork
<1> QED
  BY <1>2, <1>5, <1>6, <1>7 DEF TransfersInv

\* Every step keeps every conjunct, by the lemmas above.
LEMMA NextTransfersInv == TransfersInv /\ [Next]_vars => TransfersInv'
<1> SUFFICES ASSUME TransfersInv, [Next]_vars PROVE TransfersInv'
  OBVIOUS
<1>1. queue' \in Seq(Reads) /\ InLine'
  BY InLineKept DEF TransfersInv
<1>2. /\ limits' = limits /\ permits' + Cardinality(Holders') = limits.copies
      /\ permits' \in 0 .. limits.copies
  BY PermitsKept
<1>3. /\ resident' = SumFunctionOnSet(held', Objects)
      /\ resident' \in Nat
  BY ResidentKept
<1>4. TypeOK'
  BY <1>1, <1>2, <1>3, TypeKept DEF TypeOK, Places
<1>5. Accounted'
  BY <1>2, <1>3, ClaimedForCopiesKept DEF Accounted, Holders
<1> QED
  BY <1>1, <1>4, <1>5, WithinBudgetKept, OneCopyEachKept, InStepKept DEF TransfersInv

\* The budget counts what is claimed, the permits what is under way, and no limit is passed, for
\* any number of requests whose copies end in any way and any order (MaterializingStore).
THEOREM TransfersCorrect == Spec => []TransfersInv
  BY InitTransfersInv, NextTransfersInv, PTL DEF Spec

\* What a cell hands out is the whole object and on disk (absorb, Source::Scratch).
THEOREM CopiesAreWhole == Spec => []NeverCutShort
<1>1. TransfersInv => NeverCutShort
  BY DEF TransfersInv
<1> QED
  BY <1>1, TransfersCorrect, PTL
================================================================================
