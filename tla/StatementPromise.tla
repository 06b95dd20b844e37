----------------------------- MODULE StatementPromise -----------------------------
(***************************************************************************)
(* What whoever sends a statement is promised, whichever resource answers  *)
(* and whichever way the rows are written.  The answer is the first rows,  *)
(* up to the bound: all of them, or an answer that says or shows that it   *)
(* is not that.                                                            *)
(***************************************************************************)
EXTENDS Naturals, Sequences

VARIABLES
  asked,    \* rows: those of the statement; bound; overflows: what going over comes to
            \* (refuse, tell, or break off); streams: sent as they are read
  given,    \* the rows the caller has
  verdict   \* what the caller was told: "open" while nothing was

vars == <<asked, given, verdict>>

First(n) == [i \in 1..n |-> i]
Least(a, b) == IF a <= b THEN a ELSE b
Answer == First(Least(asked.rows, asked.bound))

\* Where no rows were asked for there are more; where none are allowed there may be none.
Over ==
  \/ asked.rows > asked.bound
  \/ asked.bound = 0 /\ asked.overflows # "refuse"

Init == given = <<>> /\ verdict = "open"

Give ==
  /\ verdict = "open" /\ asked.streams
  /\ \E n \in Len(given) .. Len(Answer) : given' = First(n)
  /\ UNCHANGED <<asked, verdict>>

\* The whole of it.  No rows were asked for, so having none is not having lost any.
Complete ==
  /\ verdict = "open"
  /\ given' = Answer
  /\ verdict' = IF Over /\ asked.overflows = "tell" THEN "overflow" ELSE "whole"
  /\ ~ Over \/ asked.overflows = "tell" \/ (asked.overflows = "break" /\ asked.bound = 0)
  /\ UNCHANGED asked

\* An error in place of an answer, or nobody there to have one.
Refuse ==
  /\ verdict = "open" /\ given = <<>>
  /\ verdict' \in {"refused", "late"}
  /\ UNCHANGED <<asked, given>>

\* An answer begun and not ended: it says so, or has no end at all.
Break ==
  /\ verdict = "open" /\ asked.streams
  /\ verdict' = "cut" \/ (verdict' = "failed" /\ asked.overflows = "tell")
  /\ UNCHANGED <<asked, given>>

Next == Give \/ Complete \/ Refuse \/ Break

\* Whoever asks is answered.
Answered == <>(verdict # "open")

\* What may be answered, and that something is.
Safe == Init /\ [][Next]_vars
Spec == Safe /\ Answered
===================================================================================
