----------------------------- MODULE StreamedBody -----------------------------
(***************************************************************************)
(* A body written as its rows arrive: the head, each batch, and an end     *)
(* that says why the rows stopped where they stopped early, in the formats *)
(* that have somewhere to say it.  A format that has none ends the body    *)
(* without its terminating chunk, as does an encoder that fails.           *)
(***************************************************************************)
EXTENDS Sequences

VARIABLES
  writing,   \* Writing::phase, "none" before there is a body
  sent,      \* the rows in the chunks sent
  closed     \* how the body ended: "whole", "short" and saying so, or "cut"

body == <<writing, sent, closed>>

InitBody == writing = "none" /\ sent = <<>> /\ closed = "open"

Begin == writing = "none" /\ writing' = "begin" /\ UNCHANGED <<sent, closed>>

SendHead == writing = "begin" /\ writing' = "rows" /\ UNCHANGED <<sent, closed>>

Close(how) == writing' = "end" /\ closed' = how

\* A batch is encoded and sent, or the encoder fails and nothing is left to write with.
SendRows(rows) ==
  /\ writing = "rows"
  /\ \/ sent' = sent \o rows /\ UNCHANGED <<writing, closed>>
     \/ Close("cut") /\ UNCHANGED sent

FinishBody(stopped, says) ==
  /\ writing = "rows"
  /\ Close(CASE ~ stopped -> "whole" [] stopped /\ says -> "short" [] OTHER -> "cut")
  /\ UNCHANGED sent

\* The request's time is up, or whoever was reading is gone.
CutOff ==
  /\ writing \in {"begin", "rows"}
  /\ Close("cut")
  /\ UNCHANGED sent
===============================================================================
