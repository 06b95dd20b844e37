------------------------------ MODULE MCTransfers ------------------------------
(* Two requests: one whose two reads are of one object, one with an object of its own. *)
EXTENDS TransfersProperties, TLC

CONSTANTS q1, q2, o1, o2, r1, r2, r3

ARequestOf == o1 :> q1 @@ o2 :> q2
AnObjectOf == r1 :> o1 @@ r2 :> o1 @@ r3 :> o2

SomeLimits ==
  {[object |-> 2, total |-> 3, copies |-> n] : n \in 1..2} \cup {[object |-> 0, total |-> 3, copies |-> 1]}
================================================================================
