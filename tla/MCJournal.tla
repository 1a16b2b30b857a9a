----------------------------- MODULE MCJournal -----------------------------
(* Constants of the runs of Journal.                                       *)
EXTENDS Journal

CONSTANTS a, n, d, e, r

(* An order number of one day is given again on the other.                 *)
SameNumber == [x \in Days |-> {<<a, n>>}]

NoOldReason == [k \in Days \X Numbers |-> NoRow]

OldReason == [k \in Days \X Numbers |-> IF k[1] = d THEN r ELSE NoRow]
=============================================================================
