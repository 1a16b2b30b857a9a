----------------------------- MODULE MCQvLogin -----------------------------
(* Constants of the runs of QvLogin.                                       *)
EXTENDS QvLogin

CONSTANTS u, v, a, b, NoPw, t

(* Two accounts that may be listed in either order, and a user whose first *)
(* account has no number, or who has none.                                 *)
TwoUsers == [x \in Users |-> IF x = u THEN {<<a, b>>, <<b, a>>} ELSE {<<NoNumber, a>>, <<>>}]

(* The first entry of the list has no number.                              *)
WithGap == [x \in Users |-> {<<NoNumber, a, b>>}]

SecondOverridden == <<Blank, t>>
AllOrNone == {{"index", "number", "order"}, {"order", "index"}}
=============================================================================
