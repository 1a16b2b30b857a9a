--------------------------- MODULE MCFetchSession ---------------------------
(* Constants of the runs of FetchSession.                                  *)
EXTENDS FetchSession

CONSTANTS a, b

OneAccount  == <<a>>
TwoAccounts == <<a, b>>

(* The first account has a continuation page.                              *)
OnePage  == [x \in Accounts |-> 1]
TwoPages == [x \in Accounts |-> IF x = a THEN 2 ELSE 1]

FirstRowSplit == {<<a, 1, 1>>}
FirstRows     == {<<a, 1, 1>>, <<a, 2, 1>>}
ThreeSplit    == {<<a, 1, 1>>, <<a, 1, 2>>, <<b, 1, 1>>}
=============================================================================
