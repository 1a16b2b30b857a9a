------------------------- MODULE MCSessionProtocol -------------------------
(* Constants of the runs of SessionProtocol.                               *)
EXTENDS SessionProtocol

(* Up to two accounts, any of them refused.                                *)
UpToTwo == {<<"sel">>, <<"badsel">>, <<"sel", "sel">>, <<"badsel", "sel">>, <<"sel", "badsel">>}
OneSel  == {<<"sel">>}
=============================================================================
