---------------------------- MODULE MCFetchMain ----------------------------
(* Constants of the runs of FetchMain.                                     *)
EXTENDS FetchMain, TLC

Processes == Permutations(Procs)
=============================================================================
