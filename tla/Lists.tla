------------------------------- MODULE Lists -------------------------------
(***************************************************************************)
(* Two loops over a list that both programs have everywhere: one takes     *)
(* some of the entries over, in order, the other adds numbers up.  Each is *)
(* a function of how far the loop has come, so that what it computes can   *)
(* be proved.                                                              *)
(***************************************************************************)
EXTENDS Integers, Sequences

(* The entries of s at the places in I.                                    *)
Kept(s, I) ==
  LET kept[i \in 0..Len(s)] ==
        IF i = 0 THEN <<>> ELSE IF i \in I THEN Append(kept[i - 1], s[i]) ELSE kept[i - 1]
  IN kept[Len(s)]

Total(s) ==
  LET total[i \in 0..Len(s)] == IF i = 0 THEN 0 ELSE total[i - 1] + s[i]
  IN total[Len(s)]
=============================================================================
