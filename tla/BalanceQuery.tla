---------------------------- MODULE BalanceQuery ----------------------------
(***************************************************************************)
(* QVQuery::fetch_balance for the active account: one c8201 exchange, not  *)
(* retried.  Its outblock1 carries the positions, its outblock the         *)
(* summary; without a summary the account counts as failed.                *)
(***************************************************************************)
EXTENDS EventPump

CONSTANT BalanceBase  (* first tr_index of c8201 in a command (820100)    *)

ASSUME BalanceAssumption == BalanceBase \in Nat

VARIABLES
  nextBalance, (* next_balance_tr_index_                                *)
  positions,   (* the requests whose positions are in out.positions     *)
  summary      (* the request whose summary was seen, NoRequest if none *)

balanceVars == <<nextBalance, positions, summary>>

(* An element of balance_accounts[].                                       *)
Balance == [acct: Accounts \cup {NoAccount}, positions: Seq(Request), summary: Request]

BalanceStart ==
  /\ positions' = <<>>
  /\ summary' = NoRequest

SendBalance ==
  /\ pc = "send"
  /\ nextBalance' = nextBalance + 1
  /\ LET r == [cmd |-> cmd, kind |-> "c8201", acct |-> active, page |-> 0,
               item |-> 0, tr |-> nextBalance]
     IN  /\ Begin(r)
         /\ \/ Submit(r) /\ pc' = "await" /\ outcome' = "none"
            \/ pending' = pending /\ pc' = "judge" /\ outcome' = "nohash"
  /\ UNCHANGED <<positions, summary>>

BalanceData(e) ==
  /\ Awaiting("c8201")
  /\ Pop(e)
  /\ e.code = "data" /\ Own(e)
  /\ IF e.block.name = "outblock1"
       THEN positions' = Append(positions, e.from) /\ summary' = summary
       ELSE positions' = positions /\ summary' = e.from
  /\ UNCHANGED <<flowVars, nextBalance>>

(* A message is a warning here, also the one that refuses the password.    *)
BalanceMessage(e) ==
  /\ Awaiting("c8201")
  /\ Pop(e)
  /\ e.code = "message" /\ Own(e)
  /\ UNCHANGED <<flowVars, balanceVars>>

BalanceComplete(e) ==
  /\ Awaiting("c8201")
  /\ Pop(e)
  /\ e.code = "complete" /\ Own(e)
  /\ Conclude("ok")
  /\ UNCHANGED <<msgCode, balanceVars>>

BalanceSucceeded ==
  pc = "judge" /\ req.kind = "c8201" /\ outcome = "ok" /\ summary # NoRequest

BalanceFailed ==
  pc = "judge" /\ req.kind = "c8201" /\ ~(outcome = "ok" /\ summary # NoRequest)

-----------------------------------------------------------------------------

BalanceInit ==
  /\ nextBalance = BalanceBase
  /\ positions = <<>>
  /\ summary = NoRequest

BalanceEvent(e) == BalanceData(e) \/ BalanceMessage(e) \/ BalanceComplete(e)

BalanceStep == SendBalance \/ \E e \in queue : BalanceEvent(e)

BalanceTypeOK ==
  /\ nextBalance \in Nat /\ nextBalance >= BalanceBase
  /\ positions \in Seq(Request)
  /\ summary \in Request \cup {NoRequest}
=============================================================================
