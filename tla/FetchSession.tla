---------------------------- MODULE FetchSession ----------------------------
(***************************************************************************)
(* The commands of one fetch.exe --session process after LOGIN: QUERY runs *)
(* ExecQuery, BALANCE runs BalanceQuery, for every selected account in     *)
(* turn (run_batch_query, run_balance_query), over the one g_event_queue   *)
(* of the process.  With MaxCommands = 1 it is the batch mode of main().   *)
(***************************************************************************)
EXTENDS ExecQuery, BalanceQuery

CONSTANTS
  Batch,       (* the selections of a command, in order                 *)
  Jobs,        (* the commands used, of "QUERY" and "BALANCE"           *)
  MaxCommands  (* bound: commands of a session                          *)

ASSUME SessionAssumption ==
  /\ Batch \in Seq(Accounts) /\ Batch # <<>>
  /\ Jobs \subseteq {"QUERY", "BALANCE"}
  /\ MaxCommands \in Nat

VARIABLES
  job,      (* the command being served                                 *)
  turn,     (* index in Batch of the account being queried              *)
  out,      (* executions, the rows of the accounts that succeeded      *)
  balances, (* results, likewise                                        *)
  failed,   (* accounts with a message in errors[]                      *)
  done,     (* success_count                                            *)
  reply     (* the answer to the last command; with "ok" its JSON holds *)
            (* out or balances, and failed in errors[]                  *)

batchVars == <<out, balances, failed, done>>
vars == <<pumpVars, flowVars, execVars, balanceVars, job, turn, batchVars, reply>>

-----------------------------------------------------------------------------

(* A new QVQuery: the tr_index counters start over, the queue does not.    *)
StartCommand(j) ==
  /\ pc = "idle" /\ cmd < MaxCommands
  /\ pc' = "activate"
  /\ cmd' = cmd + 1
  /\ job' = j
  /\ turn' = 1
  /\ nextExec' = ExecBase /\ nextSplit' = SplitBase /\ nextBalance' = BalanceBase
  /\ out' = <<>> /\ balances' = <<>> /\ failed' = {} /\ done' = 0
  /\ reply' = "none"
  /\ UNCHANGED <<pumpVars, active, req, sawTerminal, outcome, msgCode, place, yield,
                 at, details, found, positions, summary>>

(* set_active_account, then into fetch_executions or fetch_balance.        *)
Activate ==
  /\ pc = "activate"
  /\ pc' = "send"
  /\ active' = Batch[turn]
  /\ UNCHANGED <<pumpVars, cmd, req, sawTerminal, outcome, msgCode, execVars, balanceVars,
                 job, turn, batchVars, reply>>

(* set_active_account refuses the selection.                               *)
RefuseAccount ==
  /\ pc = "activate"
  /\ pc' = "next"
  /\ failed' = failed \cup {Batch[turn]}
  /\ UNCHANGED <<pumpVars, cmd, active, req, sawTerminal, outcome, msgCode, execVars,
                 balanceVars, job, turn, out, balances, done, reply>>

Query(step) == job = "QUERY" /\ step /\ UNCHANGED <<balanceVars, job, turn, batchVars, reply>>

AskBalance(step) == job = "BALANCE" /\ step /\ UNCHANGED <<execVars, job, turn, batchVars, reply>>

(* A step of the wait loop or the drain that is the same for every TR.     *)
Exchange(step) == step /\ UNCHANGED <<execVars, balanceVars, job, turn, batchVars, reply>>

(* The account's rows join those of the command, all of them or none; the  *)
(* locals of its query end.                                                *)
AccountDone ==
  /\ \/ /\ ExecSucceeded
        /\ out' = out \o found /\ done' = done + 1
        /\ UNCHANGED <<balances, failed>>
     \/ /\ BalanceSucceeded
        /\ balances' = Append(balances, [acct |-> active, positions |-> positions,
                                        summary |-> summary])
        /\ done' = done + 1
        /\ UNCHANGED <<out, failed>>
     \/ /\ ExecFailed \/ BalanceFailed
        /\ failed' = failed \cup {active}
        /\ UNCHANGED <<out, balances, done>>
  /\ Leave
  /\ FirstPage
  /\ BalanceStart
  /\ pc' = "next"
  /\ UNCHANGED <<pumpVars, counters, nextBalance, job, turn, reply>>

NextAccount ==
  /\ pc = "next"
  /\ IF turn < Len(Batch)
       THEN pc' = "activate" /\ turn' = turn + 1
       ELSE pc' = "export" /\ turn' = turn
  /\ UNCHANGED <<pumpVars, cmd, active, req, sawTerminal, outcome, msgCode, execVars,
                 balanceVars, job, batchVars, reply>>

(* The end of run_batch_query and run_balance_query: nothing is written    *)
(* when every account failed; write_atomic may fail (AtomicExport has its  *)
(* steps).                                                                 *)
Export ==
  /\ pc = "export"
  /\ pc' = "idle"
  /\ \/ done > 0 /\ reply' = "ok"
     \/ reply' = "error"
  /\ UNCHANGED <<pumpVars, cmd, active, req, sawTerminal, outcome, msgCode, execVars,
                 balanceVars, job, turn, batchVars>>

-----------------------------------------------------------------------------

Init ==
  /\ PumpInit /\ ExecInit /\ BalanceInit
  /\ job = "none" /\ turn = 1
  /\ out = <<>> /\ balances = <<>> /\ failed = {} /\ done = 0
  /\ reply = "none"

Serve ==
  \/ Activate \/ RefuseAccount
  \/ Query(ExecStep) \/ AskBalance(BalanceStep)
  \/ Exchange(TimeOut) \/ Exchange(DrainTurn)
  \/ \E e \in queue : Exchange(ReceiveError(e)) \/ Exchange(IgnoreEvent(e))
  \/ AccountDone \/ NextAccount \/ Export

Deliver == Broker /\ UNCHANGED <<flowVars, execVars, balanceVars, job, turn, batchVars, reply>>

Next == (\E j \in Jobs : StartCommand(j)) \/ Serve \/ Deliver

Spec == Init /\ [][Next]_vars

(* The query thread runs and its clock advances.  Nothing is assumed of    *)
(* the broker.                                                             *)
FairSpec == Spec /\ WF_vars(Serve)

-----------------------------------------------------------------------------
(* Properties.                                                             *)

SessionTypeOK ==
  /\ job \in {"none", "QUERY", "BALANCE"}
  /\ turn \in 1..Len(Batch)
  /\ out \in Seq(Execution)
  /\ balances \in Seq(Balance)
  /\ failed \subseteq Accounts
  /\ done \in Nat
  /\ reply \in {"none", "ok", "error"}

(* Every variable has its type.                                            *)
TypeOK == PumpTypeOK /\ ExecTypeOK /\ BalanceTypeOK /\ SessionTypeOK

(* The data of x answers requests of this command about the account x is   *)
(* filed under, and its details belong to its own row.                     *)
OwnExecution(x) ==
  /\ x.row.from.cmd = cmd => x.row.from.kind = "s8180" /\ x.row.from.acct = x.acct
  /\ \A d \in x.details :
       d.cmd = cmd => /\ d.kind = "s8118" /\ d.acct = x.acct
                      /\ d.page = x.row.from.page /\ d.item = x.row.n

OwnBalance(b) ==
  \A r \in {b.summary} \cup {b.positions[i] : i \in DOMAIN b.positions} :
    r.cmd = cmd => r.kind = "c8201" /\ r.acct = b.acct

(* Whatever a timed-out attempt, an abandoned binding or another account   *)
(* of the same command still receives, no execution and no balance is      *)
(* filed under an account that this command did not ask about it: within   *)
(* a command the tr_index test of the wait loops identifies the request.   *)
OwnAnswers ==
  /\ \A i \in DOMAIN out : OwnExecution(out[i])
  /\ \A i \in DOMAIN balances : OwnBalance(balances[i])

(* No data of an earlier command is filed in this one.                     *)
NoForeignRows ==
  /\ \A i \in DOMAIN out :
       /\ out[i].row.from.cmd = cmd
       /\ \A d \in out[i].details : d.cmd = cmd
  /\ \A i \in DOMAIN balances :
       /\ balances[i].summary.cmd = cmd
       /\ \A k \in DOMAIN balances[i].positions : balances[i].positions[k].cmd = cmd

RowsOf(acct) == {i \in DOMAIN out : out[i].acct = acct}

(* The exported JSON of a QUERY: an account is either named in errors[]    *)
(* and has no row, or has every row of every page exactly once, the pages  *)
(* in order: retries, rebinding and failed s8118 lookups neither lose nor  *)
(* repeat a row.  (OwnAnswers says whose its details are.)                 *)
WholeAccounts ==
  (job = "QUERY" /\ reply = "ok") =>
    \A acct \in {Batch[i] : i \in DOMAIN Batch} :
      LET mine == RowsOf(acct)
      IN  IF acct \in failed
            THEN mine = {}
            ELSE /\ Cardinality(mine) = LastPage[acct] * Chunks
                 /\ { <<out[i].row.from.page, out[i].row.n>> : i \in mine }
                      = (1..LastPage[acct]) \X (1..Chunks)
                 /\ \A i, j \in mine :
                      i < j => out[i].row.from.page <= out[j].row.from.page

(* The pages of the selections before the i-th.                            *)
PagesBefore(i) == Cardinality(UNION {{k} \X (1..LastPage[Batch[k]]) : k \in 1..(i - 1)})

(* Bindings tried in an attempt, and tries of a page.                      *)
Bindings == IF AutoProbe THEN 2 ELSE 1
Tries == MaxAttempts * Bindings

(* Tries of this page before the current one.                              *)
Tried == (attempt - 1) * Bindings + (IF binding = "account_no" THEN 1 ELSE 0)

(* No page is asked for that the account does not have.  The s8180         *)
(* requests for the page in hand are no more than the attempts and the     *)
(* bindings it has got to, on top of at most MaxAttempts under each        *)
(* binding for every page before it: neither a refusal nor a timeout is    *)
(* retried without end, or twice under the same binding and attempt.       *)
RequestBudget ==
  pc \in {"send", "await", "drain", "judge", "rows"} =>
    /\ page <= LastPage[active]
    /\ nextExec - ExecBase <= (PagesBefore(turn) + (page - 1)) * Tries
                              + (Tried + (IF pc = "send" THEN 0 ELSE 1))

(* Every command is answered: with a broker that never answers, answers    *)
(* late or has gone, the timeouts and the drain deadlines end every        *)
(* exchange and the retries run out.                                       *)
Answered == (pc # "idle") ~> (pc = "idle")

-----------------------------------------------------------------------------
(* The inductive invariant behind OwnAnswers (proved in                    *)
(* FetchSessionProofs).                                                    *)

(* Every request the broker may still answer or whose answer is queued.    *)
Issued == {p.req : p \in pending} \cup {e.from : e \in {f \in queue : ~IsConnectionEvent(f)}}

(* A request of this command fits its job and used a tr_index already      *)
(* taken from its counter.                                                 *)
Known(r) ==
  /\ r \in Request /\ r.cmd <= cmd
  /\ r.cmd = cmd =>
       \/ job = "QUERY" /\ r.kind = "s8180" /\ r.tr < nextExec
       \/ job = "QUERY" /\ r.kind = "s8118" /\ SplitBase <= r.tr /\ r.tr < nextSplit
       \/ job = "BALANCE" /\ r.kind = "c8201" /\ r.tr < nextBalance

QueueInv ==
  /\ IsFiniteSet(queue)
  /\ \A e \in queue : ~IsConnectionEvent(e) => e.tr = e.from.tr

IssuedInv == \A r \in Issued : Known(r)

(* The tr_index of the running exchange is no other request's.             *)
CurrentInv ==
  pc \in {"await", "drain"} =>
    /\ Known(req) /\ req.cmd = cmd /\ req.acct = active
    /\ \A r \in Issued : r.cmd = cmd /\ r.tr = req.tr => r = req

(* While s8118 runs, at is the row it was asked for.                       *)
SplitInv ==
  /\ pc = "rows" => at \in Nat \ {0} /\ details = {} /\ job = "QUERY"
  /\ pc = "send" => details = {}
  /\ pc \in {"await", "drain", "judge"} =>
       IF req.kind = "s8118"
         THEN /\ at \in DOMAIN rows /\ job = "QUERY"
              /\ req.page = rows[at].from.page /\ req.item = rows[at].n
              /\ \A d \in details : d.cmd = cmd =>
                   d.kind = "s8118" /\ d.acct = active /\ d.page = req.page /\ d.item = req.item
         ELSE details = {}

(* The account being queried has collected only its own answers.           *)
AccountInv ==
  /\ \A i \in DOMAIN rows :
       rows[i].from.cmd = cmd => rows[i].from.kind = "s8180" /\ rows[i].from.acct = active
  /\ \A i \in DOMAIN found : OwnExecution(found[i])
  /\ \A i \in DOMAIN positions :
       positions[i].cmd = cmd => positions[i].kind = "c8201" /\ positions[i].acct = active
  /\ summary # NoRequest /\ summary.cmd = cmd => summary.kind = "c8201" /\ summary.acct = active

(* An account is active while its query runs.                              *)
ActiveInv == pc \in {"send", "await", "drain", "judge", "rows"} => active \in Accounts

(* Between accounts nothing collected is left over.                        *)
FreshInv ==
  pc \in {"idle", "activate", "next", "export"} =>
    rows = <<>> /\ found = <<>> /\ details = {} /\ positions = <<>> /\ summary = NoRequest

IInv ==
  /\ TypeOK /\ QueueInv /\ IssuedInv /\ CurrentInv
  /\ SplitInv /\ AccountInv /\ ActiveInv /\ FreshInv /\ OwnAnswers

=============================================================================
