------------------------------ MODULE DataPath ------------------------------
(***************************************************************************)
(* One command's data from the broker's rows to what the Python program    *)
(* shows: the queries of the accounts in turn (how each one runs is        *)
(* ExecQuery and BalanceQuery; here it is its answer), the documents that  *)
(* are written (how safely is AtomicExport), and their reading.            *)
(***************************************************************************)
EXTENDS BrokerRows, JsonText, TradeLoader, S8180Diagnosis, MockBroker

CONSTANTS
  Jobs,        (* the commands considered                               *)
  LoginInfo,   (* the accounts of the login; all of them are selected   *)
  Rows,        (* for each account, what s8180 may answer               *)
  Splits,      (* what s8118 may answer for a split row; <<>>: it fails *)
  Blocks,      (* what c8201 may answer: [summary, positions, warnings] *)
  Failures,    (* how the failure of a c8201 may be worded              *)
  Outcomes     (* how an attempt at s8180 may end                       *)

(* accounts_                                                               *)
Accounts == ParseLoginInfo(LoginInfo)

ASSUME DataAssumption ==
  /\ \A j \in Jobs : j.kind \in {"executions", "balance", "file", "session"}
  /\ LoginInfo \in Seq(AccountInfo)
  /\ Len(Accounts) \in Nat \ {0} /\ DOMAIN Rows = 1..Len(Accounts)
  /\ \A s \in Splits : s \in Seq(SplitRow)
  /\ \A i \in DOMAIN Rows : \A rows \in Rows[i] : rows \in Seq(ExecRow)
  /\ \A b \in Blocks :
       /\ \A n \in DOMAIN SummaryFrom : b.summary[SummaryFrom[n]] \in RawNumber
       /\ b.positions \in Seq(Range(b.positions))
       /\ \A p \in Range(b.positions), n \in DOMAIN PositionFrom : p[PositionFrom[n]] \in RawNumber
       /\ b.warnings \in Seq(Texts)
  /\ Failures \subseteq Texts
  /\ \A o \in Outcomes : o.what \in Range(Endings)

VARIABLES
  job,        (* the command                                            *)
  stage,      (* "query", "flush", "read", "shown", "none"              *)
  answers,    (* what each account asked so far answered                *)
  queried,    (* queried_accounts                                       *)
  records,    (* executions, or results of balances                     *)
  messages,   (* the array "errors"                                     *)
  diagnostics,(* diagnostics                                            *)
  document,   (* the file that the Python program reads                 *)
  diagnosis,  (* the diagnostic file                                    *)
  shown       (* what the window or dialog got                          *)

vars == <<job, stage, answers, queried, records, messages, diagnostics, document, diagnosis, shown>>

Nothing == [got |-> "nothing"]
Words == <<"plain">>

Turn == Len(answers) + 1
Account == Accounts[Turn]
AtQuery(kind) == stage = "query" /\ job.kind = kind /\ Turn <= Len(Accounts)
Answered(a) == answers' = Append(answers, a)

-----------------------------------------------------------------------------
(* run_batch_query and run_balance_query: one account after the other      *)

(* set_active_account fails: the account is not among those queried.       *)
NotActivated ==
  /\ AtQuery("executions") \/ AtQuery("balance")
  /\ Answered([kind |-> "inactive"])
  /\ messages' = Append(messages, Words)
  /\ UNCHANGED <<job, stage, queried, records, diagnostics, document, diagnosis, shown>>

Mode == ResolvePasswordMode(job.mode)
Requested == ResolveBinding(job.binding)

(* The last call of fetch_s8180_page leaves its diagnostic.                *)
Diagnosed(outcomes) ==
  diagnostics' = Append(diagnostics, Overall(Account, Requested, Attempts(Mode, Requested, outcomes)))

(* The message is one of the program's own words for how the page failed:  *)
(* what the broker said goes into the diagnostic only.                     *)
ExecutionsFailed(outcomes) ==
  /\ AtQuery("executions") /\ ~job.mock
  /\ IsCall(Mode, Requested, outcomes) /\ ~Succeeds(outcomes)
  /\ Answered([kind |-> "failed", outcomes |-> outcomes])
  /\ queried' = Append(queried, Account)
  /\ messages' = Append(messages, Words)
  /\ Diagnosed(outcomes)
  /\ UNCHANGED <<job, stage, records, document, diagnosis, shown>>

(* "<account_no>: " before the text.                                       *)
Told(text) == Words \o text

(* Variant the runs refute: a fallback is only logged.                     *)
FallbackUntold(rows, splits) == <<>>

(* The warnings of the rows whose details s8118 did not tell.              *)
Fallback(rows, splits) ==
  LET Parsed(i) == ParseExecRow(Account.account_no, rows[i])
      fell == {i \in DOMAIN rows : Executed(Parsed(i)) /\ FellBack(Parsed(i), splits)}
  IN [k \in 1..Cardinality(fell) |-> Told(Words)]

(* s8118 is only asked about a row that was split.                         *)
ExecutionsFetched(outcomes, rows, splits) ==
  LET page == ParsePage(Account.account_no, rows)
  IN /\ AtQuery("executions") /\ ~job.mock
     /\ IsCall(Mode, Requested, outcomes) /\ Succeeds(outcomes)
     /\ splits # <<>> => \E i \in DOMAIN page : page[i].sor_split = "Y"
     /\ Answered([kind |-> "rows", rows |-> rows, splits |-> splits])
     /\ queried' = Append(queried, Account)
     /\ records' = records \o [i \in DOMAIN page |-> FileExecution(page[i], splits)]
     /\ messages' = messages \o Fallback(rows, splits)
     /\ Diagnosed(outcomes)
     /\ UNCHANGED <<job, stage, document, diagnosis, shown>>

(* fetch_executions with QV_MOCK: the pages until none follows, no         *)
(* diagnostic.                                                             *)
MockPages ==
  LET first == FillMockS8180(Account.account_no, "")
  IN first.page \o FillMockS8180(Account.account_no, first.next).page

MockFiled(r) ==
  LET details == IF r.sor_split = "Y" THEN FillMockS8118(r.order_no) ELSE r.split_details
  IN [r EXCEPT !.split_details = IF details = <<>> THEN <<OwnDetail(r)>> ELSE details]

ExecutionsMocked ==
  /\ AtQuery("executions") /\ job.mock
  /\ Answered([kind |-> "mock"])
  /\ queried' = Append(queried, Account)
  /\ records' = records \o [i \in DOMAIN MockPages |-> MockFiled(MockPages[i])]
  /\ UNCHANGED <<job, stage, messages, diagnostics, document, diagnosis, shown>>

(* The last warning is told: the program's words, or the broker's.         *)
BalanceFailed(text) ==
  /\ AtQuery("balance") /\ ~job.mock
  /\ Answered([kind |-> "failed"])
  /\ messages' = Append(messages, Told(text))
  /\ UNCHANGED <<job, stage, queried, records, diagnostics, document, diagnosis, shown>>

(* One of the results.                                                     *)
BalanceOf(account, block) ==
  [selected_account |-> account,
   summary |-> ParseSummary(account.account_no, block.summary),
   positions |-> [i \in DOMAIN block.positions |->
                    ParsePosition(account.account_no, block.positions[i])],
   warnings |-> block.warnings]

MockBalance(account) ==
  [selected_account |-> account, summary |-> MockSummary(account.account_no),
   positions |-> MockPositions(account.account_no), warnings |-> <<>>]

BalanceFetched(block) ==
  /\ AtQuery("balance") /\ ~job.mock
  /\ Answered([kind |-> "block", block |-> block])
  /\ records' = Append(records, BalanceOf(Account, block))
  /\ messages' = messages \o [i \in DOMAIN block.warnings |-> Told(block.warnings[i])]
  /\ UNCHANGED <<job, stage, queried, diagnostics, document, diagnosis, shown>>

BalanceMocked ==
  /\ AtQuery("balance") /\ job.mock
  /\ Answered([kind |-> "mock"])
  /\ records' = Append(records, MockBalance(Account))
  /\ UNCHANGED <<job, stage, queried, messages, diagnostics, document, diagnosis, shown>>

-----------------------------------------------------------------------------
(* The files                                                               *)

AllAsked == stage = "query" /\ Turn > Len(Accounts)
SomeAnswered == \E i \in DOMAIN answers : answers[i].kind \notin {"inactive", "failed"}

Root == IF Len(queried) > 1 THEN "MULTI" ELSE queried[1].account_no

WriteTrades ==
  /\ AllAsked /\ job.kind = "executions"
  /\ document' = IF SomeAnswered
                 THEN TradeDocument("day", Root, queried, records, messages)
                 ELSE document
  /\ stage' = "flush"
  /\ UNCHANGED <<job, answers, queried, records, messages, diagnostics, diagnosis, shown>>

(* After the trades, or instead of them when every account failed.         *)
FlushDiagnostics ==
  /\ stage = "flush"
  /\ diagnosis' = IF job.diagnose /\ diagnostics # <<>>
                  THEN DiagnosticDocument("day", diagnostics)
                  ELSE diagnosis
  /\ stage' = IF SomeAnswered THEN "read" ELSE "none"
  /\ UNCHANGED <<job, answers, queried, records, messages, diagnostics, document, shown>>

WriteBalances ==
  /\ AllAsked /\ job.kind = "balance"
  /\ document' = IF SomeAnswered THEN BalanceDocument(records, messages) ELSE document
  /\ stage' = IF SomeAnswered THEN "read" ELSE "none"
  /\ UNCHANGED <<job, answers, queried, records, messages, diagnostics, diagnosis, shown>>

(* write_accounts_atomic into a file, write_session_accounts to the pipe.  *)
WriteAccounts ==
  /\ stage = "query" /\ job.kind \in {"file", "session"}
  /\ document' = IF job.kind = "file" THEN AccountsDocument(Accounts) ELSE SessionAccounts(Accounts)
  /\ stage' = "read"
  /\ UNCHANGED <<job, answers, queried, records, messages, diagnostics, diagnosis, shown>>

-----------------------------------------------------------------------------

(* load_from_json, on_balance_clicked and _parse_accounts_payload: what    *)
(* cannot be read is an error dialog.                                      *)
Read ==
  /\ stage = "read"
  /\ LET loaded == JsonLoads(document)
     IN shown' = IF ~loaded.ok THEN [got |-> "error"]
                 ELSE CASE job.kind = "executions" ->
                             [got |-> "trades", trades |-> ParseTrades(loaded.value),
                              alert |-> loaded.value.errors]
                        [] job.kind = "balance" ->
                             [got |-> "balances", balances |-> ParseBalanceAccounts(loaded.value),
                              alert |-> loaded.value.errors]
                        [] OTHER -> [got |-> "accounts", accounts |-> ParseAccounts(loaded.value)]
  /\ stage' = "shown"
  /\ UNCHANGED <<job, answers, queried, records, messages, diagnostics, document, diagnosis>>

Init ==
  /\ job \in Jobs
  /\ stage = "query"
  /\ answers = <<>> /\ queried = <<>> /\ records = <<>> /\ messages = <<>> /\ diagnostics = <<>>
  /\ document = <<>> /\ diagnosis = <<>> /\ shown = Nothing

RowsNow == IF Turn <= Len(Accounts) THEN Rows[Turn] ELSE {}
Calls == {<<o>> : o \in Outcomes} \cup (Outcomes \X Outcomes)

Next ==
  \/ NotActivated
  \/ \E outcomes \in Calls : ExecutionsFailed(outcomes)
  \/ \E outcomes \in Calls, rows \in RowsNow, splits \in Splits :
       ExecutionsFetched(outcomes, rows, splits)
  \/ ExecutionsMocked
  \/ \E text \in Failures : BalanceFailed(text)
  \/ \E block \in Blocks : BalanceFetched(block)
  \/ BalanceMocked
  \/ WriteTrades
  \/ FlushDiagnostics
  \/ WriteBalances
  \/ WriteAccounts
  \/ Read

Spec == Init /\ [][Next]_vars

-----------------------------------------------------------------------------

GaveData(answer) == answer.kind \notin {"inactive", "failed"}
Asked(kind) == {i \in DOMAIN answers : answers[i].kind = kind}

(* The accounts that gave data, and those that s8180 was sent for; and the *)
(* place in a list that has one entry for each of them.                    *)
Gave == {i \in DOMAIN answers : GaveData(answers[i])}
Tried == Asked("rows") \cup Asked("failed")
PlaceIn(I, i) == Cardinality({k \in I : k <= i})

(* The texts of a document that come from the broker.                      *)
TextsOf(r) == {r[n] : n \in DOMAIN r \cap Verbatim}
BrokerTexts(kind) ==
  LET named == IF kind = "executions" THEN queried
               ELSE IF kind = "balance" THEN [i \in DOMAIN records |-> records[i].selected_account]
               ELSE Accounts
      inner == IF kind # "balance" THEN {}
               ELSE UNION {{records[i].summary} \cup Range(records[i].positions) : i \in DOMAIN records}
  IN Range(messages) \cup UNION {TextsOf(r) : r \in Range(named) \cup Range(records) \cup inner}

Spoilt(texts) == \E text \in texts : "control" \in Range(text)

Written ==
  CASE job.kind = "executions" ->
         [trade_date |-> "day", account_no |-> Root, status |-> TradeStatus(messages),
          errors |-> messages, accounts |-> queried, executions |-> records]
    [] job.kind = "balance" ->
         [status |-> BalanceStatus(records, messages), errors |-> messages,
          balance_accounts |-> records]
    [] job.kind = "file" -> [accounts |-> Accounts]
    [] job.kind = "session" -> [ok |-> TRUE, accounts |-> Accounts]

(* The document the Python program reads is one that json.loads takes, and *)
(* says exactly what fetch.exe knew - all quotes, commas and brackets of   *)
(* the hand-made writers in place - unless a text of the broker holds a    *)
(* control character other than a line break or a tab: then it cannot be   *)
(* read at all, and never says something else.                             *)
Readable ==
  stage = "read" =>
    LET loaded == JsonLoads(document)
    IN IF Spoilt(BrokerTexts(job.kind)) THEN ~loaded.ok ELSE loaded.ok /\ loaded.value = Written

(* So is the diagnostic file: one entry for each account queried, and for  *)
(* a single account the entry's two members again at the top.              *)
DiagnosisReadable ==
  (stage \in {"read", "none"} /\ diagnosis # <<>>) =>
    LET loaded == JsonLoads(diagnosis)
        texts == UNION {TextsOf(d) \cup TextsOf(d.selected_account)
                          \cup UNION {TextsOf(a) : a \in Range(d.attempts)} : d \in Range(diagnostics)}
    IN IF Spoilt(texts) THEN ~loaded.ok
       ELSE /\ loaded.ok
            /\ Len(loaded.value.account_diagnostics) = Len(diagnostics)
            /\ \A i \in DOMAIN diagnostics :
                 loaded.value.account_diagnostics[i].s8180_diagnostic.attempts = diagnostics[i].attempts
            /\ ("s8180_diagnostic" \in DOMAIN loaded.value) = (Len(diagnostics) = 1)

(* What the broker executed for an account, row by row; the shares of an   *)
(* order that a list of such rows says were bought or sold.                *)
Executions(account, answer) ==
  IF answer.kind = "rows"
  THEN [j \in DOMAIN answer.rows |->
          [key |-> <<account.account_no, NormalizeOrderNo(answer.rows[j].order)>>,
           qty |-> ParseNumber(answer.rows[j].executed), side |-> InferSide(answer.rows[j].kind)]]
  ELSE IF answer.kind = "mock"
  THEN [j \in 1..2 |-> [key |-> <<account.account_no, j>>, qty |-> IF j = 1 THEN 100 ELSE 50,
                        side |-> IF j = 1 THEN "buy" ELSE "sell"]]
  ELSE <<>>

IsTrade(x) == x.qty > 0 /\ x.side # "none"
Shares(xs, k) == Total([j \in DOMAIN xs |-> IF IsTrade(xs[j]) /\ xs[j].key = k THEN xs[j].qty ELSE 0])

ExecutedShares(k) ==
  Total([i \in DOMAIN answers |-> Shares(Executions(Accounts[i], answers[i]), k)])
TradedRows ==
  {x \in UNION {Range(Executions(Accounts[i], answers[i])) : i \in DOMAIN answers} : IsTrade(x)}

(* No executed share is lost or counted twice between the broker and the   *)
(* window, or filed under another account or order: what is shown for an   *)
(* order of an account is all that its rows executed, over pages, splits   *)
(* and rows of one order, and an account that failed contributes nothing.  *)
(* A row that reads as neither a purchase nor a sale is no trade: the      *)
(* loader leaves it out.                                                   *)
Conserved ==
  shown.got = "trades" =>
    /\ DOMAIN shown.trades = {x.key : x \in TradedRows}
    /\ \A x \in TradedRows : x.side = shown.trades[x.key].side
    /\ \A k \in DOMAIN shown.trades : shown.trades[k].total.qty = ExecutedShares(k)

(* What Conserved takes for granted of the broker: the details of a split  *)
(* order add up to what the order executed, and an order number stands for *)
(* purchases or for sales, not for both.                                   *)
SplitsAddUp ==
  \A splits \in Splits :
    ParseSplits(splits) # <<>> =>
      \A i \in DOMAIN Rows : \A rows \in Rows[i] : \A row \in Range(rows) :
        row.split = "Y" /\ ParseNumber(row.executed) > 0 =>
          ParseNumber(row.executed)
            = Total([j \in DOMAIN ParseSplits(splits) |-> ParseSplits(splits)[j].exec_qty])

OneSide ==
  \A i \in DOMAIN Rows, j \in DOMAIN Rows : Accounts[i].account_no = Accounts[j].account_no =>
    \A s \in Rows[i], t \in Rows[j] : \A a \in Range(s), b \in Range(t) :
      (/\ ParseNumber(a.executed) > 0 /\ ParseNumber(b.executed) > 0
       /\ NormalizeOrderNo(a.order) = NormalizeOrderNo(b.order)
       /\ InferSide(a.kind) # "none" /\ InferSide(b.kind) # "none")
      => InferSide(a.kind) = InferSide(b.kind)

Size(x) == IF x < 0 THEN -x ELSE x

(* The average price of a trade and its amount are rounded apart, one from *)
(* the prices of the details and one from their amounts: they never drift  *)
(* further apart than one won a share.                                     *)
AmountsAgree ==
  shown.got = "trades" =>
    \A k \in DOMAIN shown.trades :
      LET t == shown.trades[k].total IN Size(t.amount - t.price * t.qty) <= t.qty

(* The user is told that something is missing exactly when an account was  *)
(* not queried or failed, the details of a split order could not be had,   *)
(* or the broker warned about a balance.                                   *)
PartialIsReported ==
  shown.got \in {"trades", "balances"} =>
    ((shown.alert # <<>>) <=>
       \/ \E i \in DOMAIN answers : ~GaveData(answers[i])
       \/ \E i \in Asked("rows") :
            /\ ParseSplits(answers[i].splits) = <<>>
            /\ \E row \in Range(answers[i].rows) : row.split = "Y" /\ ParseNumber(row.executed) > 0
       \/ \E i \in Asked("block") : answers[i].block.warnings # <<>>)

(* What a diagnosis says of a call whose last attempt ended in a failure:  *)
(* the credentials, the connection or the missing trade password are       *)
(* blamed only for that, and the words of the broker are those of the      *)
(* attempt that failed last, never of one before it.                       *)
FailureTold(d, end) ==
  /\ (d.candidate_cause = "credential_rejected_after_full_password_payload")
       = (end.what = "rejected")
  /\ (d.candidate_cause = "transport_or_contract_issue") = (end.what \in {"nowait", "timeout"})
  /\ (d.candidate_cause = "missing_trade_password") = (end.what = "nopassword")
  /\ d.query_submitted = (end.what \in {"nowait", "timeout", "rejected", "error"})
  /\ end.what = "rejected" /\ end.message # <<>> => d.failure_reason = end.message
  /\ end.what # "rejected" => d.failure_reason = end.text

(* Each account that s8180 was sent for has its diagnosis, in turn.  It    *)
(* says that s8180 succeeded exactly when the account's executions are in  *)
(* the file, blames the hash binding exactly when the other binding was    *)
(* rejected first, gives no reason of failure after a success, and tells a *)
(* failure by the attempt that failed last.                                *)
DiagnosticTrue ==
  job.kind = "executions" =>
    /\ Len(diagnostics) = Cardinality(Tried)
    /\ \A i \in Tried :
         LET d == diagnostics[PlaceIn(Tried, i)]
             succeeded == answers[i].kind = "rows"
         IN /\ d.selected_account = Accounts[i]
            /\ d.query_succeeded = succeeded
            /\ (d.classification \in {"success", "success_after_binding_switch"}) = succeeded
            /\ (d.candidate_cause = "hash_binding_mismatch") = (succeeded /\ Len(d.attempts) = 2)
            /\ succeeded => d.failure_reason = <<>>
            /\ ~succeeded => FailureTold(d, Last(answers[i].outcomes))

Near(x, raw) == raw.form = "number" => Size(10 * x - raw.tenths) <= 5

(* The dialog gets one balance for each account that gave one, in turn,    *)
(* with all its positions, and every number under the name it was written  *)
(* with, no further than half a unit from the broker's field.              *)
NumbersArrive ==
  shown.got = "balances" =>
    /\ Len(shown.balances) = Cardinality(Gave)
    /\ \A i \in Gave :
         LET b == shown.balances[PlaceIn(Gave, i)]
             block == answers[i].block
         IN /\ b.account = Accounts[i].account_no
            /\ DOMAIN b.summary = SummaryShown
            /\ \A p \in DOMAIN b.positions : DOMAIN b.positions[p] = PositionShown
            /\ answers[i].kind = "block" =>
                 /\ Len(b.positions) = Len(block.positions)
                 /\ \A n \in DOMAIN SummaryFrom :
                      Near(b.summary[n], block.summary[SummaryFrom[n]])
                 /\ \A p \in DOMAIN b.positions, n \in DOMAIN PositionFrom :
                      Near(b.positions[p][n], block.positions[p][PositionFrom[n]])
=============================================================================
