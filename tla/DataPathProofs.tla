--------------------------- MODULE DataPathProofs ---------------------------
(***************************************************************************)
(* What the window and the diagnostic file say of the accounts, for any    *)
(* accounts, rows, blocks, texts and outcomes of the broker.  That a       *)
(* document says what fetch.exe knew is DataPath's Readable, a fact about  *)
(* the recursive reader, which is left to TLC: what needs it here has it   *)
(* as a premise.                                                           *)
(***************************************************************************)
EXTENDS DataPath, TradeLoaderProofs, FiniteSetTheorems

Answer ==
  [kind : {"inactive", "failed", "mock"}]
    \cup [kind : {"rows"}, rows : Seq(ExecRow), splits : Seq(SplitRow)]
    \cup [kind : {"block"}, block : Blocks]
    \cup [kind : {"failed"}, outcomes : Calls]

Verdict(account, outcomes) == Overall(account, Requested, Attempts(Mode, Requested, outcomes))

AccountTurns == 1..Len(Accounts)

Verdicts ==
  {Verdict(Accounts[i], o) : i \in AccountTurns, o \in {c \in Calls : IsCall(Mode, Requested, c)}}
Balances ==
  {BalanceOf(Accounts[i], b) : i \in AccountTurns, b \in Blocks}
    \cup {MockBalance(Accounts[i]) : i \in AccountTurns}

(* What the collected lists are made of.                                   *)
ListInv ==
  /\ job \in Jobs
  /\ answers \in Seq(Answer)
  /\ messages \in Seq(Texts)
  /\ diagnostics \in Seq(Verdicts)
  /\ job.kind = "balance" => records \in Seq(Balances)

(* The call that an account's answer came of.                              *)
IsAnswerOf(o, answer) ==
  /\ Succeeds(o) <=> answer.kind = "rows"
  /\ ~Succeeds(o) => answer.outcomes = o

(* The diagnoses are those of the accounts tried, in turn.                 *)
VerdictInv ==
  job.kind = "executions" =>
    /\ Len(diagnostics) = Cardinality(Tried)
    /\ \A i \in Tried : \E o \in Calls :
         /\ IsCall(Mode, Requested, o)
         /\ IsAnswerOf(o, answers[i])
         /\ diagnostics[PlaceIn(Tried, i)] = Verdict(Accounts[i], o)

(* A row whose details s8118 should have told and did not.                 *)
Untold(answer) ==
  /\ answer.kind = "rows"
  /\ ParseSplits(answer.splits) = <<>>
  /\ \E row \in Range(answer.rows) : row.split = "Y" /\ ParseNumber(row.executed) > 0

Missing(answer) ==
  ~GaveData(answer) \/ Untold(answer) \/ (answer.kind = "block" /\ answer.block.warnings # <<>>)

(* There is a message exactly when something is missing.                   *)
MessageInv == (Len(messages) > 0) <=> \E i \in DOMAIN answers : Missing(answers[i])

(* What a result is made from.                                             *)
IsResultOf(r, account, answer) ==
  \/ answer.kind = "block" /\ r = BalanceOf(account, answer.block)
  \/ answer.kind = "mock" /\ r = MockBalance(account)

(* The results are those of the accounts that gave one, in turn.           *)
BalanceInv ==
  job.kind = "balance" =>
    /\ Len(records) = Cardinality(Gave)
    /\ \A i \in Gave : IsResultOf(records[PlaceIn(Gave, i)], Accounts[i], answers[i])

(* Every record of an execution has details whose amounts fit, and is that *)
(* of an account.                                                          *)
Numbered(r) == r.account_no # ""
GoodRecords(rs) ==
  rs \in Seq(Range(rs)) /\ \A r \in Range(rs) : GoodItems(r.split_details) /\ Numbered(r)

RecordInv == job.kind = "executions" => GoodRecords(records)

(* The answers come from the broker, or all of them from the mock broker.  *)
SourceInv ==
  \A i \in DOMAIN answers :
    /\ i \in AccountTurns
    /\ answers[i].kind = "rows" => ~job.mock /\ answers[i].rows \in Rows[i]
    /\ answers[i].kind = "mock" => job.mock

(* The shares of an order that records tell; the orders and sides of       *)
(* records, and of the broker's rows.                                      *)
OrderOf(r) == <<r.account_no, r.order_no>>
RecordShare(r, k) ==
  IF InferSide(r.order_type) # "none" /\ OrderOf(r) = k THEN ItemShares(r.split_details) ELSE 0
RecordShares(rs, k) == [i \in DOMAIN rs |-> RecordShare(rs[i], k)]
RecordSides(rs) ==
  {<<OrderOf(r), InferSide(r.order_type)>> : r \in {x \in Range(rs) : InferSide(x.order_type) # "none"}}
RowSides(xs) == {<<x.key, x.side>> : x \in {y \in Range(xs) : IsTrade(y)}}

(* Records tell the shares, the orders and the sides of rows.              *)
Tells(rs, xs) ==
  (\A k : Total(RecordShares(rs, k)) = Shares(xs, k)) /\ RecordSides(rs) = RowSides(xs)

(* And those of all rows of the accounts' answers.                         *)
SharesOfAnswers(ans, k) == Total([i \in DOMAIN ans |-> Shares(Executions(Accounts[i], ans[i]), k)])
SidesOfAnswers(ans) == UNION {RowSides(Executions(Accounts[i], ans[i])) : i \in DOMAIN ans}
TellsAll(rs, ans) ==
  /\ \A k : Total(RecordShares(rs, k)) = SharesOfAnswers(ans, k)
  /\ RecordSides(rs) = SidesOfAnswers(ans)

ShareInv == job.kind = "executions" => TellsAll(records, answers)

(* What is shown was read last, and out of the lists.                      *)
ShownInv ==
  /\ shown.got # "nothing" => stage = "shown"
  /\ shown.got \in {"trades", "balances"} => shown.alert = messages
  /\ shown.got = "balances" =>
       /\ job.kind = "balance"
       /\ shown.balances = ParseBalanceAccounts([balance_accounts |-> records])
  /\ shown.got = "trades" => job.kind = "executions" /\ shown.trades = ParseTrades(Written)

-----------------------------------------------------------------------------
(* The prover's view of the operators                                      *)

(* A place is one of the list; the list's earlier places stay when the     *)
(* next account joins, and the next account takes the next place.          *)
LEMMA Places ==
  ASSUME NEW n \in Nat, NEW I \in SUBSET (1..n)
  PROVE  /\ IsFiniteSet(I) /\ Cardinality(I) \in Nat
         /\ \A i \in I : PlaceIn(I, i) \in 1..Cardinality(I)
         /\ Cardinality(I \cup {n + 1}) = Cardinality(I) + 1
         /\ \A i \in I : PlaceIn(I \cup {n + 1}, i) = PlaceIn(I, i)
         /\ PlaceIn(I \cup {n + 1}, n + 1) = Cardinality(I) + 1
<1>1. IsFiniteSet(I) /\ Cardinality(I) \in Nat
  <2>1. IsFiniteSet(1..n)
    BY FS_Interval
  <2>2. IsFiniteSet(I)
    BY <2>1, FS_Subset
  <2> QED
    BY <2>2, FS_CardinalityType
<1>2. ASSUME NEW i \in I
      PROVE  PlaceIn(I, i) \in 1..Cardinality(I) /\ PlaceIn(I \cup {n + 1}, i) = PlaceIn(I, i)
  <2> DEFINE low == {k \in I : k <= i}
  <2>1. low \subseteq I /\ low # {} /\ IsFiniteSet(low)
    BY <1>1, FS_Subset
  <2>2. Cardinality(low) \in Nat /\ Cardinality(low) <= Cardinality(I) /\ Cardinality(low) # 0
    BY <1>1, <2>1, FS_Subset, FS_EmptySet, FS_CardinalityType
  <2>3. {k \in I \cup {n + 1} : k <= i} = low
    OBVIOUS
  <2> QED
    BY <1>1, <2>2, <2>3 DEF PlaceIn
<1>3. Cardinality(I \cup {n + 1}) = Cardinality(I) + 1
  BY <1>1, FS_AddElement
<1>4. {k \in I \cup {n + 1} : k <= n + 1} = I \cup {n + 1}
  <2>1. \A k \in I \cup {n + 1} : k <= n + 1
    OBVIOUS
  <2> QED
    BY <2>1
<1> QED
  BY <1>1, <1>2, <1>3, <1>4 DEF PlaceIn

(* Rounding to whole numbers loses half a unit at most.                    *)
LEMMA Rounded ==
  ASSUME NEW raw \in RawNumber
  PROVE  Near(ParseNumber(raw), raw)
<1>1. raw.tenths \in Int
  BY DEF RawNumber
<1> QED
  BY <1>1 DEF Near, ParseNumber, Llround, Size

AttemptMembers ==
  {"binding_mode", "hash_source", "password_mode", "hash_generation_ok", "query_submitted",
   "query_succeeded", "server_message_code", "server_message", "classification",
   "candidate_cause", "failure_reason", "trade_password_present", "trade_hash_generation_ok",
   "trade_hash_source"}

(* What an attempt's record says of its end.                               *)
LEMMA AttemptTold ==
  ASSUME NEW mode, NEW binding, NEW outcome, NEW a, a = Attempt(mode, binding, outcome)
  PROVE  /\ DOMAIN a = AttemptMembers
         /\ a.query_succeeded = (outcome.what = "ok")
         /\ a.classification = Classification[outcome.what]
         /\ a.candidate_cause = Cause(binding, outcome.what)
         /\ a.failure_reason = Reason(outcome)
         /\ a.query_submitted = Got(outcome.what, "nosubmit")
BY DEF Attempt, Joined, TradePasswordHashes, AttemptMembers

(* An end other than "ok" is not told as a success, and none is told as a  *)
(* mismatch of the binding.                                                *)
LEMMA EndTold ==
  ASSUME NEW binding, NEW what \in Range(Endings)
  PROVE  /\ (what = "ok") = (Classification[what] = "success")
         /\ Classification[what] # "success_after_binding_switch"
         /\ (what = "rejected") = (Classification[what] = "account_password_rejected")
         /\ Cause(binding, what) # "hash_binding_mismatch"
         /\ (Cause(binding, what) = "credential_rejected_after_full_password_payload")
              = (what = "rejected")
         /\ (Cause(binding, what) = "transport_or_contract_issue") = (what \in {"nowait", "timeout"})
         /\ (Cause(binding, what) = "missing_trade_password") = (what = "nopassword")
<1>1. what \in {"nohash", "nopassword", "notradehash", "nosubmit", "nowait", "timeout", "rejected",
                "error", "ok"}
  BY DEF Range, Endings
<1> QED
  BY <1>1 DEF Classification, Cause

(* An attempt was sent when it did not fail before.                        *)
LEMMA SentTold ==
  ASSUME NEW what \in Range(Endings), what # "ok"
  PROVE  Got(what, "nosubmit") = (what \in {"nowait", "timeout", "rejected", "error"})
<1>1. what \in {"nohash", "nopassword", "notradehash", "nosubmit", "nowait", "timeout", "rejected",
                "error", "ok"}
  BY DEF Range, Endings
<1>2. /\ DOMAIN Endings = 1..9 /\ Endings[1] = "nohash" /\ Endings[2] = "nopassword"
      /\ Endings[3] = "notradehash" /\ Endings[4] = "nosubmit" /\ Endings[5] = "nowait"
      /\ Endings[6] = "timeout" /\ Endings[7] = "rejected" /\ Endings[8] = "error"
      /\ Endings[9] = "ok"
  BY DEF Endings
<1>3. \A i \in DOMAIN Endings : i \in 1..9 /\ (Endings[i] = "nosubmit" <=> i = 4)
  BY <1>2
<1>4. Got(what, "nosubmit") <=> \E i \in DOMAIN Endings : i > 4 /\ Endings[i] = what
  BY <1>2, <1>3 DEF Got
<1>5. (\E i \in DOMAIN Endings : i > 4 /\ Endings[i] = what)
        <=> what \in {"nowait", "timeout", "rejected", "error"}
  BY <1>1, <1>2, <1>3
<1>6. Got(what, "nosubmit") \in BOOLEAN
      /\ (what \in {"nowait", "timeout", "rejected", "error"}) \in BOOLEAN
  BY DEF Got
<1> QED
  BY ONLY <1>4, <1>5, <1>6

(* The members of the verdict that are not copied from the last attempt.   *)
LEMMA OverallTold ==
  ASSUME NEW account, NEW requested, NEW t, NEW last, NEW d, NEW switched,
         last = Last(t), DOMAIN last = AttemptMembers, d = Overall(account, requested, t),
         switched = (Switched(requested, t) /\ last.query_succeeded)
  PROVE  /\ d.selected_account = account /\ d.attempts = t
         /\ d.query_succeeded = last.query_succeeded
         /\ d.classification = IF switched THEN "success_after_binding_switch"
                               ELSE last.classification
         /\ d.candidate_cause = IF switched THEN "hash_binding_mismatch"
                                ELSE last.candidate_cause
         /\ d.failure_reason = IF switched THEN <<>> ELSE last.failure_reason
         /\ d.query_submitted = last.query_submitted
<1> DEFINE changed == [last EXCEPT !["classification"] = "success_after_binding_switch",
                                   !["candidate_cause"] = "hash_binding_mismatch",
                                   !["failure_reason"] = <<>>]
           verdict == IF switched THEN changed ELSE last
           outer == [selected_account |-> account, binding_mode_requested |-> requested,
                     attempts |-> t]
<1>1. d = Joined(verdict, outer)
  BY Zenon DEF Overall
<1>2. /\ DOMAIN changed = AttemptMembers
      /\ changed.query_succeeded = last.query_succeeded
      /\ changed.classification = "success_after_binding_switch"
      /\ changed.candidate_cause = "hash_binding_mismatch"
      /\ changed.failure_reason = <<>>
      /\ changed.query_submitted = last.query_submitted
  BY DEF AttemptMembers
<1>3. /\ DOMAIN verdict = AttemptMembers
      /\ verdict.query_succeeded = last.query_succeeded
      /\ verdict.classification = IF switched THEN "success_after_binding_switch" ELSE last.classification
      /\ verdict.candidate_cause = IF switched THEN "hash_binding_mismatch" ELSE last.candidate_cause
      /\ verdict.failure_reason = IF switched THEN <<>> ELSE last.failure_reason
      /\ verdict.query_submitted = last.query_submitted
  BY <1>2
<1> HIDE DEF verdict
<1>4. /\ d.selected_account = account /\ d.attempts = t
      /\ d.query_succeeded = verdict.query_succeeded
      /\ d.classification = verdict.classification
      /\ d.candidate_cause = verdict.candidate_cause
      /\ d.failure_reason = verdict.failure_reason
      /\ d.query_submitted = verdict.query_submitted
  BY <1>1, <1>3 DEF Joined, AttemptMembers
<1> QED
  BY <1>3, <1>4

(* A diagnosis says what became of the call.                               *)
LEMMA VerdictTrue ==
  ASSUME NEW account, NEW o \in Calls, IsCall(Mode, Requested, o),
         NEW d, d = Verdict(account, o)
  PROVE  /\ d.selected_account = account
         /\ d.query_succeeded = Succeeds(o)
         /\ (d.classification \in {"success", "success_after_binding_switch"}) = Succeeds(o)
         /\ (d.candidate_cause = "hash_binding_mismatch") = (Succeeds(o) /\ Len(d.attempts) = 2)
         /\ Succeeds(o) => d.failure_reason = <<>>
         /\ ~Succeeds(o) => FailureTold(d, Last(o))
<1> DEFINE t == Attempts(Mode, Requested, o)
           last == Last(t)
<1>1. /\ Len(o) \in 1..2 /\ DOMAIN o = 1..Len(o)
      /\ \A i \in 1..Len(o) : o[i].what \in Range(Endings)
  BY DataAssumption DEF Calls
<1>2. /\ DOMAIN t = 1..Len(o) /\ Len(t) = Len(o)
      /\ last = Attempt(Mode, Bindings(Mode, Requested)[Len(o)], o[Len(o)])
      /\ Head(t) = Attempt(Mode, Bindings(Mode, Requested)[1], o[1])
  BY <1>1 DEF Attempts, Last
<1>3. /\ last.query_succeeded = Succeeds(o)
      /\ Succeeds(o) => last.classification = "success" /\ last.failure_reason = <<>>
      /\ ~Succeeds(o) => last.classification \notin {"success", "success_after_binding_switch"}
      /\ last.candidate_cause # "hash_binding_mismatch"
      /\ DOMAIN last = AttemptMembers
      /\ ~Succeeds(o) => FailureTold(last, Last(o))
  <2> DEFINE b == Bindings(Mode, Requested)[Len(o)]
             end == o[Len(o)]
  <2>1. Last(o) = end /\ end.what \in Range(Endings)
    BY <1>1 DEF Last
  <2>2. /\ last.query_succeeded = (end.what = "ok")
        /\ last.classification = Classification[end.what]
        /\ last.candidate_cause = Cause(b, end.what)
        /\ last.failure_reason = Reason(end)
        /\ last.query_submitted = Got(end.what, "nosubmit")
        /\ DOMAIN last = AttemptMembers
    <3> HIDE DEF end, b, last
    <3> QED
      BY <1>2, AttemptTold DEF end, b
  <2>3. end.what = "ok" => Reason(end) = <<>>
    BY DEF Reason
  <2>4. /\ (end.what = "ok") = (Classification[end.what] = "success")
        /\ Classification[end.what] # "success_after_binding_switch"
        /\ Cause(b, end.what) # "hash_binding_mismatch"
    <3> HIDE DEF end, b
    <3> QED
      BY <2>1, EndTold
  <2>5. Succeeds(o) = (end.what = "ok")
    BY <2>1 DEF Succeeds
  <2>6. ASSUME ~Succeeds(o)
        PROVE  FailureTold(last, end)
    <3>1. end.what # "ok"
      BY <2>5, <2>6
    <3>2. /\ end.what = "rejected" /\ end.message # <<>> => Reason(end) = end.message
          /\ end.what # "rejected" => Reason(end) = end.text
      BY <3>1 DEF Reason
    <3> HIDE DEF end, b, last
    <3>3. /\ (Cause(b, end.what) = "credential_rejected_after_full_password_payload")
               = (end.what = "rejected")
          /\ (Cause(b, end.what) = "transport_or_contract_issue")
               = (end.what \in {"nowait", "timeout"})
          /\ (Cause(b, end.what) = "missing_trade_password") = (end.what = "nopassword")
          /\ Got(end.what, "nosubmit") = (end.what \in {"nowait", "timeout", "rejected", "error"})
      BY <2>1, <3>1, EndTold, SentTold
    <3> QED
      BY <2>2, <3>2, <3>3 DEF FailureTold
  <2> HIDE DEF end, b, last
  <2> QED
    BY <2>1, <2>2, <2>3, <2>4, <2>5, <2>6
<1>4. Switched(Requested, t) <=> Len(o) = 2
  <2>1. Len(o) = 2 => Requested = "auto_probe" /\ o[1].what = "rejected"
    BY <1>1 DEF IsCall, Bindings
  <2>2. \A a : a = Attempt(Mode, Bindings(Mode, Requested)[1], o[1])
                 => a.classification = Classification[o[1].what]
    BY AttemptTold
  <2>3. o[1].what = "rejected" => Classification[o[1].what] = "account_password_rejected"
    BY DEF Classification
  <2> QED
    BY <1>1, <1>2, <2>1, <2>2, <2>3 DEF Switched
<1> DEFINE switched == Switched(Requested, t) /\ last.query_succeeded
<1>5. /\ d.selected_account = account /\ d.attempts = t
      /\ d.query_succeeded = last.query_succeeded
      /\ d.classification = IF switched THEN "success_after_binding_switch" ELSE last.classification
      /\ d.candidate_cause = IF switched THEN "hash_binding_mismatch" ELSE last.candidate_cause
      /\ d.failure_reason = IF switched THEN <<>> ELSE last.failure_reason
      /\ d.query_submitted = last.query_submitted
  <2>1. last = Last(t) /\ d = Overall(account, Requested, t)
    BY DEF Verdict
  <2>2. switched = (Switched(Requested, t) /\ last.query_succeeded)
    OBVIOUS
  <2> HIDE DEF t, last, switched
  <2> QED
    BY <1>3, <2>1, <2>2, OverallTold
<1> HIDE DEF t, last
<1>6. Succeeds(o) \in BOOLEAN
  BY DEF Succeeds
<1>7. ASSUME ~Succeeds(o)
      PROVE  FailureTold(d, Last(o))
  <2>1. /\ d.candidate_cause = last.candidate_cause /\ d.failure_reason = last.failure_reason
        /\ d.query_submitted = last.query_submitted
    BY <1>3, <1>5, <1>7
  <2> QED
    BY <1>3, <1>7, <2>1 DEF FailureTold
<1> QED
  BY <1>2, <1>3, <1>4, <1>5, <1>6, <1>7

(* A warning comes from a page exactly when a row of it was not told.      *)
LEMMA FallbackTold ==
  ASSUME NEW rows \in Seq(ExecRow), NEW splits
  PROVE  /\ Fallback(rows, splits) \in Seq(Texts)
         /\ Len(Fallback(rows, splits)) > 0
              <=> Untold([kind |-> "rows", rows |-> rows, splits |-> splits])
<1> DEFINE Parsed(i) == ParseExecRow(Account.account_no, rows[i])
           fell == {i \in DOMAIN rows : Executed(Parsed(i)) /\ FellBack(Parsed(i), splits)}
<1>1. IsFiniteSet(fell) /\ Cardinality(fell) \in Nat
  <2>1. Len(rows) \in Nat /\ DOMAIN rows = 1..Len(rows)
    OBVIOUS
  <2>2. IsFiniteSet(1..Len(rows))
    BY <2>1, FS_Interval
  <2>3. fell \subseteq 1..Len(rows)
    BY <2>1
  <2> QED
    BY <2>2, <2>3, FS_Subset, FS_CardinalityType
<1>2. Fallback(rows, splits) = [k \in 1..Cardinality(fell) |-> Told(Words)]
  BY DEF Fallback
<1>3. Told(Words) \in Texts
  BY DEF Told, Words, Texts
<1>4. Cardinality(fell) > 0 <=> fell # {}
  <2> HIDE DEF fell
  <2> QED
    BY <1>1, FS_EmptySet
<1>5. ASSUME NEW i \in DOMAIN rows
      PROVE  i \in fell <=> /\ rows[i].split = "Y" /\ ParseNumber(rows[i].executed) > 0
                            /\ ParseSplits(splits) = <<>>
  BY DEF ParseExecRow, Executed, FellBack
<1>6. fell # {} <=> Untold([kind |-> "rows", rows |-> rows, splits |-> splits])
  <2> HIDE DEF fell
  <2>1. fell \subseteq DOMAIN rows
    BY DEF fell
  <2> QED
    BY <1>5, <2>1 DEF Untold, Range
<1> HIDE DEF fell
<1> QED
  BY <1>1, <1>2, <1>3, <1>4, <1>6

(* The members of a summary or a position; its numbers have none of the    *)
(* names ParseFields treats apart.                                         *)
FieldNames(numbers, texts) == {"account_no", "profit_rate"} \cup DOMAIN numbers \cup DOMAIN texts
Unnamed(numbers) == {"account_no", "profit_rate", "stock_code"} \cap DOMAIN numbers = {}

LEMMA FieldsParsed ==
  ASSUME NEW account, NEW block, NEW numbers, NEW texts, NEW rate, Unnamed(numbers),
         NEW r, r = ParseFields(account, block, numbers, texts, rate)
  PROVE  /\ DOMAIN r = FieldNames(numbers, texts)
         /\ \A n \in DOMAIN numbers : r[n] = ParseNumber(block[numbers[n]])
<1>1. DOMAIN r = FieldNames(numbers, texts)
  BY DEF ParseFields, FieldNames
<1>2. ASSUME NEW n \in DOMAIN numbers
      PROVE  r[n] = ParseNumber(block[numbers[n]])
  <2>1. n # "account_no" /\ n # "profit_rate" /\ n # "stock_code"
    BY DEF Unnamed
  <2>2. n \in {"account_no", "profit_rate"} \cup DOMAIN numbers \cup DOMAIN texts
    OBVIOUS
  <2>3. r[n] = CASE n = "account_no" -> account
                 [] n = "profit_rate" -> ParseDecimalNumber(block[rate])
                 [] n \in DOMAIN numbers -> ParseNumber(block[numbers[n]])
                 [] n = "stock_code" -> NormalizeStockCode(block[texts[n]])
                 [] OTHER -> block[texts[n]]
    BY <2>2, Zenon DEF ParseFields
  <2> QED
    BY <2>1, <2>3
<1> QED
  BY <1>1, <1>2

(* A balance the dialog gets has all members, and its numbers are those    *)
(* of the broker's block.                                                  *)
LEMMA FieldsTaken ==
  ASSUME NEW account, NEW block
  PROVE  /\ DOMAIN Taken(ParseSummary(account, block), SummaryShown) = SummaryShown
         /\ DOMAIN Taken(ParsePosition(account, block), PositionShown) = PositionShown
         /\ \A n \in DOMAIN SummaryFrom :
              Taken(ParseSummary(account, block), SummaryShown)[n] = ParseNumber(block[SummaryFrom[n]])
         /\ \A n \in DOMAIN PositionFrom :
              Taken(ParsePosition(account, block), PositionShown)[n] = ParseNumber(block[PositionFrom[n]])
<1> DEFINE S == ParseSummary(account, block)
           P == ParsePosition(account, block)
<1>1. /\ SummaryShown = FieldNames(SummaryFrom, SummaryTexts)
      /\ PositionShown = FieldNames(PositionFrom, PositionTexts)
  BY DEF SummaryShown, PositionShown, SummaryFrom, SummaryTexts, PositionFrom, PositionTexts, FieldNames
<1>2. Unnamed(SummaryFrom) /\ Unnamed(PositionFrom)
  BY DEF Unnamed, SummaryFrom, PositionFrom
<1>3. /\ S = ParseFields(account, block, SummaryFrom, SummaryTexts, "pft_rtz15")
      /\ P = ParseFields(account, block, PositionFrom, PositionTexts, "earn_ratez9")
  BY DEF ParseSummary, ParsePosition
<1> HIDE DEF S, P
<1>4. /\ DOMAIN S = SummaryShown
      /\ \A n \in DOMAIN SummaryFrom : S[n] = ParseNumber(block[SummaryFrom[n]])
  BY <1>1, <1>2, <1>3, FieldsParsed
<1>5. /\ DOMAIN P = PositionShown
      /\ \A n \in DOMAIN PositionFrom : P[n] = ParseNumber(block[PositionFrom[n]])
  BY <1>1, <1>2, <1>3, FieldsParsed
<1>6. DOMAIN SummaryFrom \subseteq SummaryShown /\ DOMAIN PositionFrom \subseteq PositionShown
  BY <1>1 DEF FieldNames
<1>7. \A r, names : DOMAIN r = names => Taken(r, names) = [n \in names |-> r[n]]
  BY DEF Taken
<1> QED
  BY <1>4, <1>5, <1>6, <1>7 DEF S, P

LEMMA MockTaken ==
  ASSUME NEW account
  PROVE  /\ DOMAIN Taken(MockSummary(account), SummaryShown) = SummaryShown
         /\ \A i \in DOMAIN MockPositions(account) :
              DOMAIN Taken(MockPositions(account)[i], PositionShown) = PositionShown
<1>1. DOMAIN MockSummary(account) = SummaryShown
  BY DEF MockSummary, SummaryShown
<1>2. ASSUME NEW i \in DOMAIN MockPositions(account)
      PROVE  DOMAIN MockPositions(account)[i] = PositionShown
  <2>1. \A code, qty, buy, price, profit, rate, value :
          DOMAIN MockPosition(account, code, qty, buy, price, profit, rate, value) = PositionShown
    BY DEF MockPosition, PositionShown
  <2>2. i = 1 \/ i = 2
    BY DEF MockPositions
  <2> QED
    BY <2>1, <2>2 DEF MockPositions
<1> QED
  BY <1>1, <1>2 DEF Taken

-----------------------------------------------------------------------------
(* The lists                                                               *)

LEMMA SameJob ==
  ASSUME job' = job
  PROVE  /\ Mode' = Mode /\ Requested' = Requested /\ Verdicts' = Verdicts
         /\ \A account, o : Verdict(account, o)' = Verdict(account, o)
<1>1. Mode' = Mode /\ Requested' = Requested
  BY DEF Mode, Requested
<1>2. \A account, o : Verdict(account, o)' = Verdict(account, o)
  BY <1>1 DEF Verdict
<1> QED
  BY <1>1, <1>2 DEF Verdicts, Verdict

(* What every query of an account does to the lists it appends to.         *)
LEMMA TurnOf ==
  ASSUME ListInv
  PROVE  /\ Len(answers) \in Nat /\ Turn = Len(answers) + 1
         /\ DOMAIN answers = 1..Len(answers)
         /\ \A kind : AtQuery(kind) => Turn \in AccountTurns
BY DataAssumption DEF ListInv, Turn, AtQuery, AccountTurns

LEMMA AnswerKinds ==
  /\ [kind |-> "inactive"] \in Answer /\ [kind |-> "failed"] \in Answer
  /\ [kind |-> "mock"] \in Answer
  /\ \A rows \in Seq(ExecRow), splits \in Seq(SplitRow) :
       [kind |-> "rows", rows |-> rows, splits |-> splits] \in Answer
  /\ \A block \in Blocks : [kind |-> "block", block |-> block] \in Answer
  /\ \A o \in Calls : [kind |-> "failed", outcomes |-> o] \in Answer
BY DEF Answer

LEMMA ToldTexts ==
  ASSUME NEW text \in Texts
  PROVE  Told(text) \in Texts
BY DEF Told, Words, Texts

LEMMA ListStep ==
  ASSUME ListInv, [Next]_vars
  PROVE  ListInv'
<1>1. job' = job
  BY DEF Next, vars, NotActivated, ExecutionsFailed, ExecutionsFetched, ExecutionsMocked,
         BalanceFailed, BalanceFetched, BalanceMocked, WriteTrades, FlushDiagnostics, WriteBalances,
         WriteAccounts, Read
<1>2. Verdicts' = Verdicts /\ Words \in Texts
  BY <1>1, SameJob DEF Words, Texts
<1> USE <1>1, <1>2 DEF ListInv
<1>3. CASE NotActivated
  <2>1. PICK a \in Answer : answers' = Append(answers, a)
    BY <1>3, AnswerKinds DEF NotActivated, Answered
  <2>2. UNCHANGED <<records, diagnostics>> /\ messages' = Append(messages, Words)
    BY <1>3 DEF NotActivated
  <2> QED
    BY <2>1, <2>2
<1>4. ASSUME NEW o \in Calls, ExecutionsFailed(o)
      PROVE  ListInv'
  <2>1. Verdict(Account, o) \in Verdicts
    BY <1>4, TurnOf DEF ExecutionsFailed, Verdicts, Account
  <2>2. diagnostics' = Append(diagnostics, Verdict(Account, o))
    BY <1>4 DEF ExecutionsFailed, Diagnosed, Verdict
  <2>3. PICK a \in Answer : answers' = Append(answers, a)
    BY <1>4, AnswerKinds DEF ExecutionsFailed, Answered
  <2>4. records' = records /\ messages' = Append(messages, Words)
    BY <1>4 DEF ExecutionsFailed
  <2> QED
    BY <2>1, <2>2, <2>3, <2>4
<1>5. ASSUME NEW o \in Calls, NEW rows \in RowsNow, NEW splits \in Splits,
             ExecutionsFetched(o, rows, splits)
      PROVE  ListInv'
  <2>1. Verdict(Account, o) \in Verdicts
    BY <1>5, TurnOf DEF ExecutionsFetched, Verdicts, Account
  <2>2. diagnostics' = Append(diagnostics, Verdict(Account, o))
    BY <1>5 DEF ExecutionsFetched, Diagnosed, Verdict
  <2>3. rows \in Seq(ExecRow) /\ splits \in Seq(SplitRow)
    BY <1>5, TurnOf, DataAssumption DEF ExecutionsFetched, RowsNow, AccountTurns
  <2>4. Fallback(rows, splits) \in Seq(Texts)
    BY <2>3, FallbackTold
  <2>5. PICK a \in Answer : answers' = Append(answers, a)
    BY <1>5, <2>3, AnswerKinds DEF ExecutionsFetched, Answered
  <2>6. job.kind = "executions" /\ messages' = messages \o Fallback(rows, splits)
    BY <1>5 DEF ExecutionsFetched, AtQuery
  <2> QED
    BY <2>1, <2>2, <2>4, <2>5, <2>6
<1>6. CASE ExecutionsMocked
  <2>1. PICK a \in Answer : answers' = Append(answers, a)
    BY <1>6, AnswerKinds DEF ExecutionsMocked, Answered
  <2>2. UNCHANGED <<messages, diagnostics>> /\ job.kind = "executions"
    BY <1>6 DEF ExecutionsMocked, AtQuery
  <2> QED
    BY <2>1, <2>2
<1>7. ASSUME NEW text \in Failures, BalanceFailed(text)
      PROVE  ListInv'
  <2>1. PICK a \in Answer : answers' = Append(answers, a)
    BY <1>7, AnswerKinds DEF BalanceFailed, Answered
  <2>2. UNCHANGED <<records, diagnostics>> /\ messages' = Append(messages, Told(text))
    BY <1>7 DEF BalanceFailed
  <2>3. Told(text) \in Texts
    BY DataAssumption, ToldTexts
  <2> QED
    BY <2>1, <2>2, <2>3
<1>8. ASSUME NEW block \in Blocks, BalanceFetched(block)
      PROVE  ListInv'
  <2>1. BalanceOf(Account, block) \in Balances
    BY <1>8, TurnOf DEF BalanceFetched, Balances, Account
  <2> DEFINE warned == [i \in DOMAIN block.warnings |-> Told(block.warnings[i])]
  <2>2. warned \in Seq(Texts)
    <3>1. block.warnings \in Seq(Texts)
      BY DataAssumption
    <3>2. \A i \in DOMAIN block.warnings : Told(block.warnings[i]) \in Texts
      BY <3>1, ToldTexts
    <3>3. Len(block.warnings) \in Nat /\ DOMAIN block.warnings = 1..Len(block.warnings)
      BY <3>1
    <3> QED
      BY <3>2, <3>3
  <2>3. PICK a \in Answer : answers' = Append(answers, a)
    BY <1>8, AnswerKinds DEF BalanceFetched, Answered
  <2>4. /\ messages' = messages \o warned /\ diagnostics' = diagnostics
        /\ records' = Append(records, BalanceOf(Account, block))
        /\ job.kind = "balance"
    BY <1>8 DEF BalanceFetched, AtQuery
  <2> HIDE DEF warned
  <2> QED
    BY <2>1, <2>2, <2>3, <2>4
<1>9. CASE BalanceMocked
  <2>1. MockBalance(Account) \in Balances
    BY <1>9, TurnOf DEF BalanceMocked, Balances, Account
  <2>2. PICK a \in Answer : answers' = Append(answers, a)
    BY <1>9, AnswerKinds DEF BalanceMocked, Answered
  <2>3. UNCHANGED <<messages, diagnostics>> /\ records' = Append(records, MockBalance(Account))
    BY <1>9 DEF BalanceMocked
  <2> QED
    BY <2>1, <2>2, <2>3
<1>10. CASE WriteTrades \/ FlushDiagnostics \/ WriteBalances \/ WriteAccounts \/ Read \/ UNCHANGED vars
  BY <1>10 DEF WriteTrades, FlushDiagnostics, WriteBalances, WriteAccounts, Read, vars
<1> QED
  BY <1>3, <1>4, <1>5, <1>6, <1>7, <1>8, <1>9, <1>10 DEF Next

-----------------------------------------------------------------------------
(* The diagnoses                                                           *)

(* The next place joins a set of places, or does not.                      *)
LEMMA NextPlace ==
  ASSUME NEW n \in Nat, NEW I \in SUBSET (1..n), NEW J \in SUBSET (1..(n + 1)),
         \A i \in 1..n : i \in J <=> i \in I,
         NEW joins, n + 1 \in J <=> joins
  PROVE  J = IF joins THEN I \cup {n + 1} ELSE I
<1>1. ASSUME NEW i
      PROVE  i \in J <=> i \in I \/ (i = n + 1 /\ joins)
  <2>1. i \in 1..(n + 1) <=> i \in 1..n \/ i = n + 1
    OBVIOUS
  <2>2. ~(n + 1 \in 1..n)
    OBVIOUS
  <2>3. CASE i \in 1..n
    BY <2>2, <2>3
  <2>4. CASE i = n + 1
    BY <2>2, <2>4
  <2>5. CASE ~(i \in 1..(n + 1))
    BY <2>1, <2>5
  <2> QED
    BY <2>1, <2>3, <2>4, <2>5
<1>2. CASE joins
  BY <1>1, <1>2
<1>3. CASE ~joins
  BY <1>1, <1>3
<1> QED
  BY <1>2, <1>3

(* One more answer: who was tried, and who gave data.                      *)
LEMMA OneMore ==
  ASSUME answers \in Seq(Answer), NEW a \in Answer, answers' = Append(answers, a)
  PROVE  /\ Tried' = IF a.kind \in {"rows", "failed"} THEN Tried \cup {Len(answers) + 1} ELSE Tried
         /\ Gave' = IF GaveData(a) THEN Gave \cup {Len(answers) + 1} ELSE Gave
         /\ Len(answers) \in Nat
         /\ Tried \subseteq 1..Len(answers) /\ Gave \subseteq 1..Len(answers)
         /\ DOMAIN answers' = 1..(Len(answers) + 1)
         /\ answers'[Len(answers) + 1] = a
         /\ \A i \in 1..Len(answers) : answers'[i] = answers[i]
<1>1. /\ Len(answers) \in Nat /\ DOMAIN answers = 1..Len(answers)
      /\ DOMAIN answers' = 1..(Len(answers) + 1)
      /\ answers'[Len(answers) + 1] = a
      /\ \A i \in 1..Len(answers) : answers'[i] = answers[i]
  OBVIOUS
<1> DEFINE n == Len(answers)
<1>2. /\ Tried \subseteq 1..n /\ Gave \subseteq 1..n
      /\ Tried' \subseteq 1..(n + 1) /\ Gave' \subseteq 1..(n + 1)
  BY <1>1 DEF Tried, Asked, Gave
<1>3. Tried' = IF a.kind \in {"rows", "failed"} THEN Tried \cup {n + 1} ELSE Tried
  <2>1. \A i \in 1..n : i \in Tried' <=> i \in Tried
    BY <1>1 DEF Tried, Asked
  <2>2. n + 1 \in Tried' <=> a.kind \in {"rows", "failed"}
    BY <1>1 DEF Tried, Asked
  <2> QED
    BY <1>1, <1>2, <2>1, <2>2, NextPlace
<1>4. Gave' = IF GaveData(a) THEN Gave \cup {n + 1} ELSE Gave
  <2>1. \A i \in 1..n : i \in Gave' <=> i \in Gave
    BY <1>1 DEF Gave, GaveData
  <2>2. n + 1 \in Gave' <=> GaveData(a)
    BY <1>1 DEF Gave, GaveData
  <2> QED
    BY <1>1, <1>2, <2>1, <2>2, NextPlace
<1> QED
  BY <1>1, <1>2, <1>3, <1>4

(* The call of an account tried gives the diagnosis at its place.          *)
LEMMA VerdictJoins ==
  ASSUME ListInv, VerdictInv, job' = job,
         NEW o \in Calls, IsCall(Mode, Requested, o), Turn <= Len(Accounts),
         NEW a \in Answer, answers' = Append(answers, a),
         a.kind \in {"rows", "failed"}, IsAnswerOf(o, a),
         diagnostics' = Append(diagnostics, Verdict(Account, o))
  PROVE  VerdictInv'
<1> DEFINE n == Len(answers)
<1>1. /\ n \in Nat /\ Tried \subseteq 1..n /\ Tried' = Tried \cup {n + 1}
      /\ answers'[n + 1] = a /\ \A i \in 1..n : answers'[i] = answers[i]
  BY OneMore DEF ListInv
<1>2. Mode' = Mode /\ Requested' = Requested
      /\ \A account, call : Verdict(account, call)' = Verdict(account, call)
  BY SameJob
<1>3. Account = Accounts[n + 1]
  BY DEF Account, Turn
<1> HIDE DEF n
<1>4. /\ \A i \in Tried : PlaceIn(Tried, i) \in 1..Cardinality(Tried)
      /\ Cardinality(Tried \cup {n + 1}) = Cardinality(Tried) + 1
      /\ \A i \in Tried : PlaceIn(Tried \cup {n + 1}, i) = PlaceIn(Tried, i)
      /\ PlaceIn(Tried \cup {n + 1}, n + 1) = Cardinality(Tried) + 1
      /\ Cardinality(Tried) \in Nat
  BY <1>1, Places
<1> SUFFICES ASSUME job.kind = "executions"
             PROVE  /\ Len(diagnostics') = Cardinality(Tried')
                    /\ \A i \in Tried' : \E c \in Calls :
                         /\ IsCall(Mode, Requested, c)
                         /\ IsAnswerOf(c, answers'[i])
                         /\ diagnostics'[PlaceIn(Tried', i)] = Verdict(Accounts[i], c)
  BY <1>2 DEF VerdictInv
<1>5. Len(diagnostics) = Cardinality(Tried) /\ diagnostics \in Seq(Verdicts)
  BY DEF VerdictInv, ListInv
<1>6. ASSUME NEW i \in Tried
      PROVE  \E c \in Calls :
               /\ IsCall(Mode, Requested, c)
               /\ IsAnswerOf(c, answers'[i])
               /\ diagnostics'[PlaceIn(Tried', i)] = Verdict(Accounts[i], c)
  <2>1. PICK c \in Calls : /\ IsCall(Mode, Requested, c)
                           /\ IsAnswerOf(c, answers[i])
                           /\ diagnostics[PlaceIn(Tried, i)] = Verdict(Accounts[i], c)
    BY DEF VerdictInv
  <2>2. diagnostics'[PlaceIn(Tried', i)] = diagnostics[PlaceIn(Tried, i)]
    <3>1. PlaceIn(Tried', i) = PlaceIn(Tried, i) /\ PlaceIn(Tried, i) \in 1..Len(diagnostics)
      BY <1>1, <1>4, <1>5
    <3> QED
      BY <1>5, <3>1
  <2>3. answers'[i] = answers[i]
    BY <1>1
  <2> QED
    BY <2>1, <2>2, <2>3, Zenon
<1>7. diagnostics'[PlaceIn(Tried', n + 1)] = Verdict(Accounts[n + 1], o)
  BY <1>1, <1>3, <1>4, <1>5
<1>8. Len(diagnostics') = Cardinality(Tried')
  BY <1>1, <1>4, <1>5
<1> QED
  BY <1>1, <1>6, <1>7, <1>8

LEMMA VerdictStep ==
  ASSUME ListInv, VerdictInv, [Next]_vars
  PROVE  VerdictInv'
<1>1. job' = job
  BY DEF Next, vars, NotActivated, ExecutionsFailed, ExecutionsFetched, ExecutionsMocked,
         BalanceFailed, BalanceFetched, BalanceMocked, WriteTrades, FlushDiagnostics, WriteBalances,
         WriteAccounts, Read
<1>2. /\ Mode' = Mode /\ Requested' = Requested
      /\ \A account, o : Verdict(account, o)' = Verdict(account, o)
  BY <1>1, SameJob
<1>3. ASSUME diagnostics' = diagnostics, Tried' = Tried,
             \A i \in Tried : answers'[i] = answers[i]
      PROVE  VerdictInv'
  BY <1>1, <1>2, <1>3 DEF VerdictInv
<1>4. ASSUME NEW a \in Answer, answers' = Append(answers, a), diagnostics' = diagnostics,
             a.kind \notin {"rows", "failed"}
      PROVE  VerdictInv'
  BY <1>3, <1>4, OneMore DEF ListInv
<1>5. CASE NotActivated
  <2>1. [kind |-> "inactive"] \in Answer
    BY AnswerKinds
  <2> QED
    BY <1>4, <1>5, <2>1 DEF NotActivated, Answered
<1>6. ASSUME NEW o \in Calls, ExecutionsFailed(o)
      PROVE  VerdictInv'
  <2> DEFINE a == [kind |-> "failed", outcomes |-> o]
  <2>1. a \in Answer /\ a.kind = "failed" /\ a.outcomes = o
    BY AnswerKinds
  <2>2. /\ answers' = Append(answers, a)
        /\ diagnostics' = Append(diagnostics, Verdict(Account, o))
        /\ IsCall(Mode, Requested, o) /\ ~Succeeds(o) /\ Turn <= Len(Accounts)
    BY <1>6 DEF ExecutionsFailed, Answered, AtQuery, Diagnosed, Verdict
  <2>3. IsAnswerOf(o, a)
    BY <2>1, <2>2 DEF IsAnswerOf
  <2> HIDE DEF a
  <2> QED
    BY <1>1, <2>1, <2>2, <2>3, VerdictJoins
<1>7. ASSUME NEW o \in Calls, NEW rows \in RowsNow, NEW splits \in Splits,
             ExecutionsFetched(o, rows, splits)
      PROVE  VerdictInv'
  <2> DEFINE a == [kind |-> "rows", rows |-> rows, splits |-> splits]
  <2>1. a \in Answer /\ a.kind = "rows"
    BY <1>7, AnswerKinds, TurnOf, DataAssumption DEF ExecutionsFetched, RowsNow, AccountTurns
  <2>2. /\ answers' = Append(answers, a)
        /\ diagnostics' = Append(diagnostics, Verdict(Account, o))
        /\ IsCall(Mode, Requested, o) /\ Succeeds(o) /\ Turn <= Len(Accounts)
    BY <1>7 DEF ExecutionsFetched, Answered, AtQuery, Diagnosed, Verdict
  <2>3. IsAnswerOf(o, a)
    BY <2>1, <2>2 DEF IsAnswerOf
  <2> HIDE DEF a
  <2> QED
    BY <1>1, <2>1, <2>2, <2>3, VerdictJoins
<1>8. CASE ExecutionsMocked
  <2>1. [kind |-> "mock"] \in Answer
    BY AnswerKinds
  <2> QED
    BY <1>4, <1>8, <2>1 DEF ExecutionsMocked, Answered
<1>9. CASE \/ \E text \in Failures : BalanceFailed(text)
           \/ BalanceMocked
           \/ \E block \in Blocks : BalanceFetched(block)
  BY <1>1, <1>9 DEF BalanceFailed, BalanceMocked, BalanceFetched, AtQuery, VerdictInv
<1>10. CASE WriteTrades \/ FlushDiagnostics \/ WriteBalances \/ WriteAccounts \/ Read \/ UNCHANGED vars
  <2>1. UNCHANGED <<answers, diagnostics>>
    BY <1>10 DEF WriteTrades, FlushDiagnostics, WriteBalances, WriteAccounts, Read, vars
  <2> QED
    BY <1>3, <2>1 DEF Tried, Asked
<1> QED
  BY <1>5, <1>6, <1>7, <1>8, <1>9, <1>10 DEF Next

-----------------------------------------------------------------------------
(* The messages                                                            *)

(* One more answer, with a message exactly if it misses something.         *)
LEMMA MessageJoins ==
  ASSUME ListInv, MessageInv, NEW a \in Answer, answers' = Append(answers, a),
         Len(messages') \in Nat, Len(messages') >= Len(messages),
         (Len(messages') > Len(messages)) <=> Missing(a)
  PROVE  MessageInv'
<1> DEFINE n == Len(answers)
<1>1. /\ n \in Nat /\ DOMAIN answers = 1..n /\ DOMAIN answers' = 1..(n + 1)
      /\ answers'[n + 1] = a /\ \A i \in 1..n : answers'[i] = answers[i]
  BY OneMore DEF ListInv
<1>2. Len(messages) \in Nat
  BY DEF ListInv
<1> HIDE DEF n
<1>3. (\E i \in DOMAIN answers' : Missing(answers'[i]))
        <=> Missing(a) \/ \E i \in DOMAIN answers : Missing(answers[i])
  <2>1. \A i : i \in 1..(n + 1) <=> i \in 1..n \/ i = n + 1
    BY <1>1
  <2> QED
    BY <1>1, <2>1, Zenon
<1>4. (Len(messages) > 0) <=> \E i \in DOMAIN answers : Missing(answers[i])
  BY DEF MessageInv
<1>5. (Len(messages') > 0) <=> \E i \in DOMAIN answers' : Missing(answers'[i])
  BY <1>2, <1>3, <1>4
<1>6. MessageInv' <=> ((Len(messages') > 0) <=> \E i \in DOMAIN answers' : Missing(answers'[i]))
  BY Zenon DEF MessageInv, Missing, Untold, GaveData
<1> QED
  BY <1>5, <1>6

(* What an account's answer misses.                                        *)
LEMMA MissingKinds ==
  /\ Missing([kind |-> "inactive"]) /\ Missing([kind |-> "failed"])
  /\ \A o : Missing([kind |-> "failed", outcomes |-> o])
  /\ ~Missing([kind |-> "mock"])
  /\ \A rows, splits : LET a == [kind |-> "rows", rows |-> rows, splits |-> splits]
                       IN Missing(a) <=> Untold(a)
  /\ \A block : Missing([kind |-> "block", block |-> block]) <=> block.warnings # <<>>
BY DEF Missing, Untold, GaveData

LEMMA MessageStep ==
  ASSUME ListInv, MessageInv, [Next]_vars
  PROVE  MessageInv'
<1>1. messages \in Seq(Texts) /\ Len(messages) \in Nat
  BY DEF ListInv
<1>2. ASSUME NEW a \in Answer, answers' = Append(answers, a), Missing(a),
             NEW text, messages' = Append(messages, text)
      PROVE  MessageInv'
  <2>1. Len(messages') = Len(messages) + 1
    BY <1>1, <1>2
  <2> QED
    BY <1>1, <1>2, <2>1, MessageJoins
<1>3. ASSUME NEW a \in Answer, answers' = Append(answers, a), ~Missing(a), messages' = messages
      PROVE  MessageInv'
  BY <1>1, <1>3, MessageJoins
<1>4. CASE NotActivated
  <2>1. PICK a \in Answer : answers' = Append(answers, a) /\ Missing(a)
    BY <1>4, AnswerKinds, MissingKinds DEF NotActivated, Answered
  <2>2. messages' = Append(messages, Words)
    BY <1>4 DEF NotActivated
  <2> QED
    BY <1>2, <2>1, <2>2
<1>5. ASSUME NEW o \in Calls, ExecutionsFailed(o)
      PROVE  MessageInv'
  <2>1. PICK a \in Answer : answers' = Append(answers, a) /\ Missing(a)
    BY <1>5, AnswerKinds, MissingKinds DEF ExecutionsFailed, Answered
  <2>2. messages' = Append(messages, Words)
    BY <1>5 DEF ExecutionsFailed
  <2> QED
    BY <1>2, <2>1, <2>2
<1>6. ASSUME NEW o \in Calls, NEW rows \in RowsNow, NEW splits \in Splits,
             ExecutionsFetched(o, rows, splits)
      PROVE  MessageInv'
  <2> DEFINE a == [kind |-> "rows", rows |-> rows, splits |-> splits]
             told == Fallback(rows, splits)
  <2>1. rows \in Seq(ExecRow) /\ splits \in Seq(SplitRow)
    BY <1>6, TurnOf, DataAssumption DEF ExecutionsFetched, RowsNow, AccountTurns
  <2>2. a \in Answer
    BY <2>1, AnswerKinds
  <2>3. told \in Seq(Texts) /\ (Len(told) > 0 <=> Missing(a))
    BY <2>1, FallbackTold, MissingKinds
  <2>4. answers' = Append(answers, a) /\ messages' = messages \o told
    BY <1>6 DEF ExecutionsFetched, Answered
  <2> HIDE DEF a, told
  <2>5. Len(messages') = Len(messages) + Len(told) /\ Len(told) \in Nat
    BY <1>1, <2>3, <2>4
  <2>6. /\ Len(messages') \in Nat /\ Len(messages') >= Len(messages)
        /\ Len(messages') > Len(messages) <=> Missing(a)
    BY <1>1, <2>3, <2>5
  <2> QED
    BY <2>2, <2>4, <2>6, MessageJoins
<1>7. CASE ExecutionsMocked
  <2>1. PICK a \in Answer : answers' = Append(answers, a) /\ ~Missing(a)
    BY <1>7, AnswerKinds, MissingKinds DEF ExecutionsMocked, Answered
  <2>2. messages' = messages
    BY <1>7 DEF ExecutionsMocked
  <2> QED
    BY <1>3, <2>1, <2>2
<1>8. ASSUME NEW text \in Failures, BalanceFailed(text)
      PROVE  MessageInv'
  <2>1. PICK a \in Answer : answers' = Append(answers, a) /\ Missing(a)
    BY <1>8, AnswerKinds, MissingKinds DEF BalanceFailed, Answered
  <2>2. messages' = Append(messages, Told(text))
    BY <1>8 DEF BalanceFailed
  <2> QED
    BY <1>2, <2>1, <2>2
<1>9. ASSUME NEW block \in Blocks, BalanceFetched(block)
      PROVE  MessageInv'
  <2> DEFINE a == [kind |-> "block", block |-> block]
             warned == [i \in DOMAIN block.warnings |-> Told(block.warnings[i])]
  <2>1. a \in Answer
    BY AnswerKinds
  <2>2. block.warnings \in Seq(Texts)
    BY DataAssumption
  <2>3. /\ warned \in Seq(Texts) /\ Len(warned) = Len(block.warnings)
        /\ Len(block.warnings) \in Nat
    <3>1. \A i \in DOMAIN block.warnings : Told(block.warnings[i]) \in Texts
      BY <2>2, ToldTexts
    <3>2. Len(block.warnings) \in Nat /\ DOMAIN block.warnings = 1..Len(block.warnings)
      BY <2>2
    <3> QED
      BY <3>1, <3>2
  <2>4. block.warnings # <<>> <=> Len(block.warnings) > 0
    BY <2>2
  <2>5. Missing(a) <=> Len(warned) > 0
    BY <2>3, <2>4, MissingKinds
  <2>6. answers' = Append(answers, a) /\ messages' = messages \o warned
    BY <1>9 DEF BalanceFetched, Answered
  <2> HIDE DEF a, warned
  <2>7. Len(messages') = Len(messages) + Len(warned) /\ Len(warned) \in Nat
    <3>1. warned \in Seq(Texts) /\ messages' = messages \o warned
      BY <2>3, <2>6
    <3> QED
      BY <1>1, <3>1
  <2>8. /\ Len(messages') \in Nat /\ Len(messages') >= Len(messages)
        /\ Len(messages') > Len(messages) <=> Missing(a)
    BY <1>1, <2>5, <2>7
  <2> QED
    BY <2>1, <2>6, <2>8, MessageJoins
<1>10. CASE BalanceMocked
  <2>1. PICK a \in Answer : answers' = Append(answers, a) /\ ~Missing(a)
    BY <1>10, AnswerKinds, MissingKinds DEF BalanceMocked, Answered
  <2>2. messages' = messages
    BY <1>10 DEF BalanceMocked
  <2> QED
    BY <1>3, <2>1, <2>2
<1>11. CASE WriteTrades \/ FlushDiagnostics \/ WriteBalances \/ WriteAccounts \/ Read \/ UNCHANGED vars
  <2>1. UNCHANGED <<answers, messages>>
    BY <1>11 DEF WriteTrades, FlushDiagnostics, WriteBalances, WriteAccounts, Read, vars
  <2> QED
    BY <2>1 DEF MessageInv
<1> QED
  BY <1>4, <1>5, <1>6, <1>7, <1>8, <1>9, <1>10, <1>11 DEF Next

-----------------------------------------------------------------------------
(* The balances                                                            *)

(* The result of an account that gave one takes the next place.            *)
LEMMA BalanceJoins ==
  ASSUME ListInv, BalanceInv, job' = job, Turn <= Len(Accounts),
         NEW a \in Answer, answers' = Append(answers, a), GaveData(a),
         NEW r, IsResultOf(r, Account, a), records' = Append(records, r)
  PROVE  BalanceInv'
<1> DEFINE n == Len(answers)
<1>1. /\ n \in Nat /\ Gave \subseteq 1..n /\ Gave' = Gave \cup {n + 1}
      /\ answers'[n + 1] = a /\ \A i \in 1..n : answers'[i] = answers[i]
  BY OneMore DEF ListInv
<1>2. Account = Accounts[n + 1]
  BY DEF Account, Turn
<1> HIDE DEF n
<1>3. /\ \A i \in Gave : PlaceIn(Gave, i) \in 1..Cardinality(Gave)
      /\ Cardinality(Gave \cup {n + 1}) = Cardinality(Gave) + 1
      /\ \A i \in Gave : PlaceIn(Gave \cup {n + 1}, i) = PlaceIn(Gave, i)
      /\ PlaceIn(Gave \cup {n + 1}, n + 1) = Cardinality(Gave) + 1
      /\ Cardinality(Gave) \in Nat
  BY <1>1, Places
<1> SUFFICES ASSUME job.kind = "balance"
             PROVE  /\ Len(records') = Cardinality(Gave')
                    /\ \A i \in Gave' :
                         IsResultOf(records'[PlaceIn(Gave', i)], Accounts[i], answers'[i])
  <2>1. BalanceInv' <=> (job.kind = "balance" =>
                    /\ Len(records') = Cardinality(Gave')
                    /\ \A i \in Gave' :
                         IsResultOf(records'[PlaceIn(Gave', i)], Accounts[i], answers'[i]))
    BY Zenon DEF BalanceInv, IsResultOf
  <2> QED
    BY <2>1
<1>4. Len(records) = Cardinality(Gave) /\ records \in Seq(Balances)
  BY DEF BalanceInv, ListInv
<1>5. \A i \in Gave : IsResultOf(records[PlaceIn(Gave, i)], Accounts[i], answers[i])
  BY DEF BalanceInv
<1>6. /\ Len(records') = Cardinality(Gave) + 1
      /\ records'[Cardinality(Gave) + 1] = r
      /\ \A k \in 1..Cardinality(Gave) : records'[k] = records[k]
  BY <1>4
<1>7. ASSUME NEW i \in Gave
      PROVE  IsResultOf(records'[PlaceIn(Gave', i)], Accounts[i], answers'[i])
  <2>1. PlaceIn(Gave', i) = PlaceIn(Gave, i) /\ PlaceIn(Gave, i) \in 1..Cardinality(Gave)
    BY <1>1, <1>3
  <2>2. records'[PlaceIn(Gave', i)] = records[PlaceIn(Gave, i)] /\ answers'[i] = answers[i]
    BY <1>1, <1>6, <2>1
  <2> QED
    BY <1>5, <2>2
<1>8. IsResultOf(records'[PlaceIn(Gave', n + 1)], Accounts[n + 1], answers'[n + 1])
  BY <1>1, <1>2, <1>3, <1>6
<1> QED
  BY <1>1, <1>3, <1>6, <1>7, <1>8

LEMMA BalanceStep ==
  ASSUME ListInv, BalanceInv, [Next]_vars
  PROVE  BalanceInv'
<1>1. job' = job
  BY DEF Next, vars, NotActivated, ExecutionsFailed, ExecutionsFetched, ExecutionsMocked,
         BalanceFailed, BalanceFetched, BalanceMocked, WriteTrades, FlushDiagnostics, WriteBalances,
         WriteAccounts, Read
<1>2. ASSUME job.kind # "balance"
      PROVE  BalanceInv'
  BY <1>1, <1>2 DEF BalanceInv
<1>3. ASSUME records' = records, Gave' = Gave, \A i \in Gave : answers'[i] = answers[i]
      PROVE  BalanceInv'
  BY <1>1, <1>3 DEF BalanceInv
<1>4. ASSUME NEW a \in Answer, answers' = Append(answers, a), ~GaveData(a), records' = records
      PROVE  BalanceInv'
  BY <1>3, <1>4, OneMore DEF ListInv
<1>5. CASE NotActivated \/ \E text \in Failures : BalanceFailed(text)
  <2>1. PICK a \in Answer : answers' = Append(answers, a) /\ ~GaveData(a)
    BY <1>5, AnswerKinds DEF NotActivated, BalanceFailed, Answered, GaveData
  <2>2. records' = records
    BY <1>5 DEF NotActivated, BalanceFailed
  <2> QED
    BY <1>4, <2>1, <2>2
<1>6. CASE \/ \E o \in Calls : ExecutionsFailed(o)
           \/ \E o \in Calls, rows \in RowsNow, splits \in Splits : ExecutionsFetched(o, rows, splits)
           \/ ExecutionsMocked
  BY <1>2, <1>6 DEF ExecutionsFailed, ExecutionsFetched, ExecutionsMocked, AtQuery
<1>7. ASSUME NEW block \in Blocks, BalanceFetched(block)
      PROVE  BalanceInv'
  <2> DEFINE a == [kind |-> "block", block |-> block]
             r == BalanceOf(Account, block)
  <2>1. a \in Answer /\ GaveData(a)
    BY AnswerKinds DEF GaveData
  <2>2. IsResultOf(r, Account, a)
    BY DEF IsResultOf
  <2>3. answers' = Append(answers, a) /\ records' = Append(records, r) /\ Turn <= Len(Accounts)
    BY <1>7 DEF BalanceFetched, Answered, AtQuery
  <2> HIDE DEF a, r
  <2> QED
    BY <1>1, <2>1, <2>2, <2>3, BalanceJoins
<1>8. CASE BalanceMocked
  <2> DEFINE a == [kind |-> "mock"]
             r == MockBalance(Account)
  <2>1. a \in Answer /\ GaveData(a)
    BY AnswerKinds DEF GaveData
  <2>2. IsResultOf(r, Account, a)
    BY DEF IsResultOf
  <2>3. answers' = Append(answers, a) /\ records' = Append(records, r) /\ Turn <= Len(Accounts)
    BY <1>8 DEF BalanceMocked, Answered, AtQuery
  <2> HIDE DEF a, r
  <2> QED
    BY <1>1, <2>1, <2>2, <2>3, BalanceJoins
<1>9. CASE WriteTrades \/ FlushDiagnostics \/ WriteBalances \/ WriteAccounts \/ Read \/ UNCHANGED vars
  <2>1. UNCHANGED <<answers, records>>
    BY <1>9 DEF WriteTrades, FlushDiagnostics, WriteBalances, WriteAccounts, Read, vars
  <2> QED
    BY <1>3, <2>1 DEF Gave
<1> QED
  BY <1>5, <1>6, <1>7, <1>8, <1>9 DEF Next

-----------------------------------------------------------------------------
(* What is shown                                                           *)

LEMMA WrittenTold ==
  /\ job.kind = "executions" => Written.errors = messages
  /\ job.kind = "balance" => Written.errors = messages /\ Written.balance_accounts = records
<1>1. ASSUME job.kind = "executions"
      PROVE  Written = [trade_date |-> "day", account_no |-> Root, status |-> TradeStatus(messages),
                        errors |-> messages, accounts |-> queried, executions |-> records]
  BY <1>1, Zenon DEF Written
<1>2. ASSUME job.kind = "balance"
      PROVE  Written = [status |-> BalanceStatus(records, messages), errors |-> messages,
                        balance_accounts |-> records]
  BY <1>2, Zenon DEF Written
<1> QED
  BY <1>1, <1>2

(* What the Python program makes of a document it could read.              *)
Made(value) ==
  CASE job.kind = "executions" ->
         [got |-> "trades", trades |-> ParseTrades(value), alert |-> value.errors]
    [] job.kind = "balance" ->
         [got |-> "balances", balances |-> ParseBalanceAccounts(value), alert |-> value.errors]
    [] OTHER -> [got |-> "accounts", accounts |-> ParseAccounts(value)]

LEMMA MadeOf ==
  ASSUME NEW value
  PROVE  /\ job.kind = "executions" => Made(value).got = "trades" /\ Made(value).alert = value.errors
                                       /\ Made(value).trades = ParseTrades(value)
         /\ job.kind = "balance" => /\ Made(value).got = "balances" /\ Made(value).alert = value.errors
                                    /\ Made(value).balances = ParseBalanceAccounts(value)
         /\ job.kind \notin {"executions", "balance"} => Made(value).got = "accounts"
<1>1. ASSUME job.kind = "executions"
      PROVE  Made(value) = [got |-> "trades", trades |-> ParseTrades(value), alert |-> value.errors]
  BY <1>1, Zenon DEF Made
<1>2. ASSUME job.kind = "balance"
      PROVE  Made(value) = [got |-> "balances", balances |-> ParseBalanceAccounts(value),
                            alert |-> value.errors]
  BY <1>2, Zenon DEF Made
<1>3. ASSUME job.kind \notin {"executions", "balance"}
      PROVE  Made(value) = [got |-> "accounts", accounts |-> ParseAccounts(value)]
  BY <1>3, Zenon DEF Made
<1> QED
  BY <1>1, <1>2, <1>3

LEMMA SameWritten ==
  ASSUME UNCHANGED <<job, queried, records, messages>>
  PROVE  ParseTrades(Written)' = ParseTrades(Written)
<1>1. Root' = Root
  BY DEF Root
<1>2. Written' = Written
  BY <1>1, Zenon DEF Written
<1> QED
  BY <1>2

LEMMA ShownStep ==
  ASSUME ShownInv, Readable, [Next]_vars
  PROVE  ShownInv'
<1>1. ASSUME stage # "shown", shown' = shown
      PROVE  ShownInv'
  BY <1>1 DEF ShownInv
<1>2. CASE \/ NotActivated
           \/ \E o \in Calls : ExecutionsFailed(o)
           \/ \E o \in Calls, rows \in RowsNow, splits \in Splits : ExecutionsFetched(o, rows, splits)
           \/ ExecutionsMocked \/ \E text \in Failures : BalanceFailed(text)
           \/ \E block \in Blocks : BalanceFetched(block)
           \/ BalanceMocked
  BY <1>1, <1>2 DEF NotActivated, ExecutionsFailed, ExecutionsFetched, ExecutionsMocked, BalanceFailed,
                    BalanceFetched, BalanceMocked, AtQuery
<1>3. CASE WriteTrades \/ FlushDiagnostics \/ WriteBalances \/ WriteAccounts
  BY <1>1, <1>3 DEF WriteTrades, FlushDiagnostics, WriteBalances, WriteAccounts, AllAsked
<1>4. CASE Read
  <2> DEFINE loaded == JsonLoads(document)
  <2>1. /\ shown' = IF ~loaded.ok THEN [got |-> "error"] ELSE Made(loaded.value)
        /\ stage = "read" /\ stage' = "shown"
        /\ UNCHANGED <<job, queried, records, messages>>
    BY <1>4, Zenon DEF Read, Made
  <2>2. loaded.ok => loaded.value = Written
    BY <2>1, Zenon DEF Readable
  <2> HIDE DEF loaded
  <2>3. CASE ~loaded.ok
    BY <2>1, <2>3 DEF ShownInv
  <2>4. CASE loaded.ok
    <3>1. shown' = Made(Written)
      BY <2>1, <2>2, <2>4
    <3>2. ParseBalanceAccounts([balance_accounts |-> records]) = ParseBalanceAccounts(Written)
            \/ job.kind # "balance"
      BY WrittenTold DEF ParseBalanceAccounts
    <3>3. /\ shown'.got \in {"trades", "balances"} => shown'.alert = messages
          /\ shown'.got = "balances" =>
               /\ job.kind = "balance"
               /\ shown'.balances = ParseBalanceAccounts([balance_accounts |-> records])
          /\ shown'.got = "trades" => job.kind = "executions" /\ shown'.trades = ParseTrades(Written)
      BY <3>1, <3>2, WrittenTold, MadeOf
    <3>4. ParseBalanceAccounts([balance_accounts |-> records])'
            = ParseBalanceAccounts([balance_accounts |-> records])
      BY <2>1
    <3>5. ParseTrades(Written)' = ParseTrades(Written)
      BY <2>1, SameWritten
    <3> QED
      BY <2>1, <3>3, <3>4, <3>5 DEF ShownInv
  <2> QED
    BY <2>3, <2>4
<1>5. CASE UNCHANGED vars
  <2>1. ParseTrades(Written)' = ParseTrades(Written)
    BY <1>5, SameWritten DEF vars
  <2> QED
    BY <1>5, <2>1 DEF vars, ShownInv
<1> QED
  BY <1>2, <1>3, <1>4, <1>5 DEF Next

-----------------------------------------------------------------------------
(* The theorems                                                            *)

LEMMA AtFirst ==
  ASSUME Init
  PROVE  ListInv /\ VerdictInv /\ MessageInv /\ BalanceInv /\ ShownInv
<1>1. answers = <<>> /\ records = <<>> /\ messages = <<>> /\ diagnostics = <<>> /\ job \in Jobs
      /\ shown = [got |-> "nothing"]
  BY DEF Init, Nothing
<1>2. Tried = {} /\ Gave = {}
  BY <1>1 DEF Tried, Asked, Gave
<1>3. Cardinality({}) = 0
  BY FS_EmptySet
<1>4. ListInv
  BY <1>1 DEF ListInv
<1>5. VerdictInv /\ BalanceInv
  BY <1>1, <1>2, <1>3 DEF VerdictInv, BalanceInv
<1>6. MessageInv
  BY <1>1 DEF MessageInv
<1>7. ShownInv
  BY <1>1 DEF ShownInv
<1> QED
  BY <1>4, <1>5, <1>6, <1>7

LEMMA DiagnosticHolds ==
  ASSUME ListInv, VerdictInv
  PROVE  DiagnosticTrue
<1> SUFFICES ASSUME job.kind = "executions"
             PROVE  DiagnosticTrue
  BY DEF DiagnosticTrue
<1>1. Len(diagnostics) = Cardinality(Tried)
  BY DEF VerdictInv
<1> SUFFICES ASSUME NEW i \in Tried
             PROVE  LET d == diagnostics[PlaceIn(Tried, i)]
                        succeeded == answers[i].kind = "rows"
                    IN /\ d.selected_account = Accounts[i]
                       /\ d.query_succeeded = succeeded
                       /\ (d.classification \in {"success", "success_after_binding_switch"}) = succeeded
                       /\ (d.candidate_cause = "hash_binding_mismatch")
                            = (succeeded /\ Len(d.attempts) = 2)
                       /\ succeeded => d.failure_reason = <<>>
                       /\ ~succeeded => FailureTold(d, Last(answers[i].outcomes))
  BY <1>1, Zenon DEF DiagnosticTrue
<1> DEFINE d == diagnostics[PlaceIn(Tried, i)]
           succeeded == answers[i].kind = "rows"
<1>2. PICK o \in Calls : /\ IsCall(Mode, Requested, o)
                         /\ IsAnswerOf(o, answers[i])
                         /\ diagnostics[PlaceIn(Tried, i)] = Verdict(Accounts[i], o)
  BY DEF VerdictInv
<1>3. succeeded = Succeeds(o) /\ (~succeeded => answers[i].outcomes = o)
  BY <1>2 DEF Succeeds, IsAnswerOf
<1>4. d = Verdict(Accounts[i], o)
  BY <1>2
<1> HIDE DEF d, succeeded
<1>5. /\ d.selected_account = Accounts[i]
      /\ d.query_succeeded = succeeded
      /\ (d.classification \in {"success", "success_after_binding_switch"}) = succeeded
      /\ (d.candidate_cause = "hash_binding_mismatch") = (succeeded /\ Len(d.attempts) = 2)
      /\ succeeded => d.failure_reason = <<>>
      /\ ~succeeded => FailureTold(d, Last(answers[i].outcomes))
  BY <1>2, <1>3, <1>4, VerdictTrue
<1> QED
  BY <1>5 DEF d, succeeded

(* DiagnosticTrue for any accounts, commands and outcomes: the diagnoses   *)
(* that fetch_s8180_page leaves are those of the accounts s8180 was sent   *)
(* for, in turn, and each tells the success, the switch of the binding or  *)
(* how the last attempt failed of its own account.                         *)
THEOREM DiagnosesAreTrue == Spec => []DiagnosticTrue
<1>1. Init => ListInv /\ VerdictInv
  BY AtFirst
<1>2. ListInv /\ VerdictInv /\ [Next]_vars => ListInv' /\ VerdictInv'
  BY ListStep, VerdictStep
<1>3. ListInv /\ VerdictInv => DiagnosticTrue
  BY DiagnosticHolds
<1> QED
  BY <1>1, <1>2, <1>3, PTL DEF Spec

LEMMA PartialHolds ==
  ASSUME ListInv, MessageInv, ShownInv
  PROVE  PartialIsReported
<1> SUFFICES ASSUME shown.got \in {"trades", "balances"}
             PROVE  PartialIsReported
  BY DEF PartialIsReported
<1>1. shown.alert = messages
  BY DEF ShownInv
<1>2. messages # <<>> <=> Len(messages) > 0
  BY DEF ListInv
<1>3. (\E i \in DOMAIN answers : Missing(answers[i]))
        <=> \/ \E i \in DOMAIN answers : ~GaveData(answers[i])
            \/ \E i \in Asked("rows") :
                 /\ ParseSplits(answers[i].splits) = <<>>
                 /\ \E row \in Range(answers[i].rows) :
                      row.split = "Y" /\ ParseNumber(row.executed) > 0
            \/ \E i \in Asked("block") : answers[i].block.warnings # <<>>
  BY Zenon DEF Missing, Untold, Asked
<1> QED
  BY <1>1, <1>2, <1>3, Zenon DEF PartialIsReported, MessageInv

(* PartialIsReported for any accounts, rows, blocks and warnings, as far   *)
(* as what the Python program reads is what fetch.exe wrote: the window    *)
(* warns exactly when an account failed, a split order's details could not *)
(* be had, or the broker warned.                                           *)
THEOREM MissingIsTold == Spec /\ []Readable => []PartialIsReported
<1> DEFINE Inv == ListInv /\ MessageInv /\ ShownInv
<1>1. Init => Inv
  BY AtFirst
<1>2. Inv /\ Readable /\ [Next]_vars => Inv'
  BY ListStep, MessageStep, ShownStep
<1>3. Inv => PartialIsReported
  BY PartialHolds
<1> HIDE DEF Inv
<1> QED
  BY <1>1, <1>2, <1>3, PTL DEF Spec

-----------------------------------------------------------------------------
(* The numbers                                                             *)

(* What the dialog gets for a result.                                      *)
ShownOf(r) ==
  [account |-> r.selected_account.account_no, summary |-> Taken(r.summary, SummaryShown),
   positions |-> [j \in DOMAIN r.positions |-> Taken(r.positions[j], PositionShown)],
   warnings |-> r.warnings]

(* A balance is shown whole, and with the broker's numbers.                *)
Arrived(b, account, answer) ==
  /\ b.account = account.account_no
  /\ DOMAIN b.summary = SummaryShown
  /\ \A p \in DOMAIN b.positions : DOMAIN b.positions[p] = PositionShown
  /\ answer.kind = "block" =>
       /\ Len(b.positions) = Len(answer.block.positions)
       /\ \A n \in DOMAIN SummaryFrom : Near(b.summary[n], answer.block.summary[SummaryFrom[n]])
       /\ \A p \in DOMAIN b.positions, n \in DOMAIN PositionFrom :
            Near(b.positions[p][n], answer.block.positions[p][PositionFrom[n]])

LEMMA BlockArrives ==
  ASSUME NEW account, NEW block \in Blocks, NEW answer, answer.block = block,
         NEW b, b = ShownOf(BalanceOf(account, block))
  PROVE  Arrived(b, account, answer)
<1> DEFINE s == ParseSummary(account.account_no, block.summary)
           P(i) == ParsePosition(account.account_no, block.positions[i])
<1>1. /\ block.positions \in Seq(Range(block.positions))
      /\ \A n \in DOMAIN SummaryFrom : block.summary[SummaryFrom[n]] \in RawNumber
      /\ \A p \in Range(block.positions), n \in DOMAIN PositionFrom : p[PositionFrom[n]] \in RawNumber
  BY DataAssumption
<1>2. /\ Len(block.positions) \in Nat /\ DOMAIN block.positions = 1..Len(block.positions)
      /\ \A i \in DOMAIN block.positions : block.positions[i] \in Range(block.positions)
  BY <1>1 DEF Range
<1>3. /\ b.account = account.account_no
      /\ b.summary = Taken(s, SummaryShown)
      /\ b.positions = [i \in DOMAIN block.positions |-> Taken(P(i), PositionShown)]
  BY DEF ShownOf, BalanceOf
<1>4. /\ DOMAIN b.summary = SummaryShown
      /\ \A n \in DOMAIN SummaryFrom : b.summary[n] = ParseNumber(block.summary[SummaryFrom[n]])
  BY <1>3, FieldsTaken
<1>5. ASSUME NEW i \in DOMAIN block.positions
      PROVE  /\ DOMAIN b.positions[i] = PositionShown
             /\ \A n \in DOMAIN PositionFrom :
                  b.positions[i][n] = ParseNumber(block.positions[i][PositionFrom[n]])
  <2>1. b.positions[i] = Taken(P(i), PositionShown)
    BY <1>3
  <2> QED
    BY <2>1, FieldsTaken
<1> HIDE DEF s, P
<1>6. DOMAIN b.positions = DOMAIN block.positions /\ Len(b.positions) = Len(block.positions)
  BY <1>2, <1>3
<1>7. \A n \in DOMAIN SummaryFrom : Near(b.summary[n], block.summary[SummaryFrom[n]])
  BY <1>1, <1>4, Rounded
<1>8. \A p \in DOMAIN b.positions, n \in DOMAIN PositionFrom :
        Near(b.positions[p][n], block.positions[p][PositionFrom[n]])
  BY <1>1, <1>2, <1>5, <1>6, Rounded
<1> QED
  BY <1>3, <1>4, <1>5, <1>6, <1>7, <1>8 DEF Arrived

LEMMA MockArrives ==
  ASSUME NEW account, NEW answer, answer.kind = "mock",
         NEW b, b = ShownOf(MockBalance(account))
  PROVE  Arrived(b, account, answer)
<1> DEFINE s == MockSummary(account.account_no)
           ps == MockPositions(account.account_no)
<1>1. /\ b.account = account.account_no
      /\ b.summary = Taken(s, SummaryShown)
      /\ b.positions = [j \in DOMAIN ps |-> Taken(ps[j], PositionShown)]
  BY DEF ShownOf, MockBalance
<1>2. /\ DOMAIN Taken(s, SummaryShown) = SummaryShown
      /\ \A i \in DOMAIN ps : DOMAIN Taken(ps[i], PositionShown) = PositionShown
  BY MockTaken
<1> HIDE DEF s, ps
<1> QED
  BY <1>1, <1>2 DEF Arrived

LEMMA NumbersHold ==
  ASSUME ListInv, BalanceInv, ShownInv
  PROVE  NumbersArrive
<1> SUFFICES ASSUME shown.got = "balances"
             PROVE  NumbersArrive
  BY DEF NumbersArrive
<1>1. /\ job.kind = "balance"
      /\ shown.balances = ParseBalanceAccounts([balance_accounts |-> records])
  BY DEF ShownInv
<1>2. /\ Len(records) = Cardinality(Gave) /\ records \in Seq(Balances)
      /\ \A i \in Gave : IsResultOf(records[PlaceIn(Gave, i)], Accounts[i], answers[i])
  BY <1>1 DEF BalanceInv, ListInv
<1>3. shown.balances = [k \in DOMAIN records |-> ShownOf(records[k])]
  BY <1>1 DEF ParseBalanceAccounts, ShownOf
<1>4. Len(shown.balances) = Cardinality(Gave) /\ DOMAIN records = 1..Cardinality(Gave)
  BY <1>2, <1>3
<1>5. ASSUME NEW i \in Gave
      PROVE  Arrived(shown.balances[PlaceIn(Gave, i)], Accounts[i], answers[i])
  <2> DEFINE k == PlaceIn(Gave, i)
  <2>1. k \in 1..Cardinality(Gave)
    <3>1. Len(answers) \in Nat /\ Gave \in SUBSET (1..Len(answers))
      BY DEF ListInv, Gave
    <3> QED
      BY <3>1, Places
  <2>2. shown.balances[k] = ShownOf(records[k])
    BY <1>3, <1>4, <2>1
  <2>3. IsResultOf(records[k], Accounts[i], answers[i])
    BY <1>2
  <2>4. answers[i].kind = "block" => answers[i].block \in Blocks
    <3>1. answers[i] \in Answer
      BY DEF ListInv, Gave
    <3> QED
      BY <3>1 DEF Answer
  <2> HIDE DEF k
  <2>5. answers[i].kind = "block" /\ records[k] = BalanceOf(Accounts[i], answers[i].block)
          => Arrived(shown.balances[k], Accounts[i], answers[i])
    BY <2>2, <2>4, BlockArrives
  <2>6. answers[i].kind = "mock" /\ records[k] = MockBalance(Accounts[i])
          => Arrived(shown.balances[k], Accounts[i], answers[i])
    BY <2>2, MockArrives
  <2>7. Arrived(shown.balances[k], Accounts[i], answers[i])
    BY <2>3, <2>5, <2>6 DEF IsResultOf
  <2> QED
    BY <2>7 DEF k
<1> QED
  BY <1>4, <1>5, Zenon DEF NumbersArrive, Arrived

(* NumbersArrive for any accounts and any blocks of c8201, as far as what  *)
(* the Python program reads is what fetch.exe wrote: the dialog's balances *)
(* are those of the accounts that gave one, in turn and with every         *)
(* position, and a number is never more than half a unit from its field.   *)
THEOREM BalancesArrive == Spec /\ []Readable => []NumbersArrive
<1> DEFINE Inv == ListInv /\ BalanceInv /\ ShownInv
<1>1. Init => Inv
  BY AtFirst
<1>2. Inv /\ Readable /\ [Next]_vars => Inv'
  BY ListStep, BalanceStep, ShownStep
<1>3. Inv => NumbersArrive
  BY NumbersHold
<1> HIDE DEF Inv
<1> QED
  BY <1>1, <1>2, <1>3, PTL DEF Spec

-----------------------------------------------------------------------------
(* From a row to a record                                                  *)

LEMMA Parsed ==
  ASSUME NEW raw \in RawNumber
  PROVE  ParseNumber(raw) \in Int
<1>1. raw.tenths \in Int /\ raw.form \in {"blank", "number", "junk"}
  BY DEF RawNumber
<1>2. Llround(raw.tenths) \in Int
  BY <1>1 DEF Llround
<1>3. ParseNumber(raw) \in {0, Llround(raw.tenths), raw.tenths}
  BY <1>1, Zenon DEF ParseNumber
<1> QED
  BY <1>1, <1>2, <1>3

LEMMA RowParsed ==
  ASSUME NEW account, NEW row \in ExecRow, NEW p, p = ParseExecRow(account, row)
  PROVE  /\ p.account_no = account /\ p.order_no = NormalizeOrderNo(row.order)
         /\ p.order_type = row.kind /\ p.exec_qty = ParseNumber(row.executed)
         /\ p.sor_split = "Y" <=> row.split = "Y"
         /\ p.exec_qty \in Int /\ p.exec_avg_price \in Int
<1>1. row.executed \in RawNumber /\ row.avg \in RawNumber
  BY DEF ExecRow
<1>2. ParseNumber(row.executed) \in Int /\ ParseNumber(row.avg) \in Int
  BY <1>1, Parsed
<1>3. p.exec_avg_price = ParseNumber(row.avg)
  BY DEF ParseExecRow
<1> QED
  BY <1>2, <1>3 DEF ParseExecRow

(* A row of s8118 that counts.                                             *)
Detailed(d) ==
  /\ DOMAIN d = {"exec_qty", "exec_amount", "exec_price", "exec_time", "market"}
  /\ d.exec_qty \in Nat \ {0} /\ d.exec_amount \in Int
  /\ d.exec_price = DerivePriceFromAmount(d.exec_qty, d.exec_amount)

LEMMA SplitsParsed ==
  ASSUME NEW splits, splits \in Seq(SplitRow), NEW ps, ps = ParseSplits(splits)
  PROVE  ps \in Seq(Range(ps)) /\ \A d \in Range(ps) : Detailed(d)
<1> DEFINE parsed == [i \in DOMAIN splits |-> ParseSplitRow(splits[i])]
           A == {ParseSplitRow(s) : s \in SplitRow}
           I == {i \in DOMAIN splits : Executed(parsed[i])}
<1>1. Len(splits) \in Nat /\ DOMAIN splits = 1..Len(splits) /\ \A i \in DOMAIN splits : splits[i] \in SplitRow
  OBVIOUS
<1>2. parsed \in Seq(A) /\ Len(parsed) = Len(splits)
  BY <1>1
<1>3. ps = Kept(parsed, I)
  BY DEF ParseSplits
<1>4. \A i \in I : i \in DOMAIN splits /\ Executed(parsed[i]) /\ parsed[i] = ParseSplitRow(splits[i])
  OBVIOUS
<1> HIDE DEF parsed, A, I
<1>5. ps \in Seq(A) /\ Range(ps) = {parsed[i] : i \in {j \in 1..Len(parsed) : j \in I}}
  BY <1>2, <1>3, KeptRange
<1>6. ASSUME NEW i \in I
      PROVE  Detailed(parsed[i])
  <2> DEFINE s == splits[i]
             d == parsed[i]
  <2>1. s \in SplitRow /\ d = ParseSplitRow(s) /\ d.exec_qty > 0
    BY <1>1, <1>4 DEF Executed
  <2> HIDE DEF s, d
  <2>2. s.executed \in RawNumber /\ s.amount \in RawNumber
    BY <2>1 DEF SplitRow
  <2>3. ParseNumber(s.executed) \in Int /\ ParseNumber(s.amount) \in Int
    BY <2>2, Parsed
  <2>4. /\ d.exec_qty = ParseNumber(s.executed) /\ d.exec_amount = ParseNumber(s.amount)
        /\ d.exec_price = DerivePriceFromAmount(d.exec_qty, d.exec_amount)
        /\ DOMAIN d = {"exec_qty", "exec_amount", "exec_price", "exec_time", "market"}
    BY <2>1 DEF ParseSplitRow
  <2>5. Detailed(d)
    BY <2>1, <2>3, <2>4 DEF Detailed
  <2> QED
    BY <2>5 DEF d
<1>7. \A d \in Range(ps) : Detailed(d)
  BY <1>5, <1>6
<1> QED
  BY <1>5, <1>7, RangeTyped

(* The price fetch.exe derives is the nearest to the amount.               *)
LEMMA PriceDerived ==
  ASSUME NEW qty \in Nat \ {0}, NEW amount \in Int, NEW price,
         price = DerivePriceFromAmount(qty, amount)
  PROVE  /\ price \in Int
         /\ amount <= 0 => price = 0
         /\ amount > 0 => 2 * (amount - qty * price) <= qty /\ 2 * (qty * price - amount) <= qty
<1>1. CASE amount <= 0
  BY <1>1 DEF DerivePriceFromAmount
<1>2. CASE ~(amount <= 0)
  <2>1. price = RoundHalfUpWon(amount, qty)
    BY <1>2 DEF DerivePriceFromAmount, Quotient, RoundHalfUpWon
  <2> QED
    BY <1>2, <2>1, NearestQuotient
<1> QED
  BY <1>1, <1>2

LEMMA DetailCompleted ==
  ASSUME NEW d, Detailed(d), NEW r, NEW c, c = CompleteDetail(d, r)
  PROVE  GoodItem(c) /\ c.exec_qty = d.exec_qty
<1>1. /\ d.exec_qty \in Nat \ {0} /\ d.exec_amount \in Int
      /\ DOMAIN d = {"exec_qty", "exec_amount", "exec_price", "exec_time", "market"}
  BY DEF Detailed
<1>2. /\ d.exec_price \in Int
      /\ d.exec_amount <= 0 => d.exec_price = 0
      /\ d.exec_amount > 0 => /\ 2 * (d.exec_amount - d.exec_qty * d.exec_price) <= d.exec_qty
                              /\ 2 * (d.exec_qty * d.exec_price - d.exec_amount) <= d.exec_qty
  BY <1>1, PriceDerived DEF Detailed
<1>3. c.exec_qty = d.exec_qty /\ c.exec_price = d.exec_price
  BY <1>1 DEF CompleteDetail
<1>4. c.exec_amount = IF d.exec_amount <= 0 /\ d.exec_price > 0 THEN d.exec_qty * d.exec_price
                      ELSE d.exec_amount
  BY <1>1 DEF CompleteDetail
<1>5. c.exec_amount = d.exec_amount
  BY <1>2, <1>4
<1> QED
  BY <1>1, <1>2, <1>3, <1>5 DEF GoodItem

LEMMA OwnCompleted ==
  ASSUME NEW r, r.exec_qty \in Nat \ {0}, r.exec_avg_price \in Int, NEW d, d = OwnDetail(r)
  PROVE  GoodItem(d) /\ d.exec_qty = r.exec_qty
<1>1. r.exec_qty * r.exec_avg_price \in Int
  OBVIOUS
<1>2. /\ d.exec_qty = r.exec_qty /\ d.exec_price = r.exec_avg_price
      /\ d.exec_amount = r.exec_qty * r.exec_avg_price
  BY DEF OwnDetail
<1> QED
  BY <1>1, <1>2 DEF GoodItem

(* The details of a split row, when s8118 told them, are its shares.       *)
AddsUp(row, splits) ==
  (row.split = "Y" /\ ParseSplits(splits) # <<>>) =>
    ParseNumber(row.executed) = ItemShares(ParseSplits(splits))

(* A row that executed something becomes a record of its account, order    *)
(* and side, with details that fit and, as far as s8118's add up, its      *)
(* shares.                                                                 *)
LEMMA FiledTold ==
  ASSUME NEW account, NEW row, row \in ExecRow, ParseNumber(row.executed) > 0,
         NEW splits, splits \in Seq(SplitRow),
         NEW p, p = ParseExecRow(account, row), NEW r, r = FileExecution(p, splits)
  PROVE  /\ r.account_no = account /\ r.order_no = NormalizeOrderNo(row.order)
         /\ r.order_type = row.kind /\ GoodItems(r.split_details)
         /\ AddsUp(row, splits) => ItemShares(r.split_details) = ParseNumber(row.executed)
<1> DEFINE ps == ParseSplits(splits)
           completed == [i \in DOMAIN ps |-> CompleteDetail(ps[i], p)]
           own == OwnDetail(p)
           q == ParseNumber(row.executed)
<1>1. /\ p.account_no = account /\ p.order_no = NormalizeOrderNo(row.order)
      /\ p.order_type = row.kind /\ p.exec_qty = q
      /\ p.sor_split = "Y" <=> row.split = "Y"
      /\ p.exec_qty \in Nat \ {0} /\ p.exec_avg_price \in Int
  BY RowParsed
<1>2. /\ r.account_no = p.account_no /\ r.order_no = p.order_no /\ r.order_type = p.order_type
      /\ r.split_details = IF p.sor_split = "Y" /\ ps # <<>> THEN completed ELSE <<own>>
  BY DEF FileExecution, ParseExecRow
<1>3. ps \in Seq(Range(ps)) /\ \A d \in Range(ps) : Detailed(d)
  BY SplitsParsed
<1> HIDE DEF ps, own, q
<1>4. /\ Len(ps) \in Nat /\ DOMAIN ps = 1..Len(ps)
      /\ \A i \in DOMAIN ps : Detailed(ps[i])
  BY <1>3 DEF Range
<1>5. CASE p.sor_split = "Y" /\ ps # <<>>
  <2>1. \A i \in DOMAIN ps : GoodItem(completed[i]) /\ completed[i].exec_qty = ps[i].exec_qty
    <3>1. ASSUME NEW i \in DOMAIN ps
          PROVE  GoodItem(completed[i]) /\ completed[i].exec_qty = ps[i].exec_qty
      BY <1>4, DetailCompleted
    <3> QED
      BY <3>1
  <2>2. DOMAIN completed = DOMAIN ps /\ Len(completed) = Len(ps)
    BY <1>4
  <2>3. completed \in Seq(Range(completed)) /\ completed # <<>>
    BY <1>3, <1>4, <1>5, <2>2 DEF Range
  <2> HIDE DEF completed
  <2>4. GoodItems(completed)
    BY <2>1, <2>2, <2>3 DEF GoodItems, Range
  <2>5. ItemShares(completed) = ItemShares(ps)
    <3>1. [i \in DOMAIN completed |-> completed[i].exec_qty] = [i \in DOMAIN ps |-> ps[i].exec_qty]
      BY <2>1, <2>2
    <3> QED
      BY <3>1, Zenon DEF ItemShares
  <2>6. AddsUp(row, splits) => ItemShares(ps) = q
    BY <1>1, <1>5 DEF AddsUp, ps, q
  <2> QED
    BY <1>1, <1>2, <1>5, <2>4, <2>5, <2>6 DEF q
<1>6. CASE ~(p.sor_split = "Y" /\ ps # <<>>)
  <2>1. GoodItem(own) /\ own.exec_qty = p.exec_qty
    BY <1>1, OwnCompleted DEF own
  <2>2. r.split_details = <<own>>
    BY <1>2, <1>6
  <2>3. GoodItems(<<own>>)
    BY <2>1 DEF GoodItems, Range
  <2>4. ItemShares(<<own>>) = q
    <3>1. [i \in DOMAIN <<own>> |-> <<own>>[i].exec_qty] = <<own.exec_qty>>
      OBVIOUS
    <3>2. Total(<<own.exec_qty>>) = own.exec_qty
      BY <1>1, <2>1, TotalOne
    <3> QED
      BY <1>1, <2>1, <3>1, <3>2 DEF ItemShares
  <2> QED
    BY <1>1, <1>2, <2>2, <2>3, <2>4 DEF q
<1> QED
  BY <1>5, <1>6

-----------------------------------------------------------------------------
(* The records of an account                                               *)

(* Entries of the login without a number were skipped.                     *)
LEMMA AccountsNumbered ==
  ASSUME NEW i \in AccountTurns
  PROVE  Numbered(Accounts[i])
<1> DEFINE parsed == [j \in DOMAIN LoginInfo |-> ParseAccount(j, LoginInfo[j])]
           I == {j \in DOMAIN LoginInfo : LoginInfo[j].no # ""}
<1>1. Len(LoginInfo) \in Nat /\ DOMAIN LoginInfo = 1..Len(LoginInfo)
  BY DataAssumption
<1>2. parsed \in Seq(Range(parsed)) /\ Len(parsed) = Len(LoginInfo)
  BY <1>1 DEF Range
<1>3. Accounts = Kept(parsed, I)
  BY DEF Accounts, ParseLoginInfo
<1>4. \A j \in I : Numbered(parsed[j])
  BY DEF ParseAccount, Numbered
<1> HIDE DEF parsed, I
<1>5. /\ Accounts \in Seq(Range(parsed))
      /\ Range(Accounts) = {parsed[j] : j \in {k \in 1..Len(parsed) : k \in I}}
  BY <1>2, <1>3, KeptRange
<1>6. Accounts[i] \in Range(Accounts)
  BY <1>5 DEF AccountTurns, Range
<1> QED
  BY <1>4, <1>5, <1>6

(* The rows of an answer, and what they say.                               *)
LEMMA RowTold ==
  ASSUME NEW account, NEW answer, answer.kind = "rows", answer.rows \in Seq(ExecRow),
         NEW xs, xs = Executions(account, answer)
  PROVE  /\ DOMAIN xs = DOMAIN answer.rows
         /\ \A j \in DOMAIN xs :
              /\ answer.rows[j] \in ExecRow
              /\ xs[j].key = <<account.account_no, NormalizeOrderNo(answer.rows[j].order)>>
              /\ xs[j].qty = ParseNumber(answer.rows[j].executed) /\ xs[j].qty \in Int
              /\ xs[j].side = InferSide(answer.rows[j].kind)
<1> DEFINE rows == answer.rows
<1>1. Len(rows) \in Nat /\ DOMAIN rows = 1..Len(rows) /\ \A j \in DOMAIN rows : rows[j] \in ExecRow
  OBVIOUS
<1>2. \A j \in DOMAIN rows : ParseNumber(rows[j].executed) \in Int
  <2>1. ASSUME NEW j \in DOMAIN rows
        PROVE  ParseNumber(rows[j].executed) \in Int
    <3>1. rows[j].executed \in RawNumber
      BY <1>1 DEF ExecRow
    <3> QED
      BY <3>1, Parsed
  <2> QED
    BY <2>1
<1>3. xs = [j \in DOMAIN rows |->
              [key |-> <<account.account_no, NormalizeOrderNo(rows[j].order)>>,
               qty |-> ParseNumber(rows[j].executed), side |-> InferSide(rows[j].kind)]]
  BY DEF Executions
<1> QED
  BY <1>1, <1>2, <1>3

(* fetch_s8180_page and fetch_executions, for the rows of one account.     *)
PageRecords(account, rows, splits) ==
  LET page == ParsePage(account.account_no, rows)
  IN [i \in DOMAIN page |-> FileExecution(page[i], splits)]

AllAddUp(rows, splits) ==
  \A row \in Range(rows) : ParseNumber(row.executed) > 0 => AddsUp(row, splits)

LEMMA PageTold ==
  ASSUME NEW account, Numbered(account), NEW rows, rows \in Seq(ExecRow), NEW splits, splits \in Seq(SplitRow),
         NEW answer, answer = [kind |-> "rows", rows |-> rows, splits |-> splits],
         NEW P, P = PageRecords(account, rows, splits)
  PROVE  GoodRecords(P) /\ (AllAddUp(rows, splits) => Tells(P, Executions(account, answer)))
<1> DEFINE no == account.account_no
           n == Len(rows)
           A == {ParseExecRow(no, row) : row \in ExecRow}
           parsed == [i \in DOMAIN rows |-> ParseExecRow(no, rows[i])]
           I == {i \in DOMAIN rows : Executed(parsed[i])}
           page == ParsePage(no, rows)
           xs == Executions(account, answer)
           Filed(i) == FileExecution(parsed[i], splits)
<1>1. n \in Nat /\ DOMAIN rows = 1..n /\ \A i \in 1..n : rows[i] \in ExecRow
  OBVIOUS
<1>2. /\ parsed \in Seq(A) /\ Len(parsed) = n
      /\ \A i \in 1..n : parsed[i] = ParseExecRow(no, rows[i])
  BY <1>1
<1>3. page = Kept(parsed, I)
  BY DEF ParsePage
<1>4. P = [i \in DOMAIN page |-> FileExecution(page[i], splits)]
  BY DEF PageRecords
<1>5. I = {i \in 1..n : ParseNumber(rows[i].executed) > 0}
  <2>1. \A i \in 1..n : parsed[i].exec_qty = ParseNumber(rows[i].executed)
    <3>1. ASSUME NEW i \in 1..n
          PROVE  parsed[i].exec_qty = ParseNumber(rows[i].executed)
      <4>1. parsed[i] = ParseExecRow(no, rows[i]) /\ rows[i] \in ExecRow
        BY <1>1, <1>2
      <4> HIDE DEF parsed, n, no
      <4> QED
        BY <4>1, RowParsed
    <3> QED
      BY <3>1
  <2> QED
    BY <1>1, <2>1 DEF Executed
<1>6. /\ DOMAIN xs = 1..n
      /\ \A j \in 1..n : /\ xs[j].key = <<no, NormalizeOrderNo(rows[j].order)>>
                         /\ xs[j].qty = ParseNumber(rows[j].executed) /\ xs[j].qty \in Int
                         /\ xs[j].side = InferSide(rows[j].kind)
  <2>1. answer.kind = "rows" /\ answer.rows \in Seq(ExecRow) /\ answer.rows = rows
    OBVIOUS
  <2> HIDE DEF xs, n
  <2>2. xs = Executions(account, answer)
    BY DEF xs
  <2> QED
    BY <1>1, <2>1, <2>2, RowTold
<1>7. \A r : r.account_no = no => Numbered(r)
  BY DEF Numbered
<1> HIDE DEF A, I, page, parsed, xs, no, n
<1>8. page \in Seq(A) /\ Range(page) = {parsed[i] : i \in {j \in 1..n : j \in I}}
  BY <1>2, <1>3, KeptRange
<1>9. Len(page) \in Nat /\ DOMAIN page = 1..Len(page)
  BY <1>8
<1>10. ASSUME NEW i \in I
       PROVE  /\ Filed(i).account_no = no /\ Filed(i).order_no = NormalizeOrderNo(rows[i].order)
              /\ Filed(i).order_type = rows[i].kind /\ GoodItems(Filed(i).split_details)
              /\ AllAddUp(rows, splits) =>
                   ItemShares(Filed(i).split_details) = ParseNumber(rows[i].executed)
  <2>1. i \in 1..n /\ rows[i] \in ExecRow /\ ParseNumber(rows[i].executed) > 0
    BY <1>1, <1>5
  <2>2. parsed[i] = ParseExecRow(no, rows[i]) /\ splits \in Seq(SplitRow)
    BY <1>2, <2>1
  <2>3. AllAddUp(rows, splits) => AddsUp(rows[i], splits)
    BY <1>1, <2>1 DEF AllAddUp, Range
  <2> QED
    BY <2>1, <2>2, <2>3, FiledTold
<1>11. \A k \in DOMAIN page : \E i \in I : page[k] = parsed[i] /\ P[k] = Filed(i)
  <2>1. ASSUME NEW k \in DOMAIN page
        PROVE  \E i \in I : page[k] = parsed[i] /\ P[k] = Filed(i)
    <3>1. page[k] \in Range(page)
      BY DEF Range
    <3>2. PICK i \in I : page[k] = parsed[i]
      BY <1>8, <3>1
    <3> QED
      BY <1>4, <3>2
  <2> QED
    BY <2>1
<1>12. \A i \in I : \E k \in DOMAIN page : P[k] = Filed(i)
  <2>1. ASSUME NEW i \in I
        PROVE  \E k \in DOMAIN page : P[k] = Filed(i)
    <3>1. parsed[i] \in Range(page)
      BY <1>5, <1>8
    <3>2. PICK k \in DOMAIN page : page[k] = parsed[i]
      BY <3>1 DEF Range
    <3> QED
      BY <1>4, <3>2
  <2> QED
    BY <2>1
<1>13. DOMAIN P = DOMAIN page /\ Len(P) = Len(page) /\ P \in Seq(Range(P))
  BY <1>4, <1>9 DEF Range
<1> HIDE DEF Filed
<1>14. Range(P) = {Filed(i) : i \in I}
  BY <1>11, <1>12, <1>13 DEF Range
<1>15. GoodRecords(P)
  BY <1>7, <1>10, <1>13, <1>14 DEF GoodRecords
<1>16. ASSUME AllAddUp(rows, splits), NEW k
       PROVE  Total(RecordShares(P, k)) = Shares(xs, k)
  <2> DEFINE Counts(p) == InferSide(p.order_type) # "none" /\ OrderOf(p) = k
             W == [p \in A |-> IF Counts(p) THEN p.exec_qty ELSE 0]
             t == [i \in 1..n |-> IF i \in I THEN W[parsed[i]] ELSE 0]
  <2>1. W \in [A -> Int]
    <3>1. \A row \in ExecRow : ParseExecRow(no, row).exec_qty \in Int
      BY RowParsed
    <3> QED
      BY <3>1 DEF A
  <2>2. ASSUME NEW i \in I
        PROVE  /\ parsed[i] \in A
               /\ RecordShare(Filed(i), k) = W[parsed[i]]
               /\ W[parsed[i]] = IF IsTrade(xs[i]) /\ xs[i].key = k THEN xs[i].qty ELSE 0
    <3>1. i \in 1..n /\ ParseNumber(rows[i].executed) > 0 /\ parsed[i] = ParseExecRow(no, rows[i])
          /\ rows[i] \in ExecRow
      BY <1>1, <1>2, <1>5
    <3>2. /\ parsed[i].account_no = no /\ parsed[i].order_no = NormalizeOrderNo(rows[i].order)
          /\ parsed[i].order_type = rows[i].kind /\ parsed[i].exec_qty = ParseNumber(rows[i].executed)
      BY <3>1, RowParsed
    <3>3. parsed[i] \in A
      BY <3>1 DEF A
    <3>4. W[parsed[i]] = IF Counts(parsed[i]) THEN parsed[i].exec_qty ELSE 0
      BY <3>3
    <3>5. Counts(parsed[i]) <=> IsTrade(xs[i]) /\ xs[i].key = k
      BY <1>6, <3>1, <3>2 DEF IsTrade, OrderOf
    <3>6. RecordShare(Filed(i), k) = IF Counts(parsed[i]) THEN parsed[i].exec_qty ELSE 0
      BY <1>10, <1>16, <3>2 DEF RecordShare, OrderOf
    <3> HIDE DEF W, Counts
    <3> QED
      BY <1>6, <3>1, <3>2, <3>3, <3>4, <3>5, <3>6
  <2> HIDE DEF W, Counts
  <2>3. RecordShares(P, k) = Weighed(W, page)
    <3>1. \A j \in DOMAIN page : RecordShare(P[j], k) = W[page[j]]
      BY <1>11, <2>2
    <3> QED
      BY <1>13, <3>1 DEF RecordShares, Weighed
  <2>4. Total(Weighed(W, page)) = Total(t)
    <3>1. Total(Weighed(W, page)) = Total(Left(W, parsed, I))
      BY <1>2, <1>3, <2>1, KeptTotal
    <3>2. t = Left(W, parsed, I)
      BY <1>2, Zenon DEF Left
    <3> QED
      BY <3>1, <3>2, Zenon
  <2>5. t = [j \in DOMAIN xs |-> IF IsTrade(xs[j]) /\ xs[j].key = k THEN xs[j].qty ELSE 0]
    <3>1. \A j \in 1..n : j \notin I => ~IsTrade(xs[j])
      BY <1>5, <1>6 DEF IsTrade
    <3> QED
      BY <1>6, <2>2, <3>1
  <2> QED
    BY <2>3, <2>4, <2>5, Zenon DEF Shares
<1>17. RecordSides(P) = RowSides(xs)
  <2>1. \A i \in I : /\ OrderOf(Filed(i)) = xs[i].key
                     /\ InferSide(Filed(i).order_type) = xs[i].side
                     /\ i \in 1..n /\ xs[i].qty > 0
    BY <1>5, <1>6, <1>10 DEF OrderOf
  <2>2. \A j \in 1..n : xs[j].qty > 0 => j \in I
    BY <1>5, <1>6
  <2>3. RecordSides(P) = {<<xs[i].key, xs[i].side>> : i \in {j \in I : xs[j].side # "none"}}
    BY <1>14, <2>1 DEF RecordSides
  <2>4. {y \in Range(xs) : IsTrade(y)} = {xs[i] : i \in {j \in I : xs[j].side # "none"}}
    BY <1>6, <2>1, <2>2 DEF IsTrade, Range
  <2> QED
    BY <2>3, <2>4 DEF RowSides
<1> QED
  BY <1>15, <1>16, <1>17 DEF Tells, xs

(* The mock broker's two pages.                                            *)
NoCts == ""

LEMMA FirstFilled ==
  ASSUME NEW no
  PROVE  FillMockS8180(no, NoCts).page = <<MockBuy(no)>> /\ FillMockS8180(no, NoCts).next = "PAGE2"
<1>1. FillMockS8180(no, NoCts) = [page |-> <<MockBuy(no)>>, next |-> "PAGE2"]
  BY Zenon DEF FillMockS8180, NoCts
<1> QED
  BY <1>1

LEMMA SecondFilled ==
  ASSUME NEW no
  PROVE  FillMockS8180(no, "PAGE2").page = <<MockSell(no)>>
<1>1. FillMockS8180(no, "PAGE2") = [page |-> <<MockSell(no)>>, next |-> NoCts]
  BY Zenon DEF FillMockS8180, NoCts
<1> QED
  BY <1>1

LEMMA ThreeShares == Total(<<37, 7, 56>>) = 100
<1>1. /\ <<37>> \in Seq(Int) /\ <<37, 7>> \in Seq(Int) /\ 37 \in Int /\ 7 \in Int /\ 56 \in Int
      /\ <<37, 7>> = Append(<<37>>, 7) /\ <<37, 7, 56>> = Append(<<37, 7>>, 56)
  OBVIOUS
<1>2. Total(<<37>>) = 37 /\ Total(<<37, 7>>) = Total(<<37>>) + 7
      /\ Total(<<37, 7, 56>>) = Total(<<37, 7>>) + 56
  BY <1>1, TotalOne, TotalAppend
<1> QED
  BY <1>2

LEMMA MockBought ==
  ASSUME NEW no, NEW r, r = MockFiled(MockBuy(no))
  PROVE  /\ r.account_no = no /\ r.order_no = 1 /\ InferSide(r.order_type) = "buy"
         /\ GoodItems(r.split_details) /\ ItemShares(r.split_details) = 100
<1> DEFINE m == MockBuy(no)
           ds == FillMockS8118(1)
<1>1. /\ m.sor_split = "Y" /\ m.order_no = 1 /\ m.account_no = no /\ m.order_type = <<"plain", "buy">>
      /\ \A x : [m EXCEPT !.split_details = x].account_no = no
      /\ \A x : [m EXCEPT !.split_details = x].order_no = 1
      /\ \A x : [m EXCEPT !.split_details = x].order_type = <<"plain", "buy">>
      /\ \A x : [m EXCEPT !.split_details = x].split_details = x
  BY DEF MockBuy, Mock
<1>2. /\ Len(ds) = 3 /\ DOMAIN ds = 1..3 /\ ds \in Seq(Range(ds)) /\ ds # <<>>
      /\ ds[1].exec_qty = 37 /\ ds[1].exec_amount = 2645500 /\ ds[1].exec_price = 71500
      /\ ds[2].exec_qty = 7 /\ ds[2].exec_amount = 501200 /\ ds[2].exec_price = 71600
      /\ ds[3].exec_qty = 56 /\ ds[3].exec_amount = 4006800 /\ ds[3].exec_price = 71550
  BY DEF FillMockS8118, Detail, Range
<1> HIDE DEF m, ds
<1>3. r = [m EXCEPT !.split_details = ds]
  BY <1>1, <1>2 DEF MockFiled, m, ds
<1>4. GoodItem(ds[1]) /\ GoodItem(ds[2]) /\ GoodItem(ds[3])
  BY <1>2 DEF GoodItem
<1>5. GoodItems(ds)
  BY <1>2, <1>4 DEF GoodItems, Range
<1>6. [i \in DOMAIN ds |-> ds[i].exec_qty] = <<37, 7, 56>>
  BY <1>2
<1>7. ItemShares(ds) = 100
  BY <1>6, ThreeShares DEF ItemShares
<1>8. InferSide(<<"plain", "buy">>) = "buy"
  BY DEF InferSide, Range
<1> QED
  BY <1>1, <1>3, <1>5, <1>7, <1>8

LEMMA MockSold ==
  ASSUME NEW no, NEW r, r = MockFiled(MockSell(no))
  PROVE  /\ r.account_no = no /\ r.order_no = 2 /\ InferSide(r.order_type) = "sell"
         /\ GoodItems(r.split_details) /\ ItemShares(r.split_details) = 50
<1> DEFINE m == MockSell(no)
           d == Detail(50, 4115000, 82300, "10:15:00", "KRX")
           ds == <<d>>
<1>1. /\ m.sor_split = "N" /\ m.order_no = 2 /\ m.account_no = no /\ m.order_type = <<"plain", "sell">>
      /\ m.split_details = ds
      /\ \A x : [m EXCEPT !.split_details = x].account_no = no
      /\ \A x : [m EXCEPT !.split_details = x].order_no = 2
      /\ \A x : [m EXCEPT !.split_details = x].order_type = <<"plain", "sell">>
      /\ \A x : [m EXCEPT !.split_details = x].split_details = x
  BY DEF MockSell, Mock
<1>2. d.exec_qty = 50 /\ d.exec_amount = 4115000 /\ d.exec_price = 82300
  BY DEF Detail
<1> HIDE DEF d, m
<1>3. ds # <<>>
  OBVIOUS
<1>4. r = [m EXCEPT !.split_details = ds]
  BY <1>1, <1>3 DEF MockFiled, m
<1>5. GoodItem(d)
  BY <1>2 DEF GoodItem
<1>6. GoodItems(ds)
  BY <1>5 DEF GoodItems, Range
<1>7. ItemShares(ds) = 50
  <2>1. [i \in DOMAIN ds |-> ds[i].exec_qty] = <<50>>
    BY <1>2
  <2> QED
    BY <2>1, TotalOne DEF ItemShares
<1>8. InferSide(<<"plain", "sell">>) = "sell"
  BY DEF InferSide, Range
<1> HIDE DEF ds
<1> QED
  BY <1>1, <1>4, <1>6, <1>7, <1>8

LEMMA MockRecords ==
  MockPages = <<MockBuy(Account.account_no), MockSell(Account.account_no)>>
<1> DEFINE no == Account.account_no
           first == FillMockS8180(no, NoCts)
<1>1. first.page = <<MockBuy(no)>> /\ first.next = "PAGE2"
      /\ FillMockS8180(no, "PAGE2").page = <<MockSell(no)>>
  BY FirstFilled, SecondFilled
<1>2. MockPages = first.page \o FillMockS8180(no, first.next).page
  BY Zenon DEF MockPages, NoCts
<1> HIDE DEF no, first
<1>3. MockPages = <<MockBuy(no)>> \o <<MockSell(no)>>
  BY <1>1, <1>2
<1>4. ASSUME NEW a, NEW b
      PROVE  <<a>> \o <<b>> = <<a, b>>
  <2>1. <<a>> \in Seq({a, b}) /\ <<b>> \in Seq({a, b}) /\ <<a, b>> \in Seq({a, b})
    OBVIOUS
  <2>2. <<a>> \o <<b>> = Append(<<a>>, b)
    BY <2>1
  <2>3. Append(<<a>>, b) = <<a, b>>
    <3> DEFINE s == Append(<<a>>, b)
               t == <<a, b>>
    <3>1. s \in Seq({a, b}) /\ Len(s) = 2 /\ s[1] = a /\ s[2] = b
      BY <2>1
    <3>2. t \in Seq({a, b}) /\ Len(t) = 2 /\ t[1] = a /\ t[2] = b
      BY <2>1
    <3> HIDE DEF s, t
    <3>3. \A i \in 1..Len(s) : s[i] = t[i]
      BY <3>1, <3>2
    <3>4. s = t
      BY <3>1, <3>2, <3>3, SeqEqual
    <3> QED
      BY <3>4 DEF s, t
  <2> QED
    BY <2>2, <2>3
<1>5. MockPages = <<MockBuy(no), MockSell(no)>>
  BY <1>3, <1>4, Zenon
<1> QED
  BY <1>5, Zenon DEF no

LEMMA MockTold ==
  ASSUME NEW account, account = Account, Numbered(account),
         NEW answer, answer = [kind |-> "mock"],
         NEW P, P = [i \in DOMAIN MockPages |-> MockFiled(MockPages[i])]
  PROVE  GoodRecords(P) /\ Tells(P, Executions(account, answer))
<1> DEFINE no == account.account_no
           b == MockFiled(MockBuy(no))
           s == MockFiled(MockSell(no))
           xs == Executions(account, answer)
<1>1. P = <<b, s>>
  <2>1. MockPages = <<MockBuy(no), MockSell(no)>>
    BY MockRecords
  <2> QED
    BY <2>1
<1>2. /\ b.account_no = no /\ b.order_no = 1 /\ InferSide(b.order_type) = "buy"
      /\ GoodItems(b.split_details) /\ ItemShares(b.split_details) = 100
      /\ s.account_no = no /\ s.order_no = 2 /\ InferSide(s.order_type) = "sell"
      /\ GoodItems(s.split_details) /\ ItemShares(s.split_details) = 50
  BY MockBought, MockSold
<1>3. /\ DOMAIN xs = 1..2
      /\ xs[1].key = <<no, 1>> /\ xs[1].qty = 100 /\ xs[1].side = "buy"
      /\ xs[2].key = <<no, 2>> /\ xs[2].qty = 50 /\ xs[2].side = "sell"
  BY DEF Executions
<1>4. Numbered(b) /\ Numbered(s)
  BY <1>2 DEF Numbered
<1> HIDE DEF b, s, xs, no
<1>5. GoodRecords(P)
  BY <1>1, <1>2, <1>4 DEF GoodRecords, Range
<1>6. ASSUME NEW k
      PROVE  Total(RecordShares(P, k)) = Shares(xs, k)
  <2>1. /\ RecordShare(b, k) = IF <<no, 1>> = k THEN 100 ELSE 0
        /\ RecordShare(s, k) = IF <<no, 2>> = k THEN 50 ELSE 0
    BY <1>2 DEF RecordShare, OrderOf
  <2>2. IsTrade(xs[1]) /\ IsTrade(xs[2])
    BY <1>3 DEF IsTrade
  <2>3. RecordShares(P, k) = [j \in DOMAIN xs |-> IF IsTrade(xs[j]) /\ xs[j].key = k THEN xs[j].qty ELSE 0]
    BY <1>1, <1>3, <2>1, <2>2 DEF RecordShares
  <2> QED
    BY <2>3, Zenon DEF Shares
<1>7. RecordSides(P) = RowSides(xs)
  <2>1. RecordSides(P) = {<<<<no, 1>>, "buy">>, <<<<no, 2>>, "sell">>}
    <3>1. Range(P) = {b, s}
      BY <1>1 DEF Range
    <3>2. {x \in Range(P) : InferSide(x.order_type) # "none"} = {b, s}
      BY <1>2, <3>1
    <3> QED
      BY <1>2, <3>2 DEF RecordSides, OrderOf
  <2>2. RowSides(xs) = {<<<<no, 1>>, "buy">>, <<<<no, 2>>, "sell">>}
    <3>1. {y \in Range(xs) : IsTrade(y)} = {xs[1], xs[2]}
      BY <1>3 DEF IsTrade, Range
    <3> QED
      BY <1>3, <3>1 DEF RowSides
  <2> QED
    BY <2>1, <2>2
<1> QED
  BY <1>5, <1>6, <1>7 DEF Tells, xs

-----------------------------------------------------------------------------
(* The records of all accounts                                             *)

LEMMA RecordShareType ==
  ASSUME NEW rs, GoodRecords(rs), NEW k
  PROVE  /\ \A r \in Range(rs) : RecordShare(r, k) \in Int
         /\ RecordShares(rs, k) \in Seq(Int) /\ Len(RecordShares(rs, k)) = Len(rs)
<1>1. rs \in Seq(Range(rs)) /\ \A r \in Range(rs) : GoodItems(r.split_details)
  BY DEF GoodRecords
<1>2. ASSUME NEW s, GoodItems(s)
      PROVE  ItemShares(s) \in Int
  <2>1. s \in Seq(Range(s)) /\ \A x \in Range(s) : GoodItem(x)
    BY <1>2 DEF GoodItems
  <2>2. Len(s) \in Nat /\ DOMAIN s = 1..Len(s) /\ \A i \in DOMAIN s : s[i].exec_qty \in Int
    BY <2>1 DEF GoodItem, Range
  <2>3. [i \in DOMAIN s |-> s[i].exec_qty] \in Seq(Int)
    BY <2>2
  <2> QED
    BY <2>3, TotalType DEF ItemShares
<1>3. \A r \in Range(rs) : RecordShare(r, k) \in Int
  BY <1>1, <1>2 DEF RecordShare
<1>4. Len(rs) \in Nat /\ DOMAIN rs = 1..Len(rs) /\ \A i \in DOMAIN rs : rs[i] \in Range(rs)
  BY <1>1 DEF Range
<1> QED
  BY <1>3, <1>4 DEF RecordShares

LEMMA SharesType ==
  ASSUME NEW account, NEW answer, answer \in Answer, NEW k
  PROVE  Shares(Executions(account, answer), k) \in Int
<1> DEFINE xs == Executions(account, answer)
           t == [j \in DOMAIN xs |-> IF IsTrade(xs[j]) /\ xs[j].key = k THEN xs[j].qty ELSE 0]
<1>1. \E n \in Nat : DOMAIN xs = 1..n /\ \A j \in 1..n : xs[j].qty \in Int
  <2>1. CASE answer.kind = "rows"
    <3>1. answer.rows \in Seq(ExecRow)
      BY <2>1 DEF Answer
    <3>2. Len(answer.rows) \in Nat /\ DOMAIN answer.rows = 1..Len(answer.rows)
      BY <3>1
    <3> HIDE DEF xs
    <3>3. DOMAIN xs = DOMAIN answer.rows /\ \A j \in DOMAIN xs : xs[j].qty \in Int
      BY <2>1, <3>1, RowTold DEF xs
    <3> QED
      BY <3>2, <3>3
  <2>2. CASE answer.kind = "mock"
    <3>1. DOMAIN xs = 1..2 /\ \A j \in 1..2 : xs[j].qty \in Int
      BY <2>2 DEF Executions
    <3> QED
      BY <3>1
  <2>3. CASE answer.kind \notin {"rows", "mock"}
    <3>1. xs = <<>>
      BY <2>3 DEF Executions
    <3> QED
      BY <3>1
  <2> QED
    BY <2>1, <2>2, <2>3
<1> HIDE DEF xs
<1>2. t \in Seq(Int)
  BY <1>1
<1> HIDE DEF t
<1>3. Total(t) \in Int
  BY <1>2, TotalType
<1> QED
  BY <1>3 DEF Shares, t, xs

(* What the records both tell is what rs and P tell.                       *)
RecordsAdd(both, rs, P) ==
  /\ \A k : Total(RecordShares(both, k)) = Total(RecordShares(rs, k)) + Total(RecordShares(P, k))
  /\ RecordSides(both) = RecordSides(rs) \cup RecordSides(P)

LEMMA RecordsJoin ==
  ASSUME NEW rs, GoodRecords(rs), NEW P, GoodRecords(P), NEW both, both = rs \o P
  PROVE  GoodRecords(both) /\ RecordsAdd(both, rs, P)
<1> DEFINE A == Range(rs) \cup Range(P)
<1>1. /\ rs \in Seq(A) /\ P \in Seq(A)
      /\ \A r \in A : GoodItems(r.split_details) /\ Numbered(r)
  <2>1. rs \in Seq(Range(rs)) /\ P \in Seq(Range(P))
    BY DEF GoodRecords
  <2>2. rs \in Seq(A)
    <3>1. Range(rs) \subseteq A
      OBVIOUS
    <3> HIDE DEF A
    <3> QED
      BY <2>1, <3>1, RangeTyped
  <2>3. P \in Seq(A)
    <3>1. Range(P) \subseteq A
      OBVIOUS
    <3> HIDE DEF A
    <3> QED
      BY <2>1, <3>1, RangeTyped
  <2> QED
    BY <2>2, <2>3 DEF GoodRecords
<1>2. Range(both) = A /\ both \in Seq(A)
  <2> DEFINE m == Len(rs)
             n == Len(P)
  <2>1. /\ both \in Seq(A) /\ Len(both) = m + n /\ m \in Nat /\ n \in Nat
        /\ \A i \in 1..m : both[i] = rs[i]
        /\ \A i \in 1..n : both[m + i] = P[i]
    <3> HIDE DEF A
    <3> QED
      BY <1>1, ConcatPlaces
  <2>2. DOMAIN rs = 1..m /\ DOMAIN P = 1..n /\ DOMAIN both = 1..(m + n)
    BY <1>1, <2>1
  <2> HIDE DEF m, n
  <2>3. A \subseteq Range(both)
    <3>1. ASSUME NEW i \in 1..m
          PROVE  i \in 1..(m + n) /\ rs[i] = both[i]
      BY <2>1
    <3>2. ASSUME NEW i \in 1..n
          PROVE  m + i \in 1..(m + n) /\ P[i] = both[m + i]
      BY <2>1
    <3>3. Range(rs) \subseteq Range(both)
      BY <2>2, <3>1 DEF Range
    <3>4. Range(P) \subseteq Range(both)
      <4>1. ASSUME NEW i \in 1..n
            PROVE  P[i] \in Range(both)
        <5>1. m + i \in DOMAIN both /\ P[i] = both[m + i]
          BY <2>2, <3>2
        <5> QED
          BY <5>1, Zenon DEF Range
      <4> QED
        BY <2>2, <4>1 DEF Range
    <3> QED
      BY <3>3, <3>4
  <2>4. Range(both) \subseteq A
    <3> HIDE DEF A
    <3> QED
      BY <2>1, <2>2 DEF Range
  <2> QED
    BY <2>1, <2>3, <2>4
<1> HIDE DEF A
<1>3. GoodRecords(both)
  BY <1>1, <1>2 DEF GoodRecords
<1>4. ASSUME NEW k
      PROVE  Total(RecordShares(both, k)) = Total(RecordShares(rs, k)) + Total(RecordShares(P, k))
  <2> DEFINE W == [r \in A |-> RecordShare(r, k)]
  <2>1. W \in [A -> Int]
    <3>1. \A r \in Range(both) : RecordShare(r, k) \in Int
      BY <1>3, RecordShareType
    <3> QED
      BY <1>2, <3>1
  <2>2. ASSUME NEW s \in Seq(A)
        PROVE  RecordShares(s, k) = Weighed(W, s)
    <3>1. \A i \in DOMAIN s : W[s[i]] = RecordShare(s[i], k)
      OBVIOUS
    <3> HIDE DEF W
    <3> QED
      BY <3>1 DEF RecordShares, Weighed
  <2> HIDE DEF W
  <2>3. Total(Weighed(W, rs \o P)) = Total(Weighed(W, rs)) + Total(Weighed(W, P))
    BY <1>1, <2>1, WeighedConcat
  <2> QED
    BY ONLY <1>1, <1>2, <2>2, <2>3, both = rs \o P, Zenon
<1>5. RecordSides(both) = RecordSides(rs) \cup RecordSides(P)
  <2>1. Range(both) = Range(rs) \cup Range(P)
    BY <1>2 DEF A
  <2> QED
    BY <2>1, Zenon DEF RecordSides
<1> QED
  BY <1>3, <1>4, <1>5, Zenon DEF RecordsAdd

(* What the account whose turn it is after the answers ans executed.       *)
NextExecutions(ans, a) == Executions(Accounts[Len(ans) + 1], a)

AnswersAdd(more, ans, xs) ==
  /\ \A k : SharesOfAnswers(more, k) = SharesOfAnswers(ans, k) + Shares(xs, k)
  /\ SidesOfAnswers(more) = SidesOfAnswers(ans) \cup RowSides(xs)

LEMMA AnswersJoin ==
  ASSUME NEW ans, ans \in Seq(Answer), NEW a, a \in Answer, NEW more, more = Append(ans, a),
         NEW xs, xs = NextExecutions(ans, a)
  PROVE  AnswersAdd(more, ans, xs)
<1> DEFINE n == Len(ans)
<1>1. /\ n \in Nat /\ DOMAIN ans = 1..n /\ DOMAIN more = 1..(n + 1)
      /\ \A i \in 1..n : more[i] = ans[i] /\ ans[i] \in Answer
      /\ more[n + 1] = a
  OBVIOUS
<1> HIDE DEF n
<1>2. ASSUME NEW k
      PROVE  SharesOfAnswers(more, k) = SharesOfAnswers(ans, k) + Shares(xs, k)
  <2> DEFINE S(i, x) == Shares(Executions(Accounts[i], x), k)
             t == [i \in DOMAIN ans |-> S(i, ans[i])]
             u == [i \in DOMAIN more |-> S(i, more[i])]
             x == Shares(xs, k)
  <2>1. \A i, y : y \in Answer => S(i, y) \in Int
    BY SharesType
  <2>2. x = S(n + 1, a) /\ x \in Int
    <3>1. x = S(n + 1, a)
      BY Zenon DEF n, NextExecutions
    <3> HIDE DEF S, x
    <3> QED
      BY <2>1, <3>1
  <2> HIDE DEF S, x
  <2>3. t \in Seq(Int) /\ Len(t) = n
    BY <1>1, <2>1
  <2>4. u \in Seq(Int) /\ Len(u) = n + 1
    BY <1>1, <2>1
  <2>5. u = Append(t, x)
    <3>1. \A i \in 1..n : u[i] = t[i]
      BY <1>1
    <3>2. u[n + 1] = x
      BY <1>1, <2>2
    <3> HIDE DEF t, u
    <3>3. Append(t, x) \in Seq(Int) /\ Len(Append(t, x)) = n + 1 /\ Append(t, x)[n + 1] = x
          /\ \A i \in 1..n : Append(t, x)[i] = t[i]
      BY <2>2, <2>3
    <3>4. \A i \in 1..(n + 1) : Append(t, x)[i] = u[i]
      BY <1>1, <3>1, <3>2, <3>3
    <3> QED
      BY <2>4, <3>3, <3>4, SeqEqual
  <2>6. Total(Append(t, x)) = Total(t) + x
    <3> HIDE DEF t
    <3> QED
      BY <2>2, <2>3, TotalAppend
  <2>7. Total(u) = SharesOfAnswers(more, k) /\ Total(t) = SharesOfAnswers(ans, k)
    BY Zenon DEF SharesOfAnswers, S
  <2> HIDE DEF t, u
  <2> QED
    BY <2>5, <2>6, <2>7 DEF x
<1>3. SidesOfAnswers(more) = SidesOfAnswers(ans) \cup RowSides(xs)
  <2> DEFINE S(i, x) == RowSides(Executions(Accounts[i], x))
             before == UNION {S(i, ans[i]) : i \in DOMAIN ans}
             after == UNION {S(i, more[i]) : i \in DOMAIN more}
  <2>1. RowSides(xs) = S(n + 1, a)
    BY Zenon DEF n, NextExecutions
  <2>2. SidesOfAnswers(more) = after /\ SidesOfAnswers(ans) = before
    BY Zenon DEF SidesOfAnswers
  <2> HIDE DEF S
  <2>3. \A i : i \in DOMAIN more <=> i \in DOMAIN ans \/ i = n + 1
    BY <1>1
  <2>4. \A i \in DOMAIN ans : S(i, more[i]) = S(i, ans[i])
    BY <1>1
  <2>5. S(n + 1, more[n + 1]) = S(n + 1, a)
    BY <1>1
  <2>6. after = before \cup S(n + 1, a)
    BY <2>3, <2>4, <2>5
  <2> QED
    BY <2>1, <2>2, <2>6, Zenon
<1> QED
  BY <1>2, <1>3, Zenon DEF AnswersAdd

(* One account's records join those of the accounts before it.             *)
LEMMA ToldJoins ==
  ASSUME NEW rs, GoodRecords(rs), NEW ans, ans \in Seq(Answer), TellsAll(rs, ans),
         NEW P, GoodRecords(P), NEW a, a \in Answer,
         Tells(P, NextExecutions(ans, a)),
         NEW both, both = rs \o P, NEW more, more = Append(ans, a)
  PROVE  TellsAll(both, more)
<1> DEFINE xs == NextExecutions(ans, a)
<1>1. /\ \A k : Total(RecordShares(P, k)) = Shares(xs, k)
      /\ RecordSides(P) = RowSides(xs)
  BY DEF Tells
<1>2. xs = NextExecutions(ans, a)
  OBVIOUS
<1> HIDE DEF xs
<1>3. AnswersAdd(more, ans, xs)
  BY <1>2, AnswersJoin
<1>4. RecordsAdd(both, rs, P)
  BY RecordsJoin
<1>5. \A k : Total(RecordShares(rs, k)) = SharesOfAnswers(ans, k)
  BY DEF TellsAll
<1>6. \A k : Total(RecordShares(both, k)) = SharesOfAnswers(more, k)
  BY <1>1, <1>3, <1>4, <1>5, Zenon DEF RecordsAdd, AnswersAdd
<1>7. RecordSides(both) = SidesOfAnswers(more)
  BY <1>1, <1>3, <1>4, Zenon DEF TellsAll, RecordsAdd, AnswersAdd
<1> QED
  BY <1>6, <1>7, Zenon DEF TellsAll

LEMMA NoneTold ==
  ASSUME NEW rs, GoodRecords(rs), NEW ans, ans \in Seq(Answer), TellsAll(rs, ans),
         NEW a, a \in Answer, ~GaveData(a), NEW more, more = Append(ans, a)
  PROVE  TellsAll(rs, more)
<1> DEFINE none == <<>>
<1>1. GoodRecords(none)
  BY DEF GoodRecords, Range
<1>2. NextExecutions(ans, a) = none
  BY DEF Executions, GaveData, NextExecutions
<1>3. Tells(none, none)
  <2>1. \A k : RecordShares(none, k) = none
    BY DEF RecordShares
  <2>2. \A k : Shares(none, k) = Total(none)
    <3>1. \A k : [j \in DOMAIN none |-> IF IsTrade(none[j]) /\ none[j].key = k THEN none[j].qty ELSE 0] = none
      OBVIOUS
    <3> HIDE DEF none
    <3> QED
      BY <3>1, Zenon DEF Shares
  <2>3. RecordSides(none) = {} /\ RowSides(none) = {}
    BY DEF RecordSides, RowSides, Range
  <2> HIDE DEF none
  <2> QED
    BY <2>1, <2>2, <2>3, Zenon DEF Tells
<1>4. rs = rs \o none
  <2>1. rs \in Seq(Range(rs))
    BY DEF GoodRecords
  <2> QED
    BY <2>1, ConcatEmptySeq
<1> HIDE DEF none
<1> QED
  BY <1>1, <1>2, <1>3, <1>4, ToldJoins

LEMMA ToldAtFirst == TellsAll(<<>>, <<>>) /\ GoodRecords(<<>>)
<1>1. \A k : RecordShares(<<>>, k) = <<>>
  BY DEF RecordShares
<1>2. \A k : SharesOfAnswers(<<>>, k) = Total(<<>>)
  <2>1. \A k : [i \in DOMAIN <<>> |-> Shares(Executions(Accounts[i], <<>>[i]), k)] = <<>>
    OBVIOUS
  <2> QED
    BY <2>1, Zenon DEF SharesOfAnswers
<1>3. RecordSides(<<>>) = {}
  BY DEF RecordSides, Range
<1>4. GoodRecords(<<>>)
  BY DEF GoodRecords, Range
<1>5. SidesOfAnswers(<<>>) = {}
  BY DEF SidesOfAnswers
<1> QED
  BY <1>1, <1>2, <1>3, <1>4, <1>5, Zenon DEF TellsAll

LEMMA AddUp ==
  ASSUME SplitsAddUp, NEW i \in AccountTurns, NEW rows \in Rows[i], NEW splits \in Splits
  PROVE  AllAddUp(rows, splits)
<1>1. i \in DOMAIN Rows
  BY DataAssumption DEF AccountTurns
<1>2. ASSUME NEW row \in Range(rows), ParseNumber(row.executed) > 0, row.split = "Y",
             ParseSplits(splits) # <<>>
      PROVE  ParseNumber(row.executed) = ItemShares(ParseSplits(splits))
  <2>1. ParseNumber(row.executed)
          = Total([j \in DOMAIN ParseSplits(splits) |-> ParseSplits(splits)[j].exec_qty])
    BY <1>1, <1>2, Zenon DEF SplitsAddUp
  <2> QED
    BY <2>1, Zenon DEF ItemShares
<1> QED
  BY <1>2, Zenon DEF AllAddUp, AddsUp

(* What an account's turn adds to the records.                             *)
LEMMA FetchedTold ==
  ASSUME ListInv, NEW o, NEW rows \in RowsNow, NEW splits \in Splits, ExecutionsFetched(o, rows, splits)
  PROVE  \E P, a : /\ answers' = Append(answers, a) /\ a \in Answer /\ records' = records \o P
                   /\ GoodRecords(P)
                   /\ SplitsAddUp => Tells(P, NextExecutions(answers, a))
<1> DEFINE P == PageRecords(Account, rows, splits)
           a == [kind |-> "rows", rows |-> rows, splits |-> splits]
<1>1. Turn \in AccountTurns /\ Turn = Len(answers) + 1 /\ Len(answers) \in Nat
  BY TurnOf DEF ExecutionsFetched
<1>2. rows \in Rows[Turn]
  BY <1>1 DEF RowsNow, AccountTurns
<1>3. rows \in Seq(ExecRow) /\ splits \in Seq(SplitRow)
  BY <1>1, <1>2, DataAssumption DEF AccountTurns
<1>4. answers' = Append(answers, a)
  BY Zenon DEF ExecutionsFetched, Answered
<1>5. records' = records \o P
  BY Zenon DEF ExecutionsFetched, PageRecords
<1>6. Numbered(Account)
  BY <1>1, AccountsNumbered DEF Account
<1>7. a \in Answer
  BY <1>3, AnswerKinds
<1>8. SplitsAddUp => AllAddUp(rows, splits)
  BY <1>1, <1>2, AddUp
<1> HIDE DEF P
<1>9. GoodRecords(P) /\ (AllAddUp(rows, splits) => Tells(P, Executions(Account, a)))
  <2>1. P = PageRecords(Account, rows, splits) /\ a = [kind |-> "rows", rows |-> rows, splits |-> splits]
    BY DEF P
  <2> HIDE DEF a
  <2> QED
    BY <1>3, <1>6, <2>1, PageTold
<1>10. Executions(Account, a) = NextExecutions(answers, a)
  BY <1>1, Zenon DEF NextExecutions, Account
<1> HIDE DEF a
<1> QED
  BY <1>4, <1>5, <1>7, <1>8, <1>9, <1>10, Zenon

LEMMA MockedTold ==
  ASSUME ListInv, ExecutionsMocked
  PROVE  \E P, a : /\ answers' = Append(answers, a) /\ a \in Answer /\ records' = records \o P
                   /\ GoodRecords(P)
                   /\ SplitsAddUp => Tells(P, NextExecutions(answers, a))
<1> DEFINE P == [i \in DOMAIN MockPages |-> MockFiled(MockPages[i])]
           a == [kind |-> "mock"]
<1>1. Turn \in AccountTurns /\ Turn = Len(answers) + 1
  BY TurnOf DEF ExecutionsMocked
<1>2. answers' = Append(answers, a) /\ records' = records \o P
  BY Zenon DEF ExecutionsMocked, Answered
<1>3. Numbered(Account)
  BY <1>1, AccountsNumbered DEF Account
<1>4. a \in Answer
  BY AnswerKinds
<1>5. P = [i \in DOMAIN MockPages |-> MockFiled(MockPages[i])] /\ a = [kind |-> "mock"]
  OBVIOUS
<1> HIDE DEF P, a
<1>6. GoodRecords(P) /\ Tells(P, Executions(Account, a))
  BY <1>3, <1>5, MockTold
<1>7. Executions(Account, a) = NextExecutions(answers, a)
  BY <1>1, Zenon DEF NextExecutions, Account
<1> QED
  BY <1>2, <1>4, <1>6, <1>7, Zenon

LEMMA ShareStep ==
  ASSUME ListInv, RecordInv, [Next]_vars
  PROVE  RecordInv' /\ (SplitsAddUp /\ ShareInv => ShareInv')
<1>1. job' = job
  BY DEF Next, vars, NotActivated, ExecutionsFailed, ExecutionsFetched, ExecutionsMocked,
         BalanceFailed, BalanceFetched, BalanceMocked, WriteTrades, FlushDiagnostics, WriteBalances,
         WriteAccounts, Read
<1>2. answers \in Seq(Answer)
  BY DEF ListInv
<1>3. CASE job.kind # "executions"
  BY <1>1, <1>3 DEF RecordInv, ShareInv
<1>4. CASE job.kind = "executions"
  <2>1. GoodRecords(records)
    BY <1>4 DEF RecordInv
  <2> SUFFICES /\ GoodRecords(records')
               /\ SplitsAddUp /\ TellsAll(records, answers) => TellsAll(records', answers')
    BY <1>1, <1>4 DEF RecordInv, ShareInv
  <2>2. ASSUME UNCHANGED <<answers, records>>
        PROVE  /\ GoodRecords(records')
               /\ SplitsAddUp /\ TellsAll(records, answers) => TellsAll(records', answers')
    BY <2>1, <2>2
  <2>3. ASSUME NEW P, NEW a, answers' = Append(answers, a), a \in Answer, records' = records \o P,
               GoodRecords(P), SplitsAddUp => Tells(P, NextExecutions(answers, a))
        PROVE  /\ GoodRecords(records')
               /\ SplitsAddUp /\ TellsAll(records, answers) => TellsAll(records', answers')
    <3>1. GoodRecords(records')
      BY <2>1, <2>3, RecordsJoin
    <3>2. ASSUME SplitsAddUp, TellsAll(records, answers)
          PROVE  TellsAll(records', answers')
      BY <1>2, <2>1, <2>3, <3>2, ToldJoins
    <3> QED
      BY <3>1, <3>2
  <2>4. ASSUME NEW a, answers' = Append(answers, a), a \in Answer, ~GaveData(a), records' = records
        PROVE  /\ GoodRecords(records')
               /\ SplitsAddUp /\ TellsAll(records, answers) => TellsAll(records', answers')
    <3>1. ASSUME TellsAll(records, answers)
          PROVE  TellsAll(records, answers')
      BY <1>2, <2>1, <2>4, <3>1, NoneTold
    <3> QED
      BY <2>1, <2>4, <3>1
  <2>5. CASE NotActivated
    <3>1. /\ answers' = Append(answers, [kind |-> "inactive"]) /\ records' = records
          /\ ~GaveData([kind |-> "inactive"])
      BY <2>5 DEF NotActivated, Answered, GaveData
    <3> QED
      BY <2>4, <3>1, AnswerKinds
  <2>6. CASE \E o \in Calls : ExecutionsFailed(o)
    <3>1. PICK o \in Calls : ExecutionsFailed(o)
      BY <2>6
    <3> DEFINE a == [kind |-> "failed", outcomes |-> o]
    <3>2. answers' = Append(answers, a) /\ records' = records /\ ~GaveData(a) /\ a \in Answer
      BY <3>1, AnswerKinds DEF ExecutionsFailed, Answered, GaveData
    <3> HIDE DEF a
    <3> QED
      BY <2>4, <3>2
  <2>7. CASE \E o \in Calls, rows \in RowsNow, splits \in Splits : ExecutionsFetched(o, rows, splits)
    BY <2>3, <2>7, FetchedTold, Zenon
  <2>8. CASE ExecutionsMocked
    BY <2>3, <2>8, MockedTold, Zenon
  <2>9. CASE \/ \E text \in Failures : BalanceFailed(text)
             \/ \E block \in Blocks : BalanceFetched(block)
             \/ BalanceMocked
    BY <1>4, <2>9 DEF BalanceFailed, BalanceFetched, BalanceMocked, AtQuery
  <2>10. CASE WriteTrades \/ FlushDiagnostics \/ WriteBalances \/ WriteAccounts \/ Read \/ UNCHANGED vars
    BY <2>2, <2>10 DEF WriteTrades, FlushDiagnostics, WriteBalances, WriteAccounts, Read, vars
  <2> QED
    BY <2>5, <2>6, <2>7, <2>8, <2>9, <2>10, Zenon DEF Next
<1> QED
  BY <1>3, <1>4

LEMMA SourceStep ==
  ASSUME ListInv, SourceInv, [Next]_vars
  PROVE  SourceInv'
<1>1. job' = job
  BY DEF Next, vars, NotActivated, ExecutionsFailed, ExecutionsFetched, ExecutionsMocked,
         BalanceFailed, BalanceFetched, BalanceMocked, WriteTrades, FlushDiagnostics, WriteBalances,
         WriteAccounts, Read
<1>2. Len(answers) \in Nat /\ answers \in Seq(Answer) /\ DOMAIN answers = 1..Len(answers)
  BY DEF ListInv
<1>3. ASSUME NEW kind, AtQuery(kind), NEW a, answers' = Append(answers, a), a \in Answer,
             a.kind = "rows" => ~job.mock /\ a.rows \in Rows[Turn],
             a.kind = "mock" => job.mock
      PROVE  SourceInv'
  <2>1. Turn = Len(answers) + 1 /\ Turn \in AccountTurns
    BY <1>3, TurnOf
  <2>2. /\ DOMAIN answers' = 1..(Len(answers) + 1)
        /\ \A i \in 1..Len(answers) : answers'[i] = answers[i]
        /\ answers'[Len(answers) + 1] = a
    BY <1>2, <1>3
  <2>3. AccountTurns' = AccountTurns
    BY DEF AccountTurns
  <2>4. ASSUME NEW i \in DOMAIN answers'
        PROVE  /\ i \in AccountTurns
               /\ answers'[i].kind = "rows" => ~job.mock /\ answers'[i].rows \in Rows[i]
               /\ answers'[i].kind = "mock" => job.mock
    <3>1. CASE i \in 1..Len(answers)
      <4>1. answers'[i] = answers[i] /\ i \in DOMAIN answers
        BY <1>2, <2>2, <3>1
      <4> QED
        BY <4>1 DEF SourceInv
    <3>2. CASE i = Len(answers) + 1
      BY <1>3, <2>1, <2>2, <3>2
    <3> QED
      BY <1>2, <2>2, <3>1, <3>2
  <2> QED
    BY <1>1, <2>4 DEF SourceInv
<1>4. ASSUME UNCHANGED answers
      PROVE  SourceInv'
  BY <1>1, <1>4 DEF SourceInv, AccountTurns
<1>5. CASE NotActivated
  <2>1. /\ answers' = Append(answers, [kind |-> "inactive"])
        /\ AtQuery("executions") \/ AtQuery("balance")
    BY <1>5 DEF NotActivated, Answered
  <2> QED
    BY <1>3, <2>1, AnswerKinds
<1>6. CASE \E o \in Calls : ExecutionsFailed(o)
  <2>1. PICK o \in Calls : ExecutionsFailed(o)
    BY <1>6
  <2>2. answers' = Append(answers, [kind |-> "failed", outcomes |-> o]) /\ AtQuery("executions")
    BY <2>1 DEF ExecutionsFailed, Answered
  <2> QED
    BY <1>3, <2>2, AnswerKinds
<1>7. ASSUME NEW o \in Calls, NEW rows \in RowsNow, NEW splits \in Splits,
             ExecutionsFetched(o, rows, splits)
      PROVE  SourceInv'
  <2> DEFINE a == [kind |-> "rows", rows |-> rows, splits |-> splits]
  <2>1. answers' = Append(answers, a) /\ AtQuery("executions") /\ ~job.mock
    BY <1>7 DEF ExecutionsFetched, Answered
  <2>2. rows \in Rows[Turn]
    BY <2>1, TurnOf DEF RowsNow, AccountTurns
  <2>3. rows \in Seq(ExecRow) /\ splits \in Seq(SplitRow)
    BY <2>1, <2>2, TurnOf, DataAssumption DEF AccountTurns
  <2>4. a \in Answer
    BY <2>3, AnswerKinds
  <2>5. a.kind = "rows" /\ a.rows = rows
    OBVIOUS
  <2> HIDE DEF a
  <2> QED
    BY <1>3, <2>1, <2>2, <2>4, <2>5
<1>8. CASE ExecutionsMocked
  <2>1. answers' = Append(answers, [kind |-> "mock"]) /\ AtQuery("executions") /\ job.mock
    BY <1>8 DEF ExecutionsMocked, Answered
  <2> QED
    BY <1>3, <2>1, AnswerKinds
<1>9. CASE \E text \in Failures : BalanceFailed(text)
  <2>1. answers' = Append(answers, [kind |-> "failed"]) /\ AtQuery("balance")
    BY <1>9 DEF BalanceFailed, Answered
  <2> QED
    BY <1>3, <2>1, AnswerKinds
<1>10. ASSUME NEW block \in Blocks, BalanceFetched(block)
       PROVE  SourceInv'
  <2>1. answers' = Append(answers, [kind |-> "block", block |-> block]) /\ AtQuery("balance")
    BY <1>10 DEF BalanceFetched, Answered
  <2> QED
    BY <1>3, <2>1, AnswerKinds
<1>11. CASE BalanceMocked
  <2>1. answers' = Append(answers, [kind |-> "mock"]) /\ AtQuery("balance") /\ job.mock
    BY <1>11 DEF BalanceMocked, Answered
  <2> QED
    BY <1>3, <2>1, AnswerKinds
<1>12. CASE WriteTrades \/ FlushDiagnostics \/ WriteBalances \/ WriteAccounts \/ Read \/ UNCHANGED vars
  BY <1>4, <1>12 DEF WriteTrades, FlushDiagnostics, WriteBalances, WriteAccounts, Read, vars
<1> QED
  BY <1>5, <1>6, <1>7, <1>8, <1>9, <1>10, <1>11, <1>12, Zenon DEF Next

-----------------------------------------------------------------------------
(* The trades                                                              *)

(* What is shown was made from the records.                                *)
LEMMA TradesShown ==
  ASSUME RecordInv, ShownInv, shown.got = "trades"
  PROVE  /\ job.kind = "executions" /\ GoodRecords(records)
         /\ shown.trades = ParseTrades(Written)
         /\ IsPayload(Written, records, Root, Len(records))
<1>1. job.kind = "executions" /\ shown.trades = ParseTrades(Written)
  BY DEF ShownInv
<1>2. GoodRecords(records)
  BY <1>1 DEF RecordInv
<1>3. Written.executions = records /\ Written.account_no = Root
  <2>1. Written = [trade_date |-> "day", account_no |-> Root, status |-> TradeStatus(messages),
                   errors |-> messages, accounts |-> queried, executions |-> records]
    BY <1>1, Zenon DEF Written
  <2> QED
    BY <2>1
<1>4. /\ Len(records) \in Nat /\ DOMAIN records = 1..Len(records)
      /\ \A i \in 1..Len(records) : GoodItems(records[i].split_details)
  BY <1>2 DEF GoodRecords, Range
<1> QED
  BY <1>1, <1>2, <1>3, <1>4 DEF IsPayload

LEMMA AmountsHold ==
  ASSUME RecordInv, ShownInv
  PROVE  AmountsAgree
<1> SUFFICES ASSUME shown.got = "trades", NEW k \in DOMAIN shown.trades
             PROVE  LET t == shown.trades[k].total IN Size(t.amount - t.price * t.qty) <= t.qty
  BY Zenon DEF AmountsAgree
<1> DEFINE t == shown.trades[k].total
           ds == shown.trades[k].details
<1>1. GoodDetails(ds) /\ t = RecomputeMetrics(ds)
  <2>1. shown.trades = ParseTrades(Written) /\ IsPayload(Written, records, Root, Len(records))
    BY TradesShown
  <2> QED
    BY <2>1, TradeTold
<1> HIDE DEF t, ds
<1>2. /\ t.qty \in Nat \ {0} /\ t.price \in Int /\ t.amount \in Int
      /\ t.amount - t.price * t.qty <= t.qty
      /\ t.price * t.qty - t.amount <= t.qty
  BY <1>1, MetricsAgree
<1>3. t.price * t.qty \in Int
  BY <1>2
<1>4. Size(t.amount - t.price * t.qty) <= t.qty
  BY <1>2, <1>3 DEF Size
<1> QED
  BY <1>4, Zenon DEF t

(* An account's number is not blank, so the fallback of the reason key is  *)
(* never taken.                                                            *)
LEMMA KeyTold ==
  ASSUME NEW r, Numbered(r), NEW root
  PROVE  TradeReasonKey(r, root) = OrderOf(r)
BY Zenon DEF Numbered, TradeReasonKey, Given, OrderOf

LEMMA OrdersShown ==
  ASSUME NEW rs, GoodRecords(rs), NEW root, NEW key
  PROVE  /\ SharesOf(rs, root, key) = RecordShares(rs, key)
         /\ \A i \in DOMAIN rs : IsOf(rs, root, key, i) =>
              <<key, InferSide(rs[i].order_type)>> \in RecordSides(rs)
         /\ \A side : <<key, side>> \in RecordSides(rs) => \E i \in DOMAIN rs : IsOf(rs, root, key, i)
<1>1. \A i \in DOMAIN rs : rs[i] \in Range(rs) /\ Numbered(rs[i])
  BY DEF GoodRecords, Range
<1>2. \A i \in DOMAIN rs :
        IsOf(rs, root, key, i) <=> InferSide(rs[i].order_type) # "none" /\ OrderOf(rs[i]) = key
  BY <1>1, KeyTold, Zenon DEF IsOf
<1>3. SharesOf(rs, root, key) = RecordShares(rs, key)
  <2>1. \A i \in DOMAIN rs :
          RecordShare(rs[i], key)
            = IF IsOf(rs, root, key, i) THEN ItemShares(rs[i].split_details) ELSE 0
    BY <1>2, Zenon DEF RecordShare
  <2> QED
    BY <2>1, Zenon DEF SharesOf, RecordShares
<1>4. \A i \in DOMAIN rs : IsOf(rs, root, key, i) =>
        <<key, InferSide(rs[i].order_type)>> \in RecordSides(rs)
  BY <1>1, <1>2 DEF RecordSides
<1>5. ASSUME NEW side, <<key, side>> \in RecordSides(rs)
      PROVE  \E i \in DOMAIN rs : IsOf(rs, root, key, i)
  <2>1. PICK r \in Range(rs) : InferSide(r.order_type) # "none" /\ OrderOf(r) = key
    BY <1>5 DEF RecordSides
  <2>2. PICK i \in DOMAIN rs : rs[i] = r
    BY DEF Range
  <2> QED
    BY <1>2, <2>1, <2>2
<1> QED
  BY <1>3, <1>4, <1>5

LEMMA RowsTraded ==
  ASSUME NEW key, NEW side
  PROVE  <<key, side>> \in SidesOfAnswers(answers)
           <=> \E x \in TradedRows : x.key = key /\ x.side = side
BY DEF SidesOfAnswers, RowSides, TradedRows

(* A traded row came from the broker for an account, or from the mock.     *)
Origin(x) ==
  \/ /\ job.mock
     /\ \/ x.key[2] = 1 /\ x.side = "buy"
        \/ x.key[2] = 2 /\ x.side = "sell"
  \/ /\ ~job.mock
     /\ \E i \in DOMAIN Rows : \E s \in Rows[i] : \E a \in Range(s) :
          /\ ParseNumber(a.executed) > 0 /\ InferSide(a.kind) = x.side
          /\ x.key = <<Accounts[i].account_no, NormalizeOrderNo(a.order)>>

LEMMA OriginOf ==
  ASSUME ListInv, SourceInv, NEW x \in TradedRows
  PROVE  Origin(x) /\ x.side # "none"
<1>1. PICK i \in DOMAIN answers : x \in Range(Executions(Accounts[i], answers[i]))
  BY DEF TradedRows
<1>2. IsTrade(x)
  BY DEF TradedRows
<1> DEFINE a == answers[i]
           xs == Executions(Accounts[i], a)
<1>3. /\ a \in Answer /\ i \in AccountTurns
      /\ a.kind = "rows" => ~job.mock /\ a.rows \in Rows[i]
      /\ a.kind = "mock" => job.mock
  BY DEF ListInv, SourceInv
<1>4. CASE a.kind = "rows"
  <2>1. a.rows \in Seq(ExecRow)
    BY <1>3, <1>4 DEF Answer
  <2>2. i \in DOMAIN Rows
    BY <1>3, DataAssumption DEF AccountTurns
  <2> HIDE DEF a
  <2>3. PICK j \in DOMAIN xs : x = xs[j]
    BY <1>1 DEF Range, a
  <2> HIDE DEF xs
  <2>4. /\ DOMAIN xs = DOMAIN a.rows
        /\ xs[j].key = <<Accounts[i].account_no, NormalizeOrderNo(a.rows[j].order)>>
        /\ xs[j].qty = ParseNumber(a.rows[j].executed)
        /\ xs[j].side = InferSide(a.rows[j].kind)
    BY <1>4, <2>1, RowTold DEF xs
  <2>5. a.rows[j] \in Range(a.rows)
    BY <2>4 DEF Range
  <2> QED
    BY <1>2, <1>3, <1>4, <2>2, <2>3, <2>4, <2>5 DEF Origin, IsTrade
<1>5. CASE a.kind = "mock"
  <2>1. xs = [j \in 1..2 |-> [key |-> <<Accounts[i].account_no, j>>, qty |-> IF j = 1 THEN 100 ELSE 50,
                              side |-> IF j = 1 THEN "buy" ELSE "sell"]]
    BY <1>5 DEF Executions
  <2>2. \E j \in 1..2 : x = [key |-> <<Accounts[i].account_no, j>>, qty |-> IF j = 1 THEN 100 ELSE 50,
                             side |-> IF j = 1 THEN "buy" ELSE "sell"]
    BY <1>1, <2>1 DEF Range
  <2> QED
    BY <1>2, <1>3, <1>5, <2>2 DEF Origin, IsTrade
<1>6. CASE a.kind # "rows" /\ a.kind # "mock"
  <2>1. xs = <<>>
    BY <1>6 DEF Executions
  <2> HIDE DEF xs
  <2>2. Range(xs) = {}
    BY <2>1 DEF Range
  <2>3. x \in Range(xs)
    BY <1>1 DEF xs
  <2> QED
    BY <2>2, <2>3
<1> QED
  BY <1>4, <1>5, <1>6

LEMMA SameSide ==
  ASSUME OneSide, ListInv, SourceInv, NEW x \in TradedRows, NEW y \in TradedRows, x.key = y.key
  PROVE  x.side = y.side
<1>1. Origin(x) /\ Origin(y) /\ x.side # "none" /\ y.side # "none"
  BY OriginOf
<1>2. CASE job.mock
  BY <1>1, <1>2 DEF Origin
<1>3. CASE ~job.mock
  <2>1. PICK i \in DOMAIN Rows : \E s \in Rows[i] : \E a \in Range(s) :
          /\ ParseNumber(a.executed) > 0 /\ InferSide(a.kind) = x.side
          /\ x.key = <<Accounts[i].account_no, NormalizeOrderNo(a.order)>>
    BY <1>1, <1>3 DEF Origin
  <2>2. PICK s \in Rows[i] : \E a \in Range(s) :
          /\ ParseNumber(a.executed) > 0 /\ InferSide(a.kind) = x.side
          /\ x.key = <<Accounts[i].account_no, NormalizeOrderNo(a.order)>>
    BY <2>1
  <2>3. PICK a \in Range(s) :
          /\ ParseNumber(a.executed) > 0 /\ InferSide(a.kind) = x.side
          /\ x.key = <<Accounts[i].account_no, NormalizeOrderNo(a.order)>>
    BY <2>2
  <2>4. PICK j \in DOMAIN Rows : \E t \in Rows[j] : \E b \in Range(t) :
          /\ ParseNumber(b.executed) > 0 /\ InferSide(b.kind) = y.side
          /\ y.key = <<Accounts[j].account_no, NormalizeOrderNo(b.order)>>
    BY <1>1, <1>3 DEF Origin
  <2>5. PICK t \in Rows[j] : \E b \in Range(t) :
          /\ ParseNumber(b.executed) > 0 /\ InferSide(b.kind) = y.side
          /\ y.key = <<Accounts[j].account_no, NormalizeOrderNo(b.order)>>
    BY <2>4
  <2>6. PICK b \in Range(t) :
          /\ ParseNumber(b.executed) > 0 /\ InferSide(b.kind) = y.side
          /\ y.key = <<Accounts[j].account_no, NormalizeOrderNo(b.order)>>
    BY <2>5
  <2>7. /\ Accounts[i].account_no = Accounts[j].account_no
        /\ NormalizeOrderNo(a.order) = NormalizeOrderNo(b.order)
    <3>1. <<Accounts[i].account_no, NormalizeOrderNo(a.order)>>
            = <<Accounts[j].account_no, NormalizeOrderNo(b.order)>>
      BY <2>3, <2>6, Zenon
    <3>2. \A k, l, m, n : <<k, l>> = <<m, n>> => k = m /\ l = n
      OBVIOUS
    <3> QED
      BY <3>1, <3>2, Zenon
  <2>8. InferSide(a.kind) = InferSide(b.kind)
    <3>1. InferSide(a.kind) # "none" /\ InferSide(b.kind) # "none"
      BY <1>1, <2>3, <2>6
    <3>2. \A u \in Rows[i], v \in Rows[j] : \A c \in Range(u), d \in Range(v) :
            (/\ ParseNumber(c.executed) > 0 /\ ParseNumber(d.executed) > 0
             /\ NormalizeOrderNo(c.order) = NormalizeOrderNo(d.order)
             /\ InferSide(c.kind) # "none" /\ InferSide(d.kind) # "none")
              => InferSide(c.kind) = InferSide(d.kind)
      BY <2>7, Zenon DEF OneSide
    <3> QED
      BY <2>3, <2>6, <2>7, <3>1, <3>2, Zenon
  <2> QED
    BY <2>3, <2>6, <2>8
<1> QED
  BY <1>2, <1>3

LEMMA ConservedHolds ==
  ASSUME OneSide, ListInv, RecordInv, SourceInv, ShareInv, ShownInv
  PROVE  Conserved
<1> SUFFICES ASSUME shown.got = "trades"
             PROVE  Conserved
  BY Zenon DEF Conserved
<1> DEFINE n == Len(records)
           T == shown.trades
<1>1. /\ job.kind = "executions" /\ GoodRecords(records) /\ T = ParseTrades(Written)
      /\ IsPayload(Written, records, Root, n)
  BY TradesShown
<1>2. /\ \A k : Total(RecordShares(records, k)) = SharesOfAnswers(answers, k)
      /\ RecordSides(records) = SidesOfAnswers(answers)
  BY <1>1 DEF ShareInv, TellsAll
<1>3. DOMAIN records = 1..n
  BY <1>1 DEF IsPayload
<1> HIDE DEF n, T
<1>4. ASSUME NEW key
      PROVE  /\ key \in DOMAIN T <=> \E x \in TradedRows : x.key = key
             /\ key \in DOMAIN T =>
                  /\ T[key].total.qty = ExecutedShares(key)
                  /\ \E x \in TradedRows : x.key = key /\ x.side = T[key].side
  <2>1. /\ key \in DOMAIN T <=> \E i \in 1..n : IsOf(records, Root, key, i)
        /\ key \in DOMAIN T =>
             /\ T[key].total.qty = Total(SharesOf(records, Root, key))
             /\ \E i \in 1..n : /\ IsOf(records, Root, key, i)
                                /\ T[key].side = InferSide(records[i].order_type)
    BY <1>1, TradeTold
  <2>2. /\ SharesOf(records, Root, key) = RecordShares(records, key)
        /\ \A i \in 1..n : IsOf(records, Root, key, i) =>
             <<key, InferSide(records[i].order_type)>> \in SidesOfAnswers(answers)
        /\ \A side : <<key, side>> \in SidesOfAnswers(answers)
                       => \E i \in 1..n : IsOf(records, Root, key, i)
    BY <1>1, <1>2, <1>3, OrdersShown
  <2>3. ExecutedShares(key) = SharesOfAnswers(answers, key)
    BY Zenon DEF ExecutedShares, SharesOfAnswers
  <2>4. ASSUME key \in DOMAIN T
        PROVE  /\ T[key].total.qty = ExecutedShares(key)
               /\ \E x \in TradedRows : x.key = key /\ x.side = T[key].side
    <3>1. T[key].total.qty = ExecutedShares(key)
      BY <1>2, <2>1, <2>2, <2>3, <2>4, Zenon
    <3>2. PICK i \in 1..n : IsOf(records, Root, key, i) /\ T[key].side = InferSide(records[i].order_type)
      BY <2>1, <2>4
    <3>3. <<key, T[key].side>> \in SidesOfAnswers(answers)
      BY <2>2, <3>2, Zenon
    <3> QED
      BY <3>1, <3>3, RowsTraded
  <2>5. ASSUME NEW x \in TradedRows, x.key = key
        PROVE  key \in DOMAIN T
    <3>1. <<key, x.side>> \in SidesOfAnswers(answers)
      BY <2>5, RowsTraded
    <3> QED
      BY <2>1, <2>2, <3>1
  <2> QED
    BY <2>4, <2>5
<1>5. DOMAIN T = {x.key : x \in TradedRows}
  BY <1>4
<1>6. ASSUME NEW x \in TradedRows
      PROVE  x.side = T[x.key].side
  <2>1. PICK y \in TradedRows : y.key = x.key /\ y.side = T[x.key].side
    BY <1>4
  <2> QED
    BY <2>1, SameSide
<1>7. \A k \in DOMAIN T : T[k].total.qty = ExecutedShares(k)
  BY <1>4
<1> QED
  BY <1>5, <1>6, <1>7, Zenon DEF Conserved, T

LEMMA RecordsAtFirst ==
  ASSUME Init
  PROVE  ListInv /\ RecordInv /\ SourceInv /\ ShareInv /\ ShownInv
<1>1. answers = <<>> /\ records = <<>>
  BY DEF Init
<1>2. ListInv /\ ShownInv
  BY AtFirst
<1> QED
  BY <1>1, <1>2, ToldAtFirst DEF RecordInv, SourceInv, ShareInv

(* AmountsAgree for any accounts, rows and details of s8118, as far as     *)
(* what the Python program reads is what fetch.exe wrote: the price that   *)
(* _recompute_metrics shows for a trade, times its shares, is at most one  *)
(* won a share from the amount it shows.  fetch.exe rounds the price of a  *)
(* detail and the window rounds the average of the prices; the theorem     *)
(* says that the two roundings add up to no more.                          *)
THEOREM AmountsStayClose == Spec /\ []Readable => []AmountsAgree
<1> DEFINE Inv == ListInv /\ RecordInv /\ ShownInv
<1>1. Init => Inv
  BY RecordsAtFirst
<1>2. Inv /\ Readable /\ [Next]_vars => Inv'
  BY ListStep, ShareStep, ShownStep
<1>3. Inv => AmountsAgree
  BY AmountsHold
<1> HIDE DEF Inv
<1> QED
  BY <1>1, <1>2, <1>3, PTL DEF Spec

(* Conserved for any accounts and any rows, pages and details of them, of  *)
(* a broker whose details of a split order add up and whose orders are     *)
(* purchases or sales, as far as what the Python program reads is what     *)
(* fetch.exe wrote: for each order of an account the window shows all the  *)
(* shares its rows executed, on the right side, and no other order.        *)
THEOREM SharesAreConserved == SplitsAddUp /\ OneSide /\ Spec /\ []Readable => []Conserved
<1> DEFINE Inv == SplitsAddUp /\ OneSide /\ ListInv /\ RecordInv /\ SourceInv /\ ShareInv /\ ShownInv
<1>1. SplitsAddUp /\ OneSide /\ Init => Inv
  BY RecordsAtFirst
<1>2. Inv /\ Readable /\ [Next]_vars => Inv'
  BY ListStep, ShareStep, SourceStep, ShownStep
<1>3. Inv => Conserved
  BY ConservedHolds
<1> HIDE DEF Inv
<1> QED
  BY <1>1, <1>2, <1>3, PTL DEF Spec
=============================================================================
