------------------------------ MODULE JsonText ------------------------------
(***************************************************************************)
(* The documents fetch.exe writes by hand, piece by piece, every member    *)
(* with the flag that says whether a comma follows, and how json.loads     *)
(* reads them.  A document is a sequence of tokens.  The characters of a   *)
(* text are told apart as in BrokerRows; a text that fetch.exe has made    *)
(* itself (a code, a number padded with zeros, a time) is a code.          *)
(***************************************************************************)
EXTENDS Integers, Sequences, SequencesExt, TLC

(* The members of each object, in the order they are written; of an        *)
(* attempt the numbers and keys that tell requests apart are left out.     *)
AccountFields ==
  <<"account_index", "account_no", "account_name", "act_pdt_cd", "amn_tab_cd", "expr_date",
    "granted", "is_granted_batch", "diagnostic_labels">>
ExecutionFields ==
  <<"account_no", "order_no", "orig_order_no", "order_type", "stock_code", "stock_name",
    "order_qty", "exec_qty", "order_price", "exec_avg_price", "exec_time", "market_code",
    "sor_split">>
SplitFields == <<"exec_qty", "exec_amount", "exec_price", "exec_time", "market">>
SummaryFields ==
  <<"account_no", "deposit_amount", "withdrawable_amount", "orderable_amount", "cash_margin",
    "substitute_margin", "d1_deposit", "d2_deposit", "purchase_amount_total",
    "valuation_amount_total", "net_asset_amount", "total_profit_loss", "profit_rate",
    "net_total_asset_amount", "activity_type">>
PositionFields ==
  <<"account_no", "stock_code", "stock_name", "balance_type", "loan_date", "quantity",
    "unsettled_quantity", "avg_buy_price", "current_price", "profit_loss", "profit_rate",
    "credit_type", "remaining_quantity", "expiry_date", "valuation_amount",
    "issue_margin_rate", "avg_sell_price", "sell_profit_loss">>
AttemptFields ==
  <<"binding_mode", "hash_source", "password_mode", "hash_generation_ok",
    "trade_password_present", "trade_hash_generation_ok", "trade_hash_source",
    "query_submitted", "query_succeeded", "server_message_code", "server_message",
    "classification", "candidate_cause", "failure_reason">>
DiagnosticFields ==
  <<"binding_mode", "binding_mode_requested", "password_mode", "hash_generation_ok",
    "trade_password_present", "trade_hash_generation_ok", "query_submitted",
    "query_succeeded", "hash_source", "trade_hash_source", "server_message_code",
    "server_message", "classification", "candidate_cause", "failure_reason">>

(* The members that hold a text as the broker sent it.                     *)
Verbatim == {"account_name", "stock_name", "order_type", "balance_type", "activity_type",
             "server_message", "failure_reason"}

-----------------------------------------------------------------------------

Mark(m) == <<[t |-> m]>>
Comma(c) == IF c THEN Mark(",") ELSE <<>>

(* Variant the runs refute: quotes are written as they are.                *)
EscapeNothing(text) == text

(* escape_json: other control characters are written as they are.          *)
EscapeJson(text) ==
  FlattenSeq([i \in DOMAIN text |-> IF text[i] = "quote" THEN <<"backslash", "quote">> ELSE <<text[i]>>])

TextToken(text) == <<[t |-> "text", v |-> EscapeJson(text)]>>
Literal(x) == <<[t |-> "literal", v |-> x]>>

Name(n) == <<[t |-> "name", v |-> n]>> \o Mark(":")

(* write_string, write_number, write_double, write_bool.                   *)
Write(n, x, c) == Name(n) \o (IF n \in Verbatim THEN TextToken(x) ELSE Literal(x)) \o Comma(c)

Listed(s, WriteItem(_, _)) ==
  Mark("[") \o FlattenSeq([i \in DOMAIN s |-> WriteItem(s[i], i < Len(s))]) \o Mark("]")

WriteLiteral(x, c) == Literal(x) \o Comma(c)
WriteText(x, c) == TextToken(x) \o Comma(c)

(* write_string_array of codes, and the array "errors", of texts.          *)
WriteCodes(n, s, c) == Name(n) \o Listed(s, WriteLiteral) \o Comma(c)
WriteErrors(s) == Name("errors") \o Listed(s, WriteText) \o Mark(",")

(* The members of r, a comma after each but, if c is FALSE, the last.      *)
Members(r, names, c) ==
  FlattenSeq([i \in DOMAIN names |-> Write(names[i], r[names[i]], i < Len(names) \/ c)])

Object(r, names, c) == Mark("{") \o Members(r, names, FALSE) \o Mark("}") \o Comma(c)

WriteAccount(a, c) ==
  Mark("{") \o Members(a, Front(AccountFields), TRUE)
    \o WriteCodes("diagnostic_labels", a.diagnostic_labels, FALSE) \o Mark("}") \o Comma(c)

WriteSplit(d, c) == Object(d, SplitFields, c)

WriteExecution(e, c) ==
  Mark("{") \o Members(e, ExecutionFields, TRUE)
    \o Name("split_details") \o Listed(e.split_details, WriteSplit) \o Mark("}") \o Comma(c)

WritePosition(p, c) == Object(p, PositionFields, c)

WriteBalance(b, c) ==
  Mark("{") \o Name("selected_account") \o WriteAccount(b.selected_account, FALSE)
    \o Mark(",") \o Name("summary") \o Object(b.summary, SummaryFields, FALSE)
    \o Mark(",") \o Name("positions") \o Listed(b.positions, WritePosition)
    \o Mark(",") \o Name("warnings") \o Listed(b.warnings, WriteText)
    \o Mark("}") \o Comma(c)

WriteAttempt(a, c) == Object(a, AttemptFields, c)

WriteDiagnosticBody(d, c) ==
  Mark("{") \o Members(d, DiagnosticFields, TRUE)
    \o Name("attempts") \o Listed(d.attempts, WriteAttempt) \o Mark("}") \o Comma(c)

WriteDiagnosticEntry(d, c) ==
  Mark("{") \o Name("selected_account") \o WriteAccount(d.selected_account, FALSE)
    \o Mark(",") \o Name("s8180_diagnostic") \o WriteDiagnosticBody(d, FALSE)
    \o Mark("}") \o Comma(c)

-----------------------------------------------------------------------------

(* write_atomic, write_balance_atomic, write_s8180_diagnostics_atomic,     *)
(* write_accounts_atomic and write_session_accounts, but for the version   *)
(* and the time of writing.                                                *)
TradeStatus(errors) == IF errors = <<>> THEN "ok" ELSE "partial"

TradeDocument(date, root, accounts, executions, errors) ==
  Mark("{") \o Write("trade_date", date, TRUE) \o Write("account_no", root, TRUE)
    \o Write("status", TradeStatus(errors), TRUE)
    \o WriteErrors(errors)
    \o Name("accounts") \o Listed(accounts, WriteAccount) \o Mark(",")
    \o Name("executions") \o Listed(executions, WriteExecution) \o Mark("}")

BalanceStatus(results, errors) ==
  IF results = <<>> THEN "error" ELSE IF errors = <<>> THEN "ok" ELSE "partial"

BalanceDocument(results, errors) ==
  Mark("{") \o Write("status", BalanceStatus(results, errors), TRUE)
    \o WriteErrors(errors)
    \o Name("balance_accounts") \o Listed(results, WriteBalance) \o Mark("}")

(* Variant the runs refute: no comma before the members of one account.    *)
DiagnosticDocumentRun(date, ds) ==
  Mark("{") \o Write("trade_date", date, TRUE)
    \o Name("account_diagnostics") \o Listed(ds, WriteDiagnosticEntry)
    \o (IF Len(ds) = 1
        THEN Name("selected_account") \o WriteAccount(ds[1].selected_account, FALSE)
               \o Mark(",") \o Name("s8180_diagnostic") \o WriteDiagnosticBody(ds[1], FALSE)
        ELSE <<>>)
    \o Mark("}")

DiagnosticDocument(date, ds) ==
  Mark("{") \o Write("trade_date", date, TRUE)
    \o Name("account_diagnostics") \o Listed(ds, WriteDiagnosticEntry)
    \o (IF Len(ds) = 1
        THEN Mark(",") \o Name("selected_account") \o WriteAccount(ds[1].selected_account, FALSE)
               \o Mark(",") \o Name("s8180_diagnostic") \o WriteDiagnosticBody(ds[1], FALSE)
        ELSE <<>>)
    \o Mark("}")

AccountsDocument(accounts) ==
  Mark("{") \o Name("accounts") \o Listed(accounts, WriteAccount) \o Mark("}")

SessionAccounts(accounts) ==
  Mark("{") \o Write("ok", TRUE, TRUE)
    \o Name("accounts") \o Listed(accounts, WriteAccount) \o Mark("}")

-----------------------------------------------------------------------------

(* json.loads.  A value ends before token `next`; "bad" is an exception.   *)
Bad == [ok |-> FALSE]
Good(value, next) == [ok |-> TRUE, value |-> value, next |-> next]

(* A text is read up to its first bare quote, and holds no control         *)
(* character: a quote in the middle leaves something that is no JSON.      *)
Unescape(s) ==
  LET from[i \in 1..(Len(s) + 1)] ==
        LET escaped == s[i] = "backslash"
            rest == from[IF escaped THEN i + 2 ELSE i + 1]
        IN CASE i > Len(s) -> Good(<<>>, i)
             [] i <= Len(s) /\ (s[i] \in {"quote", "control"} \/ (escaped /\ i = Len(s))) -> Bad
             [] OTHER -> IF rest.ok THEN Good(<<IF escaped THEN s[i + 1] ELSE s[i]>> \o rest.value, i)
                                    ELSE Bad
  IN from[1]

Is(doc, i, m) == i \in DOMAIN doc /\ doc[i].t = m

(* What stands from token i on: a value, or the rest of an object or of an *)
(* array.  Of two members with one name the later counts.                  *)
Reading(doc) ==
  LET read[what \in {"value", "members", "items"}, i \in Nat] ==
        LET v == read["value", IF what = "members" THEN i + 2 ELSE i]
            one == IF what = "members" THEN doc[i].v :> v.value ELSE <<v.value>>
            more == read[what, v.next + 1]
        IN CASE what = "value" ->
                  CASE Is(doc, i, "literal") -> Good(doc[i].v, i + 1)
                    [] Is(doc, i, "text") ->
                         LET x == Unescape(doc[i].v) IN IF x.ok THEN Good(x.value, i + 1) ELSE Bad
                    [] Is(doc, i, "[") ->
                         IF Is(doc, i + 1, "]") THEN Good(<<>>, i + 2) ELSE read["items", i + 1]
                    [] Is(doc, i, "{") ->
                         IF Is(doc, i + 1, "}") THEN Good(<<>>, i + 2) ELSE read["members", i + 1]
                    [] OTHER -> Bad
             [] what = "members" /\ ~(Is(doc, i, "name") /\ Is(doc, i + 1, ":")) -> Bad
             [] OTHER ->
                  IF ~v.ok THEN Bad
                  ELSE IF Is(doc, v.next, ",")
                    THEN IF ~more.ok THEN Bad
                         ELSE Good(IF what = "members" THEN more.value @@ one ELSE one \o more.value,
                                   more.next)
                  ELSE IF Is(doc, v.next, IF what = "members" THEN "}" ELSE "]")
                    THEN Good(one, v.next + 1)
                  ELSE Bad
  IN read

JsonLoads(doc) ==
  LET v == Reading(doc)["value", 1] IN IF v.ok /\ v.next = Len(doc) + 1 THEN v ELSE Bad
=============================================================================
