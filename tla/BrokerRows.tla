----------------------------- MODULE BrokerRows -----------------------------
(***************************************************************************)
(* How fetch.exe reads the rows of the broker's blocks: the fields of      *)
(* s8180, s8118 and c8201 become numbers, order numbers, markets and       *)
(* texts, and rows become the records that are exported.                   *)
(*                                                                         *)
(* A numeric field is blank, a number in tenths, or junk around digits.    *)
(* A text is a sequence of runs: "plain" characters, "buy" or "sell" (the  *)
(* words an order type holds), "quote" (a quote, a backslash or a line     *)
(* break), and "control" (another control character).                      *)
(***************************************************************************)
EXTENDS Lists, FiniteSets, SequencesExt

Texts == Seq({"plain", "buy", "sell", "quote", "control"})

RawNumber == [form : {"blank", "number", "junk"}, tenths : Int]
NoDigits == -1
Markets == {"", "KRX", "NXT", "SOR"}

StockCode == [digits : STRING, letters : STRING]

(* A time: how many digits it has, as hours, minutes and seconds if it has *)
(* six or eight, and as it came.                                           *)
RawTime == [digits : 0..8, hms : STRING, text : STRING]

(* Ts8180OutBlock1, Ts8118OutBlock: the fields fetch.exe reads.            *)
ExecRow == [order : Nat \cup {NoDigits}, orig : Nat \cup {NoDigits},
            kind : Texts, code : StockCode, name : Texts,
            ordered : RawNumber, executed : RawNumber, price : RawNumber, avg : RawNumber,
            time : RawTime, req : Markets, send : Markets, media : Markets,
            split : {"", "N", "Y"}]
SplitRow == [executed : RawNumber, amount : RawNumber, req : Markets, send : Markets]

-----------------------------------------------------------------------------

(* llround: halves go away from zero.                                      *)
Llround(tenths) == IF tenths >= 0 THEN (tenths + 5) \div 10 ELSE -((5 - tenths) \div 10)

(* The quotient of amount by qty, rounded: both are positive.              *)
Quotient(amount, qty) == (2 * amount + qty) \div (2 * qty)

(* Variant the runs refute: a fraction is cut off.                         *)
ParseNumberCut(raw) == IF raw.form = "blank" THEN 0 ELSE raw.tenths \div 10

(* What does not begin as a number is read by its digits.                  *)
ParseNumber(raw) ==
  CASE raw.form = "blank" -> 0
    [] raw.form = "number" -> Llround(raw.tenths)
    [] raw.form = "junk" -> raw.tenths

NormalizeOrderNo(raw) == IF raw = NoDigits THEN 0 ELSE raw

(* What is no digit is dropped, the letter of a share class too.           *)
NormalizeStockCode(raw) == raw.digits

NormalizeTime(raw) == IF raw.digits \in {6, 8} THEN raw.hms ELSE raw.text

NormalizeMarketCode(raw, fallback) == IF raw = "" THEN fallback ELSE raw

MapS8180Market(row) ==
  IF row.req # "" THEN row.req
  ELSE IF row.send # "" THEN row.send
  ELSE NormalizeMarketCode(row.media, "KRX")

DerivePriceFromAmount(qty, amount) ==
  IF qty <= 0 \/ amount <= 0 THEN 0 ELSE Quotient(amount, qty)

(* A row of outblock1 of s8180.                                            *)
ParseExecRow(account, row) ==
  [account_no |-> account,
   order_no |-> NormalizeOrderNo(row.order),
   orig_order_no |-> NormalizeOrderNo(row.orig),
   order_type |-> row.kind,
   stock_code |-> NormalizeStockCode(row.code),
   stock_name |-> row.name,
   order_qty |-> ParseNumber(row.ordered),
   exec_qty |-> ParseNumber(row.executed),
   order_price |-> ParseNumber(row.price),
   exec_avg_price |-> ParseNumber(row.avg),
   exec_time |-> NormalizeTime(row.time),
   market_code |-> MapS8180Market(row),
   sor_split |-> IF row.split = "" THEN "N" ELSE row.split,
   split_details |-> <<>>]

Executed(r) == r.exec_qty > 0

(* fetch_s8180_page: rows that executed nothing are skipped.               *)
ParsePage(account, rows) ==
  LET parsed == [i \in DOMAIN rows |-> ParseExecRow(account, rows[i])]
  IN Kept(parsed, {i \in DOMAIN rows : Executed(parsed[i])})

(* A row of outblock of s8118.                                             *)
ParseSplitRow(row) ==
  LET qty == ParseNumber(row.executed)
      amount == ParseNumber(row.amount)
  IN [exec_qty |-> qty, exec_amount |-> amount,
      exec_price |-> DerivePriceFromAmount(qty, amount),
      exec_time |-> "",
      market |-> NormalizeMarketCode(row.send, NormalizeMarketCode(row.req, "KRX"))]

ParseSplits(rows) ==
  LET parsed == [i \in DOMAIN rows |-> ParseSplitRow(rows[i])]
  IN Kept(parsed, {i \in DOMAIN rows : Executed(parsed[i])})

(* fetch_executions: a detail takes what it lacks from its execution.      *)
CompleteDetail(d, r) ==
  [d EXCEPT !.exec_time = IF @ = "" THEN r.exec_time ELSE @,
            !.market = IF @ = "" THEN r.market_code ELSE @,
            !.exec_amount = IF @ <= 0 /\ d.exec_price > 0 THEN d.exec_qty * d.exec_price ELSE @]

(* An execution that has no details is its own one detail.                 *)
OwnDetail(r) ==
  [exec_qty |-> r.exec_qty, exec_price |-> r.exec_avg_price,
   exec_amount |-> r.exec_qty * r.exec_avg_price,
   exec_time |-> r.exec_time, market |-> r.market_code]

(* splits is what s8118 answered for this order: <<>> when it failed.      *)
FileExecution(r, splits) ==
  LET details == ParseSplits(splits)
  IN [r EXCEPT !.split_details =
        IF r.sor_split = "Y" /\ details # <<>>
        THEN [i \in DOMAIN details |-> CompleteDetail(details[i], r)]
        ELSE <<OwnDetail(r)>>]

FellBack(r, splits) == r.sor_split = "Y" /\ ParseSplits(splits) = <<>>

-----------------------------------------------------------------------------

(* The accounts of the login answer.  An expiry date is "", "past",        *)
(* "to come", or "odd" when it has not eight characters.                   *)
AccountInfo == [no : STRING, name : Texts, product : STRING, table : STRING,
                expires : {"", "past", "to come", "odd"}, granted : STRING]

DiagnosticLabels(info) ==
  (IF info.granted # "G" THEN <<"not_granted">> ELSE <<>>)
    \o (IF info.product = "" THEN <<"unknown_product">> ELSE <<>>)
    \o (IF info.expires = "past" THEN <<"expired_expr_date">> ELSE <<>>)

ParseAccount(i, info) ==
  [account_index |-> i, account_no |-> info.no, account_name |-> info.name,
   act_pdt_cd |-> info.product, amn_tab_cd |-> info.table, expr_date |-> info.expires,
   granted |-> info.granted, is_granted_batch |-> info.granted = "G",
   diagnostic_labels |-> DiagnosticLabels(info)]

(* Entries without a number are skipped, the others keep their index.      *)
ParseLoginInfo(infos) ==
  Kept([i \in DOMAIN infos |-> ParseAccount(i, infos[i])], {i \in DOMAIN infos : infos[i].no # ""})

-----------------------------------------------------------------------------

(* c8201: the field of Tc8201OutBlock each number of a summary is read     *)
(* from, and of Tc8201OutBlock1 each number of a position.                 *)
SummaryFrom ==
  [deposit_amount |-> "dpsit_amtz16", withdrawable_amount |-> "chgm_pos_amtz16",
   orderable_amount |-> "order_pos_csamtz16", cash_margin |-> "cash_mrgn_amtz16",
   substitute_margin |-> "subst_mgamt_amtz16", d1_deposit |-> "dpsit_amtz_d1_16",
   d2_deposit |-> "dpsit_amtz_d2_16", purchase_amount_total |-> "bal_buy_ttamtz16",
   valuation_amount_total |-> "bal_ass_ttamtz16", net_asset_amount |-> "asset_tot_amtz16",
   total_profit_loss |-> "tot_eal_plsz18", net_total_asset_amount |-> "nas_tot_amtz18"]

PositionFrom ==
  [quantity |-> "bal_qtyz16", unsettled_quantity |-> "unstl_qtyz16",
   avg_buy_price |-> "slby_amtz16", current_price |-> "prsnt_pricez16",
   profit_loss |-> "lsnpf_amtz16", remaining_quantity |-> "jan_qtyz16",
   valuation_amount |-> "ass_amtz16", avg_sell_price |-> "medo_slby_amtz16",
   sell_profit_loss |-> "post_lsnpf_amtz16"]

SummaryTexts == [activity_type |-> "actvt_type10"]
PositionTexts ==
  [stock_code |-> "issue_codez6", stock_name |-> "issue_namez40", balance_type |-> "bal_typez6",
   loan_date |-> "loan_datez10", credit_type |-> "mrgn_codez4", expiry_date |-> "expr_datez10",
   issue_margin_rate |-> "issue_mgamt_ratez6"]

(* parse_decimal_number: a rate keeps its fraction, here in hundredths.    *)
ParseDecimalNumber(raw) ==
  CASE raw.form = "blank" -> 0
    [] raw.form = "number" -> 10 * raw.tenths
    [] raw.form = "junk" -> 100 * raw.tenths

ParseFields(account, block, numbers, texts, rate) ==
  [n \in {"account_no", "profit_rate"} \cup DOMAIN numbers \cup DOMAIN texts |->
     CASE n = "account_no" -> account
       [] n = "profit_rate" -> ParseDecimalNumber(block[rate])
       [] n \in DOMAIN numbers -> ParseNumber(block[numbers[n]])
       [] n = "stock_code" -> NormalizeStockCode(block[texts[n]])
       [] OTHER -> block[texts[n]]]

ParseSummary(account, block) == ParseFields(account, block, SummaryFrom, SummaryTexts, "pft_rtz15")
ParsePosition(account, row) == ParseFields(account, row, PositionFrom, PositionTexts, "earn_ratez9")
=============================================================================
