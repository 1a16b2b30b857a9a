---------------------------- MODULE TradeLoader ----------------------------
(***************************************************************************)
(* data_loader.py, balance_loader.py and _parse_accounts_payload: what the *)
(* Python program makes of the documents it has read.  The order of trades *)
(* and of details on the screen is left out: trades are a function of      *)
(* their reason key, details are in the order they are met.                *)
(***************************************************************************)
EXTENDS Lists, FiniteSets, SequencesExt

(* "매수" and "매도" in the order type.                                    *)
InferSide(kind) ==
  IF "buy" \in Range(kind) THEN "buy" ELSE IF "sell" \in Range(kind) THEN "sell" ELSE "none"

RoundHalfUpWon(num, den) == (2 * num + den) \div (2 * den)

Given(x, fallback) == IF x = "" THEN fallback ELSE x

DetailFromSplit(item, e) ==
  LET price == IF item.exec_price > 0 THEN item.exec_price
               ELSE IF item.exec_amount > 0 THEN RoundHalfUpWon(item.exec_amount, item.exec_qty)
               ELSE 0
  IN [exec_time |-> Given(item.exec_time, e.exec_time), market |-> Given(item.market, e.market_code),
      qty |-> item.exec_qty, price |-> price,
      amount |-> IF item.exec_amount > 0 THEN item.exec_amount ELSE item.exec_qty * price]

Traded(item) == item.exec_qty > 0

BuildDetails(e) ==
  LET items == Kept(e.split_details,
                    {i \in DOMAIN e.split_details : Traded(e.split_details[i])})
  IN IF items # <<>>
     THEN [i \in DOMAIN items |-> DetailFromSplit(items[i], e)]
     ELSE IF e.exec_qty <= 0 THEN <<>>
     ELSE <<[exec_time |-> e.exec_time, market |-> e.market_code, qty |-> e.exec_qty,
             price |-> e.exec_avg_price, amount |-> e.exec_qty * e.exec_avg_price]>>

Quantities(details) == [i \in DOMAIN details |-> details[i].qty]
Values(details) == [i \in DOMAIN details |-> details[i].qty * details[i].price]
Amounts(details) == [i \in DOMAIN details |-> details[i].amount]

(* Variant the runs refute: the mean of the prices.                        *)
MeanOfPrices(details) ==
  [qty |-> Total(Quantities(details)),
   price |-> RoundHalfUpWon(Total([i \in DOMAIN details |-> details[i].price]), Len(details)),
   amount |-> Total(Amounts(details))]

(* Details are never empty, and each has a positive quantity.              *)
RecomputeMetrics(details) ==
  LET qty == Total(Quantities(details))
  IN [qty |-> qty, price |-> RoundHalfUpWon(Total(Values(details)), qty),
      amount |-> Total(Amounts(details))]

TradeReasonKey(e, root) == <<Given(e.account_no, root), e.order_no>>

(* Variant the runs refute: the last row of an order replaces the others.  *)
AddLast(trades, e, root) ==
  LET key == TradeReasonKey(e, root)
      details == BuildDetails(e)
      side == InferSide(e.order_type)
  IN IF details = <<>> \/ side = "none"
     THEN trades
     ELSE [k \in DOMAIN trades \cup {key} |->
             IF k # key THEN trades[k]
             ELSE [side |-> side, name |-> e.stock_name, details |-> details,
                   total |-> RecomputeMetrics(details)]]

(* One execution joins the trade of its key; what is no trade is left out. *)
AddExecution(trades, e, root) ==
  LET key == TradeReasonKey(e, root)
      details == BuildDetails(e)
      merged == IF key \in DOMAIN trades THEN trades[key].details \o details ELSE details
      first == [side |-> InferSide(e.order_type), name |-> e.stock_name]
      was == IF key \in DOMAIN trades
             THEN [side |-> trades[key].side, name |-> trades[key].name]
             ELSE first
  IN IF details = <<>> \/ first.side = "none"
     THEN trades
     ELSE [k \in DOMAIN trades \cup {key} |->
             IF k # key THEN trades[k]
             ELSE [side |-> was.side, name |-> was.name, details |-> merged,
                   total |-> RecomputeMetrics(merged)]]

ParseTrades(payload) ==
  LET es == payload.executions
      trades[i \in 0..Len(es)] ==
        IF i = 0 THEN <<>> ELSE AddExecution(trades[i - 1], es[i], payload.account_no)
  IN trades[Len(es)]

-----------------------------------------------------------------------------

(* parse_balance_accounts: every member is taken under the name it was     *)
(* written under.                                                          *)
SummaryShown ==
  {"account_no", "deposit_amount", "withdrawable_amount", "orderable_amount", "cash_margin",
   "substitute_margin", "d1_deposit", "d2_deposit", "purchase_amount_total",
   "valuation_amount_total", "net_asset_amount", "total_profit_loss", "profit_rate",
   "net_total_asset_amount", "activity_type"}
PositionShown ==
  {"account_no", "stock_code", "stock_name", "balance_type", "loan_date", "quantity",
   "unsettled_quantity", "avg_buy_price", "current_price", "profit_loss", "profit_rate",
   "credit_type", "remaining_quantity", "expiry_date", "valuation_amount", "issue_margin_rate",
   "avg_sell_price", "sell_profit_loss"}

(* What was not written keeps its default; here it is left out.            *)
Taken(r, names) == [n \in names \cap DOMAIN r |-> r[n]]

ParseBalanceAccounts(payload) ==
  [i \in DOMAIN payload.balance_accounts |->
     LET b == payload.balance_accounts[i]
     IN [account |-> b.selected_account.account_no,
         summary |-> Taken(b.summary, SummaryShown),
         positions |-> [j \in DOMAIN b.positions |-> Taken(b.positions[j], PositionShown)],
         warnings |-> b.warnings]]

(* _parse_accounts_payload: accounts without a number are left out; an     *)
(* empty list is an error.                                                 *)
ParseAccounts(payload) == SelectSeq(payload.accounts, LAMBDA a : a.account_no # "")
=============================================================================
