----------------------------- MODULE MockBroker -----------------------------
(***************************************************************************)
(* The answers fetch.exe gives itself when QV_MOCK is 1: two executions on *)
(* two pages, the details of the first, which the exchange split, and one  *)
(* balance.                                                                *)
(***************************************************************************)
EXTENDS Integers, Sequences, SequencesExt, TLC

Mock(account, order, kind, code, name, qty, price, avg, time, market, split, details) ==
  [account_no |-> account, order_no |-> order, orig_order_no |-> 0, order_type |-> kind,
   stock_code |-> code, stock_name |-> name, order_qty |-> qty, exec_qty |-> qty,
   order_price |-> price, exec_avg_price |-> avg, exec_time |-> time, market_code |-> market,
   sor_split |-> split, split_details |-> details]

Detail(qty, amount, price, time, market) ==
  [exec_qty |-> qty, exec_amount |-> amount, exec_price |-> price, exec_time |-> time,
   market |-> market]

(* fill_mock_s8180: the page that cts asks for, and the cts that follows.  *)
MockBuy(account) ==
  Mock(account, 1, <<"plain", "buy">>, "005930", <<"plain">>, 100, 71500, 71546, "09:31:05",
       "SOR", "Y", <<>>)
MockSell(account) ==
  Mock(account, 2, <<"plain", "sell">>, "000660", <<"plain">>, 50, 82300, 82300, "10:15:00",
       "KRX", "N", <<Detail(50, 4115000, 82300, "10:15:00", "KRX")>>)

FillMockS8180(account, cts) ==
  CASE cts = "" -> [page |-> <<MockBuy(account)>>, next |-> "PAGE2"]
    [] cts = "PAGE2" -> [page |-> <<MockSell(account)>>, next |-> ""]
    [] OTHER -> [page |-> <<>>, next |-> ""]

(* fill_mock_s8118                                                         *)
FillMockS8118(order) ==
  IF order # 1 THEN <<>>
  ELSE <<Detail(37, 2645500, 71500, "09:31:02", "KRX"),
         Detail(7, 501200, 71600, "09:31:02", "NXT"),
         Detail(56, 4006800, 71550, "09:31:05", "KRX")>>

(* fill_mock_c8201; what is not told stays zero or empty.                  *)
MockSummary(account) ==
  [account_no |-> account, deposit_amount |-> 25000000, withdrawable_amount |-> 23000000,
   orderable_amount |-> 22000000, cash_margin |-> 1500000, substitute_margin |-> 3000000,
   d1_deposit |-> 24000000, d2_deposit |-> 25000000, purchase_amount_total |-> 11230000,
   valuation_amount_total |-> 11980000, net_asset_amount |-> 36980000,
   total_profit_loss |-> 750000, profit_rate |-> 668, net_total_asset_amount |-> 36980000,
   activity_type |-> <<"plain">>]

MockPosition(account, code, qty, buy, price, profit, rate, value) ==
  [account_no |-> account, stock_code |-> code, stock_name |-> <<"plain">>,
   balance_type |-> <<"plain">>, loan_date |-> "", quantity |-> qty, unsettled_quantity |-> 0,
   avg_buy_price |-> buy, current_price |-> price, profit_loss |-> profit, profit_rate |-> rate,
   credit_type |-> "", remaining_quantity |-> qty, expiry_date |-> "",
   valuation_amount |-> value, issue_margin_rate |-> "", avg_sell_price |-> 0,
   sell_profit_loss |-> 0]

MockPositions(account) ==
  <<MockPosition(account, "005930", 100, 71500, 73000, 150000, 210, 7300000),
    MockPosition(account, "000660", 50, 223000, 230000, 350000, 314, 11500000)>>
=============================================================================
