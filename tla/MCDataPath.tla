----------------------------- MODULE MCDataPath -----------------------------
(* Two accounts and an entry without number between them, seven rows, up   *)
(* to two of them on the first account.                                    *)
EXTENDS DataPath

Num(tenths) == [form |-> "number", tenths |-> tenths]
Blank == [form |-> "blank", tenths |-> 0]

Info(no, name, product, expires, granted) ==
  [no |-> no, name |-> name, product |-> product, table |-> "", expires |-> expires,
   granted |-> granted]

MCLoginInfo ==
  <<Info("a1", <<"plain">>, "", "past", "N"), Info("", <<>>, "01", "", "G"),
    Info("a2", <<"quote", "plain">>, "01", "to come", "G")>>

Samsung == [digits |-> "005930", letters |-> ""]
Preferred == [digits |-> "00088", letters |-> "K"]

Row(order, kind, name, qty, avg, market, split) ==
  [order |-> order, orig |-> NoDigits, kind |-> kind, code |-> Samsung, name |-> name,
   ordered |-> Num(qty), executed |-> Num(qty), price |-> Blank, avg |-> Num(avg),
   time |-> IF split = "Y" THEN [digits |-> 6, hms |-> "10:00:00", text |-> "100000"]
            ELSE [digits |-> 0, hms |-> "", text |-> ""],
   req |-> "", send |-> market, media |-> "", split |-> split]

PoolRows ==
  {Row(1, <<"buy">>, <<"plain", "quote">>, 30, 1005, "KRX", "N"),
   Row(1, <<"buy">>, <<"plain", "quote">>, 10, 1999, "", ""),
   Row(1, <<"buy">>, <<"plain", "quote">>, 0, 1000, "NXT", "N"),
   Row(2, <<"plain">>, <<"plain">>, 20, 500, "KRX", "N"),
   Row(NoDigits, <<"plain", "sell">>, <<"plain">>, 10, 70, "KRX", "N"),
   Row(4, <<"buy">>, <<"plain", "control">>, 10, 70, "KRX", "N"),
   Row(3, <<"sell">>, <<"plain">>, 40, 1001, "", "Y")}

UpTo(n) == {s \in UNION {[1..k -> PoolRows] : k \in 0..n} :
              Cardinality({i \in DOMAIN s : s[i].split = "Y"}) <= 1}
MCRows == <<UpTo(2), UpTo(1)>>

Split(qty, amount) == [executed |-> Num(10 * qty), amount |-> Num(10 * amount), req |-> "", send |-> "NXT"]
MCSplits == {<<>>, <<Split(3, 302), Split(0, 5), Split(1, 99)>>}

Junk(n) == [form |-> "junk", tenths |-> n]
Fields(names, first) ==
  [n \in {names[i] : i \in DOMAIN names} |->
     LET i == CHOOSE k \in DOMAIN names : names[k] = n
     IN IF i = 3 THEN Blank ELSE IF i = 4 THEN Junk(17) ELSE Num((first + i) * 13 - 40)]
SummaryBlock ==
  Fields(<<"dpsit_amtz16", "chgm_pos_amtz16", "order_pos_csamtz16", "cash_mrgn_amtz16",
           "subst_mgamt_amtz16", "dpsit_amtz_d1_16", "dpsit_amtz_d2_16", "bal_buy_ttamtz16",
           "bal_ass_ttamtz16", "asset_tot_amtz16", "tot_eal_plsz18", "nas_tot_amtz18",
           "pft_rtz15">>, 0)
PositionBlock(name) ==
  Fields(<<"bal_qtyz16", "unstl_qtyz16", "slby_amtz16", "prsnt_pricez16", "lsnpf_amtz16",
           "jan_qtyz16", "ass_amtz16", "medo_slby_amtz16", "post_lsnpf_amtz16",
           "earn_ratez9">>, 20)
  @@ [issue_codez6 |-> Preferred, issue_namez40 |-> name, bal_typez6 |-> <<"plain">>,
      loan_datez10 |-> "", mrgn_codez4 |-> "", expr_datez10 |-> "", issue_mgamt_ratez6 |-> ""]

Names == {<<"plain">>, <<"quote">>, <<"plain", "control">>}
MCBlocks ==
  {[summary |-> SummaryBlock @@ [actvt_type10 |-> <<"plain">>],
    positions |-> ps, warnings |-> ws] :
     ps \in {<<>>} \cup {<<PositionBlock(a)>> : a \in Names}
              \cup {<<PositionBlock(a), PositionBlock(<<"plain">>)>> : a \in Names},
     ws \in {<<>>, <<<<"plain", "quote">>>>, <<<<"plain">>, <<"plain">>>>}}

MCFailures == {<<"plain">>, <<"plain", "quote">>, <<"control">>}

Ended(what, code, message, text) ==
  [what |-> what, code |-> code, message |-> message, text |-> text]
MCOutcomes ==
  {Ended("ok", "00000", <<"plain">>, <<>>), Ended("rejected", "21263", <<"plain", "quote">>, <<>>),
   Ended("rejected", "10009", <<"control">>, <<>>), Ended("timeout", "", <<>>, <<"plain">>),
   Ended("nohash", "", <<>>, <<"plain">>), Ended("nopassword", "", <<>>, <<"plain">>),
   Ended("error", "", <<>>, <<>>)}

MCJob(kind, mock, diagnose, mode, binding) ==
  [kind |-> kind, mock |-> mock, diagnose |-> diagnose, mode |-> mode, binding |-> binding]
MCJobs ==
  {MCJob("executions", FALSE, TRUE, "encrypted", "autoprobe"),
   MCJob("executions", FALSE, FALSE, "spaces", "other"),
   MCJob("executions", TRUE, TRUE, "plain", "account-no"),
   MCJob("balance", FALSE, FALSE, "", ""), MCJob("balance", TRUE, FALSE, "", ""),
   MCJob("file", FALSE, FALSE, "", ""), MCJob("session", FALSE, FALSE, "", "")}

ASSUME BrokerAssumption == SplitsAddUp /\ OneSide
=============================================================================
