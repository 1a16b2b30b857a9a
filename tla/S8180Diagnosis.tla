--------------------------- MODULE S8180Diagnosis ---------------------------
(***************************************************************************)
(* What fetch.exe writes about how the broker took the passwords of s8180: *)
(* one record for each attempt of the last call of fetch_s8180_page, and   *)
(* the verdict drawn from them.  An outcome is how one attempt ended,      *)
(*   nohash      no hash of the account password     nosubmit  wmcaQuery   *)
(*   nopassword  the trade password is empty                   refused     *)
(*   notradehash no hash of the trade password       timeout   15 s passed *)
(*   rejected    10009, 21263 or the words "account password" came         *)
(*   error       a receive error came                nowait    no event    *)
(*   ok          the answer is complete                        queue       *)
(* with the code and the text of the last message, and the text of the     *)
(* failure, which the broker gives, perhaps empty, with a receive error.   *)
(***************************************************************************)
EXTENDS Integers, Sequences, SequencesExt

Endings == <<"nohash", "nopassword", "notradehash", "nosubmit", "nowait", "timeout", "rejected",
             "error", "ok">>

(* How far the attempt came.                                               *)
Got(what, past) == \E i, j \in DOMAIN Endings : i > j /\ Endings[i] = what /\ Endings[j] = past

Modes == {"encrypted", "plain", "blank"}
Requests == {"index", "account_no", "auto_probe"}

(* What QV_S8180_PASSWORD_MODE and QV_ACCOUNT_PASSWORD_HASH_BINDING ask    *)
(* for; a word that is not known means encrypted, and index.               *)
ResolvePasswordMode(raw) ==
  IF raw = "plain" THEN "plain"
  ELSE IF raw \in {"blank", "empty", "spaces"} THEN "blank" ELSE "encrypted"

ResolveBinding(raw) ==
  IF raw \in {"auto_probe", "auto-probe", "autoprobe"} THEN "auto_probe"
  ELSE IF raw \in {"account_no", "account-no", "accountno"} THEN "account_no" ELSE "index"

(* The bindings tried in turn; the second only after a rejection.          *)
Bindings(mode, requested) ==
  IF requested = "auto_probe"
  THEN IF mode = "encrypted" THEN <<"index", "account_no">> ELSE <<"index">>
  ELSE <<requested>>

(* The ways one call of fetch_s8180_page can go.                           *)
IsCall(mode, requested, outcomes) ==
  LET n == Len(outcomes)
      most == Len(Bindings(mode, requested))
  IN /\ n \in 1..most
     /\ \A i \in 1..(n - 1) : outcomes[i].what = "rejected"
     /\ n < most => outcomes[n].what # "rejected"
     /\ mode # "encrypted" => \A i \in 1..n : outcomes[i].what # "nohash"

Succeeds(outcomes) == Last(outcomes).what = "ok"

HashSource(mode, binding) ==
  IF mode # "encrypted" THEN "n/a"
  ELSE IF binding = "index" THEN "wmcaSetAccountIndexPwd" ELSE "wmcaSetAccountNoPwd"

Classification ==
  [nohash |-> "hash_generation_failed", nopassword |-> "missing_trade_password",
   notradehash |-> "trade_password_hash_generation_failed",
   nosubmit |-> "query_submit_failed", nowait |-> "event_wait_failed",
   timeout |-> "query_timeout", rejected |-> "account_password_rejected",
   error |-> "receive_error", ok |-> "success"]

Cause(binding, what) ==
  CASE what = "nohash" -> IF binding = "account_no" THEN "account_no_hash_generation_failed"
                          ELSE "index_hash_generation_failed"
    [] what = "nosubmit" -> "query_submission_failed"
    [] what \in {"nowait", "timeout"} -> "transport_or_contract_issue"
    [] what = "rejected" -> "credential_rejected_after_full_password_payload"
    [] what = "error" -> "tr_runtime_error"
    [] what = "ok" -> "none"
    [] OTHER -> Classification[what]

Reason(outcome) ==
  CASE outcome.what = "ok" -> <<>>
    [] outcome.what = "rejected" ->
         IF outcome.message = <<>> THEN <<"plain">> ELSE outcome.message
    [] OTHER -> outcome.text

(* populate_trade_password_hashes.                                         *)
TradePasswordHashes(what) ==
  [trade_password_present |-> Got(what, "nopassword"),
   trade_hash_generation_ok |-> Got(what, "notradehash"),
   trade_hash_source |-> IF Got(what, "nopassword") THEN "wmcaSetOrderPwd" ELSE ""]

(* The members of two records that share none.                             *)
Joined(r, s) == [n \in DOMAIN r \cup DOMAIN s |-> IF n \in DOMAIN r THEN r[n] ELSE s[n]]

(* run_attempt, as its diagnostic tells it.                                *)
Attempt(mode, binding, outcome) ==
  Joined(
    [binding_mode |-> binding,
     hash_source |-> HashSource(mode, binding),
     password_mode |-> mode,
     hash_generation_ok |-> Got(outcome.what, "nohash"),
     query_submitted |-> Got(outcome.what, "nosubmit"),
     query_succeeded |-> outcome.what = "ok",
     server_message_code |-> outcome.code,
     server_message |-> outcome.message,
     classification |-> Classification[outcome.what],
     candidate_cause |-> Cause(binding, outcome.what),
     failure_reason |-> Reason(outcome)],
    TradePasswordHashes(outcome.what))

Attempts(mode, requested, outcomes) ==
  [i \in DOMAIN outcomes |-> Attempt(mode, Bindings(mode, requested)[i], outcomes[i])]

Switched(requested, attempts) ==
  /\ requested = "auto_probe"
  /\ Len(attempts) >= 2
  /\ Head(attempts).classification = "account_password_rejected"

(* Variant the runs refute: the first attempt gives the verdict.           *)
OverallFirst(account, requested, attempts) ==
  Joined(Head(attempts), [selected_account |-> account, binding_mode_requested |-> requested,
                          attempts |-> attempts])

(* build_overall_diagnostic: the last attempt gives the verdict, but that  *)
(* a success after a rejection blames the binding.                         *)
Overall(account, requested, attempts) ==
  LET last == Last(attempts)
      switched == Switched(requested, attempts) /\ last.query_succeeded
      verdict == IF switched
                 THEN [last EXCEPT !.classification = "success_after_binding_switch",
                                   !.candidate_cause = "hash_binding_mismatch",
                                   !.failure_reason = <<>>]
                 ELSE last
  IN Joined(verdict, [selected_account |-> account, binding_mode_requested |-> requested,
                      attempts |-> attempts])
=============================================================================
