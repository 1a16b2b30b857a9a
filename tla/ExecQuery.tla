----------------------------- MODULE ExecQuery -----------------------------
(***************************************************************************)
(* QVQuery::fetch_executions for the active account: the pages of s8180,   *)
(* each tried up to MaxAttempts times and, within a try, with up to two    *)
(* bindings of the account password; then, for every row that the exchange *)
(* split (SOR), the details of s8118.  One attempt is one exchange of      *)
(* EventPump, with its own tr_index.                                       *)
(***************************************************************************)
EXTENDS EventPump

CONSTANTS
  LastPage,    (* number of s8180 pages of each account                 *)
  SplitRows,   (* <<account, page, n>> of the rows with SOR split "Y"   *)
  MaxAttempts, (* kMaxAttempts                                          *)
  AutoProbe,   (* QV_ACCOUNT_PASSWORD_HASH_BINDING is auto_probe        *)
  ExecBase,    (* first tr_index of s8180 in a command (818000)         *)
  SplitBase    (* first tr_index of s8118 in a command (900000)         *)

ASSUME ExecAssumption ==
  /\ LastPage \in [Accounts -> Nat \ {0}]
  /\ SplitRows \subseteq Accounts \X Nat \X Nat
  /\ MaxAttempts \in Nat \ {0}
  /\ AutoProbe \in BOOLEAN
  /\ ExecBase \in Nat /\ SplitBase \in Nat /\ ExecBase <= SplitBase

VARIABLES
  nextExec,  (* next_exec_tr_index_                                     *)
  nextSplit, (* next_split_tr_index_                                    *)
  page,      (* the page that cts asks for                              *)
  attempt,   (* attempts of this page begun, this one included          *)
  binding,   (* "index" or "account_no"                                 *)
  rows,      (* page_out: the rows of this attempt                      *)
  cts,       (* next_cts: the following page, 0 when there is none      *)
  at,        (* the row whose details are being looked up               *)
  details,   (* s8118 rows of that row                                  *)
  found      (* per_account_executions                                  *)

counters == <<nextExec, nextSplit>>
place    == <<page, attempt, binding>>
yield    == <<rows, cts>>
execVars == <<counters, place, yield, at, details, found>>

-----------------------------------------------------------------------------

Row == [from: Request, n: Nat]

(* An element of executions[]: the account it is filed under, the row it   *)
(* was parsed from, and the s8118 requests its details came from, none     *)
(* when the row's own figures are its single detail.                       *)
Execution == [acct: Accounts \cup {NoAccount}, row: Row, details: SUBSET Request]

(* The broker's paging block: the next page, 0 with an empty nextbutton.   *)
NextCts(r) == IF r.page < LastPage[r.acct] THEN r.page + 1 ELSE 0

IsSplit(row) == <<row.from.acct, row.from.page, row.n>> \in SplitRows

(* Variant the runs refute: the list of the last account is not cleared.   *)
FirstPageOnly ==
  /\ page' = 1
  /\ attempt' = 1
  /\ binding' = "index"
  /\ rows' = <<>>
  /\ cts' = 0
  /\ at' = 0
  /\ details' = {}
  /\ found' = found

(* The locals of fetch_executions as a call finds them.                    *)
FirstPage ==
  /\ page' = 1
  /\ attempt' = 1
  /\ binding' = "index"
  /\ rows' = <<>>
  /\ cts' = 0
  /\ at' = 0
  /\ details' = {}
  /\ found' = <<>>

-----------------------------------------------------------------------------
(* s8180                                                                   *)

(* Variant the runs refute: the rows of the last attempt stay.             *)
SendExecKeepsRows ==
  /\ pc = "send"
  /\ nextExec < SplitBase
  /\ nextExec' = nextExec + 1
  /\ rows' = rows
  /\ cts' = 0
  /\ LET r == [cmd |-> cmd, kind |-> "s8180", acct |-> active, page |-> page,
               item |-> 0, tr |-> nextExec]
     IN  /\ Begin(r)
         /\ \/ Submit(r) /\ pc' = "await" /\ outcome' = "none"
            \/ pending' = pending /\ pc' = "judge" /\ outcome' = "nohash"
  /\ UNCHANGED <<nextSplit, place, at, details, found>>

(* run_attempt up to wmcaQuery.  A hash that cannot be made ends the       *)
(* attempt; the tr_index is used up and the queue discarded all the same.  *)
(* Bound: a command has SplitBase - ExecBase tr_indexes for s8180.         *)
SendExec ==
  /\ pc = "send"
  /\ nextExec < SplitBase
  /\ nextExec' = nextExec + 1
  /\ rows' = <<>>
  /\ cts' = 0
  /\ LET r == [cmd |-> cmd, kind |-> "s8180", acct |-> active, page |-> page,
               item |-> 0, tr |-> nextExec]
     IN  /\ Begin(r)
         /\ \/ Submit(r) /\ pc' = "await" /\ outcome' = "none"
            \/ pending' = pending /\ pc' = "judge" /\ outcome' = "nohash"
  /\ UNCHANGED <<nextSplit, place, at, details, found>>

ExecData(e) ==
  /\ Awaiting("s8180")
  /\ Pop(e)
  /\ e.code = "data" /\ Own(e)
  /\ IF e.block.name = "outblock1"
       THEN rows' = Append(rows, [from |-> e.from, n |-> e.block.n]) /\ cts' = cts
       ELSE rows' = rows /\ cts' = NextCts(e.from)
  /\ UNCHANGED <<flowVars, counters, place, at, details, found>>

(* is_password_rejected_message                                            *)
IsPasswordRejection(e) == e.code = "message" /\ e.msg \in {"10009", "21263"}

ExecMessage(e) ==
  /\ Awaiting("s8180")
  /\ Pop(e)
  /\ e.code = "message" /\ Own(e)
  /\ msgCode' = e.msg
  /\ IF IsPasswordRejection(e)
       THEN GiveUp("rejected")
       ELSE UNCHANGED <<pc, cmd, active, req, sawTerminal, outcome>>
  /\ UNCHANGED execVars

ExecComplete(e) ==
  /\ Awaiting("s8180")
  /\ Pop(e)
  /\ e.code = "complete" /\ Own(e)
  /\ Conclude("ok")
  /\ UNCHANGED <<msgCode, execVars>>

-----------------------------------------------------------------------------
(* What becomes of the attempt: the binding loop of fetch_s8180_page, then *)
(* the retry loop of fetch_executions.                                     *)

Judging(kind) == pc = "judge" /\ req.kind = kind

JudgePageDone ==
  /\ Judging("s8180") /\ outcome = "ok"
  /\ Leave
  /\ pc' = "rows"
  /\ at' = 1
  /\ UNCHANGED <<pumpVars, counters, place, yield, details, found>>

(* Variant the runs refute: every refusal is answered with the probe.      *)
RebindsAlways == AutoProbe /\ outcome = "rejected"

Rebinds == AutoProbe /\ binding = "index" /\ outcome = "rejected"

JudgeRebind ==
  /\ Judging("s8180") /\ Rebinds
  /\ Leave
  /\ pc' = "send"
  /\ binding' = "account_no"
  /\ UNCHANGED <<pumpVars, counters, page, attempt, yield, at, details, found>>

(* Variant the runs refute: one attempt too many.                          *)
IsRetryableOnceMore == outcome = "timeout" /\ attempt <= MaxAttempts

IsRetryable == outcome = "timeout" /\ attempt < MaxAttempts

JudgeRetry ==
  /\ Judging("s8180") /\ IsRetryable
  /\ Leave
  /\ pc' = "send"
  /\ attempt' = attempt + 1
  /\ binding' = "index"
  /\ UNCHANGED <<pumpVars, counters, page, yield, at, details, found>>

ExecFailed == Judging("s8180") /\ outcome # "ok" /\ ~Rebinds /\ ~IsRetryable

-----------------------------------------------------------------------------
(* The rows of a page, and s8118.                                          *)

(* Variant the runs refute: the list of details is kept for the next row.  *)
FileKeepingDetails(found_details) ==
  /\ found' = Append(found, [acct |-> active, row |-> rows[at], details |-> found_details])
  /\ at' = at + 1
  /\ details' = details

(* The execution goes to the account's list, with the details found or,    *)
(* without any, with the row's own figures.                                *)
File(found_details) ==
  /\ found' = Append(found, [acct |-> active, row |-> rows[at], details |-> found_details])
  /\ at' = at + 1
  /\ details' = {}

FileWholeRow ==
  /\ pc = "rows" /\ at <= Len(rows) /\ ~IsSplit(rows[at])
  /\ File({})
  /\ UNCHANGED <<pumpVars, flowVars, counters, place, yield>>

SendSplit ==
  /\ pc = "rows" /\ at <= Len(rows) /\ IsSplit(rows[at])
  /\ nextSplit' = nextSplit + 1
  /\ LET r == [cmd |-> cmd, kind |-> "s8118", acct |-> active, page |-> rows[at].from.page,
               item |-> rows[at].n, tr |-> nextSplit]
     IN  /\ Begin(r)
         /\ \/ Submit(r) /\ pc' = "await" /\ outcome' = "none"
            \/ pending' = pending /\ pc' = "judge" /\ outcome' = "nohash"
  /\ UNCHANGED <<nextExec, place, yield, at, details, found>>

SplitData(e) ==
  /\ Awaiting("s8118")
  /\ Pop(e)
  /\ e.code = "data" /\ Own(e)
  /\ details' = details \cup {e.from}
  /\ UNCHANGED <<flowVars, counters, place, yield, at, found>>

SplitMessage(e) ==
  /\ Awaiting("s8118")
  /\ Pop(e)
  /\ e.code = "message" /\ Own(e)
  /\ UNCHANGED <<flowVars, execVars>>

SplitComplete(e) ==
  /\ Awaiting("s8118")
  /\ Pop(e)
  /\ e.code = "complete" /\ Own(e)
  /\ Conclude("ok")
  /\ UNCHANGED <<msgCode, execVars>>

(* Details count only when the exchange completed.                         *)
JudgeSplit ==
  /\ Judging("s8118")
  /\ Leave
  /\ pc' = "rows"
  /\ File(IF outcome = "ok" THEN details ELSE {})
  /\ UNCHANGED <<pumpVars, counters, place, yield>>

NextPage ==
  /\ pc = "rows" /\ at > Len(rows) /\ cts # 0
  /\ pc' = "send"
  /\ page' = cts
  /\ attempt' = 1
  /\ binding' = "index"
  /\ at' = 0
  /\ UNCHANGED <<pumpVars, cmd, active, req, sawTerminal, outcome, msgCode,
                 counters, yield, details, found>>

(* Variant the runs refute: the continuation key is not looked at.         *)
ExecSucceededOnePage == pc = "rows" /\ at > Len(rows)

ExecSucceeded == pc = "rows" /\ at > Len(rows) /\ cts = 0

-----------------------------------------------------------------------------

ExecInit ==
  /\ nextExec = ExecBase /\ nextSplit = SplitBase
  /\ page = 1 /\ attempt = 1 /\ binding = "index"
  /\ rows = <<>> /\ cts = 0
  /\ at = 0 /\ details = {} /\ found = <<>>

ExecEvent(e) ==
  \/ ExecData(e) \/ ExecMessage(e) \/ ExecComplete(e)
  \/ SplitData(e) \/ SplitMessage(e) \/ SplitComplete(e)

ExecStep ==
  \/ SendExec \/ JudgePageDone \/ JudgeRebind \/ JudgeRetry
  \/ FileWholeRow \/ SendSplit \/ JudgeSplit \/ NextPage
  \/ \E e \in queue : ExecEvent(e)

ExecTypeOK ==
  /\ nextExec \in ExecBase..SplitBase
  /\ nextSplit \in Nat /\ nextSplit >= SplitBase
  /\ page \in Nat \ {0}
  /\ attempt \in 1..MaxAttempts
  /\ binding \in {"index", "account_no"}
  /\ rows \in Seq(Row)
  /\ cts \in Nat
  /\ at \in Nat
  /\ details \subseteq Request
  /\ found \in Seq(Execution)
=============================================================================
