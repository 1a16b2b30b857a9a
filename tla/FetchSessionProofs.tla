------------------------- MODULE FetchSessionProofs -------------------------
(***************************************************************************)
(* Spec => []TypeOK and Spec => []OwnAnswers, for every batch, any number  *)
(* of pages, rows, attempts and commands, and whatever the broker does     *)
(* with the requests it was sent; and the bound on the requests of a       *)
(* process that serves one command.                                        *)
(***************************************************************************)
EXTENDS FetchSession, FiniteSetTheorems, SequenceTheorems, TLAPS

-----------------------------------------------------------------------------
(* The queue and the broker.                                               *)

QueueOK == queue \subseteq Event /\ QueueInv

PendingOK == pending \subseteq [req: Request, sent: SUBSET Block]

(* erase keeps the queue finite and well typed, and brings in no event.    *)
LEMMA EraseKeeps ==
  ASSUME QueueOK, NEW STATE gone, Erase(gone)
  PROVE  /\ QueueOK'
         /\ \A e \in queue' : \E f \in queue \ gone :
              e.code = f.code /\ e.tr = f.tr /\ e.from = f.from
<1> DEFINE kept == queue \ gone
           rank(e) == Cardinality({f \in kept : f.at <= e.at})
           moved == [e \in kept |-> [e EXCEPT !.at = rank(e)]]
<1>1. IsFiniteSet(kept)
  BY FS_Subset DEF QueueOK, QueueInv
<1>2. \A e \in kept : rank(e) \in Nat
  <2> TAKE e \in kept
  <2>1. IsFiniteSet({f \in kept : f.at <= e.at})
    BY <1>1, FS_Subset
  <2> QED BY <2>1, FS_CardinalityType
<1>3. queue' = {moved[e] : e \in kept}
  BY DEF Erase
<1>4. IsFiniteSet(queue')
  <2> DEFINE image == {moved[e] : e \in kept}
  <2>1. moved \in Surjection(kept, image)
    BY DEF Surjection
  <2> HIDE DEF kept, moved, image
  <2>2. IsFiniteSet(image)
    BY <1>1, <2>1, FS_Surjection
  <2> QED BY <1>3, <2>2 DEF image
<1>5. \A e \in kept : moved[e] \in Event /\ moved[e].code = e.code
                      /\ moved[e].tr = e.tr /\ moved[e].from = e.from
  <2> TAKE e \in kept
  <2>1. e \in Event
    BY DEF QueueOK
  <2>2. moved[e] = [e EXCEPT !.at = rank(e)]
    OBVIOUS
  <2>3. rank(e) \in Nat
    BY <1>2
  <2> HIDE DEF kept, moved, rank
  <2> QED BY <2>1, <2>2, <2>3 DEF Event
<1> HIDE DEF moved
<1> QED BY <1>3, <1>4, <1>5 DEF QueueOK, QueueInv, IsConnectionEvent

(* A new event goes to the end of a queue that stays finite.               *)
LEMMA PostKeeps ==
  ASSUME QueueOK, NEW STATE e, e \in Event, ~IsConnectionEvent(e) => e.tr = e.from.tr, Post(e)
  PROVE  QueueOK'
<1>1. IsFiniteSet(queue')
  BY FS_AddElement DEF Post, QueueOK, QueueInv
<1> QED BY <1>1 DEF Post, QueueOK, QueueInv, IsConnectionEvent

LEMMA AnswerTyped ==
  ASSUME QueueOK, NEW r \in Request, NEW code \in {"data", "message", "complete", "error"},
         NEW block \in Block, NEW msg \in RejectCodes \cup {"none"}
  PROVE  /\ Answer(r, code, block, msg) \in Event
         /\ Answer(r, code, block, msg).tr = r.tr
         /\ Answer(r, code, block, msg).from = r
<1>1. Cardinality(queue) + 1 \in Nat
  <2>1. IsFiniteSet(queue)
    BY DEF QueueOK, QueueInv
  <2>2. Cardinality(queue) \in Nat
    BY <2>1, FS_CardinalityType
  <2> QED BY <2>2
<1>2. r.tr \in Nat
  BY DEF Request
<1> QED BY <1>1, <1>2 DEF Answer, Event

LEMMA BlocksTyped ==
  ASSUME PumpAssumption, NEW r \in Request
  PROVE  Blocks(r.kind) \subseteq Block
<1>1. Chunks \in Nat
  BY DEF PumpAssumption
<1>2. CASE r.kind = "s8180"
  BY <1>1, <1>2 DEF Blocks, Block
<1>3. CASE r.kind # "s8180"
  BY <1>3 DEF Blocks, Block
<1> QED BY <1>2, <1>3

(* The broker answers only what it was asked.                              *)
LEMMA BrokerKeeps ==
  ASSUME QueueOK, PendingOK, Broker
  PROVE  QueueOK' /\ PendingOK' /\ Issued' \subseteq Issued
<1>1. ASSUME NEW p \in pending, PostData(p) \/ PostRejection(p) \/ PostComplete(p) \/ PostError(p)
      PROVE  QueueOK' /\ PendingOK' /\ Issued' \subseteq Issued
  <2>1. p.req \in Request /\ p.sent \subseteq Block
    BY DEF PendingOK
  <2>2. PICK code \in {"data", "message", "complete", "error"},
             block \in Block, msg \in RejectCodes \cup {"none"} :
               Post(Answer(p.req, code, block, msg))
    <3>1. Blocks(p.req.kind) \subseteq Block
      BY <2>1, BlocksTyped, PumpAssumption
    <3>2. NoBlock \in Block
      BY DEF NoBlock, Block
    <3> QED BY <1>1, <3>1, <3>2 DEF PostData, PostRejection, PostComplete, PostError
  <2> DEFINE e == Answer(p.req, code, block, msg)
  <2>3. e \in Event /\ e.tr = e.from.tr /\ e.from = p.req
    BY <2>1, AnswerTyped
  <2>4. queue' = queue \cup {e}
    BY <2>2 DEF Post
  <2>5. \E kept \in SUBSET pending : 
           \/ pending' = kept
           \/ \E s \in SUBSET Block : pending' = kept \cup {[p EXCEPT !.sent = s]}
    <3>1. Blocks(p.req.kind) \subseteq Block
      BY <2>1, BlocksTyped, PumpAssumption
    <3>2. p = [req |-> p.req, sent |-> p.sent]
      BY DEF PendingOK
    <3> QED BY <1>1, <2>1, <3>1, <3>2 DEF PostData, PostRejection, PostComplete, PostError
  <2> HIDE DEF e
  <2>6. QueueOK'
    BY <2>2, <2>3, PostKeeps DEF e
  <2>7. PendingOK'
    BY <2>1, <2>5 DEF PendingOK
  <2>8. Issued' \subseteq Issued
    BY <2>1, <2>3, <2>4, <2>5 DEF Issued, IsConnectionEvent, PendingOK
  <2> QED BY <2>6, <2>7, <2>8
<1>2. ASSUME Disconnect
      PROVE  QueueOK' /\ PendingOK' /\ Issued' \subseteq Issued
  <2> DEFINE e == Answer(NoRequest, "disconnected", NoBlock, "none")
  <2>1. Cardinality(queue) + 1 \in Nat
    BY FS_CardinalityType DEF QueueOK, QueueInv
  <2>2. e \in Event /\ IsConnectionEvent(e)
    BY <2>1 DEF Answer, Event, NoRequest, NoBlock, Block, IsConnectionEvent
  <2>3. Post(e)
    BY <1>2 DEF Disconnect
  <2> HIDE DEF e
  <2>4. QueueOK'
    BY <2>2, <2>3, PostKeeps
  <2>5. pending' = {} /\ queue' = queue \cup {e}
    BY <1>2, <2>3 DEF Disconnect, Post
  <2> QED BY <2>2, <2>4, <2>5 DEF PendingOK, Issued, IsConnectionEvent
<1> QED BY <1>1, <1>2 DEF Broker

LEMMA EraseIssued ==
  ASSUME QueueOK, PendingOK, NEW STATE gone, Erase(gone), pending' = pending
  PROVE  QueueOK' /\ PendingOK' /\ Issued' \subseteq Issued
<1>1. QueueOK' /\ \A e \in queue' : \E f \in queue \ gone :
                    e.code = f.code /\ e.tr = f.tr /\ e.from = f.from
  BY EraseKeeps
<1> QED BY <1>1 DEF Issued, IsConnectionEvent, PendingOK

(* A submit adds at most its own request to what may be answered.          *)
LEMMA SendIssued ==
  ASSUME QueueOK, PendingOK, NEW STATE r, r \in Request, Begin(r),
         Submit(r) \/ pending' = pending
  PROVE  QueueOK' /\ PendingOK' /\ Issued' \subseteq Issued \cup {r}
<1>1. QueueOK' /\ \A e \in queue' : \E f \in queue :
                    e.code = f.code /\ e.tr = f.tr /\ e.from = f.from
  BY EraseKeeps DEF Begin, DiscardStale
<1>2. \E kept \in SUBSET pending :
        pending' = kept \/ pending' = kept \cup {[req |-> r, sent |-> {}]}
  BY DEF Submit
<1>3. PendingOK'
  BY <1>2 DEF PendingOK
<1>4. {p.req : p \in pending'} \subseteq {p.req : p \in pending} \cup {r}
  BY <1>2
<1> QED BY <1>1, <1>3, <1>4 DEF Issued, IsConnectionEvent

-----------------------------------------------------------------------------
(* What most steps leave alone.                                            *)

LEMMA StillPump ==
  ASSUME IInv, UNCHANGED pumpVars
  PROVE  QueueOK' /\ PendingOK' /\ Issued' = Issued
BY DEF IInv, TypeOK, PumpTypeOK, pumpVars, QueueOK, QueueInv, PendingOK, Issued, IsConnectionEvent

LEMMA PumpOK ==
  ASSUME IInv
  PROVE  QueueOK /\ PendingOK
BY DEF IInv, TypeOK, PumpTypeOK, QueueOK, PendingOK

LEMMA CounterTypes ==
  ASSUME IInv
  PROVE  /\ nextExec \in Nat /\ nextSplit \in Nat /\ nextBalance \in Nat /\ SplitBase \in Nat
         /\ nextExec <= SplitBase /\ SplitBase <= nextSplit
BY ExecAssumption, BalanceAssumption
DEF IInv, TypeOK, ExecTypeOK, BalanceTypeOK, ExecAssumption, BalanceAssumption

(* The counters only grow within a command, so what is known stays known.  *)
LEMMA KnownKept ==
  ASSUME IInv, NEW r \in Request, Known(r), UNCHANGED <<cmd, job>>,
         ExecTypeOK', BalanceTypeOK',
         nextExec <= nextExec', nextSplit <= nextSplit', nextBalance <= nextBalance'
  PROVE  Known(r)'
<1>1. r.tr \in Nat /\ r.cmd \in Nat
  BY DEF Request
<1>2. nextExec' \in Nat /\ nextSplit' \in Nat /\ nextBalance' \in Nat
  BY ExecAssumption, BalanceAssumption
  DEF ExecTypeOK, BalanceTypeOK, ExecAssumption, BalanceAssumption
<1> QED BY <1>1, <1>2, CounterTypes DEF Known

LEMMA IssuedKept ==
  ASSUME IInv, Issued' \subseteq Issued, UNCHANGED <<cmd, job>>,
         ExecTypeOK', BalanceTypeOK',
         nextExec <= nextExec', nextSplit <= nextSplit', nextBalance <= nextBalance'
  PROVE  IssuedInv'
<1>1. \A r \in Issued : r \in Request /\ Known(r)
  BY DEF IInv, IssuedInv, Known
<1> QED BY <1>1, KnownKept DEF IssuedInv

LEMMA FiledKept ==
  ASSUME IInv, UNCHANGED <<out, balances, cmd>>
  PROVE  OwnAnswers'
BY DEF IInv, OwnAnswers, OwnExecution, OwnBalance

-----------------------------------------------------------------------------
(* The session loop.                                                       *)

-----------------------------------------------------------------------------
(* The rows of a page.                                                     *)

(* Filing the row at `at`, with details that are its own.                  *)
LEMMA FileKeeps ==
  ASSUME IInv, NEW STATE ds, ds \in SUBSET Request, at \in DOMAIN rows, active \in Accounts, File(ds),
         UNCHANGED <<cmd, active>>,
         \A d \in ds : d.cmd = cmd =>
           /\ d.kind = "s8118" /\ d.acct = active
           /\ d.page = rows[at].from.page /\ d.item = rows[at].n
  PROVE  /\ found' \in Seq(Execution) /\ at' \in Nat \ {0} /\ details' = {}
         /\ \A i \in DOMAIN found' : OwnExecution(found[i])'
<1> DEFINE x == [acct |-> active, row |-> rows[at], details |-> ds]
<1>1. rows \in Seq(Row) /\ found \in Seq(Execution)
  BY DEF IInv, TypeOK, ExecTypeOK
<1>2. at \in 1..Len(rows) /\ rows[at] \in Row
  BY <1>1
<1>3. x \in Execution
  BY <1>2 DEF Execution
<1>4. OwnExecution(x)
  BY DEF OwnExecution, IInv, AccountInv
<1>5. found' = Append(found, x) /\ at' = at + 1 /\ details' = {}
  BY DEF File
<1> HIDE DEF x
<1>6. \A i \in DOMAIN found' : found'[i] = x \/ (i \in DOMAIN found /\ found'[i] = found[i])
  BY <1>1, <1>3, <1>5
<1>7. \A i \in DOMAIN found' : OwnExecution(found[i])'
  BY <1>4, <1>6 DEF OwnExecution, IInv, AccountInv
<1> QED BY <1>1, <1>2, <1>3, <1>5, <1>7

-----------------------------------------------------------------------------
(* What an event popped by the running exchange can be.                    *)

LEMMA PopIssued ==
  ASSUME IInv, NEW e \in queue, Pop(e)
  PROVE  QueueOK' /\ PendingOK' /\ Issued' \subseteq Issued
BY PumpOK, EraseIssued DEF Pop

LEMMA OwnData ==
  ASSUME IInv, NEW e \in queue, pc = "await", e.code = "data", Own(e)
  PROVE  /\ e.from \in Request /\ e.block \in Block /\ active \in Accounts
         /\ e.from.cmd = cmd => e.from = req
<1>1. e \in Event
  BY DEF IInv, TypeOK, PumpTypeOK
<1>2. e.from \in Issued /\ e.tr = e.from.tr
  BY DEF Issued, IsConnectionEvent, IInv, QueueInv
<1>3. e.from.cmd = cmd => e.from = req
  BY <1>2 DEF Own, IInv, CurrentInv
<1> QED BY <1>1, <1>2, <1>3 DEF Event, IInv, IssuedInv, Known, ActiveInv

-----------------------------------------------------------------------------
(* Sending a request.                                                      *)

(* A request whose tr_index no request of the command has used before is   *)
(* told from all of them.                                                  *)
LEMMA SendKnown ==
  ASSUME IInv, NEW r \in Request, r.cmd = cmd, r.acct = active,
         Begin(r), Submit(r) \/ pending' = pending,
         UNCHANGED <<cmd, job, active>>, ExecTypeOK', BalanceTypeOK',
         nextExec <= nextExec', nextSplit <= nextSplit', nextBalance <= nextBalance',
         Known(r)',
         \A q \in Issued : q.cmd = cmd => q.tr # r.tr
  PROVE  QueueOK' /\ PendingOK' /\ IssuedInv' /\ CurrentInv'
<1>1. QueueOK' /\ PendingOK' /\ Issued' \subseteq Issued \cup {r}
  BY PumpOK, SendIssued
<1>2. \A q \in Issued : q \in Request /\ Known(q)
  BY DEF IInv, IssuedInv, Known
<1>3. \A q \in Issued : Known(q)'
  BY <1>2, KnownKept
<1>4. req' = r
  BY DEF Begin
<1>5. IssuedInv'
  BY <1>1, <1>2, <1>3, <1>4 DEF IssuedInv
<1>6. CurrentInv'
  BY <1>1, <1>4 DEF CurrentInv
<1> QED BY <1>1, <1>5, <1>6

-----------------------------------------------------------------------------
(* The steps.                                                              *)

LEMMA ActivateStep ==
  ASSUME IInv, Activate
  PROVE  IInv'
<1>1. TypeOK'
  BY SessionAssumption
  DEF Activate, pumpVars, execVars, counters, place, yield, balanceVars, batchVars, IInv, TypeOK,
      PumpTypeOK, ExecTypeOK, BalanceTypeOK, SessionTypeOK, SessionAssumption
<1>2. QueueInv' /\ IssuedInv'
  BY <1>1, StillPump, IssuedKept, CounterTypes
  DEF Activate, pumpVars, execVars, counters, place, yield, balanceVars, batchVars, QueueOK,
      TypeOK
<1>3. CurrentInv' /\ SplitInv' /\ ActiveInv' /\ FreshInv'
  BY SessionAssumption
  DEF Activate, pumpVars, execVars, counters, place, yield, balanceVars, batchVars, IInv,
      CurrentInv, SplitInv, ActiveInv, FreshInv, TypeOK, ExecTypeOK, SessionTypeOK,
          SessionAssumption
<1>4. AccountInv' /\ OwnAnswers'
  BY FiledKept
  DEF Activate, pumpVars, execVars, counters, place, yield, balanceVars, batchVars, IInv,
      AccountInv, FreshInv, OwnExecution
<1> QED BY <1>1, <1>2, <1>3, <1>4 DEF IInv

LEMMA RefuseAccountStep ==
  ASSUME IInv, RefuseAccount
  PROVE  IInv'
<1>1. TypeOK'
  BY SessionAssumption
  DEF RefuseAccount, pumpVars, execVars, counters, place, yield, balanceVars, IInv, TypeOK,
      PumpTypeOK, ExecTypeOK, BalanceTypeOK, SessionTypeOK, SessionAssumption
<1>2. QueueInv' /\ IssuedInv'
  BY <1>1, StillPump, IssuedKept, CounterTypes
  DEF RefuseAccount, pumpVars, execVars, counters, place, yield, balanceVars, QueueOK, TypeOK
<1>3. CurrentInv' /\ SplitInv' /\ ActiveInv' /\ FreshInv'
  BY SessionAssumption
  DEF RefuseAccount, pumpVars, execVars, counters, place, yield, balanceVars, IInv, CurrentInv,
      SplitInv, ActiveInv, FreshInv, TypeOK, ExecTypeOK, SessionTypeOK, SessionAssumption
<1>4. AccountInv' /\ OwnAnswers'
  BY FiledKept
  DEF RefuseAccount, pumpVars, execVars, counters, place, yield, balanceVars, IInv, AccountInv,
      FreshInv, OwnExecution
<1> QED BY <1>1, <1>2, <1>3, <1>4 DEF IInv

LEMMA JudgePageDoneStep ==
  ASSUME IInv, Query(JudgePageDone)
  PROVE  IInv'
<1>1. TypeOK'
  BY DEF JudgePageDone, Query, Judging, Leave, pumpVars, counters, place, yield, balanceVars,
      batchVars, IInv, TypeOK, PumpTypeOK, ExecTypeOK, BalanceTypeOK, SessionTypeOK
<1>2. QueueInv' /\ IssuedInv'
  BY <1>1, StillPump, IssuedKept, CounterTypes
  DEF JudgePageDone, Query, Judging, Leave, pumpVars, counters, place, yield, balanceVars,
      batchVars, QueueOK, TypeOK
<1>3. CurrentInv' /\ SplitInv' /\ ActiveInv' /\ FreshInv'
  BY DEF JudgePageDone, Query, Judging, Leave, pumpVars, counters, place, yield, balanceVars,
      batchVars, IInv, CurrentInv, SplitInv, ActiveInv, FreshInv, TypeOK, ExecTypeOK
<1>4. AccountInv' /\ OwnAnswers'
  BY FiledKept
  DEF JudgePageDone, Query, Judging, Leave, pumpVars, counters, place, yield, balanceVars,
      batchVars, IInv, AccountInv, FreshInv, OwnExecution
<1> QED BY <1>1, <1>2, <1>3, <1>4 DEF IInv

LEMMA JudgeRebindStep ==
  ASSUME IInv, Query(JudgeRebind)
  PROVE  IInv'
<1>1. TypeOK'
  BY DEF JudgeRebind, Query, Judging, Leave, pumpVars, counters, yield, balanceVars, batchVars,
      IInv, TypeOK, PumpTypeOK, ExecTypeOK, BalanceTypeOK, SessionTypeOK
<1>2. QueueInv' /\ IssuedInv'
  BY <1>1, StillPump, IssuedKept, CounterTypes
  DEF JudgeRebind, Query, Judging, Leave, pumpVars, counters, yield, balanceVars, batchVars,
      QueueOK, TypeOK
<1>3. CurrentInv' /\ SplitInv' /\ ActiveInv' /\ FreshInv'
  BY DEF JudgeRebind, Query, Judging, Leave, pumpVars, counters, yield, balanceVars, batchVars,
      IInv, CurrentInv, SplitInv, ActiveInv, FreshInv, TypeOK, ExecTypeOK
<1>4. AccountInv' /\ OwnAnswers'
  BY FiledKept
  DEF JudgeRebind, Query, Judging, Leave, pumpVars, counters, yield, balanceVars, batchVars,
      IInv, AccountInv, FreshInv, OwnExecution
<1> QED BY <1>1, <1>2, <1>3, <1>4 DEF IInv

LEMMA NextPageStep ==
  ASSUME IInv, Query(NextPage)
  PROVE  IInv'
<1>1. TypeOK'
  BY ExecAssumption
  DEF NextPage, Query, Judging, Leave, pumpVars, counters, yield, balanceVars, batchVars, IInv,
      TypeOK, PumpTypeOK, ExecTypeOK, BalanceTypeOK, SessionTypeOK, ExecAssumption
<1>2. QueueInv' /\ IssuedInv'
  BY <1>1, StillPump, IssuedKept, CounterTypes
  DEF NextPage, Query, Judging, Leave, pumpVars, counters, yield, balanceVars, batchVars,
      QueueOK, TypeOK
<1>3. CurrentInv' /\ SplitInv' /\ ActiveInv' /\ FreshInv'
  BY DEF NextPage, Query, Judging, Leave, pumpVars, counters, yield, balanceVars, batchVars, IInv,
      CurrentInv, SplitInv, ActiveInv, FreshInv, TypeOK, ExecTypeOK
<1>4. AccountInv' /\ OwnAnswers'
  BY FiledKept
  DEF NextPage, Query, Judging, Leave, pumpVars, counters, yield, balanceVars, batchVars, IInv,
      AccountInv, FreshInv, OwnExecution
<1> QED BY <1>1, <1>2, <1>3, <1>4 DEF IInv

LEMMA FileWholeRowStep ==
  ASSUME IInv, Query(FileWholeRow)
  PROVE  IInv'
<1>0. /\ found' \in Seq(Execution) /\ at' \in Nat \ {0} /\ details' = {}
      /\ \A i \in DOMAIN found' : OwnExecution(found[i])'
  <2>1. at \in DOMAIN rows /\ active \in Accounts
    BY DEF Query, FileWholeRow, IInv, TypeOK, ExecTypeOK, SplitInv, ActiveInv
  <2> QED BY <2>1, FileKeeps DEF Query, FileWholeRow, flowVars
<1>1. TypeOK'
  BY <1>0
  DEF FileWholeRow, Query, pumpVars, flowVars, counters, place, yield, balanceVars, batchVars,
      IInv, TypeOK, PumpTypeOK, ExecTypeOK, BalanceTypeOK, SessionTypeOK
<1>2. QueueInv' /\ IssuedInv'
  BY <1>1, StillPump, IssuedKept, CounterTypes
  DEF FileWholeRow, Query, pumpVars, flowVars, counters, place, yield, balanceVars, batchVars,
      QueueOK, TypeOK
<1>3. CurrentInv' /\ SplitInv' /\ ActiveInv' /\ FreshInv'
  BY <1>0
  DEF FileWholeRow, Query, pumpVars, flowVars, counters, place, yield, balanceVars, batchVars,
      IInv, CurrentInv, SplitInv, ActiveInv, FreshInv, TypeOK, ExecTypeOK
<1>4. AccountInv' /\ OwnAnswers'
  BY <1>0, FiledKept
  DEF FileWholeRow, Query, pumpVars, flowVars, counters, place, yield, balanceVars, batchVars,
      IInv, AccountInv, FreshInv, OwnExecution
<1> QED BY <1>1, <1>2, <1>3, <1>4 DEF IInv

LEMMA JudgeSplitStep ==
  ASSUME IInv, Query(JudgeSplit)
  PROVE  IInv'
<1>0. /\ found' \in Seq(Execution) /\ at' \in Nat \ {0} /\ details' = {}
      /\ \A i \in DOMAIN found' : OwnExecution(found[i])'
  <2> DEFINE ds == IF outcome = "ok" THEN details ELSE {}
  <2>1. at \in DOMAIN rows /\ active \in Accounts /\ ds \in SUBSET Request
    BY DEF Query, JudgeSplit, Judging, IInv, TypeOK, ExecTypeOK, SplitInv, ActiveInv
  <2>2. \A d \in ds : d.cmd = cmd =>
           /\ d.kind = "s8118" /\ d.acct = active
           /\ d.page = rows[at].from.page /\ d.item = rows[at].n
    BY DEF Query, JudgeSplit, Judging, IInv, SplitInv
  <2>3. File(ds) /\ UNCHANGED <<cmd, active>>
    BY DEF Query, JudgeSplit, Leave
  <2> HIDE DEF ds
  <2> QED BY <2>1, <2>2, <2>3, FileKeeps
<1>1. TypeOK'
  BY <1>0
  DEF JudgeSplit, Query, Judging, Leave, pumpVars, counters, place, yield, balanceVars,
      batchVars, IInv, TypeOK, PumpTypeOK, ExecTypeOK, BalanceTypeOK, SessionTypeOK
<1>2. QueueInv' /\ IssuedInv'
  BY <1>1, StillPump, IssuedKept, CounterTypes
  DEF JudgeSplit, Query, Judging, Leave, pumpVars, counters, place, yield, balanceVars,
      batchVars, QueueOK, TypeOK
<1>3. CurrentInv' /\ SplitInv' /\ ActiveInv' /\ FreshInv'
  BY <1>0
  DEF JudgeSplit, Query, Judging, Leave, pumpVars, counters, place, yield, balanceVars,
      batchVars, IInv, CurrentInv, SplitInv, ActiveInv, FreshInv, TypeOK, ExecTypeOK
<1>4. AccountInv' /\ OwnAnswers'
  BY <1>0, FiledKept
  DEF JudgeSplit, Query, Judging, Leave, pumpVars, counters, place, yield, balanceVars,
      batchVars, IInv, AccountInv, FreshInv, OwnExecution
<1> QED BY <1>1, <1>2, <1>3, <1>4 DEF IInv

LEMMA JudgeRetryStep ==
  ASSUME IInv, Query(JudgeRetry)
  PROVE  IInv'
<1>0. attempt' \in 1..MaxAttempts
  <2>1. attempt \in 1..MaxAttempts /\ MaxAttempts \in Nat
    BY ExecAssumption DEF IInv, TypeOK, ExecTypeOK, ExecAssumption
  <2>2. attempt < MaxAttempts /\ attempt' = attempt + 1
    BY DEF Query, JudgeRetry, IsRetryable
  <2> QED BY <2>1, <2>2
<1>1. TypeOK'
  BY <1>0
  DEF JudgeRetry, Query, Judging, Leave, IsRetryable, pumpVars, counters, yield, balanceVars,
      batchVars, IInv, TypeOK, PumpTypeOK, ExecTypeOK, BalanceTypeOK, SessionTypeOK
<1>2. QueueInv' /\ IssuedInv'
  BY <1>1, StillPump, IssuedKept, CounterTypes
  DEF JudgeRetry, Query, Judging, Leave, IsRetryable, pumpVars, counters, yield, balanceVars,
      batchVars, QueueOK, TypeOK
<1>3. CurrentInv' /\ SplitInv' /\ ActiveInv' /\ FreshInv'
  BY <1>0
  DEF JudgeRetry, Query, Judging, Leave, IsRetryable, pumpVars, counters, yield, balanceVars,
      batchVars, IInv, CurrentInv, SplitInv, ActiveInv, FreshInv, TypeOK, ExecTypeOK
<1>4. AccountInv' /\ OwnAnswers'
  BY <1>0, FiledKept
  DEF JudgeRetry, Query, Judging, Leave, IsRetryable, pumpVars, counters, yield, balanceVars,
      batchVars, IInv, AccountInv, FreshInv, OwnExecution
<1> QED BY <1>1, <1>2, <1>3, <1>4 DEF IInv

LEMMA TimeOutStep ==
  ASSUME IInv, Exchange(TimeOut)
  PROVE  IInv'
<1>1. TypeOK'
  BY DEF TimeOut, Exchange, GiveUp, pumpVars, execVars, counters, place, yield, balanceVars,
      batchVars, IInv, TypeOK, PumpTypeOK, ExecTypeOK, BalanceTypeOK, SessionTypeOK
<1>2. QueueInv' /\ IssuedInv'
  BY <1>1, StillPump, IssuedKept, CounterTypes
  DEF TimeOut, Exchange, GiveUp, pumpVars, execVars, counters, place, yield, balanceVars,
      batchVars, QueueOK, TypeOK
<1>3. CurrentInv'
  BY StillPump DEF TimeOut, Exchange, pumpVars, GiveUp, IInv, CurrentInv, Known, execVars,
      counters, place, yield, balanceVars, batchVars
<1>4. SplitInv' /\ ActiveInv' /\ FreshInv'
  BY DEF TimeOut, Exchange, GiveUp, pumpVars, execVars, counters, place, yield, balanceVars,
      batchVars, IInv, SplitInv, ActiveInv, FreshInv, TypeOK, ExecTypeOK
<1>5. AccountInv' /\ OwnAnswers'
  BY FiledKept
  DEF TimeOut, Exchange, GiveUp, pumpVars, execVars, counters, place, yield, balanceVars,
      batchVars, IInv, AccountInv, FreshInv, OwnExecution
<1> QED BY <1>1, <1>2, <1>3, <1>4, <1>5 DEF IInv

LEMMA SendExecStep ==
  ASSUME IInv, Query(SendExec)
  PROVE  IInv'
<1> PICK r : r = [cmd |-> cmd, kind |-> "s8180", acct |-> active, page |-> page,
                 item |-> 0, tr |-> nextExec]
  OBVIOUS
<1>1. /\ r \in Request /\ r.cmd = cmd /\ r.acct = active /\ r.kind = "s8180" /\ r.tr = nextExec
      /\ Begin(r) /\ (Submit(r) \/ pending' = pending)
      /\ nextExec' = nextExec + 1
      /\ pc' \in {"await", "judge"} /\ outcome' \in {"none", "nohash"}
  <2>1. active \in Accounts /\ cmd \in Nat
    BY DEF Query, SendExec, IInv, ActiveInv, TypeOK, PumpTypeOK
  <2>2. page \in Nat
    BY DEF IInv, TypeOK, ExecTypeOK
  <2>3. r \in Request
    BY <2>1, <2>2, CounterTypes DEF Request, Kinds
  <2> QED BY <2>3 DEF Query, SendExec
<1>2. queue' \subseteq Event /\ pending' \subseteq [req: Request,
    sent: SUBSET Block] /\ link' \in BOOLEAN
  BY <1>1, PumpOK, SendIssued DEF QueueOK, PendingOK, Begin, IInv, TypeOK, PumpTypeOK
<1>3. PumpTypeOK'
  BY <1>1, <1>2 DEF Begin, IInv, TypeOK, PumpTypeOK
<1>4. ExecTypeOK' /\ BalanceTypeOK' /\ SessionTypeOK'
  BY <1>1, CounterTypes, ExecAssumption, BalanceAssumption
  DEF Query, SendExec, IInv, TypeOK, ExecTypeOK, BalanceTypeOK, SessionTypeOK, place,
      balanceVars, batchVars, ExecAssumption, BalanceAssumption
<1>5. QueueOK' /\ IssuedInv' /\ CurrentInv'
  <2>1. \A q \in Issued : q.cmd = cmd => q.tr # r.tr
    BY <1>1, CounterTypes DEF Query, SendExec, IInv, IssuedInv, Known, Request
  <2>2. UNCHANGED <<cmd, job, active>>
    BY <1>1 DEF Query, Begin
  <2>3. nextExec <= nextExec' /\ nextSplit <= nextSplit' /\ nextBalance <= nextBalance'
    BY <1>1, CounterTypes DEF Query, SendExec, counters, balanceVars, execVars
  <2>4. Known(r)'
    BY <1>1, <2>2, CounterTypes DEF Query, SendExec, Known, IInv, TypeOK, PumpTypeOK
  <2> QED BY <1>1, <1>4, <2>1, <2>2, <2>3, <2>4, SendKnown
<1>6. SplitInv'
  BY <1>1 DEF Query, SendExec, Begin, IInv, SplitInv, TypeOK, ExecTypeOK, place, balanceVars,
      batchVars
<1>7. AccountInv' /\ ActiveInv' /\ FreshInv' /\ OwnAnswers'
  BY <1>1, FiledKept DEF Query, SendExec, Begin, IInv, AccountInv, ActiveInv, FreshInv,
      OwnExecution, place, balanceVars, batchVars
<1> QED BY <1>3, <1>4, <1>5, <1>6, <1>7 DEF IInv, TypeOK, QueueOK

LEMMA SendSplitStep ==
  ASSUME IInv, Query(SendSplit)
  PROVE  IInv'
<1> PICK r : r = [cmd |-> cmd, kind |-> "s8118", acct |-> active,
                 page |-> rows[at].from.page, item |-> rows[at].n, tr |-> nextSplit]
  OBVIOUS
<1>1. /\ r \in Request /\ r.cmd = cmd /\ r.acct = active /\ r.kind = "s8118" /\ r.tr = nextSplit
      /\ Begin(r) /\ (Submit(r) \/ pending' = pending)
      /\ nextSplit' = nextSplit + 1
      /\ pc' \in {"await", "judge"} /\ outcome' \in {"none", "nohash"}
  <2>1. active \in Accounts /\ cmd \in Nat
    BY DEF Query, SendSplit, IInv, ActiveInv, TypeOK, PumpTypeOK
  <2>2. at \in DOMAIN rows /\ rows[at].from.page \in Nat /\ rows[at].n \in Nat
    <3>1. at \in 1..Len(rows) /\ rows \in Seq(Row)
      BY DEF Query, SendSplit, IInv, TypeOK, ExecTypeOK, SplitInv
    <3>2. rows[at] \in Row
      BY <3>1
    <3> QED BY <3>1, <3>2 DEF Row, Request
  <2>3. r \in Request
    BY <2>1, <2>2, CounterTypes DEF Request, Kinds
  <2> QED BY <2>3 DEF Query, SendSplit
<1>2. queue' \subseteq Event /\ pending' \subseteq [req: Request,
    sent: SUBSET Block] /\ link' \in BOOLEAN
  BY <1>1, PumpOK, SendIssued DEF QueueOK, PendingOK, Begin, IInv, TypeOK, PumpTypeOK
<1>3. PumpTypeOK'
  BY <1>1, <1>2 DEF Begin, IInv, TypeOK, PumpTypeOK
<1>4. ExecTypeOK' /\ BalanceTypeOK' /\ SessionTypeOK'
  BY <1>1, CounterTypes, ExecAssumption, BalanceAssumption
  DEF Query, SendSplit, IInv, TypeOK, ExecTypeOK, BalanceTypeOK, SessionTypeOK, place, yield,
      balanceVars, batchVars, ExecAssumption, BalanceAssumption
<1>5. QueueOK' /\ IssuedInv' /\ CurrentInv'
  <2>1. \A q \in Issued : q.cmd = cmd => q.tr # r.tr
    BY <1>1, CounterTypes DEF Query, SendSplit, IInv, IssuedInv, Known, Request
  <2>2. UNCHANGED <<cmd, job, active>>
    BY <1>1 DEF Query, Begin
  <2>3. nextExec <= nextExec' /\ nextSplit <= nextSplit' /\ nextBalance <= nextBalance'
    BY <1>1, CounterTypes DEF Query, SendSplit, counters, balanceVars, execVars
  <2>4. Known(r)'
    BY <1>1, <2>2, CounterTypes DEF Query, SendSplit, Known, IInv, TypeOK, PumpTypeOK
  <2> QED BY <1>1, <1>4, <2>1, <2>2, <2>3, <2>4, SendKnown
<1>6. SplitInv'
  BY <1>1 DEF Query, SendSplit, Begin, IInv, SplitInv, TypeOK, ExecTypeOK, place, yield,
      balanceVars, batchVars
<1>7. AccountInv' /\ ActiveInv' /\ FreshInv' /\ OwnAnswers'
  BY <1>1, FiledKept DEF Query, SendSplit, Begin, IInv, AccountInv, ActiveInv, FreshInv,
      OwnExecution, place, yield, balanceVars, batchVars
<1> QED BY <1>3, <1>4, <1>5, <1>6, <1>7 DEF IInv, TypeOK, QueueOK

LEMMA SendBalanceStep ==
  ASSUME IInv, AskBalance(SendBalance)
  PROVE  IInv'
<1> PICK r : r = [cmd |-> cmd, kind |-> "c8201", acct |-> active, page |-> 0,
                 item |-> 0, tr |-> nextBalance]
  OBVIOUS
<1>1. /\ r \in Request /\ r.cmd = cmd /\ r.acct = active /\ r.kind = "c8201" /\ r.tr = nextBalance
      /\ Begin(r) /\ (Submit(r) \/ pending' = pending)
      /\ nextBalance' = nextBalance + 1
      /\ pc' \in {"await", "judge"} /\ outcome' \in {"none", "nohash"}
  <2>1. active \in Accounts /\ cmd \in Nat
    BY DEF AskBalance, SendBalance, IInv, ActiveInv, TypeOK, PumpTypeOK
  <2>2. 0 \in Nat
    OBVIOUS
  <2>3. r \in Request
    BY <2>1, <2>2, CounterTypes DEF Request, Kinds
  <2> QED BY <2>3 DEF AskBalance, SendBalance
<1>2. queue' \subseteq Event /\ pending' \subseteq [req: Request,
    sent: SUBSET Block] /\ link' \in BOOLEAN
  BY <1>1, PumpOK, SendIssued DEF QueueOK, PendingOK, Begin, IInv, TypeOK, PumpTypeOK
<1>3. PumpTypeOK'
  BY <1>1, <1>2 DEF Begin, IInv, TypeOK, PumpTypeOK
<1>4. ExecTypeOK' /\ BalanceTypeOK' /\ SessionTypeOK'
  BY <1>1, CounterTypes, ExecAssumption, BalanceAssumption
  DEF AskBalance, SendBalance, IInv, TypeOK, ExecTypeOK, BalanceTypeOK, SessionTypeOK, execVars,
      counters, place, yield, batchVars, ExecAssumption, BalanceAssumption
<1>5. QueueOK' /\ IssuedInv' /\ CurrentInv'
  <2>1. \A q \in Issued : q.cmd = cmd => q.tr # r.tr
    BY <1>1, CounterTypes DEF AskBalance, SendBalance, IInv, IssuedInv, Known, Request
  <2>2. UNCHANGED <<cmd, job, active>>
    BY <1>1 DEF AskBalance, Begin
  <2>3. nextExec <= nextExec' /\ nextSplit <= nextSplit' /\ nextBalance <= nextBalance'
    BY <1>1, CounterTypes DEF AskBalance, SendBalance, counters, balanceVars, execVars
  <2>4. Known(r)'
    BY <1>1, <2>2, CounterTypes DEF AskBalance, SendBalance, Known, IInv, TypeOK, PumpTypeOK
  <2> QED BY <1>1, <1>4, <2>1, <2>2, <2>3, <2>4, SendKnown
<1>6. SplitInv'
  BY <1>1 DEF AskBalance, SendBalance, Begin, IInv, SplitInv, TypeOK, ExecTypeOK, execVars,
      counters, place, yield, batchVars
<1>7. AccountInv' /\ ActiveInv' /\ FreshInv' /\ OwnAnswers'
  BY <1>1, FiledKept DEF AskBalance, SendBalance, Begin, IInv, AccountInv, ActiveInv, FreshInv,
      OwnExecution, execVars, counters, place, yield, batchVars
<1> QED BY <1>3, <1>4, <1>5, <1>6, <1>7 DEF IInv, TypeOK, QueueOK

LEMMA ReceiveErrorStep ==
  ASSUME IInv, NEW e \in queue, Exchange(ReceiveError(e))
  PROVE  IInv'
<1>1. TypeOK'
  <2>1. queue' \subseteq Event /\ pending' \subseteq [req: Request,
      sent: SUBSET Block] /\ link' \in BOOLEAN
    BY PopIssued DEF ReceiveError, Exchange, GiveUp, Pop, QueueOK, PendingOK, IInv, TypeOK,
        PumpTypeOK
  <2>2. PumpTypeOK'
    BY <2>1 DEF ReceiveError, Exchange, GiveUp, IInv, TypeOK, PumpTypeOK, execVars, counters,
        place, yield, balanceVars, batchVars
  <2>3. ExecTypeOK' /\ BalanceTypeOK' /\ SessionTypeOK'
    BY SessionAssumption
    DEF ReceiveError, Exchange, GiveUp, IInv, TypeOK, ExecTypeOK, BalanceTypeOK, SessionTypeOK,
        execVars, counters, place, yield, balanceVars, batchVars
  <2> QED BY <2>2, <2>3 DEF TypeOK
<1>2. QueueInv' /\ IssuedInv'
  BY <1>1, PopIssued, IssuedKept, CounterTypes
  DEF ReceiveError, Pop, Exchange, GiveUp, execVars, counters, place, yield, balanceVars,
      batchVars, QueueOK, TypeOK
<1>3. CurrentInv'
  BY <1>2, PopIssued, IssuedKept DEF ReceiveError, Exchange, GiveUp, Pop, IInv, CurrentInv,
      IssuedInv, Known, execVars, counters, place, yield, balanceVars, batchVars
<1>4. SplitInv' /\ ActiveInv' /\ FreshInv'
  BY DEF ReceiveError, Pop, Exchange, GiveUp, execVars, counters, place, yield, balanceVars,
      batchVars, IInv, SplitInv, ActiveInv, FreshInv, TypeOK, ExecTypeOK
<1>5. AccountInv' /\ OwnAnswers'
  BY FiledKept
  DEF ReceiveError, Pop, Exchange, GiveUp, execVars, counters, place, yield, balanceVars,
      batchVars, IInv, AccountInv, FreshInv, OwnExecution
<1> QED BY <1>1, <1>2, <1>3, <1>4, <1>5 DEF IInv

LEMMA IgnoreEventStep ==
  ASSUME IInv, NEW e \in queue, Exchange(IgnoreEvent(e))
  PROVE  IInv'
<1>1. TypeOK'
  <2>1. queue' \subseteq Event /\ pending' \subseteq [req: Request,
      sent: SUBSET Block] /\ link' \in BOOLEAN
    BY PopIssued DEF IgnoreEvent, Exchange, Pop, QueueOK, PendingOK, IInv, TypeOK, PumpTypeOK
  <2>2. PumpTypeOK'
    BY <2>1 DEF IgnoreEvent, Exchange, IInv, TypeOK, PumpTypeOK, flowVars, execVars, counters,
        place, yield, balanceVars, batchVars
  <2>3. ExecTypeOK' /\ BalanceTypeOK' /\ SessionTypeOK'
    BY SessionAssumption
    DEF IgnoreEvent, Exchange, IInv, TypeOK, ExecTypeOK, BalanceTypeOK, SessionTypeOK, flowVars,
        execVars, counters, place, yield, balanceVars, batchVars
  <2> QED BY <2>2, <2>3 DEF TypeOK
<1>2. QueueInv' /\ IssuedInv'
  BY <1>1, PopIssued, IssuedKept, CounterTypes
  DEF IgnoreEvent, Pop, Exchange, flowVars, execVars, counters, place, yield, balanceVars,
      batchVars, QueueOK, TypeOK
<1>3. CurrentInv'
  BY <1>2, PopIssued, IssuedKept DEF IgnoreEvent, Exchange, Pop, IInv, CurrentInv, IssuedInv,
      Known, flowVars, execVars, counters, place, yield, balanceVars, batchVars
<1>4. SplitInv' /\ ActiveInv' /\ FreshInv'
  BY DEF IgnoreEvent, Pop, Exchange, flowVars, execVars, counters, place, yield, balanceVars,
      batchVars, IInv, SplitInv, ActiveInv, FreshInv, TypeOK, ExecTypeOK
<1>5. AccountInv' /\ OwnAnswers'
  BY FiledKept
  DEF IgnoreEvent, Pop, Exchange, flowVars, execVars, counters, place, yield, balanceVars,
      batchVars, IInv, AccountInv, FreshInv, OwnExecution
<1> QED BY <1>1, <1>2, <1>3, <1>4, <1>5 DEF IInv

LEMMA ExecDataStep ==
  ASSUME IInv, NEW e \in queue, Query(ExecData(e))
  PROVE  IInv'
<1>0. /\ rows' \in Seq(Row) /\ cts' \in Nat
      /\ \A i \in DOMAIN rows' : rows'[i].from.cmd = cmd =>
            rows'[i].from.kind = "s8180" /\ rows'[i].from.acct = active
  <2> DEFINE x == [from |-> e.from, n |-> e.block.n]
  <2>1. rows \in Seq(Row) /\ cts \in Nat
    BY DEF IInv, TypeOK, ExecTypeOK
  <2>2. /\ e.from \in Request /\ e.block \in Block
        /\ e.from.cmd = cmd => e.from.kind = "s8180" /\ e.from.acct = active
    BY OwnData DEF Query, ExecData, Awaiting, IInv, CurrentInv
  <2>3. x \in Row /\ x.from = e.from /\ NextCts(e.from) \in Nat
    BY <2>2, ExecAssumption DEF Row, Block, NextCts, Request, ExecAssumption
  <2>4. (rows' = Append(rows, x) /\ cts' = cts) \/ (rows' = rows /\ cts' = NextCts(e.from))
    BY DEF Query, ExecData
  <2> HIDE DEF x
  <2>5. rows' \in Seq(Row) /\ cts' \in Nat
    BY <2>1, <2>3, <2>4
  <2>6. \A i \in DOMAIN rows' : rows'[i] = x \/ (i \in DOMAIN rows /\ rows'[i] = rows[i])
    <3>1. CASE rows' = Append(rows, x)
      BY <2>1, <2>3, <3>1
    <3>2. CASE rows' = rows
      BY <3>2
    <3> QED  BY <2>4, <3>1, <3>2
  <2> QED BY <2>2, <2>3, <2>5, <2>6 DEF IInv, AccountInv
<1>1. TypeOK'
  <2>1. queue' \subseteq Event /\ pending' \subseteq [req: Request,
      sent: SUBSET Block] /\ link' \in BOOLEAN
    BY PopIssued DEF ExecData, Query, Awaiting, Pop, QueueOK, PendingOK, IInv, TypeOK, PumpTypeOK
  <2>2. PumpTypeOK'
    BY <2>1 DEF ExecData, Query, Awaiting, IInv, TypeOK, PumpTypeOK, flowVars, counters, place,
        balanceVars, batchVars
  <2>3. ExecTypeOK' /\ BalanceTypeOK' /\ SessionTypeOK'
    BY <1>0, SessionAssumption
    DEF ExecData, Query, Awaiting, IInv, TypeOK, ExecTypeOK, BalanceTypeOK, SessionTypeOK,
        flowVars, counters, place, balanceVars, batchVars
  <2> QED BY <2>2, <2>3 DEF TypeOK
<1>2. QueueInv' /\ IssuedInv'
  <2>1. UNCHANGED <<cmd, job, nextExec, nextSplit, nextBalance>> /\ Pop(e)
    BY DEF Query, ExecData, flowVars, counters, balanceVars
  <2> QED BY <1>1, <2>1, PopIssued, IssuedKept, ExecAssumption, BalanceAssumption
          DEF QueueOK, TypeOK, IInv, ExecTypeOK, BalanceTypeOK, ExecAssumption, BalanceAssumption
<1>3. CurrentInv'
  BY <1>2, PopIssued, IssuedKept DEF ExecData, Query, Awaiting, Pop, IInv, CurrentInv, IssuedInv,
      Known, flowVars, counters, place, balanceVars, batchVars
<1>4. SplitInv' /\ ActiveInv' /\ FreshInv'
  BY <1>0
  DEF ExecData, Pop, Query, Awaiting, flowVars, counters, place, balanceVars, batchVars, IInv,
      SplitInv, ActiveInv, FreshInv, TypeOK, ExecTypeOK
<1>5. AccountInv' /\ OwnAnswers'
  BY <1>0, FiledKept
  DEF ExecData, Pop, Query, Awaiting, flowVars, counters, place, balanceVars, batchVars, IInv,
      AccountInv, FreshInv, OwnExecution
<1> QED BY <1>1, <1>2, <1>3, <1>4, <1>5 DEF IInv

LEMMA ExecMessageStep ==
  ASSUME IInv, NEW e \in queue, Query(ExecMessage(e))
  PROVE  IInv'
<1>1. TypeOK'
  <2>1. queue' \subseteq Event /\ pending' \subseteq [req: Request,
      sent: SUBSET Block] /\ link' \in BOOLEAN
    BY PopIssued DEF ExecMessage, Query, Awaiting, GiveUp, Pop, QueueOK, PendingOK, IInv, TypeOK,
        PumpTypeOK
  <2>2. PumpTypeOK'
    BY <2>1 DEF ExecMessage, Query, Awaiting, GiveUp, IInv, TypeOK, PumpTypeOK, execVars,
        counters, place, yield, balanceVars, batchVars, Event
  <2>3. ExecTypeOK' /\ BalanceTypeOK' /\ SessionTypeOK'
    BY SessionAssumption
    DEF ExecMessage, Query, Awaiting, GiveUp, IInv, TypeOK, ExecTypeOK, BalanceTypeOK,
        SessionTypeOK, execVars, counters, place, yield, balanceVars, batchVars
  <2> QED BY <2>2, <2>3 DEF TypeOK
<1>2. QueueInv' /\ IssuedInv'
  BY <1>1, PopIssued, IssuedKept, CounterTypes
  DEF ExecMessage, Pop, Query, Awaiting, GiveUp, execVars, counters, place, yield, balanceVars,
      batchVars, QueueOK, TypeOK
<1>3. CurrentInv'
  BY <1>2, PopIssued, IssuedKept DEF ExecMessage, Query, Awaiting, GiveUp, Pop, IInv, CurrentInv,
      IssuedInv, Known, execVars, counters, place, yield, balanceVars, batchVars
<1>4. SplitInv' /\ ActiveInv' /\ FreshInv'
  BY DEF ExecMessage, Pop, Query, Awaiting, GiveUp, execVars, counters, place, yield, balanceVars,
      batchVars, IInv, SplitInv, ActiveInv, FreshInv, TypeOK, ExecTypeOK
<1>5. AccountInv' /\ OwnAnswers'
  BY FiledKept
  DEF ExecMessage, Pop, Query, Awaiting, GiveUp, execVars, counters, place, yield, balanceVars,
      batchVars, IInv, AccountInv, FreshInv, OwnExecution
<1> QED BY <1>1, <1>2, <1>3, <1>4, <1>5 DEF IInv

LEMMA ExecCompleteStep ==
  ASSUME IInv, NEW e \in queue, Query(ExecComplete(e))
  PROVE  IInv'
<1>1. TypeOK'
  <2>1. queue' \subseteq Event /\ pending' \subseteq [req: Request,
      sent: SUBSET Block] /\ link' \in BOOLEAN
    BY PopIssued DEF ExecComplete, Query, Awaiting, Conclude, Pop, QueueOK, PendingOK, IInv,
        TypeOK, PumpTypeOK
  <2>2. PumpTypeOK'
    BY <2>1 DEF ExecComplete, Query, Awaiting, Conclude, IInv, TypeOK, PumpTypeOK, execVars,
        counters, place, yield, balanceVars, batchVars
  <2>3. ExecTypeOK' /\ BalanceTypeOK' /\ SessionTypeOK'
    BY SessionAssumption
    DEF ExecComplete, Query, Awaiting, Conclude, IInv, TypeOK, ExecTypeOK, BalanceTypeOK,
        SessionTypeOK, execVars, counters, place, yield, balanceVars, batchVars
  <2> QED BY <2>2, <2>3 DEF TypeOK
<1>2. QueueInv' /\ IssuedInv'
  BY <1>1, PopIssued, IssuedKept, CounterTypes
  DEF ExecComplete, Pop, Query, Awaiting, Conclude, execVars, counters, place, yield,
      balanceVars, batchVars, QueueOK, TypeOK
<1>3. CurrentInv'
  BY <1>2, PopIssued, IssuedKept DEF ExecComplete, Query, Awaiting, Conclude, Pop, IInv,
      CurrentInv, IssuedInv, Known, execVars, counters, place, yield, balanceVars, batchVars
<1>4. SplitInv' /\ ActiveInv' /\ FreshInv'
  BY DEF ExecComplete, Pop, Query, Awaiting, Conclude, execVars, counters, place, yield,
      balanceVars, batchVars, IInv, SplitInv, ActiveInv, FreshInv, TypeOK, ExecTypeOK
<1>5. AccountInv' /\ OwnAnswers'
  BY FiledKept
  DEF ExecComplete, Pop, Query, Awaiting, Conclude, execVars, counters, place, yield,
      balanceVars, batchVars, IInv, AccountInv, FreshInv, OwnExecution
<1> QED BY <1>1, <1>2, <1>3, <1>4, <1>5 DEF IInv

LEMMA SplitDataStep ==
  ASSUME IInv, NEW e \in queue, Query(SplitData(e))
  PROVE  IInv'
<1>0. /\ details' \subseteq Request
      /\ \A d \in details' : d.cmd = cmd =>
            d.kind = "s8118" /\ d.acct = active /\ d.page = req.page /\ d.item = req.item
  <2>1. /\ e.from \in Request
        /\ e.from.cmd = cmd => e.from = req
        /\ req.kind = "s8118" /\ req.acct = active
    BY OwnData DEF Query, SplitData, Awaiting, IInv, CurrentInv
  <2> QED BY <2>1 DEF Query, SplitData, Awaiting, IInv, SplitInv, TypeOK, ExecTypeOK
<1>1. TypeOK'
  <2>1. queue' \subseteq Event /\ pending' \subseteq [req: Request,
      sent: SUBSET Block] /\ link' \in BOOLEAN
    BY PopIssued DEF SplitData, Query, Awaiting, Pop, QueueOK, PendingOK, IInv, TypeOK, PumpTypeOK
  <2>2. PumpTypeOK'
    BY <2>1 DEF SplitData, Query, Awaiting, IInv, TypeOK, PumpTypeOK, flowVars, counters, place,
        yield, balanceVars, batchVars
  <2>3. ExecTypeOK' /\ BalanceTypeOK' /\ SessionTypeOK'
    BY <1>0, SessionAssumption
    DEF SplitData, Query, Awaiting, IInv, TypeOK, ExecTypeOK, BalanceTypeOK, SessionTypeOK,
        flowVars, counters, place, yield, balanceVars, batchVars
  <2> QED BY <2>2, <2>3 DEF TypeOK
<1>2. QueueInv' /\ IssuedInv'
  BY <1>1, PopIssued, IssuedKept, CounterTypes
  DEF SplitData, Pop, Query, Awaiting, flowVars, counters, place, yield, balanceVars, batchVars,
      QueueOK, TypeOK
<1>3. CurrentInv'
  BY <1>2, PopIssued, IssuedKept DEF SplitData, Query, Awaiting, Pop, IInv, CurrentInv,
      IssuedInv, Known, flowVars, counters, place, yield, balanceVars, batchVars
<1>4. SplitInv' /\ ActiveInv' /\ FreshInv'
  BY <1>0
  DEF SplitData, Pop, Query, Awaiting, flowVars, counters, place, yield, balanceVars, batchVars,
      IInv, SplitInv, ActiveInv, FreshInv, TypeOK, ExecTypeOK
<1>5. AccountInv' /\ OwnAnswers'
  BY <1>0, FiledKept
  DEF SplitData, Pop, Query, Awaiting, flowVars, counters, place, yield, balanceVars, batchVars,
      IInv, AccountInv, FreshInv, OwnExecution
<1> QED BY <1>1, <1>2, <1>3, <1>4, <1>5 DEF IInv

LEMMA SplitMessageStep ==
  ASSUME IInv, NEW e \in queue, Query(SplitMessage(e))
  PROVE  IInv'
<1>1. TypeOK'
  <2>1. queue' \subseteq Event /\ pending' \subseteq [req: Request,
      sent: SUBSET Block] /\ link' \in BOOLEAN
    BY PopIssued DEF SplitMessage, Query, Awaiting, Pop, QueueOK, PendingOK, IInv, TypeOK,
        PumpTypeOK
  <2>2. PumpTypeOK'
    BY <2>1 DEF SplitMessage, Query, Awaiting, IInv, TypeOK, PumpTypeOK, flowVars, execVars,
        counters, place, yield, balanceVars, batchVars
  <2>3. ExecTypeOK' /\ BalanceTypeOK' /\ SessionTypeOK'
    BY SessionAssumption
    DEF SplitMessage, Query, Awaiting, IInv, TypeOK, ExecTypeOK, BalanceTypeOK, SessionTypeOK,
        flowVars, execVars, counters, place, yield, balanceVars, batchVars
  <2> QED BY <2>2, <2>3 DEF TypeOK
<1>2. QueueInv' /\ IssuedInv'
  BY <1>1, PopIssued, IssuedKept, CounterTypes
  DEF SplitMessage, Pop, Query, Awaiting, flowVars, execVars, counters, place, yield,
      balanceVars, batchVars, QueueOK, TypeOK
<1>3. CurrentInv'
  BY <1>2, PopIssued, IssuedKept DEF SplitMessage, Query, Awaiting, Pop, IInv, CurrentInv,
      IssuedInv, Known, flowVars, execVars, counters, place, yield, balanceVars, batchVars
<1>4. SplitInv' /\ ActiveInv' /\ FreshInv'
  BY DEF SplitMessage, Pop, Query, Awaiting, flowVars, execVars, counters, place, yield,
      balanceVars, batchVars, IInv, SplitInv, ActiveInv, FreshInv, TypeOK, ExecTypeOK
<1>5. AccountInv' /\ OwnAnswers'
  BY FiledKept
  DEF SplitMessage, Pop, Query, Awaiting, flowVars, execVars, counters, place, yield,
      balanceVars, batchVars, IInv, AccountInv, FreshInv, OwnExecution
<1> QED BY <1>1, <1>2, <1>3, <1>4, <1>5 DEF IInv

LEMMA SplitCompleteStep ==
  ASSUME IInv, NEW e \in queue, Query(SplitComplete(e))
  PROVE  IInv'
<1>1. TypeOK'
  <2>1. queue' \subseteq Event /\ pending' \subseteq [req: Request,
      sent: SUBSET Block] /\ link' \in BOOLEAN
    BY PopIssued DEF SplitComplete, Query, Awaiting, Conclude, Pop, QueueOK, PendingOK, IInv,
        TypeOK, PumpTypeOK
  <2>2. PumpTypeOK'
    BY <2>1 DEF SplitComplete, Query, Awaiting, Conclude, IInv, TypeOK, PumpTypeOK, execVars,
        counters, place, yield, balanceVars, batchVars
  <2>3. ExecTypeOK' /\ BalanceTypeOK' /\ SessionTypeOK'
    BY SessionAssumption
    DEF SplitComplete, Query, Awaiting, Conclude, IInv, TypeOK, ExecTypeOK, BalanceTypeOK,
        SessionTypeOK, execVars, counters, place, yield, balanceVars, batchVars
  <2> QED BY <2>2, <2>3 DEF TypeOK
<1>2. QueueInv' /\ IssuedInv'
  BY <1>1, PopIssued, IssuedKept, CounterTypes
  DEF SplitComplete, Pop, Query, Awaiting, Conclude, execVars, counters, place, yield,
      balanceVars, batchVars, QueueOK, TypeOK
<1>3. CurrentInv'
  BY <1>2, PopIssued, IssuedKept DEF SplitComplete, Query, Awaiting, Conclude, Pop, IInv,
      CurrentInv, IssuedInv, Known, execVars, counters, place, yield, balanceVars, batchVars
<1>4. SplitInv' /\ ActiveInv' /\ FreshInv'
  BY DEF SplitComplete, Pop, Query, Awaiting, Conclude, execVars, counters, place, yield,
      balanceVars, batchVars, IInv, SplitInv, ActiveInv, FreshInv, TypeOK, ExecTypeOK
<1>5. AccountInv' /\ OwnAnswers'
  BY FiledKept
  DEF SplitComplete, Pop, Query, Awaiting, Conclude, execVars, counters, place, yield,
      balanceVars, batchVars, IInv, AccountInv, FreshInv, OwnExecution
<1> QED BY <1>1, <1>2, <1>3, <1>4, <1>5 DEF IInv

LEMMA BalanceDataStep ==
  ASSUME IInv, NEW e \in queue, AskBalance(BalanceData(e))
  PROVE  IInv'
<1>0. /\ positions' \in Seq(Request) /\ summary' \in Request \cup {NoRequest}
      /\ \A i \in DOMAIN positions' : positions'[i].cmd = cmd =>
            positions'[i].kind = "c8201" /\ positions'[i].acct = active
      /\ summary' # NoRequest /\ summary'.cmd = cmd => summary'.kind = "c8201" /\ summary'.acct = active
  <2>1. positions \in Seq(Request) /\ summary \in Request \cup {NoRequest}
    BY DEF IInv, TypeOK, BalanceTypeOK
  <2>2. /\ e.from \in Request
        /\ e.from.cmd = cmd => e.from.kind = "c8201" /\ e.from.acct = active
    BY OwnData DEF AskBalance, BalanceData, Awaiting, IInv, CurrentInv
  <2>3. \/ positions' = Append(positions, e.from) /\ summary' = summary
        \/ positions' = positions /\ summary' = e.from
    BY DEF AskBalance, BalanceData
  <2>4. \A i \in DOMAIN positions' :
           positions'[i] = e.from \/ (i \in DOMAIN positions /\ positions'[i] = positions[i])
    BY <2>1, <2>2, <2>3
  <2> QED BY <2>1, <2>2, <2>3, <2>4 DEF IInv, AccountInv
<1>1. TypeOK'
  <2>1. queue' \subseteq Event /\ pending' \subseteq [req: Request,
      sent: SUBSET Block] /\ link' \in BOOLEAN
    BY PopIssued DEF BalanceData, AskBalance, Awaiting, Pop, QueueOK, PendingOK, IInv, TypeOK,
        PumpTypeOK
  <2>2. PumpTypeOK'
    BY <2>1 DEF BalanceData, AskBalance, Awaiting, IInv, TypeOK, PumpTypeOK, flowVars, execVars,
        counters, place, yield, batchVars
  <2>3. ExecTypeOK' /\ BalanceTypeOK' /\ SessionTypeOK'
    BY <1>0, SessionAssumption
    DEF BalanceData, AskBalance, Awaiting, IInv, TypeOK, ExecTypeOK, BalanceTypeOK,
        SessionTypeOK, flowVars, execVars, counters, place, yield, batchVars
  <2> QED BY <2>2, <2>3 DEF TypeOK
<1>2. QueueInv' /\ IssuedInv'
  BY <1>1, PopIssued, IssuedKept, CounterTypes
  DEF BalanceData, Pop, AskBalance, Awaiting, flowVars, execVars, counters, place, yield,
      batchVars, QueueOK, TypeOK
<1>3. CurrentInv'
  BY <1>2, PopIssued, IssuedKept DEF BalanceData, AskBalance, Awaiting, Pop, IInv, CurrentInv,
      IssuedInv, Known, flowVars, execVars, counters, place, yield, batchVars
<1>4. SplitInv' /\ ActiveInv' /\ FreshInv'
  BY <1>0
  DEF BalanceData, Pop, AskBalance, Awaiting, flowVars, execVars, counters, place, yield,
      batchVars, IInv, SplitInv, ActiveInv, FreshInv, TypeOK, ExecTypeOK
<1>5. AccountInv' /\ OwnAnswers'
  BY <1>0, FiledKept
  DEF BalanceData, Pop, AskBalance, Awaiting, flowVars, execVars, counters, place, yield,
      batchVars, IInv, AccountInv, FreshInv, OwnExecution
<1> QED BY <1>1, <1>2, <1>3, <1>4, <1>5 DEF IInv

LEMMA BalanceMessageStep ==
  ASSUME IInv, NEW e \in queue, AskBalance(BalanceMessage(e))
  PROVE  IInv'
<1>1. TypeOK'
  <2>1. queue' \subseteq Event /\ pending' \subseteq [req: Request,
      sent: SUBSET Block] /\ link' \in BOOLEAN
    BY PopIssued DEF BalanceMessage, AskBalance, Awaiting, Pop, QueueOK, PendingOK, IInv, TypeOK,
        PumpTypeOK
  <2>2. PumpTypeOK'
    BY <2>1 DEF BalanceMessage, AskBalance, Awaiting, IInv, TypeOK, PumpTypeOK, flowVars,
        execVars, counters, place, yield, balanceVars, batchVars
  <2>3. ExecTypeOK' /\ BalanceTypeOK' /\ SessionTypeOK'
    BY SessionAssumption
    DEF BalanceMessage, AskBalance, Awaiting, IInv, TypeOK, ExecTypeOK, BalanceTypeOK,
        SessionTypeOK, flowVars, execVars, counters, place, yield, balanceVars, batchVars
  <2> QED BY <2>2, <2>3 DEF TypeOK
<1>2. QueueInv' /\ IssuedInv'
  BY <1>1, PopIssued, IssuedKept, CounterTypes
  DEF BalanceMessage, Pop, AskBalance, Awaiting, flowVars, execVars, counters, place, yield,
      balanceVars, batchVars, QueueOK, TypeOK
<1>3. CurrentInv'
  BY <1>2, PopIssued, IssuedKept DEF BalanceMessage, AskBalance, Awaiting, Pop, IInv, CurrentInv,
      IssuedInv, Known, flowVars, execVars, counters, place, yield, balanceVars, batchVars
<1>4. SplitInv' /\ ActiveInv' /\ FreshInv'
  BY DEF BalanceMessage, Pop, AskBalance, Awaiting, flowVars, execVars, counters, place, yield,
      balanceVars, batchVars, IInv, SplitInv, ActiveInv, FreshInv, TypeOK, ExecTypeOK
<1>5. AccountInv' /\ OwnAnswers'
  BY FiledKept
  DEF BalanceMessage, Pop, AskBalance, Awaiting, flowVars, execVars, counters, place, yield,
      balanceVars, batchVars, IInv, AccountInv, FreshInv, OwnExecution
<1> QED BY <1>1, <1>2, <1>3, <1>4, <1>5 DEF IInv

LEMMA BalanceCompleteStep ==
  ASSUME IInv, NEW e \in queue, AskBalance(BalanceComplete(e))
  PROVE  IInv'
<1>1. TypeOK'
  <2>1. queue' \subseteq Event /\ pending' \subseteq [req: Request,
      sent: SUBSET Block] /\ link' \in BOOLEAN
    BY PopIssued DEF BalanceComplete, AskBalance, Awaiting, Conclude, Pop, QueueOK, PendingOK,
        IInv, TypeOK, PumpTypeOK
  <2>2. PumpTypeOK'
    BY <2>1 DEF BalanceComplete, AskBalance, Awaiting, Conclude, IInv, TypeOK, PumpTypeOK,
        execVars, counters, place, yield, balanceVars, batchVars
  <2>3. ExecTypeOK' /\ BalanceTypeOK' /\ SessionTypeOK'
    BY SessionAssumption
    DEF BalanceComplete, AskBalance, Awaiting, Conclude, IInv, TypeOK, ExecTypeOK, BalanceTypeOK,
        SessionTypeOK, execVars, counters, place, yield, balanceVars, batchVars
  <2> QED BY <2>2, <2>3 DEF TypeOK
<1>2. QueueInv' /\ IssuedInv'
  BY <1>1, PopIssued, IssuedKept, CounterTypes
  DEF BalanceComplete, Pop, AskBalance, Awaiting, Conclude, execVars, counters, place, yield,
      balanceVars, batchVars, QueueOK, TypeOK
<1>3. CurrentInv'
  BY <1>2, PopIssued, IssuedKept DEF BalanceComplete, AskBalance, Awaiting, Conclude, Pop, IInv,
      CurrentInv, IssuedInv, Known, execVars, counters, place, yield, balanceVars, batchVars
<1>4. SplitInv' /\ ActiveInv' /\ FreshInv'
  BY DEF BalanceComplete, Pop, AskBalance, Awaiting, Conclude, execVars, counters, place, yield,
      balanceVars, batchVars, IInv, SplitInv, ActiveInv, FreshInv, TypeOK, ExecTypeOK
<1>5. AccountInv' /\ OwnAnswers'
  BY FiledKept
  DEF BalanceComplete, Pop, AskBalance, Awaiting, Conclude, execVars, counters, place, yield,
      balanceVars, batchVars, IInv, AccountInv, FreshInv, OwnExecution
<1> QED BY <1>1, <1>2, <1>3, <1>4, <1>5 DEF IInv

LEMMA StartCommandStep ==
  ASSUME IInv, NEW j \in Jobs, StartCommand(j)
  PROVE  IInv'
<1>1. TypeOK'
  BY SessionAssumption, ExecAssumption, BalanceAssumption
  DEF StartCommand, IInv, TypeOK, PumpTypeOK, ExecTypeOK, BalanceTypeOK, SessionTypeOK,
      SessionAssumption, ExecAssumption, BalanceAssumption, pumpVars, place, yield
<1>2. QueueInv' /\ IssuedInv'
  <2>1. QueueInv' /\ Issued' = Issued
    BY StillPump DEF StartCommand, QueueOK
  <2>2. \A r \in Issued : r \in Request /\ r.cmd <= cmd
    BY DEF IInv, IssuedInv, Known
  <2>3. cmd \in Nat /\ cmd' = cmd + 1
    BY DEF StartCommand, IInv, TypeOK, PumpTypeOK
  <2> QED BY <2>1, <2>2, <2>3 DEF IssuedInv, Known, Request
<1>3. CurrentInv' /\ SplitInv' /\ ActiveInv'
  BY DEF StartCommand, CurrentInv, SplitInv, ActiveInv
<1>4. AccountInv' /\ FreshInv' /\ OwnAnswers'
  BY DEF StartCommand, IInv, AccountInv, FreshInv, OwnAnswers, place, yield
<1> QED BY <1>1, <1>2, <1>3, <1>4 DEF IInv

LEMMA AccountDoneStep ==
  ASSUME IInv, AccountDone
  PROVE  IInv'
<1>1. /\ out \in Seq(Execution) /\ found \in Seq(Execution) /\ balances \in Seq(Balance)
      /\ active \in Accounts
  BY DEF AccountDone, IInv, TypeOK, SessionTypeOK, ExecTypeOK, ActiveInv,
         ExecSucceeded, ExecFailed, Judging, BalanceSucceeded, BalanceFailed
<1>2. out' \in Seq(Execution) /\ \A i \in DOMAIN out' : OwnExecution(out[i])'
  <2>1. CASE out' = out
    BY <1>1, <2>1 DEF AccountDone, Leave, IInv, OwnAnswers, OwnExecution
  <2>2. CASE out' = out \o found
    <3>1. out' \in Seq(Execution)
      BY <1>1, <2>2
    <3>2. \A i \in DOMAIN out' : \/ i \in DOMAIN out /\ out'[i] = out[i]
                                 \/ \E k \in DOMAIN found : out'[i] = found[k]
      <4> TAKE i \in DOMAIN out'
      <4>1. CASE i <= Len(out)
        BY <1>1, <2>2, <4>1
      <4>2. CASE i > Len(out)
        <5>1. i - Len(out) \in DOMAIN found /\ out'[i] = found[i - Len(out)]
          BY <1>1, <2>2, <4>2
        <5> QED BY <5>1
      <4> QED BY <1>1, <2>2, <4>1, <4>2
    <3> QED BY <3>1, <3>2 DEF AccountDone, Leave, IInv, OwnAnswers, AccountInv, OwnExecution
  <2> QED BY <2>1, <2>2 DEF AccountDone
<1>3. balances' \in Seq(Balance) /\ \A i \in DOMAIN balances' : OwnBalance(balances[i])'
  <2>1. CASE balances' = balances
    BY <1>1, <2>1 DEF AccountDone, Leave, IInv, OwnAnswers, OwnBalance
  <2>2. CASE balances' # balances
    <3> DEFINE x == [acct |-> active, positions |-> positions, summary |-> summary]
    <3>1. BalanceSucceeded /\ balances' = Append(balances, x) /\ UNCHANGED cmd
      BY <2>2 DEF AccountDone, Leave
    <3>2. x \in Balance
      BY <1>1, <3>1 DEF BalanceSucceeded, Balance, IInv, TypeOK, BalanceTypeOK
    <3>3. OwnBalance(x)
      BY <3>1 DEF BalanceSucceeded, OwnBalance, IInv, AccountInv
    <3> HIDE DEF x
    <3>4. \A i \in DOMAIN balances' : balances'[i] = x \/ (i \in DOMAIN balances /\ balances'[i] = balances[i])
      BY <1>1, <3>1, <3>2
    <3>5. balances' \in Seq(Balance)
      BY <1>1, <3>1, <3>2
    <3> QED BY <3>1, <3>3, <3>4, <3>5 DEF IInv, OwnAnswers, OwnBalance
  <2> QED BY <2>1, <2>2
<1>4. PumpTypeOK' /\ ExecTypeOK' /\ BalanceTypeOK' /\ SessionTypeOK'
  <2>1. PumpTypeOK'
    BY DEF AccountDone, Leave, IInv, TypeOK, PumpTypeOK, pumpVars
  <2>2. ExecTypeOK'
    BY ExecAssumption DEF AccountDone, FirstPage, IInv, TypeOK, ExecTypeOK, ExecAssumption,
        counters
  <2>3. BalanceTypeOK'
    BY DEF AccountDone, BalanceStart, IInv, TypeOK, BalanceTypeOK
  <2>4. SessionTypeOK'
    BY <1>1, <1>2, <1>3 DEF AccountDone, IInv, TypeOK, SessionTypeOK
  <2> QED BY <2>1, <2>2, <2>3, <2>4
<1>5. QueueInv' /\ IssuedInv'
  BY <1>4, StillPump, IssuedKept, CounterTypes DEF AccountDone, Leave, QueueOK, counters
<1>6. CurrentInv' /\ SplitInv' /\ ActiveInv'
  BY DEF AccountDone, CurrentInv, SplitInv, ActiveInv
<1>7. AccountInv' /\ FreshInv'
  BY DEF AccountDone, FirstPage, BalanceStart, AccountInv, FreshInv
<1>8. OwnAnswers'
  BY <1>2, <1>3 DEF OwnAnswers
<1> QED BY <1>4, <1>5, <1>6, <1>7, <1>8 DEF IInv, TypeOK

LEMMA DrainTurnStep ==
  ASSUME IInv, Exchange(DrainTurn)
  PROVE  IInv'
<1>1. QueueOK' /\ PendingOK' /\ Issued' \subseteq Issued /\ link' \in BOOLEAN
  BY PumpOK, EraseIssued DEF Exchange, DrainTurn, IInv, TypeOK, PumpTypeOK
<1>2. PumpTypeOK'
  BY <1>1 DEF Exchange, DrainTurn, QueueOK, PendingOK, IInv, TypeOK, PumpTypeOK, flowVars
<1>3. ExecTypeOK' /\ BalanceTypeOK' /\ SessionTypeOK'
  BY DEF Exchange, DrainTurn, IInv, TypeOK, ExecTypeOK, BalanceTypeOK, SessionTypeOK, execVars,
      counters, place, yield, balanceVars, batchVars
<1>4. UNCHANGED <<cmd, job, nextExec, nextSplit, nextBalance>>
  BY DEF Exchange, DrainTurn, flowVars, execVars, counters, balanceVars
<1>5. IssuedInv'
  BY <1>1, <1>3, <1>4, IssuedKept, CounterTypes
<1>6. CurrentInv'
  BY <1>1, <1>4 DEF Exchange, DrainTurn, flowVars, IInv, CurrentInv, IssuedInv, Known
<1>7. SplitInv' /\ ActiveInv' /\ FreshInv'
  BY DEF Exchange, DrainTurn, IInv, SplitInv, ActiveInv, FreshInv, execVars, counters, place,
      yield, balanceVars, batchVars
<1>8. AccountInv' /\ OwnAnswers'
  BY FiledKept DEF Exchange, DrainTurn, IInv, AccountInv, OwnExecution, execVars, counters,
      place, yield, balanceVars, batchVars
<1> QED BY <1>1, <1>2, <1>3, <1>5, <1>6, <1>7, <1>8 DEF IInv, TypeOK, QueueOK

LEMMA DeliverStep ==
  ASSUME IInv, Deliver
  PROVE  IInv'
<1>1. QueueOK' /\ PendingOK' /\ Issued' \subseteq Issued /\ link' \in BOOLEAN
  BY PumpOK, BrokerKeeps DEF Deliver, Broker, Disconnect, PostData, PostRejection, PostComplete,
      PostError, IInv, TypeOK, PumpTypeOK
<1>2. PumpTypeOK'
  BY <1>1 DEF Deliver, Broker, Disconnect, PostData, PostRejection, PostComplete, PostError,
      QueueOK, PendingOK, IInv, TypeOK, PumpTypeOK, flowVars
<1>3. ExecTypeOK' /\ BalanceTypeOK' /\ SessionTypeOK'
  BY DEF Deliver, Broker, Disconnect, PostData, PostRejection, PostComplete, PostError, IInv,
      TypeOK, ExecTypeOK, BalanceTypeOK, SessionTypeOK, flowVars, execVars, counters, place,
          yield, balanceVars, batchVars
<1>4. UNCHANGED <<cmd, job, nextExec, nextSplit, nextBalance>>
  BY DEF Deliver, Broker, Disconnect, PostData, PostRejection, PostComplete, PostError, flowVars,
      execVars, counters, balanceVars
<1>5. IssuedInv'
  BY <1>1, <1>3, <1>4, IssuedKept, CounterTypes
<1>6. CurrentInv'
  BY <1>1, <1>4 DEF Deliver, Broker, Disconnect, PostData, PostRejection, PostComplete,
      PostError, flowVars, IInv, CurrentInv, IssuedInv, Known
<1>7. SplitInv' /\ ActiveInv' /\ FreshInv'
  BY DEF Deliver, Broker, Disconnect, PostData, PostRejection, PostComplete, PostError, IInv,
      SplitInv, ActiveInv, FreshInv, flowVars, execVars, counters, place, yield, balanceVars,
          batchVars
<1>8. AccountInv' /\ OwnAnswers'
  BY FiledKept DEF Deliver, Broker, Disconnect, PostData, PostRejection, PostComplete, PostError,
      IInv, AccountInv, OwnExecution, flowVars, execVars, counters, place, yield, balanceVars,
          batchVars
<1> QED BY <1>1, <1>2, <1>3, <1>5, <1>6, <1>7, <1>8 DEF IInv, TypeOK, QueueOK

-----------------------------------------------------------------------------

LEMMA InitIInv == Init => IInv
<1> SUFFICES ASSUME Init PROVE IInv
  OBVIOUS
<1>1. queue = {} /\ pending = {} /\ rows = <<>> /\ found = <<>> /\ out = <<>> /\ balances = <<>>
      /\ positions = <<>> /\ summary = NoRequest /\ details = {} /\ pc = "idle"
  BY DEF Init, PumpInit, ExecInit, BalanceInit
<1>2. TypeOK
  <2>1. PumpTypeOK
    BY DEF Init, PumpInit, PumpTypeOK
  <2>2. ExecTypeOK
    BY ExecAssumption DEF Init, ExecInit, ExecTypeOK, ExecAssumption
  <2>3. BalanceTypeOK
    BY BalanceAssumption DEF Init, BalanceInit, BalanceTypeOK, BalanceAssumption
  <2>4. 1 \in 1..Len(Batch)
    BY SessionAssumption DEF SessionAssumption
  <2>5. SessionTypeOK
    BY <2>4 DEF Init, SessionTypeOK
  <2> QED BY <2>1, <2>2, <2>3, <2>5 DEF TypeOK
<1>3. QueueInv /\ IssuedInv
  BY <1>1, FS_EmptySet DEF QueueInv, IssuedInv, Issued
<1>4. CurrentInv /\ SplitInv /\ AccountInv /\ ActiveInv /\ FreshInv /\ OwnAnswers
  BY <1>1 DEF CurrentInv, SplitInv, AccountInv, ActiveInv, FreshInv, OwnAnswers
<1> QED BY <1>2, <1>3, <1>4 DEF IInv

LEMMA NextAccountStep ==
  ASSUME IInv, NextAccount
  PROVE  IInv'
<1>1. TypeOK'
  BY SessionAssumption
  DEF NextAccount, pumpVars, execVars, counters, place, yield, balanceVars, batchVars, IInv,
      TypeOK, PumpTypeOK, ExecTypeOK, BalanceTypeOK, SessionTypeOK, SessionAssumption
<1>2. QueueInv' /\ IssuedInv'
  BY <1>1, StillPump, IssuedKept, CounterTypes
  DEF NextAccount, pumpVars, execVars, counters, place, yield, balanceVars, batchVars, QueueOK,
      TypeOK
<1>3. CurrentInv' /\ SplitInv' /\ ActiveInv' /\ FreshInv'
  BY SessionAssumption
  DEF NextAccount, pumpVars, execVars, counters, place, yield, balanceVars, batchVars, IInv,
      CurrentInv, SplitInv, ActiveInv, FreshInv, TypeOK, ExecTypeOK, SessionTypeOK,
          SessionAssumption
<1>4. AccountInv' /\ OwnAnswers'
  BY FiledKept
  DEF NextAccount, pumpVars, execVars, counters, place, yield, balanceVars, batchVars, IInv,
      AccountInv, FreshInv, OwnExecution
<1> QED BY <1>1, <1>2, <1>3, <1>4 DEF IInv

LEMMA ExportStep ==
  ASSUME IInv, Export
  PROVE  IInv'
<1>1. TypeOK'
  BY SessionAssumption
  DEF Export, pumpVars, execVars, counters, place, yield, balanceVars, batchVars, IInv, TypeOK,
      PumpTypeOK, ExecTypeOK, BalanceTypeOK, SessionTypeOK, SessionAssumption
<1>2. QueueInv' /\ IssuedInv'
  BY <1>1, StillPump, IssuedKept, CounterTypes
  DEF Export, pumpVars, execVars, counters, place, yield, balanceVars, batchVars, QueueOK, TypeOK
<1>3. CurrentInv' /\ SplitInv' /\ ActiveInv' /\ FreshInv'
  BY SessionAssumption
  DEF Export, pumpVars, execVars, counters, place, yield, balanceVars, batchVars, IInv,
      CurrentInv, SplitInv, ActiveInv, FreshInv, TypeOK, ExecTypeOK, SessionTypeOK,
          SessionAssumption
<1>4. AccountInv' /\ OwnAnswers'
  BY FiledKept
  DEF Export, pumpVars, execVars, counters, place, yield, balanceVars, batchVars, IInv,
      AccountInv, FreshInv, OwnExecution
<1> QED BY <1>1, <1>2, <1>3, <1>4 DEF IInv

-----------------------------------------------------------------------------
(* The theorems.                                                           *)

LEMMA QueryStep ==
  ASSUME IInv, Query(ExecStep)
  PROVE  IInv'
<1>1. ASSUME NEW e \in queue, Query(ExecEvent(e))
      PROVE  IInv'
  BY <1>1, ExecDataStep, ExecMessageStep, ExecCompleteStep, SplitDataStep, SplitMessageStep,
     SplitCompleteStep
  DEF ExecEvent, Query
<1> QED
  BY <1>1, SendExecStep, JudgePageDoneStep, JudgeRebindStep, JudgeRetryStep, FileWholeRowStep,
     SendSplitStep, JudgeSplitStep, NextPageStep
  DEF ExecStep, Query

LEMMA AskBalanceStep ==
  ASSUME IInv, AskBalance(BalanceStep)
  PROVE  IInv'
BY SendBalanceStep, BalanceDataStep, BalanceMessageStep, BalanceCompleteStep
DEF BalanceStep, BalanceEvent, AskBalance

LEMMA StutterStep ==
  ASSUME IInv, UNCHANGED vars
  PROVE  IInv'
<1>1. TypeOK'
  BY DEF IInv, vars, TypeOK, PumpTypeOK, ExecTypeOK, BalanceTypeOK, SessionTypeOK,
         pumpVars, flowVars, execVars, counters, place, yield, balanceVars, batchVars
<1>2. QueueInv' /\ IssuedInv' /\ CurrentInv'
  BY StillPump
  DEF vars, IInv, QueueOK, IssuedInv, CurrentInv, Known,
      pumpVars, flowVars, execVars, counters, balanceVars
<1>3. SplitInv' /\ AccountInv' /\ ActiveInv' /\ FreshInv' /\ OwnAnswers'
  BY FiledKept
  DEF vars, IInv, SplitInv, AccountInv, OwnExecution, ActiveInv, FreshInv,
      flowVars, execVars, place, yield, balanceVars, batchVars
<1> QED BY <1>1, <1>2, <1>3 DEF IInv

(* IInv is inductive: every action of the session, of the two queries, of  *)
(* the wait loop and of the broker keeps it.                               *)
THEOREM Inductive == Spec => []IInv
<1>1. IInv /\ [Next]_vars => IInv'
  <2> SUFFICES ASSUME IInv, [Next]_vars
               PROVE  IInv'
    OBVIOUS
  <2>1. CASE \E j \in Jobs : StartCommand(j)
    BY <2>1, StartCommandStep
  <2>2. CASE Serve
    BY <2>2, ActivateStep, RefuseAccountStep, QueryStep, AskBalanceStep, TimeOutStep,
       DrainTurnStep, ReceiveErrorStep, IgnoreEventStep, AccountDoneStep, NextAccountStep,
       ExportStep
    DEF Serve
  <2>3. CASE Deliver
    BY <2>3, DeliverStep
  <2>4. CASE UNCHANGED vars
    BY <2>4, StutterStep
  <2> QED BY <2>1, <2>2, <2>3, <2>4 DEF Next
<1> QED BY InitIInv, <1>1, PTL DEF Spec

(* Every variable keeps its type: the tr_index ranges of s8180 and s8118   *)
(* do not meet, the row index of the s8118 loop stays inside the page, and *)
(* an exported balance has a summary.                                      *)
THEOREM TypeCorrect == Spec => []TypeOK
<1>1. IInv => TypeOK
  BY DEF IInv
<1> QED BY <1>1, Inductive, PTL

(* Within a command no row, detail or balance is ever filed under an       *)
(* account it was not asked about.                                         *)
THEOREM AnswersAreOwn == Spec => []OwnAnswers
<1>1. IInv => OwnAnswers
  BY DEF IInv
<1> QED BY <1>1, Inductive, PTL

-----------------------------------------------------------------------------
(* How many s8180 requests a command makes, for any number of accounts,    *)
(* pages and attempts, either setting of the probe and whatever the broker *)
(* answers, in a process that serves one command.  (In a session an answer *)
(* to the last command may be taken for one of this command and bring its  *)
(* own continuation key; the run `foreign` shows how.)                     *)

OneCommand == MaxCommands = 1

-----------------------------------------------------------------------------
(* The inductive invariant.                                                *)

Used == nextExec - ExecBase

Resting == {"idle", "activate", "next", "export"}
Busy == {"await", "drain", "judge", "rows"}

(* Every request is the one command's.                                     *)
OriginInv ==
  /\ cmd \in 0..1 /\ (pc # "idle" => cmd = 1)
  /\ \A r \in Issued : r.cmd = 1

(* Which page is asked for, and what the paging block says of the next.    *)
PageInv ==
  /\ binding = "account_no" => AutoProbe
  /\ pc \in Resting => page = 1 /\ attempt = 1 /\ binding = "index"
  /\ pc \notin Resting => active = Batch[turn] /\ page <= LastPage[active]
  /\ pc \in Busy \ {"rows"} /\ req.kind = "s8180" => req.page = page
  /\ pc \in Busy /\ job = "QUERY" /\ cts # 0 => cts = page + 1 /\ cts <= LastPage[active]

(* The requests made so far.                                               *)
UsedInv ==
  /\ pc = "activate" => Used <= PagesBefore(turn) * Tries
  /\ pc = "send" => Used <= (PagesBefore(turn) + (page - 1)) * Tries + Tried
  /\ pc \in Busy => Used <= (PagesBefore(turn) + (page - 1)) * Tries + (Tried + 1)
  /\ pc = "next" => Used <= PagesBefore(turn + 1) * Tries

BInv == OriginInv /\ PageInv /\ UsedInv

-----------------------------------------------------------------------------
(* Counting.                                                               *)

LEMMA Typed ==
  ASSUME IInv
  PROVE  /\ page \in Nat \ {0} /\ attempt \in Nat \ {0} /\ attempt <= MaxAttempts
         /\ binding \in {"index", "account_no"} /\ cts \in Nat
         /\ nextExec \in Nat /\ ExecBase \in Nat /\ turn \in 1..Len(Batch) /\ Len(Batch) \in Nat
         /\ Batch[turn] \in Accounts
BY ExecAssumption, SessionAssumption, ElementOfSeq
DEF IInv, TypeOK, ExecTypeOK, SessionTypeOK

LEMMA Apart ==
  ASSUME NEW S, NEW T, IsFiniteSet(S), IsFiniteSet(T), S \cap T = {}
  PROVE  /\ Cardinality(S) \in Nat /\ Cardinality(T) \in Nat
         /\ Cardinality(S \cup T) = Cardinality(S) + Cardinality(T)
<1>1. Cardinality(S) \in Nat /\ Cardinality(T) \in Nat
  BY FS_CardinalityType
<1>2. Cardinality(S \cup T) = Cardinality(S) + Cardinality(T) - Cardinality(S \cap T)
  BY FS_Union
<1>3. Cardinality(S \cap T) = 0
  BY FS_EmptySet
<1> QED  BY <1>1, <1>2, <1>3

LEMMA UpTo ==
  ASSUME NEW n \in Nat
  PROVE  IsFiniteSet(1..n) /\ Cardinality(1..n) = n
<1>1. IsFiniteSet(1..n) /\ Cardinality(1..n) = IF 1 > n THEN 0 ELSE n - 1 + 1
  BY FS_Interval
<1> QED  BY <1>1

(* Each selection brings its own pages.                                    *)
LEMMA PagesAdd ==
  ASSUME NEW i \in 1..Len(Batch)
  PROVE  /\ PagesBefore(i) \in Nat /\ LastPage[Batch[i]] \in Nat
         /\ PagesBefore(i + 1) = PagesBefore(i) + LastPage[Batch[i]]
<1> DEFINE pages(k) == {k} \X (1..LastPage[Batch[k]])
           sets(n) == {pages(k) : k \in 1..(n - 1)}
<1>1. Len(Batch) \in Nat /\ \A k \in 1..Len(Batch) : LastPage[Batch[k]] \in Nat
  BY SessionAssumption, ExecAssumption, ElementOfSeq
<1>2. ASSUME NEW k \in 1..Len(Batch)
      PROVE  IsFiniteSet(pages(k)) /\ Cardinality(pages(k)) = LastPage[Batch[k]]
  <2>1. LastPage[Batch[k]] \in Nat
    BY <1>1
  <2>2. IsFiniteSet({k}) /\ Cardinality({k}) = 1
    BY FS_Singleton
  <2>3. IsFiniteSet(1..LastPage[Batch[k]]) /\ Cardinality(1..LastPage[Batch[k]]) = LastPage[Batch[k]]
    BY <2>1, UpTo
  <2>4. IsFiniteSet(pages(k)) /\ Cardinality(pages(k)) = Cardinality({k}) * Cardinality(1..LastPage[Batch[k]])
    BY <2>2, <2>3, FS_Product
  <2> QED  BY <2>1, <2>2, <2>3, <2>4
<1>3. IsFiniteSet(UNION sets(i))
  <2>1. IsFiniteSet(1..(i - 1)) /\ i - 1 \in Nat
    BY <1>1, FS_Interval
  <2> DEFINE f == [k \in 1..(i - 1) |-> pages(k)]
  <2>2. f \in Surjection(1..(i - 1), sets(i))
    BY DEF Surjection
  <2>3. IsFiniteSet(sets(i))
    <3> HIDE DEF f, sets
    <3> QED  BY <2>1, <2>2, FS_Surjection
  <2>4. \A T \in sets(i) : IsFiniteSet(T)
    BY <1>1, <1>2
  <2> HIDE DEF sets
  <2> QED  BY <2>3, <2>4, FS_UNION
<1>4. UNION sets(i + 1) = (UNION sets(i)) \cup pages(i)
  <2>1. 1..((i + 1) - 1) = (1..(i - 1)) \cup {i}
    BY <1>1
  <2> HIDE DEF pages
  <2>2. sets(i + 1) = sets(i) \cup {pages(i)}
    BY <2>1
  <2> HIDE DEF sets
  <2> QED  BY <2>2
<1>5. (UNION sets(i)) \cap pages(i) = {}
  <2>1. \A k \in 1..(i - 1) : k # i
    BY <1>1
  <2> QED  BY <2>1
<1>6. PagesBefore(i) = Cardinality(UNION sets(i)) /\ PagesBefore(i + 1) = Cardinality(UNION sets(i + 1))
  BY DEF PagesBefore
<1>7. IsFiniteSet(pages(i)) /\ Cardinality(pages(i)) = LastPage[Batch[i]]
  BY <1>2
<1> HIDE DEF pages, sets
<1>8. /\ Cardinality(UNION sets(i)) \in Nat
      /\ Cardinality((UNION sets(i)) \cup pages(i)) = Cardinality(UNION sets(i)) + Cardinality(pages(i))
  BY <1>3, <1>5, <1>7, Apart
<1> QED  BY <1>1, <1>4, <1>6, <1>7, <1>8

LEMMA NoPagesBefore == PagesBefore(1) = 0
<1>1. UNION {{k} \X (1..LastPage[Batch[k]]) : k \in 1..(1 - 1)} = {}
  OBVIOUS
<1> QED  BY <1>1, FS_EmptySet DEF PagesBefore

(* n pages and one more.                                                   *)
LEMMA OneMore ==
  ASSUME NEW n \in Nat, NEW t \in Nat
  PROVE  n * t \in Nat /\ (n + 1) * t = n * t + t
OBVIOUS

LEMMA MorePages ==
  ASSUME NEW m \in Nat, NEW n \in Nat, NEW t \in Nat, m <= n
  PROVE  m * t <= n * t
OBVIOUS

LEMMA TriesTyped ==
  /\ Bindings \in {1, 2} /\ Tries \in Nat
  /\ Tries = IF AutoProbe THEN 2 * MaxAttempts ELSE MaxAttempts
BY ExecAssumption DEF Tries, Bindings

(* The current try of a page is one of those it may have.                  *)
LEMMA OneOfTries ==
  ASSUME IInv, PageInv
  PROVE  Tried \in Nat /\ Tried + 1 <= Tries
<1>1. attempt \in Nat \ {0} /\ attempt <= MaxAttempts /\ MaxAttempts \in Nat
  BY Typed, ExecAssumption
<1>2. CASE AutoProbe
  BY <1>1, <1>2, TriesTyped DEF Tried, Bindings
<1>3. CASE ~AutoProbe
  BY <1>1, <1>3, TriesTyped DEF Tried, Bindings, PageInv
<1> QED  BY <1>2, <1>3

-----------------------------------------------------------------------------
(* The steps.                                                              *)

Counted == <<turn, page, attempt, binding, nextExec, active, cmd, job>>

(* A step that stays within the tries of a page and reads no paging block. *)
LEMMA Within ==
  ASSUME IInv, BInv, UNCHANGED Counted, UNCHANGED cts, pc \in Busy, pc' \in Busy,
         \A r \in Issued' : r.cmd = 1,
         pc' # "rows" /\ req'.kind = "s8180" => pc # "rows" /\ req' = req
  PROVE  BInv'
<1>1. UNCHANGED <<turn, page, attempt, binding, nextExec, active, cmd, job, cts>>
  BY DEF Counted
<1>2. UNCHANGED <<Used, Tried, PagesBefore(turn)>>
  BY <1>1 DEF Used, Tried, PagesBefore
<1>3. OriginInv'
  BY <1>1 DEF BInv, OriginInv, Busy
<1>4. PageInv'
  BY <1>1 DEF BInv, PageInv, Busy, Resting
<1>5. UsedInv'
  BY <1>1, <1>2 DEF BInv, UsedInv, Busy
<1> QED  BY <1>3, <1>4, <1>5 DEF BInv

(* A step that leaves the query where it is.                               *)
LEMMA Aside ==
  ASSUME IInv, BInv, UNCHANGED Counted, UNCHANGED <<cts, pc, req>>, Issued' \subseteq Issued
  PROVE  BInv'
<1>1. UNCHANGED <<turn, page, attempt, binding, nextExec, active, cmd, job, cts, pc, req>>
  BY DEF Counted
<1>2. UNCHANGED <<Used, Tried, PagesBefore(turn), PagesBefore(turn + 1)>>
  BY <1>1 DEF Used, Tried, PagesBefore
<1>3. OriginInv' /\ PageInv'
  BY <1>1 DEF BInv, OriginInv, PageInv
<1>4. UsedInv'
  BY <1>1, <1>2 DEF BInv, UsedInv
<1> QED  BY <1>3, <1>4 DEF BInv

(* The arms of the wait loops but for the data of s8180.                   *)
LEMMA WaitStep ==
  ASSUME IInv, BInv, NEW e \in queue,
         \/ Exchange(ReceiveError(e)) \/ Exchange(IgnoreEvent(e))
         \/ Query(ExecMessage(e) \/ ExecComplete(e))
         \/ Query(SplitData(e) \/ SplitMessage(e) \/ SplitComplete(e))
         \/ AskBalance(BalanceEvent(e))
  PROVE  BInv'
<1>1. /\ pc = "await" /\ pc' \in {"await", "drain", "judge"} /\ Pop(e) /\ req' = req
      /\ UNCHANGED Counted /\ UNCHANGED cts
  BY DEF Exchange, ReceiveError, IgnoreEvent, Query, ExecMessage, ExecComplete, SplitData,
     SplitMessage, SplitComplete, AskBalance, BalanceEvent, BalanceData, BalanceMessage,
     BalanceComplete, Awaiting, GiveUp, Conclude, Counted, flowVars, execVars, counters, place,
     yield, balanceVars, batchVars
<1>2. Issued' \subseteq Issued
  BY <1>1, PopIssued
<1> QED  BY <1>1, <1>2, Within DEF BInv, OriginInv, Busy

(* TimeOut and DrainTurn keep BInv.                                        *)
LEMMA LateStep ==
  ASSUME IInv, BInv, Exchange(TimeOut) \/ Exchange(DrainTurn)
  PROVE  BInv'
<1>1. /\ pc \in {"await", "drain"} /\ pc' \in {"drain", "judge"} /\ req' = req
      /\ UNCHANGED Counted /\ UNCHANGED cts
  BY DEF Exchange, TimeOut, DrainTurn, GiveUp, Counted, execVars, counters, place, yield
<1>2. Issued' \subseteq Issued
  <2>1. CASE Exchange(TimeOut)
    BY <2>1 DEF Exchange, TimeOut, Issued, IsConnectionEvent
  <2>2. CASE Exchange(DrainTurn)
    BY <2>2, PumpOK, EraseIssued DEF Exchange, DrainTurn
  <2> QED  BY <2>1, <2>2
<1> QED  BY <1>1, <1>2, Within DEF BInv, OriginInv, Busy

(* The rows of a page, and what becomes of a lookup.                       *)
LEMMA RowStep ==
  ASSUME IInv, BInv, Query(JudgePageDone \/ FileWholeRow \/ JudgeSplit)
  PROVE  BInv'
<1>1. /\ pc \in {"judge", "rows"} /\ pc' = "rows" /\ UNCHANGED pumpVars
      /\ UNCHANGED Counted /\ UNCHANGED cts
  BY DEF Query, JudgePageDone, FileWholeRow, JudgeSplit, Judging, File, Leave, Counted, flowVars,
     execVars, counters, place, yield
<1>2. Issued' = Issued
  BY <1>1, StillPump
<1> QED  BY <1>1, <1>2, Within DEF BInv, OriginInv, Busy

(* SendSplit keeps BInv.                                                   *)
LEMMA LookUpStep ==
  ASSUME IInv, BInv, Query(SendSplit)
  PROVE  BInv'
<1> DEFINE r == [cmd |-> cmd, kind |-> "s8118", acct |-> active, page |-> rows[at].from.page,
                 item |-> rows[at].n, tr |-> nextSplit]
<1>1. /\ pc = "rows" /\ pc' \in {"await", "judge"} /\ Begin(r)
      /\ Submit(r) \/ pending' = pending
      /\ at <= Len(rows)
      /\ UNCHANGED Counted /\ UNCHANGED cts
  BY DEF Query, SendSplit, Begin, Counted, place, yield
<1>2. r \in Request
  <2>1. at \in DOMAIN rows /\ rows \in Seq(Row) /\ cmd \in Nat /\ active \in Accounts
    BY <1>1 DEF IInv, TypeOK, PumpTypeOK, ExecTypeOK, SplitInv, ActiveInv
  <2>2. rows[at] \in Row
    BY <2>1, ElementOfSeq
  <2> QED  BY <2>1, <2>2, CounterTypes DEF Row, Request, Kinds
<1>3. Issued' \subseteq Issued \cup {r}
  BY <1>1, <1>2, PumpOK, SendIssued
<1>4. req' = r /\ r.kind = "s8118" /\ r.cmd = 1
  BY <1>1 DEF Begin, BInv, OriginInv
<1> QED  BY <1>1, <1>3, <1>4, Within DEF BInv, OriginInv, Busy

(* ExecData keeps BInv: the paging block is that of the page asked for.    *)
LEMMA PagingStep ==
  ASSUME IInv, BInv, NEW e \in queue, Query(ExecData(e))
  PROVE  BInv'
<1>1. /\ pc = "await" /\ req.kind = "s8180" /\ Pop(e) /\ e.code = "data" /\ Own(e)
      /\ cts' = cts \/ cts' = NextCts(e.from)
      /\ UNCHANGED Counted /\ UNCHANGED <<pc, req>> /\ job = "QUERY"
  BY DEF Query, ExecData, Awaiting, Counted, flowVars, counters, place
<1>2. Issued' \subseteq Issued
  BY <1>1, PopIssued
<1>3. e.from = req
  <2>1. e.from \in Issued
    <3>1. e.code # "disconnected"
      BY <1>1
    <3> QED  BY <3>1 DEF Issued, IsConnectionEvent
  <2>2. e.from.cmd = 1 /\ cmd = 1
    BY <1>1, <2>1 DEF BInv, OriginInv
  <2> QED  BY <1>1, <2>2, OwnData
<1>4. req.page = page /\ req.acct = active /\ active = Batch[turn]
  BY <1>1 DEF BInv, PageInv, Busy, Resting, IInv, CurrentInv
<1>5. cts' # 0 => cts' = page + 1 /\ cts' <= LastPage[active]
  <2>1. CASE cts' = cts
    BY <1>1, <2>1 DEF BInv, PageInv, Busy
  <2>2. CASE cts' = NextCts(req)
    <3>1. page \in Nat /\ LastPage[active] \in Nat
      BY <1>4, Typed, ExecAssumption
    <3> QED  BY <1>4, <2>2, <3>1 DEF NextCts
  <2> QED  BY <1>1, <1>3, <2>1, <2>2
<1>6. UNCHANGED <<turn, page, attempt, binding, nextExec, active, cmd, job, pc, req>>
  BY <1>1 DEF Counted
<1>7. UNCHANGED <<Used, Tried, PagesBefore(turn), PagesBefore(turn + 1)>>
  BY <1>6 DEF Used, Tried, PagesBefore
<1>8. OriginInv'
  BY <1>2, <1>6 DEF BInv, OriginInv
<1>9. PageInv'
  BY <1>1, <1>5, <1>6 DEF BInv, PageInv, Busy, Resting
<1>10. UsedInv'
  BY <1>6, <1>7 DEF BInv, UsedInv
<1> QED  BY <1>8, <1>9, <1>10 DEF BInv

(* SendExec keeps BInv: one more request.                                  *)
LEMMA AskPageStep ==
  ASSUME IInv, BInv, Query(SendExec)
  PROVE  BInv'
<1> DEFINE r == [cmd |-> cmd, kind |-> "s8180", acct |-> active, page |-> page,
                 item |-> 0, tr |-> nextExec]
<1>1. /\ pc = "send" /\ pc' \in {"await", "judge"} /\ Begin(r)
      /\ Submit(r) \/ pending' = pending
      /\ nextExec' = nextExec + 1 /\ cts' = 0
      /\ UNCHANGED <<turn, page, attempt, binding, active, cmd, job>>
  BY DEF Query, SendExec, Begin, place
<1>2. r \in Request
  BY <1>1, Typed DEF Request, Kinds, IInv, TypeOK, PumpTypeOK, ActiveInv
<1>3. Issued' \subseteq Issued \cup {r}
  BY <1>1, <1>2, PumpOK, SendIssued
<1>4. req' = r /\ r.kind = "s8180" /\ r.page = page /\ r.cmd = 1
  BY <1>1 DEF Begin, BInv, OriginInv
<1>5. OriginInv'
  BY <1>1, <1>3, <1>4 DEF BInv, OriginInv
<1>6. PageInv'
  BY <1>1, <1>4 DEF BInv, PageInv, Busy, Resting
<1>7. UsedInv'
  <2>1. UNCHANGED <<Tried, PagesBefore(turn)>> /\ Used' = Used + 1 /\ Used \in Int
    <3>1. UNCHANGED <<attempt, binding, turn>> /\ nextExec' = nextExec + 1
      BY <1>1
    <3>2. Tried' = Tried
      BY <3>1 DEF Tried
    <3>3. PagesBefore(turn)' = PagesBefore(turn)
      BY <3>1 DEF PagesBefore
    <3>4. nextExec \in Nat /\ ExecBase \in Nat
      BY Typed
    <3>5. Used' = Used + 1 /\ Used \in Int
      BY <3>1, <3>4 DEF Used
    <3> QED  BY <3>2, <3>3, <3>5
  <2>2. Used <= (PagesBefore(turn) + (page - 1)) * Tries + Tried
    BY <1>1 DEF BInv, UsedInv
  <2>3. (PagesBefore(turn) + (page - 1)) * Tries \in Nat /\ Tried \in Nat
    <3>1. PagesBefore(turn) + (page - 1) \in Nat
      BY Typed, PagesAdd
    <3> QED  BY <3>1, OneMore, TriesTyped, OneOfTries DEF BInv
  <2>4. Used' <= (PagesBefore(turn) + (page - 1)) * Tries + (Tried + 1)
    BY <2>1, <2>2, <2>3
  <2>5. ((PagesBefore(turn) + (page - 1)) * Tries + (Tried + 1))'
          = (PagesBefore(turn) + (page - 1)) * Tries + (Tried + 1)
    BY <1>1, <2>1 DEF Tries, Bindings
  <2> QED  BY <1>1, <2>4, <2>5 DEF UsedInv, Busy
<1> QED  BY <1>5, <1>6, <1>7 DEF BInv
(* SendBalance keeps BInv.                                                 *)
LEMMA AskBalanceOnceStep ==
  ASSUME IInv, BInv, AskBalance(SendBalance)
  PROVE  BInv'
<1> DEFINE r == [cmd |-> cmd, kind |-> "c8201", acct |-> active, page |-> 0,
                 item |-> 0, tr |-> nextBalance]
<1>1. /\ pc = "send" /\ pc' \in {"await", "judge"} /\ Begin(r)
      /\ Submit(r) \/ pending' = pending
      /\ UNCHANGED <<turn, page, attempt, binding, nextExec, active, cmd, job>> /\ job = "BALANCE"
  BY DEF AskBalance, SendBalance, Begin, execVars, counters, place
<1>2. r \in Request
  BY <1>1, CounterTypes DEF Request, Kinds, IInv, TypeOK, PumpTypeOK, ActiveInv
<1>3. Issued' \subseteq Issued \cup {r}
  BY <1>1, <1>2, PumpOK, SendIssued
<1>4. req' = r /\ r.kind = "c8201" /\ r.cmd = 1
  BY <1>1 DEF Begin, BInv, OriginInv
<1>5. OriginInv'
  BY <1>1, <1>3, <1>4 DEF BInv, OriginInv
<1>6. PageInv'
  BY <1>1, <1>4 DEF BInv, PageInv, Busy, Resting
<1>7. UsedInv'
  <2>1. UNCHANGED <<Used, Tried, PagesBefore(turn)>>
    BY <1>1 DEF Used, Tried, PagesBefore
  <2>2. Used <= (PagesBefore(turn) + (page - 1)) * Tries + Tried
    BY <1>1 DEF BInv, UsedInv
  <2>3. (PagesBefore(turn) + (page - 1)) * Tries \in Nat /\ Tried \in Nat /\ Used \in Int
    <3>1. PagesBefore(turn) + (page - 1) \in Nat
      BY Typed, PagesAdd
    <3>2. Tries \in Nat /\ Tried \in Nat
      BY TriesTyped, OneOfTries DEF BInv
    <3>3. (PagesBefore(turn) + (page - 1)) * Tries \in Nat
      BY <3>1, <3>2, OneMore
    <3>4. Used \in Int
      BY Typed DEF Used
    <3> QED  BY <3>2, <3>3, <3>4
  <2>4. Used <= (PagesBefore(turn) + (page - 1)) * Tries + (Tried + 1)
    BY <2>2, <2>3
  <2>5. (Used <= (PagesBefore(turn) + (page - 1)) * Tries + (Tried + 1))'
    BY <1>1, <2>1, <2>4 DEF Tries, Bindings
  <2> QED  BY <1>1, <2>5 DEF UsedInv, Busy
<1> QED  BY <1>5, <1>6, <1>7 DEF BInv

(* All requests for this page, the current one included, are the tries of  *)
(* one page more.                                                          *)
LEMMA PageSpent ==
  ASSUME IInv, BInv, pc \in Busy
  PROVE  /\ PagesBefore(turn) + page \in Nat /\ Used \in Int
         /\ (PagesBefore(turn) + page) * Tries \in Nat
         /\ Used <= (PagesBefore(turn) + page) * Tries
<1> DEFINE n == PagesBefore(turn) + (page - 1)
<1>1. n \in Nat /\ n + 1 = PagesBefore(turn) + page /\ Used \in Int
  BY Typed, PagesAdd DEF Used
<1>2. Used <= n * Tries + (Tried + 1)
  BY DEF BInv, UsedInv
<1>3. Tried \in Nat /\ Tried + 1 <= Tries /\ Tries \in Nat
  BY OneOfTries, TriesTyped DEF BInv
<1> HIDE DEF n
<1>4. n * Tries \in Nat /\ (n + 1) * Tries = n * Tries + Tries
  BY <1>1, <1>3, OneMore
<1> QED  BY <1>1, <1>2, <1>3, <1>4

(* A number bounded up to one more is bounded by what is at least one more. *)
LEMMA RoomForOne ==
  ASSUME NEW u \in Int, NEW m \in Nat, NEW x \in Nat, NEW y \in Nat,
         u <= m + (x + 1), x + 1 <= y
  PROVE  u <= m + y
  OBVIOUS

(* The probe and the retry count as tries of the page.                     *)
LEMMA AgainStep ==
  ASSUME IInv, BInv, Query(JudgeRebind \/ JudgeRetry)
  PROVE  BInv'
<1>1. /\ pc = "judge" /\ pc' = "send" /\ UNCHANGED pumpVars
      /\ UNCHANGED <<turn, page, nextExec, active, cmd, job>>
      /\ \/ AutoProbe /\ binding = "index" /\ binding' = "account_no" /\ attempt' = attempt
         \/ attempt' = attempt + 1 /\ binding' = "index"
  BY DEF Query, JudgeRebind, JudgeRetry, Judging, Rebinds, Leave, counters
<1>2. Issued' = Issued
  BY <1>1, StillPump
<1>3. OriginInv'
  BY <1>1, <1>2 DEF BInv, OriginInv
<1>4. PageInv'
  BY <1>1 DEF BInv, PageInv, Busy, Resting
<1>5. Tried \in Nat /\ Tried' \in Nat /\ Tried + 1 <= Tried'
  <2>1. attempt \in Nat \ {0} /\ binding \in {"index", "account_no"}
        /\ (binding = "account_no" => AutoProbe)
    BY Typed DEF BInv, PageInv
  <2>2. CASE AutoProbe
    BY <1>1, <2>1, <2>2 DEF Tried, Bindings
  <2>3. CASE ~AutoProbe
    BY <1>1, <2>1, <2>3 DEF Tried, Bindings
  <2> QED  BY <2>2, <2>3
<1>6. UsedInv'
  <2> DEFINE m == (PagesBefore(turn) + (page - 1)) * Tries
  <2>1. Used' = Used /\ PagesBefore(turn)' = PagesBefore(turn) /\ m' = m /\ Used \in Int
    BY <1>1, Typed DEF Used, PagesBefore, Tries, Bindings
  <2>2. Used <= m + (Tried + 1)
    BY <1>1 DEF BInv, UsedInv, Busy
  <2>3. m \in Nat
    <3>1. PagesBefore(turn) + (page - 1) \in Nat
      BY Typed, PagesAdd
    <3> QED  BY <3>1, OneMore, TriesTyped
  <2> HIDE DEF m
  <2>4. Used' <= m' + Tried'
    <3> DEFINE u == Used
               x == Tried
               y == Tried'
    <3>1. /\ u \in Int /\ x \in Nat /\ y \in Nat /\ x + 1 <= y /\ u <= m + (x + 1)
      BY <1>5, <2>1, <2>2
    <3> HIDE DEF u, x, y
    <3>2. u <= m + y
      BY <3>1, <2>3, RoomForOne
    <3>3. Used <= m + Tried'
      BY <3>2 DEF u, y
    <3> QED  BY <2>1, <3>3
  <2> QED  BY <1>1, <2>4 DEF UsedInv, Busy, m
<1> QED  BY <1>3, <1>4, <1>6 DEF BInv

(* NextPage keeps BInv: the next page is one more.                         *)
LEMMA TurnPageStep ==
  ASSUME IInv, BInv, Query(NextPage)
  PROVE  BInv'
<1>1. /\ pc = "rows" /\ pc' = "send" /\ UNCHANGED pumpVars /\ cts # 0 /\ job = "QUERY"
      /\ page' = cts /\ attempt' = 1 /\ binding' = "index"
      /\ UNCHANGED <<turn, nextExec, active, cmd, job>>
  BY DEF Query, NextPage, counters
<1>2. Issued' = Issued
  BY <1>1, StillPump
<1>3. cts = page + 1 /\ cts <= LastPage[active]
  BY <1>1 DEF BInv, PageInv, Busy
<1>4. OriginInv' /\ PageInv'
  BY <1>1, <1>2, <1>3 DEF BInv, OriginInv, PageInv, Busy, Resting
<1>5. UsedInv'
  <2> DEFINE m == (PagesBefore(turn) + page) * Tries
  <2>1. m \in Nat /\ Used \in Int /\ Used <= m
    BY <1>1, PageSpent DEF Busy
  <2>2. Tried' = 0
    BY <1>1, TriesTyped DEF Tried, Bindings
  <2>3. Used' = Used /\ PagesBefore(turn)' = PagesBefore(turn) /\ Tries' = Tries
        /\ page' - 1 = page
    BY <1>1, <1>3, Typed DEF Used, PagesBefore, Tries, Bindings
  <2>4. ((PagesBefore(turn) + (page - 1)) * Tries + Tried)' = m + 0
    BY <2>2, <2>3
  <2> HIDE DEF m
  <2> QED  BY <1>1, <2>1, <2>3, <2>4 DEF UsedInv, Busy
<1> QED  BY <1>4, <1>5 DEF BInv

(* AccountDone keeps BInv: an account has no more pages than LastPage.     *)
LEMMA LeaveAccountStep ==
  ASSUME IInv, BInv, AccountDone
  PROVE  BInv'
<1>1. /\ pc \in {"judge", "rows"} /\ pc' = "next" /\ UNCHANGED pumpVars
      /\ page' = 1 /\ attempt' = 1 /\ binding' = "index"
      /\ UNCHANGED <<turn, nextExec, cmd, job>>
  BY DEF AccountDone, ExecSucceeded, BalanceSucceeded, ExecFailed, BalanceFailed, Judging, Leave,
     FirstPage, counters
<1>2. Issued' = Issued
  BY <1>1, StillPump
<1>3. OriginInv' /\ PageInv'
  BY <1>1, <1>2 DEF BInv, OriginInv, PageInv, Busy, Resting
<1>4. UsedInv'
  <2> DEFINE m == PagesBefore(turn) + page
             n == PagesBefore(turn + 1)
  <2>1. m \in Nat /\ Used \in Int /\ Used <= m * Tries /\ m * Tries \in Nat
    BY <1>1, PageSpent DEF Busy
  <2>2. page <= LastPage[Batch[turn]]
    BY <1>1 DEF BInv, PageInv, Resting
  <2>3. n \in Nat /\ m <= n
    BY <2>2, Typed, PagesAdd
  <2>4. Used' = Used /\ n' = n /\ Tries' = Tries
    BY <1>1 DEF Used, PagesBefore, Tries, Bindings
  <2> HIDE DEF m, n
  <2>5. m * Tries <= n * Tries /\ n * Tries \in Nat
    BY <2>1, <2>3, TriesTyped, MorePages, OneMore
  <2>6. Used' <= n' * Tries'
    BY <2>1, <2>4, <2>5
  <2> QED  BY <1>1, <2>6 DEF UsedInv, Busy, n
<1> QED  BY <1>3, <1>4 DEF BInv

(* Activate, RefuseAccount, NextAccount and Export keep BInv.              *)
LEMMA BetweenStep ==
  ASSUME IInv, BInv, Activate \/ RefuseAccount \/ NextAccount \/ Export
  PROVE  BInv'
<1>1. /\ pc \in Resting /\ pc # "idle" /\ UNCHANGED pumpVars
      /\ UNCHANGED <<page, attempt, binding, nextExec, cmd, job>>
      /\ \/ pc = "activate" /\ pc' = "send" /\ active' = Batch[turn] /\ turn' = turn
         \/ pc = "activate" /\ pc' = "next" /\ turn' = turn
         \/ pc = "next" /\ pc' = "activate" /\ turn' = turn + 1
         \/ pc' \in {"export", "idle"}
  BY DEF Activate, RefuseAccount, NextAccount, Export, Resting, execVars, counters, place
<1>2. Issued' = Issued
  BY <1>1, StillPump
<1>3. OriginInv'
  BY <1>1, <1>2 DEF BInv, OriginInv, Resting
<1>4. page = 1 /\ attempt = 1 /\ binding = "index" /\ LastPage[Batch[turn]] \in Nat \ {0}
  BY <1>1, Typed, ExecAssumption DEF BInv, PageInv
<1>5. PageInv'
  BY <1>1, <1>4, Typed DEF BInv, PageInv, Busy, Resting
<1>6. UsedInv'
  <2>1. Used' = Used /\ Tries' = Tries /\ Used \in Int /\ Tries \in Nat
    BY <1>1, Typed, TriesTyped DEF Used, Tries, Bindings
  <2>2. CASE pc = "activate" /\ turn' = turn
    <3> DEFINE m == PagesBefore(turn)
               n == PagesBefore(turn + 1)
    <3>1. m \in Nat /\ n \in Nat /\ m <= n /\ m' = m /\ n' = n
      <4>1. m \in Nat /\ n \in Nat /\ m <= n
        <5>1. page = 1 /\ turn \in 1..Len(Batch)
          BY <1>4, Typed
        <5> QED  BY <1>4, <5>1, Typed, PagesAdd
      <4>2. m' = m /\ n' = n
        BY <2>2 DEF PagesBefore
      <4> QED  BY <4>1, <4>2
    <3>2. Used <= m * Tries
      BY <2>2 DEF BInv, UsedInv
    <3>3. Tried' = 0 /\ m + (page' - 1) = m
      BY <1>1, <1>4, <3>1, TriesTyped DEF Tried, Bindings
    <3> HIDE DEF m, n
    <3>4. m * Tries \in Nat /\ n * Tries \in Nat /\ m * Tries <= n * Tries
      BY <2>1, <3>1, MorePages, OneMore
    <3>5. Used' <= n' * Tries'
      BY <2>1, <3>1, <3>2, <3>4
    <3>6. Used' <= (m' + (page' - 1)) * Tries' + Tried'
      BY <2>1, <3>1, <3>2, <3>3, <3>4
    <3>7. pc' \in {"send", "next", "export", "idle"}
      BY <1>1, <2>2
    <3> QED  BY <3>5, <3>6, <3>7 DEF UsedInv, Busy, m, n
  <2>3. CASE pc = "next" /\ pc' = "activate" /\ turn' = turn + 1
    <3>1. Used <= PagesBefore(turn + 1) * Tries
      BY <2>3 DEF BInv, UsedInv
    <3>2. PagesBefore(turn)' = PagesBefore(turn + 1)
      BY <2>3 DEF PagesBefore
    <3>3. (Used <= PagesBefore(turn) * Tries)'
      BY <2>1, <3>1, <3>2
    <3> QED  BY <2>3, <3>3 DEF UsedInv, Busy
  <2>4. CASE pc' \in {"export", "idle"}
    BY <2>4 DEF UsedInv, Busy
  <2> QED  BY <1>1, <2>2, <2>3, <2>4
<1> QED  BY <1>3, <1>5, <1>6 DEF BInv

(* StartCommand keeps BInv.                                                *)
LEMMA BeginStep ==
  ASSUME IInv, BInv, OneCommand, NEW j \in Jobs, StartCommand(j)
  PROVE  BInv'
<1>1. /\ pc = "idle" /\ pc' = "activate" /\ cmd' = cmd + 1 /\ cmd < 1 /\ UNCHANGED pumpVars
      /\ turn' = 1 /\ nextExec' = ExecBase
      /\ UNCHANGED <<page, attempt, binding>>
  BY DEF StartCommand, OneCommand, place
<1>2. Issued' = Issued
  BY <1>1, StillPump
<1>3. OriginInv'
  BY <1>1, <1>2 DEF BInv, OriginInv
<1>4. PageInv'
  BY <1>1 DEF BInv, PageInv, Busy, Resting
<1>5. UsedInv'
  <2>1. Used' = 0 /\ PagesBefore(turn)' = 0 /\ Tries' \in Nat
    <3>1. PagesBefore(turn)' = PagesBefore(1)
      BY <1>1 DEF PagesBefore
    <3> QED  BY <1>1, <3>1, NoPagesBefore, TriesTyped, ExecAssumption DEF Used, Tries, Bindings
  <2>2. (Used <= PagesBefore(turn) * Tries)'
    BY <2>1
  <2> QED  BY <1>1, <2>2 DEF UsedInv, Busy
<1> QED  BY <1>3, <1>4, <1>5 DEF BInv

LEMMA BudgetInit == Init => BInv
<1> SUFFICES ASSUME Init PROVE BInv
  OBVIOUS
<1>1. Issued = {} /\ pc = "idle" /\ cmd = 0 /\ page = 1 /\ attempt = 1 /\ binding = "index"
  BY DEF Init, PumpInit, ExecInit, Issued
<1> QED  BY <1>1 DEF BInv, OriginInv, PageInv, UsedInv, Busy, Resting

LEMMA BudgetStep ==
  ASSUME OneCommand, IInv, BInv, [Next]_vars
  PROVE  BInv'
<1>1. CASE \E j \in Jobs : StartCommand(j)
  BY <1>1, BeginStep
<1>2. CASE Serve
  <2>1. ASSUME NEW e \in queue, Exchange(ReceiveError(e)) \/ Exchange(IgnoreEvent(e))
        PROVE  BInv'
    BY <2>1, WaitStep
  <2>2. ASSUME NEW e \in queue, Query(ExecEvent(e)) PROVE BInv'
    <3>1. \/ Query(ExecData(e)) \/ Query(ExecMessage(e) \/ ExecComplete(e))
          \/ Query(SplitData(e) \/ SplitMessage(e) \/ SplitComplete(e))
      BY <2>2 DEF ExecEvent, Query
    <3> QED  BY <3>1, PagingStep, WaitStep
  <2>3. ASSUME Query(ExecStep) PROVE BInv'
    <3>1. \/ Query(SendExec) \/ Query(JudgePageDone \/ FileWholeRow \/ JudgeSplit)
          \/ Query(JudgeRebind \/ JudgeRetry) \/ Query(SendSplit) \/ Query(NextPage)
          \/ \E e \in queue : Query(ExecEvent(e))
      BY <2>3 DEF ExecStep, Query
    <3> QED  BY <2>2, <3>1, AskPageStep, RowStep, AgainStep, LookUpStep, TurnPageStep
  <2>4. ASSUME AskBalance(BalanceStep) PROVE BInv'
    <3>1. AskBalance(SendBalance) \/ \E e \in queue : AskBalance(BalanceEvent(e))
      BY <2>4 DEF BalanceStep, AskBalance
    <3> QED  BY <3>1, AskBalanceOnceStep, WaitStep
  <2> QED
    BY <1>2, <2>1, <2>3, <2>4, BetweenStep, LateStep, LeaveAccountStep DEF Serve
<1>3. CASE Deliver
  <2>1. Issued' \subseteq Issued
    BY <1>3, PumpOK, BrokerKeeps DEF Deliver
  <2>2. UNCHANGED Counted /\ UNCHANGED <<cts, pc, req>>
    BY <1>3 DEF Deliver, Counted, flowVars, execVars, counters, place, yield
  <2> QED  BY <2>1, <2>2, Aside
<1>4. CASE UNCHANGED vars
  <2>1. Issued' = Issued
    BY <1>4, StillPump DEF vars
  <2>2. UNCHANGED Counted /\ UNCHANGED <<cts, pc, req>>
    BY <1>4 DEF vars, Counted, flowVars, execVars, counters, place, yield
  <2> QED  BY <2>1, <2>2, Aside
<1> QED  BY <1>1, <1>2, <1>3, <1>4 DEF Next

-----------------------------------------------------------------------------
(* The theorem.                                                            *)

(* Whatever the broker refuses, leaves unanswered or answers late, the     *)
(* requests for a page are no more than the attempts and bindings it got   *)
(* to, beyond MaxAttempts under each binding for every page before it, and *)
(* no page is asked for that the account does not have.                    *)
THEOREM RequestsAreBounded == OneCommand => (Spec => []RequestBudget)
<1> SUFFICES ASSUME OneCommand PROVE Spec => []RequestBudget
  OBVIOUS
<1>1. IInv /\ BInv /\ [Next]_vars => BInv'
  BY BudgetStep
<1>2. IInv /\ BInv => RequestBudget
  <2> SUFFICES ASSUME IInv, BInv, pc \in {"send", "await", "drain", "judge", "rows"}
               PROVE  RequestBudget
    BY DEF RequestBudget
  <2> DEFINE k == (PagesBefore(turn) + (page - 1)) * Tries
  <2>1. page <= LastPage[active]
    BY DEF BInv, PageInv, Resting
  <2>2. Tried \in Nat
    BY OneOfTries DEF BInv
  <2>3. pc = "send" => Used <= k + Tried
    BY DEF BInv, UsedInv
  <2>4. pc # "send" => Used <= k + (Tried + 1)
    BY DEF BInv, UsedInv, Busy
  <2> HIDE DEF k
  <2>5. Used <= k + (Tried + (IF pc = "send" THEN 0 ELSE 1))
    BY <2>2, <2>3, <2>4
  <2> QED  BY <2>1, <2>5 DEF RequestBudget, Used, k
<1>3. Init => BInv
  BY BudgetInit
<1> QED  BY Inductive, <1>1, <1>2, <1>3, PTL DEF Spec
=============================================================================
