----------------------------- MODULE EventPump -----------------------------
(***************************************************************************)
(* One TR exchange of fetch.exe with the broker's DLL.                     *)
(*                                                                         *)
(* wmca.dll delivers every answer as a window message; qv_wnd_proc copies  *)
(* it into g_event_queue, and the single query thread pops the queue in    *)
(* the wait loop of the TR it is running.  The loops of s8180, s8118 and   *)
(* c8201 share what is here: the discard before a submit, the clock, the   *)
(* error exit and the drain.  ExecQuery and BalanceQuery add the rest.     *)
(*                                                                         *)
(* The DLL and the broker behind it are external.  They are honest (an     *)
(* answer carries the data of the request it answers) but they owe         *)
(* nothing: an answer may come at any time, also after the client gave up, *)
(* may be refused, broken off by an error, or never come.                  *)
(***************************************************************************)
EXTENDS Naturals, Sequences, FiniteSets

CONSTANTS
  Accounts,    (* the account numbers of the login answer               *)
  NoAccount,   (* no account is active yet                              *)
  Chunks,      (* outblock1 events the broker cuts one s8180 page into  *)
  RejectCodes, (* codes of the message that refuses a password          *)
  MaxStale     (* bound: abandoned requests that may still be answered  *)

ASSUME PumpAssumption ==
  /\ NoAccount \notin Accounts
  /\ Chunks \in Nat \ {0}
  /\ MaxStale \in Nat

VARIABLES
  queue,       (* g_event_queue: its entries, each with its position    *)
  pending,     (* requests the broker may still answer, with what it    *)
               (* has sent of each                                      *)
  link,        (* the DLL's connection to the broker is up              *)
  pc,          (* where the query thread is                             *)
  cmd,         (* number of the command being served                    *)
  active,      (* active_account_, the account being queried            *)
  req,         (* the request of the running wait loop                  *)
  sawTerminal, (* saw_terminal of drain_events_for_tr                   *)
  outcome,     (* how the running exchange ended                        *)
  msgCode      (* server_message_code of the running exchange           *)

pumpVars == <<queue, pending, link>>
flowVars == <<pc, cmd, active, req, sawTerminal, outcome, msgCode>>

-----------------------------------------------------------------------------
(* Requests, answers and events.                                           *)

Kinds == {"s8180", "s8118", "c8201"}

(* page and item say what is asked: a page of executions, or the details   *)
(* of one of its rows.  tr is the tr_index; cmd is known to the broker     *)
(* only in that an answer carries the data that command asked for.         *)
Request == [cmd: Nat, kind: Kinds, acct: Accounts, page: Nat, item: Nat, tr: Nat]

NoRequest ==
  [cmd |-> 0, kind |-> "none", acct |-> NoAccount, page |-> 0, item |-> 0, tr |-> 0]

Block == [name: {"outblock1", "outblock_in", "outblock", "none"}, n: Nat]

Blocks(kind) ==
  IF kind = "s8180"
    THEN [name: {"outblock1"}, n: 1..Chunks] \cup [name: {"outblock_in"}, n: {1}]
    ELSE [name: IF kind = "s8118" THEN {"outblock"} ELSE {"outblock1", "outblock"}, n: {1}]

NoBlock == [name |-> "none", n |-> 0]

(* A QVEventEntry, at its place in the queue.  `from` is the request whose *)
(* data it carries: the code cannot see it, it sees tr.                    *)
Event == [at: Nat, code: {"data", "message", "complete", "error", "disconnected"},
          tr: Nat, block: Block, msg: RejectCodes \cup {"none"},
          from: Request \cup {NoRequest}]

Answer(r, code, block, msg) ==
  [at |-> Cardinality(queue) + 1, code |-> code, tr |-> r.tr, block |-> block,
   msg |-> msg, from |-> r]

(* is_connection_event, of the one such event a query can meet.            *)
IsConnectionEvent(e) == e.code = "disconnected"

(* erase: what is kept closes up, in the order it had.                     *)
Erase(gone) ==
  LET kept == queue \ gone
  IN  queue' = { [e EXCEPT !.at = Cardinality({f \in kept : f.at <= e.at})] : e \in kept }

-----------------------------------------------------------------------------
(* The DLL and the broker.                                                 *)

(* push_back                                                               *)
Post(e) == queue' = queue \cup {e}

(* A data block of an open request, in whatever order the broker likes.    *)
PostData(p) ==
  /\ \E b \in Blocks(p.req.kind) \ p.sent :
       /\ Post(Answer(p.req, "data", b, "none"))
       /\ pending' = (pending \ {p}) \cup {[p EXCEPT !.sent = @ \cup {b}]}
  /\ UNCHANGED link

(* The password of the request is refused: no data, only the end of the    *)
(* answer, can follow.                                                     *)
PostRejection(p) ==
  /\ p.sent = {}
  /\ \E c \in RejectCodes : Post(Answer(p.req, "message", NoBlock, c))
  /\ pending' = (pending \ {p}) \cup {[p EXCEPT !.sent = Blocks(p.req.kind)]}
  /\ UNCHANGED link

PostComplete(p) ==
  /\ p.sent = Blocks(p.req.kind)
  /\ Post(Answer(p.req, "complete", NoBlock, "none"))
  /\ pending' = pending \ {p}
  /\ UNCHANGED link

PostError(p) ==
  /\ Post(Answer(p.req, "error", NoBlock, "none"))
  /\ pending' = pending \ {p}
  /\ UNCHANGED link

(* CA_DISCONNECTED: nothing more is answered.  fetch.exe never reconnects. *)
Disconnect ==
  /\ link
  /\ link' = FALSE
  /\ Post(Answer(NoRequest, "disconnected", NoBlock, "none"))
  /\ pending' = {}

(* qv_wnd_proc runs only while the query thread pumps its messages: in the  *)
(* discard that precedes a submit, in wait_for_event and in the drain.     *)
Pumping == pc \in {"send", "rows", "await", "drain"}

Broker ==
  /\ Pumping
  /\ \/ \E p \in pending : PostData(p) \/ PostRejection(p) \/ PostComplete(p) \/ PostError(p)
     \/ Disconnect

-----------------------------------------------------------------------------
(* The client's side of an exchange.                                       *)

(* discard_stale_query_events: only connection events survive.             *)
DiscardStale == Erase({e \in queue : ~IsConnectionEvent(e)})

(* wmcaQuery.  A request over a lost connection is accepted (submit_query  *)
(* only logs the return code) and never answered.  The broker forgets      *)
(* abandoned requests beyond the last MaxStale.                            *)
Submit(r) ==
  \E kept \in SUBSET pending :
    /\ Cardinality(kept) <= MaxStale
    /\ (Cardinality(pending) <= MaxStale) => (kept = pending)
    /\ pending' = kept \cup (IF link THEN {[req |-> r, sent |-> {}]} ELSE {})

(* Starts the wait loop of r.                                              *)
Begin(r) ==
  /\ req' = r
  /\ DiscardStale
  /\ UNCHANGED <<link, cmd, active, sawTerminal, msgCode>>

Awaiting(kind) == pc = "await" /\ req.kind = kind

(* wait_for_event: e is the front of the queue.                            *)
Pop(e) ==
  /\ \A f \in queue : e.at <= f.at
  /\ Erase({e})
  /\ UNCHANGED <<pending, link>>

(* Variant the runs refute: the tr_index test is forgotten.                *)
OwnAny(e) == e.code # "disconnected"

Own(e) == e.tr = req.tr

(* The loop ends without an answer: drain what is left of this tr_index.   *)
GiveUp(how) ==
  /\ pc' = "drain"
  /\ outcome' = how
  /\ UNCHANGED <<cmd, active, req, sawTerminal>>

(* The loop ends with the answer complete.                                 *)
Conclude(how) ==
  /\ pc' = "judge"
  /\ outcome' = how
  /\ UNCHANGED <<cmd, active, req, sawTerminal>>

(* The result of the exchange is taken; its locals end.                    *)
Leave ==
  /\ req' = NoRequest
  /\ outcome' = "none"
  /\ msgCode' = "none"
  /\ sawTerminal' = FALSE
  /\ UNCHANGED <<cmd, active>>

(* Variant the runs refute: the clock is read only after an event came.    *)
TimeOutAfterEvent ==
  /\ pc = "await" /\ queue # {}
  /\ GiveUp("timeout")
  /\ UNCHANGED <<queue, pending, link, msgCode>>

(* The clock is read before the queue, so it may win over a queued answer. *)
TimeOut ==
  /\ pc = "await"
  /\ GiveUp("timeout")
  /\ UNCHANGED <<queue, pending, link, msgCode>>

(* CA_RECEIVEERROR ends the exchange whatever its tr_index.                *)
ReceiveError(e) ==
  /\ pc = "await"
  /\ Pop(e)
  /\ e.code = "error"
  /\ GiveUp("error")
  /\ UNCHANGED msgCode

(* Connection events, and events of other tr_indexes, are dropped.         *)
IgnoreEvent(e) ==
  /\ pc = "await"
  /\ Pop(e)
  /\ IsConnectionEvent(e) \/ (e.code # "error" /\ ~Own(e))
  /\ UNCHANGED flowVars

(* One turn of drain_events_for_tr: erase this tr_index's events; leave    *)
(* when its last event has been seen and nothing was left to erase, or     *)
(* when the drain's own time is up.                                        *)
DrainMatches == {e \in queue : Own(e) /\ ~IsConnectionEvent(e)}

DrainTurn ==
  /\ pc = "drain"
  /\ Erase(DrainMatches)
  /\ sawTerminal' = (sawTerminal \/ \E e \in DrainMatches : e.code \in {"complete", "error"})
  /\ \/ pc' = "judge"
     \/ pc' = pc /\ ~(sawTerminal' /\ DrainMatches = {})
  /\ UNCHANGED <<pending, link, cmd, active, req, outcome, msgCode>>

-----------------------------------------------------------------------------

PumpInit ==
  /\ queue = {}
  /\ pending = {}
  /\ link = TRUE
  /\ pc = "idle"
  /\ cmd = 0
  /\ active = NoAccount
  /\ req = NoRequest
  /\ sawTerminal = FALSE
  /\ outcome = "none"
  /\ msgCode = "none"

PumpTypeOK ==
  /\ queue \subseteq Event
  /\ pending \subseteq [req: Request, sent: SUBSET Block]
  /\ link \in BOOLEAN
  /\ pc \in {"idle", "activate", "send", "await", "drain", "judge", "rows", "next", "export"}
  /\ cmd \in Nat
  /\ active \in Accounts \cup {NoAccount}
  /\ req \in Request \cup {NoRequest}
  /\ sawTerminal \in BOOLEAN
  /\ outcome \in {"none", "ok", "timeout", "error", "rejected", "nohash"}
  /\ msgCode \in RejectCodes \cup {"none"}
=============================================================================
