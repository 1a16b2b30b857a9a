----------------------------- MODULE FetchMain -----------------------------
(***************************************************************************)
(* One-shot fetch.exe (main) and the Python caller that waits for it:      *)
(* FetchService.run starts it for one account, run_multi for a batch.  The *)
(* caller looks at the exit code, then for the file, then reads the file   *)
(* (load_fetch_json).  What login and query do inside is FetchSession; the *)
(* export is AtomicExport.                                                 *)
(***************************************************************************)
EXTENDS AtomicExport

CONSTANTS
  Modes,      (* modes used, of "single" and "batch"                       *)
  Concurrent  (* processes may overlap                                     *)

ASSUME MainAssumption ==
  /\ Modes \subseteq {"single", "batch"}
  /\ Concurrent \in BOOLEAN

VARIABLES
  mode,   (* how each process was started                                  *)
  code,   (* its exit code; 1 when it was killed or an exception ended it  *)
  result  (* what its caller has: "none" yet, "error", or the file it read *)

vars == <<exportVars, mode, code, result>>

Running(p) == pc[p] \notin {"new", "exit"}

Exit(p, c) ==
  /\ Goto(p, "exit")
  /\ code' = [code EXCEPT ![p] = c]

-----------------------------------------------------------------------------

Start(p) ==
  /\ pc[p] = "new"
  /\ Concurrent \/ \A q \in Procs : ~Running(q) /\ (pc[q] = "exit" => result[q] # <<"none">>)
  /\ \E m \in Modes : mode' = [mode EXCEPT ![p] = m]
  /\ Goto(p, "load")
  /\ UNCHANGED <<out, tmp, put, good, refused, code, result>>

(* load_dll, and in batch mode parse_batch_accounts.                       *)
LoadDll(p) ==
  /\ pc[p] = "load"
  /\ \/ Goto(p, "login") /\ code' = code
     \/ Exit(p, 10)
     \/ mode[p] = "batch" /\ Exit(p, 30)
  /\ UNCHANGED <<out, tmp, put, good, refused, mode, result>>

LogIn(p) ==
  /\ pc[p] = "login"
  /\ \/ Goto(p, "query") /\ code' = code
     \/ Exit(p, 20)
  /\ UNCHANGED <<out, tmp, put, good, refused, mode, result>>

(* fetch_executions, or run_batch_query up to its export.                  *)
QueryDone(p) ==
  /\ pc[p] = "query"
  /\ \/ Goto(p, "open") /\ code' = code
     \/ Exit(p, 30)
  /\ UNCHANGED <<out, tmp, put, good, refused, mode, result>>

(* run_batch_query turns a failed export into a failed query.              *)
Finish(p) ==
  /\ \/ pc[p] = "saved" /\ Exit(p, 0)
     \/ pc[p] = "unsaved" /\ Exit(p, IF mode[p] = "batch" THEN 30 ELSE 40)
  /\ UNCHANGED <<out, tmp, put, good, refused, mode, result>>

Killed(p) ==
  /\ Running(p)
  /\ Exit(p, 1)
  /\ UNCHANGED <<out, tmp, put, good, refused, mode, result>>

(* Variant the runs refute: the caller does not look at the exit code.     *)
CollectAnyFile(p) ==
  /\ pc[p] = "exit" /\ result[p] = <<"none">>
  /\ result' = [result EXCEPT ![p] =
       IF out # NoFile /\ Len(out) = Parts THEN out ELSE <<"error">>]
  /\ UNCHANGED <<exportVars, mode, code>>

(* subprocess.run has returned; a file cut short does not parse.           *)
Collect(p) ==
  /\ pc[p] = "exit" /\ result[p] = <<"none">>
  /\ result' = [result EXCEPT ![p] =
       IF code[p] = 0 /\ out # NoFile /\ Len(out) = Parts THEN out ELSE <<"error">>]
  /\ UNCHANGED <<exportVars, mode, code>>

-----------------------------------------------------------------------------

Init ==
  /\ ExportInit
  /\ mode = [p \in Procs |-> "single"]
  /\ code = [p \in Procs |-> 0]
  /\ result = [p \in Procs |-> <<"none">>]

Next ==
  \E p \in Procs :
    \/ Start(p) \/ LoadDll(p) \/ LogIn(p) \/ QueryDone(p)
    \/ ExportStep(p) /\ UNCHANGED <<mode, code, result>>
    \/ Finish(p) \/ Killed(p) \/ Collect(p)

Spec == Init /\ [][Next]_vars

-----------------------------------------------------------------------------
(* Properties.                                                             *)

(* Every variable has its type.                                            *)
TypeOK ==
  /\ ExportTypeOK
  /\ mode \in [Procs -> {"single", "batch"}]
  /\ code \in [Procs -> {0, 1, 10, 20, 30, 40}]
  /\ result \in [Procs -> {<<"none">>, <<"error">>} \cup Seq(Procs \cup {Hole})]

(* c is the document of p, or the beginning of one.                        *)
Fragment(c, p) == c \in Seq({p}) /\ Len(c) <= Parts

(* Whoever opens the output finds no file or the document of one process,  *)
(* cut short only when the disk was full: neither a kill at any point nor  *)
(* what an earlier process left in the temporary file shows through.       *)
WholeOrNothing ==
  out # NoFile => \E p \in Procs : Fragment(out, p) /\ (Len(out) < Parts => ~good[p])

(* A caller that gets trades has those of the process it started, never    *)
(* the file of an earlier day's or earlier try's export.                   *)
TradesAreOwn ==
  \A p \in Procs : result[p] \in {<<"none">>, <<"error">>, Document(p)}

(* Once a process has exported there is a file, whatever later processes   *)
(* run into, unless the system refuses one of their renames.  write_atomic *)
(* keeps this among processes that run one after the other; of two that    *)
(* overlap, the loser removes what the winner exported.                    *)
ExportSurvives ==
  (\E p \in Procs : pc[p] = "exit" /\ code[p] = 0) => out # NoFile \/ refused # {}

-----------------------------------------------------------------------------
(* The inductive invariant behind these, when processes run one after the  *)
(* other (proved in FetchMainProofs).                                      *)

(* p runs, or has ended and its caller has not looked yet.                 *)
Busy(p) == Running(p) \/ (pc[p] = "exit" /\ result[p] = <<"none">>)

(* p has exported, and its caller has not read the file yet.               *)
Saved(p) == pc[p] = "saved" \/ (pc[p] = "exit" /\ code[p] = 0 /\ result[p] = <<"none">>)

OneAtATime == \A p, q \in Procs : Busy(p) /\ Busy(q) => p = q

UnwrittenInv ==
  \A p \in Procs : pc[p] \in {"new", "load", "login", "query", "open"} => put[p] = 0 /\ good[p]

(* While p writes, the temporary file holds what its stream took.          *)
StreamInv ==
  \A p \in Procs : pc[p] = "write" =>
    /\ tmp \in Seq({p}) /\ Len(tmp) <= put[p]
    /\ good[p] => Len(tmp) = put[p]

(* What p is about to rename is its document.                              *)
RenameInv ==
  \A p \in Procs : pc[p] \in {"rename", "remove", "again"} =>
    /\ Fragment(tmp, p)
    /\ Len(tmp) < Parts => ~good[p]

SavedInv == \A p \in Procs : Saved(p) => Fragment(out, p)

RefusedInv == (\E p \in Procs : pc[p] \in {"remove", "again"}) => refused # {}

MInv ==
  /\ TypeOK /\ OneAtATime
  /\ UnwrittenInv /\ StreamInv /\ RenameInv /\ SavedInv /\ RefusedInv
  /\ WholeOrNothing /\ TradesAreOwn /\ ExportSurvives

=============================================================================
