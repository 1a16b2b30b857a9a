---------------------------- MODULE ServiceCall ----------------------------
(***************************************************************************)
(* What the session protocol promises the Python program: calls are made   *)
(* one at a time; each is carried out at most once, and only while it is   *)
(* the current one; "ok" means it was carried out.  FetchService and the   *)
(* session loop of fetch.exe implement this (SessionProtocol).             *)
(***************************************************************************)
EXTENDS Naturals

VARIABLES
  phase,  (* "idle", "busy" with call number `call`, or "left" for good    *)
  call,   (* number of the last call                                       *)
  done,   (* the calls carried out                                         *)
  answer  (* what the last call returned                                   *)

callVars == <<phase, call, done, answer>>

CallInit == phase = "idle" /\ call = 0 /\ done = {} /\ answer = "none"

Call ==
  /\ phase = "idle"
  /\ phase' = "busy" /\ call' = call + 1 /\ answer' = "none"
  /\ UNCHANGED done

CarryOut ==
  /\ phase \in {"busy", "left"} /\ call \notin done
  /\ done' = done \cup {call}
  /\ UNCHANGED <<phase, call, answer>>

Return ==
  /\ phase = "busy" /\ phase' = "idle"
  /\ answer' \in IF call \in done THEN {"ok", "error"} ELSE {"error"}
  /\ UNCHANGED <<call, done>>

Depart == phase # "left" /\ phase' = "left" /\ UNCHANGED <<call, done, answer>>

CallNext == Call \/ CarryOut \/ Return \/ Depart

CallSpec == CallInit /\ [][CallNext]_callVars
=============================================================================
