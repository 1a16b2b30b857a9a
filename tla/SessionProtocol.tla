-------------------------- MODULE SessionProtocol --------------------------
(***************************************************************************)
(* FetchService (the Python client) and run_session_loop (fetch.exe        *)
(* --session) over the two pipes between them.  A request is several       *)
(* lines, a response is one; neither says which the other belongs to, and  *)
(* the client reads without a timeout.  What a command does once its lines *)
(* are read is FetchSession; here it takes a while and succeeds or not.    *)
(***************************************************************************)
EXTENDS Naturals, Sequences

CONSTANTS
  NotInt,         (* of a line: std::stoi reads no int from it             *)
  TradePasswords, (* trade passwords, as std::stoi reads them              *)
  Selections,     (* lists of accounts the user selects: "sel" is a line   *)
                  (* that fetch.exe accepts, "badsel" one that passes only *)
                  (* the check of the client (isdigit of other scripts)    *)
  MaxSelections,  (* bound: accounts in one request                        *)
  MaxRequests     (* bound: requests of the client                         *)

ASSUME ProtocolAssumption ==
  /\ NotInt \notin Nat
  /\ TradePasswords \subseteq Nat \cup {NotInt}
  /\ Selections \subseteq Seq({"sel", "badsel"}) \ {<<>>}
  /\ MaxSelections \in Nat
  /\ \A s \in Selections : Len(s) <= MaxSelections
  /\ MaxRequests \in Nat

VARIABLES
  client,    (* what the client waits for                                  *)
  handle,    (* _session_proc is not None                                  *)
  then,      (* what close_session was called for                          *)
  asked,     (* the last request                                           *)
  result,    (* what it returned or raised                                 *)
  stdin,     (* lines written and not yet read                             *)
  stdout,    (* responses written and not yet read                         *)
  srv,       (* what run_session_loop reads next                           *)
  loggedIn,  (* logged_in                                                  *)
  current,   (* the request whose command line is being served             *)
  left,      (* selection lines still to be read                           *)
  got,       (* selections                                                 *)
  password,  (* trade_password                                             *)
  done       (* requests carried out, a history                            *)

clientVars == <<client, handle, then, asked, result>>
serverVars == <<srv, loggedIn, current, left, got, password, done>>
vars == <<clientVars, stdin, stdout, serverVars>>

-----------------------------------------------------------------------------
(* Lines and requests.                                                     *)

(* A line and the number of the request it was written for.  Dates, paths  *)
(* and credentials are "field"; `int` is what std::stoi would make of a    *)
(* line that stands where a count may stand.                               *)
Line(text, int, of) == [text |-> text, int |-> int, of |-> of]

Fields(n, of) == [i \in 1..n |-> Line("field", NotInt, of)]

SelectionLines(sels, of) == [i \in DOMAIN sels |-> Line(sels[i], NotInt, of)]

NoRequest == [no |-> 0, kind |-> "none", pw |-> NotInt, sels |-> <<>>]

Lines(r) ==
  <<Line(r.kind, NotInt, r.no)>> \o
  CASE r.kind = "LOGIN"   -> Fields(3, r.no)
    [] r.kind = "QUERY"   -> Fields(2, r.no) \o <<Line("field", r.pw, r.no),
                             Line("field", Len(r.sels), r.no)>> \o SelectionLines(r.sels, r.no)
    [] r.kind = "BALANCE" -> Fields(1, r.no) \o <<Line("field", Len(r.sels), r.no)>>
                             \o SelectionLines(r.sels, r.no)
    [] r.kind = "SHUTDOWN" -> <<>>

Alive == srv # "exited"

-----------------------------------------------------------------------------
(* The client.                                                             *)

(* _send_session_lines up to readline.                                     *)
Send(r) ==
  /\ asked' = r
  /\ stdin' = stdin \o Lines(r)
  /\ client' = "waiting"
  /\ result' = "none"

Calls == { [no |-> asked.no + 1, kind |-> "QUERY", pw |-> p, sels |-> s] :
             p \in TradePasswords, s \in Selections }
         \cup { [no |-> asked.no + 1, kind |-> "BALANCE", pw |-> NotInt, sels |-> s] :
             s \in Selections }

(* run_multi_session, run_balance_session.  When poll() finds the process  *)
(* gone nothing is sent: FetchError, and the handle stays, so that only a  *)
(* new login helps.                                                        *)
Ask(r) ==
  /\ client = "idle" /\ handle /\ Alive /\ asked.no < MaxRequests
  /\ Send(r)
  /\ UNCHANGED <<handle, then, stdout, serverVars>>

(* close_session, before a login, when the user cancels or at the end.     *)
CloseSession(next) ==
  /\ client = "idle"
  /\ next = "open" => asked.no < MaxRequests
  /\ handle' = FALSE
  /\ then' = next
  /\ IF handle /\ Alive
       THEN client' = "closing" /\ stdin' = stdin \o Lines([NoRequest EXCEPT !.kind = "SHUTDOWN"])
       ELSE client' = "closed" /\ stdin' = stdin
  /\ UNCHANGED <<asked, result, stdout, serverVars>>

(* Whatever line comes, or the end of the stream; then terminate().        *)
Terminate ==
  /\ client = "closing" /\ (stdout # <<>> \/ ~Alive)
  /\ client' = "closed"
  /\ srv' = "exited"
  /\ UNCHANGED <<handle, then, asked, result, stdin, stdout, loggedIn, current, left, got,
                 password, done>>

Closed ==
  /\ client = "closed" /\ then # "open"
  /\ client' = IF then = "exit" THEN "gone" ELSE "idle"
  /\ UNCHANGED <<handle, then, asked, result, stdin, stdout, serverVars>>

(* The rest of open_session: Popen with fresh pipes, and LOGIN.            *)
Spawn ==
  /\ client = "closed" /\ then = "open"
  /\ handle' = TRUE
  /\ LET r == [NoRequest EXCEPT !.no = asked.no + 1, !.kind = "LOGIN"]
     IN  asked' = r /\ stdin' = Lines(r)
  /\ client' = "waiting" /\ result' = "none"
  /\ stdout' = <<>>
  /\ srv' = "command" /\ loggedIn' = FALSE /\ current' = NoRequest
  /\ left' = 0 /\ got' = <<>> /\ password' = NotInt
  /\ UNCHANGED <<then, done>>

(* readline returned the answer or, at the end of the stream, nothing.  A  *)
(* failed LOGIN ends in close_session(force=True).                         *)
Return(how) ==
  /\ client = "waiting"
  /\ result' = how
  /\ client' = "idle"
  /\ IF asked.kind = "LOGIN" /\ how # "ok"
       THEN handle' = FALSE /\ srv' = "exited"
       ELSE handle' = handle /\ srv' = srv
  /\ UNCHANGED <<then, asked, stdin, loggedIn, current, left, got, password, done>>

(* Variant the runs refute: the "ok" of the answer is not looked at.       *)
ReceiveUnchecked ==
  /\ stdout # <<>>
  /\ Return("ok")
  /\ stdout' = Tail(stdout)

Receive ==
  /\ stdout # <<>>
  /\ Return(IF Head(stdout).ok THEN "ok" ELSE "error")
  /\ stdout' = Tail(stdout)

ReadEnd ==
  /\ stdout = <<>> /\ ~Alive
  /\ Return("error")
  /\ stdout' = stdout

(* The Python process is killed.                                           *)
ClientKilled ==
  /\ client # "gone"
  /\ client' = "gone"
  /\ UNCHANGED <<handle, then, asked, result, stdin, stdout, serverVars>>

-----------------------------------------------------------------------------
(* run_session_loop.                                                       *)

(* n calls of read_protocol_line.                                          *)
Read(n) ==
  /\ Len(stdin) >= n
  /\ stdin' = SubSeq(stdin, n + 1, Len(stdin))

Respond(no, ok) == stdout' = Append(stdout, [of |-> no, ok |-> ok])

(* The command is over, its answer given.                                  *)
Reply(ok) ==
  /\ Respond(current.no, ok)
  /\ srv' = "command"
  /\ left' = 0 /\ got' = <<>> /\ password' = NotInt

Payload == [LOGIN |-> 3, QUERY |-> 3, BALANCE |-> 2]

ReadCommand ==
  /\ srv = "command"
  /\ Read(1)
  /\ LET line == Head(stdin)
     IN  /\ current' = [no |-> line.of, kind |-> line.text]
         /\ \/ line.text \in DOMAIN Payload /\ srv' = "payload" /\ stdout' = stdout
            \/ line.text = "SHUTDOWN" /\ srv' = "exited" /\ Respond(line.of, TRUE)
            \/ /\ line.text \notin DOMAIN Payload \cup {"SHUTDOWN"}
               /\ srv' = srv /\ Respond(line.of, FALSE)
  /\ UNCHANGED <<clientVars, loggedIn, left, got, password, done>>

Login ==
  /\ srv = "payload" /\ current.kind = "LOGIN"
  /\ Read(3)
  /\ \E ok \in BOOLEAN :
       /\ loggedIn' = (loggedIn \/ ok)
       /\ done' = IF ok /\ ~loggedIn THEN done \cup {current.no} ELSE done
       /\ Reply(ok /\ ~loggedIn)
  /\ UNCHANGED <<clientVars, current>>

(* Variant the runs refute: the last selection is not counted.             *)
TakeCountShort(n) ==
  IF n # NotInt /\ n > 0
    THEN srv' = "selections" /\ left' = (IF n > 1 THEN n - 1 ELSE n) /\ got' = <<>> /\ stdout' = stdout
    ELSE Respond(current.no, FALSE) /\ srv' = "command" /\ left' = 0 /\ got' = <<>>

(* The number of selections, or the refusal that leaves the rest of the    *)
(* payload where it is.                                                    *)
TakeCount(n) ==
  IF n # NotInt /\ n > 0
    THEN srv' = "selections" /\ left' = n /\ got' = <<>> /\ stdout' = stdout
    ELSE Respond(current.no, FALSE) /\ srv' = "command" /\ left' = 0 /\ got' = <<>>

(* QUERY: the fourth line is the count when it reads as an int, the trade  *)
(* password otherwise.                                                     *)
ReadQuery ==
  /\ srv = "payload" /\ current.kind = "QUERY"
  /\ Read(3)
  /\ IF ~loggedIn \/ stdin[3].int # NotInt
       THEN TakeCount(IF loggedIn THEN stdin[3].int ELSE NotInt) /\ password' = NotInt
       ELSE srv' = "count" /\ UNCHANGED <<stdout, left, got>> /\ password' = stdin[3].int
  /\ UNCHANGED <<clientVars, loggedIn, current, done>>

ReadCount ==
  /\ srv = "count"
  /\ Read(1)
  /\ TakeCount(stdin[1].int)
  /\ UNCHANGED <<clientVars, loggedIn, current, password, done>>

ReadBalance ==
  /\ srv = "payload" /\ current.kind = "BALANCE"
  /\ Read(2)
  /\ TakeCount(IF loggedIn THEN stdin[2].int ELSE NotInt)
  /\ UNCHANGED <<clientVars, loggedIn, current, password, done>>

(* Variant the runs refute: the selections after a bad one stay unread.    *)
ReadSelectionNoDiscard ==
  /\ srv = "selections"
  /\ Read(1)
  /\ IF stdin[1].text = "sel"
       THEN /\ got' = Append(got, stdin[1].text) /\ left' = left - 1
            /\ srv' = IF left = 1 THEN "run" ELSE srv
            /\ UNCHANGED <<stdout, password>>
       ELSE Reply(FALSE)
  /\ UNCHANGED <<clientVars, loggedIn, current, done>>

(* Variant the runs refute: the discard does not count the bad line.       *)
ReadSelectionAlwaysDiscards ==
  /\ srv = "selections"
  /\ Read(1)
  /\ IF stdin[1].text = "sel"
       THEN /\ got' = Append(got, stdin[1].text) /\ left' = left - 1
            /\ srv' = IF left = 1 THEN "run" ELSE srv
            /\ UNCHANGED <<stdout, password>>
       ELSE /\ Respond(current.no, FALSE) /\ srv' = "discard" /\ left' = left - 1
            /\ UNCHANGED <<got, password>>
  /\ UNCHANGED <<clientVars, loggedIn, current, done>>

(* Variant the runs refute: a bad line is not answered before the rest is  *)
(* dropped.                                                                *)
ReadSelectionSilent ==
  /\ srv = "selections"
  /\ Read(1)
  /\ IF stdin[1].text = "sel"
       THEN /\ got' = Append(got, stdin[1].text) /\ left' = left - 1
            /\ srv' = IF left = 1 THEN "run" ELSE srv
            /\ UNCHANGED <<stdout, password>>
       ELSE IF left = 1
         THEN Reply(FALSE)
         ELSE srv' = "discard" /\ left' = left - 1 /\ UNCHANGED <<stdout, got, password>>
  /\ UNCHANGED <<clientVars, loggedIn, current, done>>

(* A bad selection line is answered at once; the selections after it are   *)
(* then read and dropped.                                                  *)
ReadSelection ==
  /\ srv = "selections"
  /\ Read(1)
  /\ IF stdin[1].text = "sel"
       THEN /\ got' = Append(got, stdin[1].text) /\ left' = left - 1
            /\ srv' = IF left = 1 THEN "run" ELSE srv
            /\ UNCHANGED <<stdout, password>>
       ELSE IF left = 1
         THEN Reply(FALSE)
         ELSE /\ Respond(current.no, FALSE) /\ srv' = "discard" /\ left' = left - 1
              /\ UNCHANGED <<got, password>>
  /\ UNCHANGED <<clientVars, loggedIn, current, done>>

Discard ==
  /\ srv = "discard"
  /\ Read(1)
  /\ left' = left - 1
  /\ IF left = 1
       THEN srv' = "command" /\ got' = <<>> /\ password' = NotInt
       ELSE UNCHANGED <<srv, got, password>>
  /\ UNCHANGED <<clientVars, stdout, loggedIn, current, done>>

(* run_batch_query, run_balance_query.                                     *)
Run ==
  /\ srv = "run"
  /\ \E ok \in BOOLEAN :
       /\ done' = IF ok THEN done \cup {current.no} ELSE done
       /\ Reply(ok)
  /\ UNCHANGED <<clientVars, stdin, loggedIn, current>>

(* Lines that the next step of the loop reads.                             *)
Wanted ==
  IF srv = "payload" THEN Payload[current.kind] ELSE IF srv = "run" THEN 0 ELSE 1

(* Variant the runs refute: at the prompt a failed getline is an empty     *)
(* line, and the loop goes on.                                             *)
EndOfInputInPayload ==
  /\ client = "gone" /\ Alive /\ srv # "command" /\ Len(stdin) < Wanted
  /\ srv' = "exited"
  /\ UNCHANGED <<clientVars, stdin, stdout, loggedIn, current, left, got, password, done>>

(* The client is gone and its lines run out: getline fails.                *)
EndOfInput ==
  /\ client = "gone" /\ Alive /\ Len(stdin) < Wanted
  /\ srv' = "exited"
  /\ UNCHANGED <<clientVars, stdin, stdout, loggedIn, current, left, got, password, done>>

Crash ==
  /\ Alive
  /\ srv' = "exited"
  /\ UNCHANGED <<clientVars, stdin, stdout, loggedIn, current, left, got, password, done>>

-----------------------------------------------------------------------------

Init ==
  /\ client = "idle" /\ handle = FALSE /\ then = "rest" /\ asked = NoRequest /\ result = "none"
  /\ stdin = <<>> /\ stdout = <<>>
  /\ srv = "exited" /\ loggedIn = FALSE /\ current = [no |-> 0, kind |-> "none"]
  /\ left = 0 /\ got = <<>> /\ password = NotInt /\ done = {}

User ==
  \/ \E r \in Calls : Ask(r)
  \/ \E next \in {"open", "rest", "exit"} : CloseSession(next)
  \/ ClientKilled

Client == Terminate \/ Closed \/ Spawn \/ Receive \/ ReadEnd

Server ==
  \/ ReadCommand \/ Login \/ ReadQuery \/ ReadCount \/ ReadBalance
  \/ ReadSelection \/ Discard \/ Run \/ EndOfInput

Next == User \/ Client \/ Server \/ Crash

Spec == Init /\ [][Next]_vars

(* Both programs run; a broker login and a query end (FetchSession).       *)
FairSpec == Spec /\ WF_vars(Client) /\ WF_vars(Server)

-----------------------------------------------------------------------------
(* Properties.                                                             *)

(* Every variable has its type.                                            *)
TypeOK ==
  /\ client \in {"idle", "waiting", "closing", "closed", "gone"}
  /\ handle \in BOOLEAN
  /\ then \in {"open", "rest", "exit"}
  /\ result \in {"none", "ok", "error"}
  /\ \A i \in DOMAIN stdin : stdin[i].of \in Nat /\ stdin[i].int \in Nat \cup {NotInt}
  /\ \A i \in DOMAIN stdout : stdout[i].ok \in BOOLEAN
  /\ srv \in {"command", "payload", "count", "selections", "discard", "run", "exited"}
  /\ loggedIn \in BOOLEAN
  /\ left \in Nat
  /\ done \subseteq 1..MaxRequests

(* A response on the pipe answers the request the client is waiting for,   *)
(* and it is the only one: crashes, refused selections and new sessions    *)
(* never make the client take one request's answer for another's.          *)
InSync ==
  /\ Len(stdout) <= 1
  /\ client = "waiting" /\ stdout # <<>> => stdout[1].of = asked.no
  /\ client = "idle" /\ handle => stdout = <<>>

(* While the client rests, nothing it wrote is left to be taken for a      *)
(* command: fetch.exe waits for one, or drops the selections of a request  *)
(* it refused.  It drops more than these only when the last request had a  *)
(* trade password that it took for their number.                           *)
AtRest ==
  client = "idle" /\ handle /\ Alive =>
    \/ srv = "command" /\ stdin = <<>>
    \/ srv = "discard" /\ Len(stdin) <= left /\ (Len(stdin) < left => asked.pw # NotInt)

(* What fetch.exe runs is what was asked: the trade password and all the   *)
(* selections of the request.                                              *)
RunsAsAsked ==
  srv = "run" /\ client = "waiting" =>
    current.no = asked.no /\ password = asked.pw /\ got = asked.sels

(* The client is a caller of ServiceCall: closing a session, and opening a *)
(* new one up to its LOGIN, are no calls.                                  *)
Promise == INSTANCE ServiceCall WITH
  phase <- CASE client = "waiting" -> "busy"
             [] client = "gone" -> "left"
             [] OTHER -> "idle",
  call <- asked.no, done <- done, answer <- result

(* The protocol implements ServiceCall: calls are made one at a time, each *)
(* is carried out at most once and only while it is the current one, and   *)
(* "ok" is said only of what was carried out.                              *)
KeepsPromise == Promise!CallSpec

(* A trade password has been taken for the number of selections, or is     *)
(* about to be: fetch.exe drops more lines than were written.              *)
Misread == asked.pw # NotInt \/ (srv = "discard" /\ left > Len(stdin))

(* Where no trade password was taken for a number, a request returns, even *)
(* if fetch.exe dies, refuses the request in its middle or still drops the *)
(* selections of the one before.                                           *)
OthersReturn == client = "waiting" /\ ~Misread ~> client # "waiting"

(* Every request returns: the answer comes, or the end of the stream.      *)
RequestReturns == client = "waiting" ~> client # "waiting"

(* fetch.exe does not outlive the program that started it.                 *)
NoOrphan == client = "gone" ~> ~Alive
=============================================================================
