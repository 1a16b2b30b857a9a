------------------------------ MODULE QvLogin ------------------------------
(***************************************************************************)
(* QVAuth in one process of fetch.exe after another: load_dll, login, the  *)
(* accounts of the login answer, set_active_account and what a TR carries  *)
(* of it.  main() and run_session_loop drive it in four modes; the caller  *)
(* (FetchService) chooses accounts from a list an earlier login showed.    *)
(*                                                                         *)
(* The pages of a query are FetchSession.  wmca.dll is external: a connect *)
(* is answered at most once, with the accounts of its user, an error or a  *)
(* lost connection, at any time while the program pumps messages.          *)
(***************************************************************************)
EXTENDS Naturals, Sequences, FiniteSets

CONSTANTS
  Users,          (* user_id                                               *)
  Numbers,        (* account numbers                                       *)
  NoNumber,       (* the blank account number                              *)
  Zeros,          (* "0000000000", of a login without accounts             *)
  Lists,          (* the account lists the broker may give each user       *)
  BadPassword,    (* an account password that is not four ASCII digits     *)
  TradePasswords, (* trade passwords                                       *)
  Blank,          (* the empty string                                      *)
  Overrides,      (* QV_TRADE_PASSWORD1 and QV_TRADE_PASSWORD2             *)
  Symbols,        (* sets of optional DLL symbols that may be there        *)
  Modes,          (* modes used                                            *)
  MaxSelections,  (* bound: accounts of a command                          *)
  MaxProcesses,   (* bound: processes                                      *)
  MaxLogins,      (* bound: connects of a process                          *)
  MaxEvents       (* bound: events in the queue                            *)

ASSUME LoginAssumption ==
  /\ NoNumber \notin Numbers /\ Zeros \notin Numbers
  /\ Lists \in [Users -> SUBSET Seq(Numbers \cup {NoNumber})]
  /\ BadPassword \notin Numbers /\ Blank \notin TradePasswords
  /\ Overrides \in [{1, 2} -> TradePasswords \cup {Blank}]
  /\ Symbols \subseteq SUBSET {"index", "number", "order"}
  /\ Modes \subseteq {"session", "batch", "single", "list"}
  /\ MaxSelections \in Nat \ {0} /\ MaxProcesses \in Nat
  /\ MaxLogins \in Nat /\ MaxEvents \in Nat

VARIABLES
  known,     (* the accounts the caller was shown last                     *)
  process,   (* number of the process                                      *)
  mode,      (* its mode                                                   *)
  pc,        (* what it does; "none" when it has ended                     *)
  symbols,   (* optional symbols resolve_symbols found                     *)
  choice,    (* the accounts selected for the command, or QV_ACCOUNT_INDEX *)
  at,        (* the one being queried                                      *)
  job,       (* the command, QUERY or BALANCE                              *)
  wanted,    (* its trade password                                         *)
  user,      (* user_id of the last login                                  *)
  loggedIn,  (* logged_in of the session, or login() has returned true     *)
  events,    (* connection events of g_event_queue                         *)
  accounts,  (* accounts_                                                  *)
  index,     (* account_index_                                             *)
  number,    (* account_no_                                                *)
  password,  (* account_password_                                          *)
  trade,     (* trade_password_, trade_password1_ and trade_password2_     *)
  logins,    (* connects of this process, a count                          *)
  connects,  (* those the DLL may still answer                             *)
  registry,  (* the accounts of the DLL's connection, by index             *)
  abandoned, (* a login of this process was given up, a history            *)
  sent       (* the last TR                                                *)

callerVars == <<known, process, mode, symbols, choice, job, wanted>>
accountVars == <<accounts, index, number, password, trade>>
dllVars == <<logins, connects, registry>>
vars == <<callerVars, pc, at, user, loggedIn, events, accountVars, dllVars, abandoned, sent>>

-----------------------------------------------------------------------------
(* Accounts.  An account password is named by the account it belongs to.   *)

Account == [index: Nat, no: Numbers]

(* accounts_: the entries that have a number, each under its index in the  *)
(* login answer.                                                           *)
Listing(l) == {[index |-> i, no |-> l[i]] : i \in {j \in DOMAIN l : l[j] # NoNumber}}

(* The place of x in accounts_, counted from 1.                            *)
Place(accts, x) == Cardinality({y \in accts : y.index <= x.index})

(* QV_ACCOUNT_INDEX is a place in accounts_, moved into its range.         *)
Selected(accts, p) ==
  LET n == Cardinality(accts)
  IN  CHOOSE x \in accts : Place(accts, x) = (IF p < 1 THEN 1 ELSE IF p > n THEN n ELSE p)

Ticked == [index: Nat, no: Numbers, pw: Numbers \cup {BadPassword}]

Selection(pws) == {[index |-> x.index, no |-> x.no, pw |-> p] : x \in known, p \in pws}

(* The accounts a user ticks, each with its password.                      *)
Choices(bad) ==
  UNION {[1..n -> {s \in Selection(Numbers \cup bad) : s.pw \in {s.no} \cup bad}] :
           n \in 1..MaxSelections}

NoTr == [sent |-> FALSE]

Passwords == TradePasswords \cup {Blank}

(* configure_trade_passwords: of a QUERY with the overrides of the         *)
(* environment, of a BALANCE with nothing at all.                          *)
Configured(p) == <<p, Overrides[1], Overrides[2]>>
Unconfigured == <<Blank, Blank, Blank>>

-----------------------------------------------------------------------------
(* The process and its caller.                                             *)

Exit == pc' = "none"

(* Popen or subprocess.run: a new QVAuth and a new DLL.  A batch may carry *)
(* a password that passes only the check of the client.                    *)
Start(m) ==
  /\ pc = "none" /\ process < MaxProcesses
  /\ process' = process + 1 /\ mode' = m /\ pc' = "load"
  /\ choice' \in CASE m = "batch" -> Choices({BadPassword})
                   [] m = "single" -> {c \in Choices({}) : Len(c) = 1}
                   [] OTHER -> {<<>>}
  /\ job' = "QUERY" /\ wanted' \in IF m \in {"batch", "single"} THEN Passwords ELSE {Blank}
  /\ at' = 1 /\ loggedIn' = FALSE /\ events' = <<>> /\ symbols' = {}
  /\ accounts' = {} /\ index' = 1 /\ number' = NoNumber /\ password' = Blank
  /\ trade' = Unconfigured
  /\ logins' = 0 /\ connects' = {} /\ registry' = <<>> /\ abandoned' = FALSE /\ sent' = NoTr
  /\ UNCHANGED <<known, user>>

(* resolve_symbols: the password symbols are optional.                     *)
ResolveSymbols == symbols' \in Symbols

(* load_dll: the library, its five core symbols and the message window, or *)
(* exit code 10.                                                           *)
LoadDll ==
  /\ pc = "load"
  /\ \/ ResolveSymbols /\ pc' = IF mode = "session" THEN "ready" ELSE "credentials"
     \/ Exit /\ symbols' = symbols
  /\ UNCHANGED <<known, process, mode, choice, job, wanted, at, user, loggedIn, events,
                 accountVars, dllVars, abandoned, sent>>

(* login_with_credentials up to the wait: account_password_ is set before  *)
(* the connect, whose return value is only logged.                         *)
Connect(u, pw) ==
  /\ logins < MaxLogins
  /\ logins' = logins + 1
  /\ connects' = connects \cup {[user |-> u, no |-> logins + 1]}
  /\ user' = u /\ password' = pw /\ pc' = "connecting"

Fields == {"id", "password", "cert", "account"}

Required == IF mode = "single" THEN Fields ELSE Fields \ {"account"}

(* prompt_windows_credentials: OK takes all four boxes, trimmed, whichever *)
(* of them the user has left or made empty.                                *)
Dialog == SUBSET Fields

(* What login() has in the end of the fields the environment gives: when a *)
(* required one is missing, the dialog replaces all four, or, if it is     *)
(* cancelled, each missing one is asked for by a prompt.                   *)
Resolved(env) ==
  IF Required \subseteq env
    THEN {env}
    ELSE Dialog \cup {env \cup typed : typed \in SUBSET (Required \ env)}

(* login(): exit code 20 when a field is still missing.                    *)
LogIn ==
  /\ pc = "credentials"
  /\ \E env \in SUBSET Fields : \E have \in Resolved(env) : \E u \in Users :
       IF Required \subseteq have
         THEN Connect(u, IF mode = "single" THEN choice[1].pw ELSE Blank)
         ELSE Exit /\ UNCHANGED <<logins, connects, user, password>>
  /\ UNCHANGED <<callerVars, at, loggedIn, events, accounts, index, number, trade, registry,
                 abandoned, sent>>

(* Variant the runs refute: LOGIN is taken again in a session.             *)
SessionLoginAgain ==
  /\ pc = "ready"
  /\ \E u \in Users : Connect(u, Blank)
  /\ UNCHANGED <<callerVars, at, loggedIn, events, accounts, index, number, trade, registry,
                 abandoned, sent>>

(* LOGIN of a session that is not logged in.                               *)
SessionLogin ==
  /\ pc = "ready" /\ ~loggedIn
  /\ \E u \in Users : Connect(u, Blank)
  /\ UNCHANGED <<callerVars, at, loggedIn, events, accounts, index, number, trade, registry,
                 abandoned, sent>>

(* SHUTDOWN, or the end of the input.                                      *)
SessionEnd ==
  /\ pc = "ready"
  /\ Exit
  /\ UNCHANGED <<callerVars, at, user, loggedIn, events, accountVars, dllVars, abandoned, sent>>

-----------------------------------------------------------------------------
(* The DLL.                                                                *)

Event ==
  [code: {"connected", "noinfo", "message", "error", "lost"}, list: Seq(Numbers \cup {NoNumber})]

(* Messages are pumped in wait_for_connected and in the waits of a query.  *)
Pumping == pc \in {"connecting", "query"}

Post(code, list) == events' = Append(events, [code |-> code, list |-> list])

Deliver ==
  /\ Pumping /\ Len(events) < MaxEvents
  /\ \E c \in connects :
       \/ /\ \E l \in Lists[c.user] : Post("connected", l) /\ registry' = l
          /\ connects' = connects \ {c}
       \/ /\ \E code \in {"noinfo", "error", "lost"} : Post(code, <<>>)
          /\ connects' = connects \ {c} /\ registry' = registry
       \/ Post("message", <<>>) /\ UNCHANGED <<connects, registry>>
  /\ UNCHANGED <<callerVars, pc, at, user, loggedIn, accountVars, logins, abandoned, sent>>

-----------------------------------------------------------------------------
(* wait_for_connected.                                                     *)

Take(codes) ==
  /\ pc = "connecting" /\ events # <<>>
  /\ Head(events).code \in codes
  /\ events' = Tail(events)

(* A session answers "login failed" and reads on; otherwise exit code 20.  *)
Failed == pc' = IF mode = "session" THEN "ready" ELSE "none"

(* The accounts, the active one of them, and what the mode does next:      *)
(* write_session_accounts, write_accounts_atomic, or the query.            *)
TakeConnected ==
  /\ Take({"connected"})
  /\ accounts' = Listing(Head(events).list)
  /\ LET p == IF mode = "single" THEN choice[1].index ELSE 1
         x == Selected(accounts', p)
     IN  IF accounts' # {}
           THEN index' = x.index /\ number' = x.no
           ELSE index' = p /\ number' = Zeros
  /\ loggedIn' = TRUE
  /\ \/ mode \in {"session", "list"} /\ known' = accounts' /\ trade' = trade
     \/ mode = "list" /\ known' = known /\ trade' = trade
     \/ mode \in {"batch", "single"} /\ known' = known /\ trade' = Configured(wanted)
  /\ pc' = CASE mode = "session" -> "ready" [] mode = "list" -> "none"
             [] mode = "batch" -> "activate" [] mode = "single" -> "query"
  /\ UNCHANGED <<process, mode, symbols, choice, job, wanted, at, user, password, dllVars,
                 abandoned, sent>>

TakeMessage ==
  /\ Take({"message"})
  /\ UNCHANGED <<callerVars, pc, at, user, loggedIn, accountVars, dllVars, abandoned, sent>>

(* CA_CONNECTED without login info, CA_RECEIVEERROR, CA_DISCONNECTED or    *)
(* CA_SOCKETERROR.                                                         *)
TakeFailure ==
  /\ Take({"noinfo", "error", "lost"})
  /\ Failed
  /\ UNCHANGED <<callerVars, at, user, loggedIn, accountVars, dllVars, abandoned, sent>>

(* Variant the runs refute: the clock is looked at only when no event came.*)
TimeOutWhenQuiet ==
  /\ pc = "connecting" /\ events = <<>>
  /\ Failed
  /\ abandoned' = TRUE
  /\ UNCHANGED <<callerVars, at, user, loggedIn, events, accountVars, dllVars, sent>>

(* QV_LOGIN_TIMEOUT_MS is over: what the DLL still answers stays or comes  *)
(* into the queue, for nothing discards a connection event.                *)
TimeOut ==
  /\ pc = "connecting"
  /\ Failed
  /\ abandoned' = TRUE
  /\ UNCHANGED <<callerVars, at, user, loggedIn, events, accountVars, dllVars, sent>>

-----------------------------------------------------------------------------
(* Commands and accounts.                                                  *)

(* Variant the runs refute: a command without a trade password keeps the   *)
(* ones configured before.                                                 *)
CommandKeepsTrade ==
  /\ pc = "ready" /\ loggedIn
  /\ choice' \in Choices({})
  /\ job' \in {"QUERY", "BALANCE"}
  /\ wanted' \in IF job' = "QUERY" THEN Passwords ELSE {Blank}
  /\ trade' = IF wanted' = Blank THEN trade ELSE Configured(wanted')
  /\ at' = 1 /\ pc' = "activate"
  /\ UNCHANGED <<known, process, mode, symbols, user, loggedIn, events, accounts, index, number,
                 password, dllVars, abandoned, sent>>

(* QUERY or BALANCE: run_batch_query and run_balance_query configure the   *)
(* trade passwords first.                                                  *)
Command ==
  /\ pc = "ready" /\ loggedIn
  /\ choice' \in Choices({})
  /\ job' \in {"QUERY", "BALANCE"}
  /\ wanted' \in IF job' = "QUERY" THEN Passwords ELSE {Blank}
  /\ trade' = IF job' = "QUERY" THEN Configured(wanted') ELSE Unconfigured
  /\ at' = 1 /\ pc' = "activate"
  /\ UNCHANGED <<known, process, mode, symbols, user, loggedIn, events, accounts, index, number,
                 password, dllVars, abandoned, sent>>

(* Variant the runs refute: the loop runs one selection too far.           *)
AdvanceOneMore ==
  /\ at' = at + 1
  /\ pc' = IF at <= Len(choice) THEN "activate" ELSE IF mode = "session" THEN "ready" ELSE "none"

(* The next selected account, or the end of the command.                   *)
Advance ==
  /\ at' = at + 1
  /\ pc' = IF at < Len(choice) THEN "activate" ELSE IF mode = "session" THEN "ready" ELSE "none"

(* Variant the runs refute: a refused account is queried all the same.     *)
ActivateAnyway ==
  /\ pc = "activate"
  /\ LET s == choice[at]
         found == {x \in accounts : x.index = s.index}
     IN  /\ password' = IF s.pw # BadPassword THEN s.pw ELSE password
         /\ IF s.pw # BadPassword /\ found # {}
              THEN \E x \in found : index' = x.index /\ number' = x.no
              ELSE UNCHANGED <<index, number>>
  /\ pc' = "query" /\ at' = at
  /\ UNCHANGED <<callerVars, user, loggedIn, events, accounts, trade, dllVars, abandoned, sent>>

(* set_active_account: the password is stored before the index is looked   *)
(* up, and an unknown index leaves it with the account before.  The number *)
(* of the selection is not looked at.                                      *)
Activate ==
  /\ pc = "activate"
  /\ LET s == choice[at]
         found == {x \in accounts : x.index = s.index}
     IN  \/ /\ s.pw = BadPassword
            /\ Advance /\ UNCHANGED <<index, number, password>>
         \/ /\ s.pw # BadPassword /\ accounts # {} /\ found = {}
            /\ password' = s.pw
            /\ Advance /\ UNCHANGED <<index, number>>
         \/ /\ s.pw # BadPassword /\ (accounts = {} \/ found # {})
            /\ password' = s.pw
            /\ IF accounts = {} THEN index' = s.index /\ number' = number
                 ELSE \E x \in found : index' = x.index /\ number' = x.no
            /\ pc' = "query" /\ at' = at
  /\ UNCHANGED <<callerVars, user, loggedIn, events, accounts, trade, dllVars, abandoned, sent>>

(* resolve_trade_passwords.                                                *)
TradePassword(i) == IF trade[i + 1] # Blank THEN trade[i + 1] ELSE trade[1]

(* The account the DLL knows under an index.                               *)
Entry(i) == IF i \in DOMAIN registry THEN registry[i] ELSE NoNumber

(* populate_trade_password_hashes refuses when both are empty.             *)
SomeTradePassword == \E i \in {1, 2} : TradePassword(i) # Blank

(* fill_account_password_hash and, for an s8180, fill_trade_password_hash  *)
(* find their functions in the DLL; a c8201 has no trade passwords and its *)
(* hash is bound to the index.                                             *)
CanFill(binding) ==
  /\ binding \in symbols
  /\ job = "QUERY" => "order" \in symbols /\ SomeTradePassword
  /\ job = "BALANCE" => binding = "index"

(* A TR of the active account: the DLL takes the account from the index,   *)
(* the hash binds the password to the index or to the number, and the      *)
(* answer is filed under the number.  `meant` is what the caller asked     *)
(* for, `same` that the DLL's accounts are those the caller was shown,     *)
(* `gap` that one of them has no number; these three are history.          *)
SendTr(binding) ==
  /\ pc = "query"
  /\ CanFill(binding)
  /\ sent' = [sent |-> TRUE, job |-> job, account |-> Entry(index), filed |-> number,
              hash |-> [of |-> IF binding = "index" THEN Entry(index) ELSE number, pw |-> password],
              trade |-> [i \in {1, 2} |-> TradePassword(i)],
              meant |-> choice[at], wanted |-> wanted, mode |-> mode,
              same |-> known = Listing(registry),
              gap |-> \E i \in DOMAIN registry : registry[i] = NoNumber]
  /\ UNCHANGED <<callerVars, pc, at, user, loggedIn, events, accountVars, dllVars, abandoned>>

(* A connection event that is not looked for.                              *)
TakeInQuery ==
  /\ pc = "query" /\ events # <<>>
  /\ events' = Tail(events)
  /\ UNCHANGED <<callerVars, pc, at, user, loggedIn, accountVars, dllVars, abandoned, sent>>

(* The query of the account is over, with or without an answer.            *)
QueryDone ==
  /\ pc = "query"
  /\ Advance
  /\ UNCHANGED <<callerVars, user, loggedIn, events, accountVars, dllVars, abandoned, sent>>

-----------------------------------------------------------------------------

Init ==
  /\ known = {} /\ process = 0 /\ mode = "list" /\ pc = "none" /\ symbols = {}
  /\ choice = <<>> /\ at = 1 /\ job = "QUERY" /\ wanted = Blank
  /\ user \in Users /\ loggedIn = FALSE
  /\ events = <<>> /\ accounts = {} /\ index = 1 /\ number = NoNumber
  /\ password = Blank /\ trade = Unconfigured
  /\ logins = 0 /\ connects = {} /\ registry = <<>> /\ abandoned = FALSE /\ sent = NoTr

Next ==
  \/ \E m \in Modes : Start(m)
  \/ LoadDll \/ LogIn \/ SessionLogin \/ SessionEnd
  \/ Deliver
  \/ TakeConnected \/ TakeMessage \/ TakeFailure \/ TimeOut
  \/ Command \/ Activate
  \/ \E binding \in {"index", "number"} : SendTr(binding)
  \/ TakeInQuery \/ QueryDone

Spec == Init /\ [][Next]_vars

(* The loop looks at the clock in every turn, and a turn takes a second at *)
(* most; nothing is asked of the DLL.                                      *)
FairSpec == Spec /\ WF_vars(TimeOut)

-----------------------------------------------------------------------------
(* Properties.                                                             *)

(* Every variable has its type.                                            *)
TypeOK ==
  /\ known \subseteq Account /\ accounts \subseteq Account
  /\ process \in Nat /\ mode \in {"session", "batch", "single", "list"}
  /\ pc \in {"none", "load", "credentials", "connecting", "ready", "activate", "query"}
  /\ symbols \subseteq {"index", "number", "order"}
  /\ choice \in Seq(Ticked)
  /\ at \in Nat \ {0}
  /\ pc \in {"activate", "query"} => at \in DOMAIN choice
  /\ job \in {"QUERY", "BALANCE"} /\ wanted \in Passwords
  /\ trade \in Passwords \X Passwords \X Passwords
  /\ user \in Users /\ loggedIn \in BOOLEAN /\ abandoned \in BOOLEAN
  /\ index \in Nat /\ number \in Numbers \cup {NoNumber, Zeros}
  /\ password \in Numbers \cup {Blank} /\ logins \in Nat
  /\ events \in Seq(Event) /\ registry \in Seq(Numbers \cup {NoNumber})
  /\ connects \subseteq [user: Users, no: Nat]

(* Whoever is logged in has the accounts of the user who logged in last,   *)
(* and they are the accounts of the DLL's connection under their indices,  *)
(* unless an earlier login of the process was given up and may still be    *)
(* answered: failed logins and stale events alone never mix two users up.  *)
LoginOwn ==
  loggedIn /\ ~abandoned => registry \in Lists[user] /\ accounts = Listing(registry)

(* While the DLL's accounts are those the caller was shown, every TR asks  *)
(* about the account the caller meant, with the password of that account   *)
(* and, an s8180, with the trade passwords of this command, and its rows   *)
(* are filed under that account.  Refused selections, earlier commands, a  *)
(* BALANCE among them, and unknown indices leave nothing behind.  Single   *)
(* mode is excused where an entry has no number: PlaceIsIndex shows why.   *)
AsMeant(t) ==
  /\ t.account = t.meant.no /\ t.filed = t.meant.no
  /\ t.hash = [of |-> t.meant.no, pw |-> t.meant.pw]
  /\ t.job = "QUERY" =>
       \A i \in {1, 2} : t.trade[i] = IF Overrides[i] # Blank THEN Overrides[i] ELSE t.wanted

SentAsMeant ==
  sent.sent /\ sent.same /\ ~(sent.mode = "single" /\ sent.gap) => AsMeant(sent)

-----------------------------------------------------------------------------
(* The inductive invariant behind these (proved in QvLoginProofs).         *)

Final(e) == e.code # "message"

(* A login that was not given up is answered at most once, and with the    *)
(* accounts of its user.                                                   *)
AnswerInv ==
  ~abandoned =>
    /\ \A c, d \in connects : c = d /\ c.user = user
    /\ \A i, j \in DOMAIN events : Final(events[i]) /\ Final(events[j]) => i = j
    /\ (\E i \in DOMAIN events : Final(events[i])) => connects = {}
    /\ \A i \in DOMAIN events :
         events[i].code = "connected" => registry = events[i].list /\ registry \in Lists[user]
    /\ pc # "connecting" =>
         connects = {} /\ \A i \in DOMAIN events : ~Final(events[i])

ModeInv ==
  /\ mode # "session" /\ pc # "none" => ~abandoned
  /\ mode # "session" => pc # "ready"
  /\ mode = "session" => pc # "credentials" /\ (loggedIn => known = accounts)
  /\ mode = "list" => pc \notin {"activate", "query"}
  /\ mode = "batch" /\ pc \in {"load", "credentials", "connecting"} => at = 1 /\ choice # <<>>
  /\ mode = "single" /\ pc # "none" => pc # "activate" /\ at = 1 /\ Len(choice) = 1
  /\ pc \in {"activate", "query"} => loggedIn /\ (job = "QUERY" => trade = Configured(wanted))
  /\ pc \in {"load", "credentials", "connecting"} => ~loggedIn

(* The selections are of the accounts the caller was shown.                *)
ChoiceInv ==
  \/ mode \in {"batch", "single"} /\ pc # "none"
  \/ pc \in {"activate", "query"}
  => \A i \in DOMAIN choice :
       /\ [index |-> choice[i].index, no |-> choice[i].no] \in known
       /\ choice[i].pw \in {choice[i].no, BadPassword}
       /\ mode # "batch" => choice[i].pw = choice[i].no

(* What set_active_account leaves for the query.                           *)
ActiveInv ==
  pc = "query" /\ mode # "single" =>
    /\ choice[at].pw # BadPassword /\ password = choice[at].pw
    /\ accounts # {} => index = choice[at].index /\ [index |-> index, no |-> number] \in accounts

(* And what the login itself leaves, in single mode.                       *)
SingleInv ==
  mode = "single" =>
    /\ pc \in {"connecting", "query"} => password = choice[1].pw
    /\ pc = "query" /\ accounts # {} =>
         LET x == Selected(accounts, choice[1].index) IN index = x.index /\ number = x.no

LInv == TypeOK /\ LoginOwn /\ AnswerInv /\ ModeInv /\ ChoiceInv /\ ActiveInv /\ SingleInv /\ SentAsMeant

-----------------------------------------------------------------------------

(* Every login ends, however many messages the broker sends.               *)
LoginEnds == pc = "connecting" ~> pc # "connecting"

(* README.md:58: QV_ACCOUNT_INDEX is the index of the account to query,    *)
(* the one the account list shows.                                         *)
PlaceIsIndex ==
  sent.sent /\ sent.same /\ sent.mode = "single" => sent.account = sent.meant.no
=============================================================================
