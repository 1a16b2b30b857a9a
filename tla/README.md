# A verification of the trade logger: fetch.exe and its Python client

The program is a desktop trade journal. `fetch.exe` (C++, `cpp/src`) loads the
broker's `wmca.dll`, logs in, asks for the executions of a day (TR `s8180`, and
`s8118` for orders that the exchange split) and for balances (`c8201`), and
writes JSON files. A Python program (`python/`) starts it, either once per
fetch or as a session that stays open, reads the JSON, lets the user write a
reason for every trade and makes an Excel journal. The modules here are written
from that code; `PROJECT.json` names the lines of every definition.

The DLL exists only on Windows with a broker account, so the repository's tests
replace it, or the whole of fetch.exe, with a mock that answers at once, in
order, and never fails. What happens when answers are late, refused,
broken off or meet a process that is gone is what the models are about.

## 1. Inventory

| Component | State it keeps | Operations | Hard behaviour | What makes it correct |
|---|---|---|---|---|
| Event pump (`qv_auth.cpp`: `qv_wnd_proc`, `submit_query`, `wait_for_event`, `discard_stale_query_events`, `drain_events_for_tr`) | `g_event_queue`; inside the DLL the open requests | discard, submit, wait, drain | answers after a timeout or during the next request; an error event of any TR ends the exchange; disconnects are ignored | an exchange only takes in answers to its own request, and it ends |
| Login and activation (`qv_auth.cpp`: `load_dll`, `login`, `wait_for_connected`, `set_active_account`) | `accounts_`, `account_index_`, `account_no_`, `account_password_`, the trade passwords; inside the DLL the account list of the connection | load, login, activate, configure trade passwords, hash | events of a login that was given up, an account list that has changed since it was shown, what a refused account leaves behind, an account without a number | every TR asks about the account that was meant, with its passwords |
| Execution query (`qv_query.cpp`: `fetch_executions`, `fetch_s8180_page`, `fetch_s8118_details`) | `next_exec_tr_index_`, `next_split_tr_index_`, page, attempt, binding, rows | page by page, up to 3 attempts, up to 2 password bindings, a lookup per split row | a retry races the late answer of what it retries; a page half received; lookups that fail | every row of every page once, or the account is reported failed; a bounded number of requests |
| Balance query (`fetch_balance`) | `next_balance_tr_index_` | one exchange | same pump | positions and summary of the account asked for |
| Batch (`main.cpp`: `run_batch_query`, `run_balance_query`) | executions, `errors[]`, `success_count` | per account: activate, query, merge; then export | one account of several fails | all or nothing per account, errors named, answered always |
| Session loop (`main.cpp`: `run_session_loop`) | `logged_in`, position in stdin | LOGIN, QUERY, BALANCE, SHUTDOWN | line protocol without framing; refusal in the middle of a payload | one answer per command, in step with the client |
| `FetchService` (`fetch_service.py`) | `_session_proc` | open, run, close session; one-shot `run`, `run_multi`, `list_accounts` | the process dies while the client writes or waits | answers belong to requests; a request returns |
| `main` of fetch.exe | exit code | one-shot run | which failure gives which code | the caller can tell failures apart |
| `JsonExport` | `<output>`, `<output>.tmp` | write, rename, remove, rename | kill between steps, full disk, refused rename, two processes | readers find a whole document or none |
| Reason store (`reason_store.py`) | SQLite table `reasons` | migrate, upsert, read | crash or a second process in the migration | no reason is lost |
| Main window (`gui/main_window.py`, `trade_tree_model.py`) | trades, date field, selections, passwords | fetch, edit a reason, export | date changed after loading; failed save | a reason is stored under the trade it was written for |
| Data loader, balance loader (`data_loader.py`, `balance_loader.py`) | none | group executions, details, averages; parse balances | split orders, equal order numbers of two accounts, zero quantities, rounding | nothing executed is lost or counted twice; the numbers arrive |
| Diagnostics of s8180 (`qv_query.cpp`, `json_export.cpp`) | one record per attempt, one verdict per account | record, judge, write beside the trades | the verdict is drawn from the last of several attempts | it says what happened |
| Mock mode (`qv_query.cpp`, `QV_MOCK`) | none | invented answers | | the rest of the path treats them as any other |
| Automatic mode (`main.py --auto`) | none | fetch, check reasons, export | runs beside the window | as one-shot |
| Balance dialog, layout of the workbook, paths, start-up checks, log cleanup, notification, logger | none to speak of | parsing, layout, output | | |
| Vendor samples, scripts, installer, CI | | | | |

How they interact: the window calls `FetchService`; `FetchService` and
`run_session_loop` talk over the stdin and stdout of one process; the loop calls
the batch, the batch calls `QVAuth::set_active_account` and `QVQuery`; `QVQuery`
submits to the DLL and waits on the queue that the DLL's window messages fill
(one thread, which pumps messages only inside its waits); the batch hands its
result to `JsonExport`; the file is how the rows get to Python. The scheduled
`--auto` run is a second fetch.exe beside the window's, with the same output
path.

The hazards, each at its line and with the properties that would catch it, are
in `PROJECT.json`.

## 2. The modules

```
            ServiceCall  <--- implemented by ---  SessionProtocol
                                                   | "run" is a command of
EventPump <-- ExecQuery    --\                     v
          <-- BalanceQuery --- FetchSession --- "Export" has the steps of ---> AtomicExport
                |              |                                                  ^
   QvLogin -----'              | an answer of an account                     FetchMain
  (which account,              v
   which passwords)         DataPath --- composes BrokerRows, S8180Diagnosis,
                               |                  MockBroker, JsonText, TradeLoader, Lists
                               | a payload with its trades
                               v
   ReasonBook <-- implemented by --  Journal  --- extends ---> ReasonSchema
```

FetchSessionProofs (with FetchWholeProofs), FetchMainProofs, QvLoginProofs,
JournalProofs, SessionProtocolProofs and DataPathProofs hold the theorems of the modules they are
named after; TradeLoaderProofs holds what DataPathProofs needs to know about the loops of
TradeLoader, BrokerRows and Lists.
MC modules hold only constants. Definitions introduced as "Variant the runs
refute" are plausible bugs; each property is checked to fail under one of them.

**EventPump** is one exchange with the broker. `queue` is `g_event_queue` (each
entry with its position), `pending` what the broker may still answer and `link`
the connection. The actions of the broker (`PostData`, `PostRejection`,
`PostComplete`, `PostError`, `Disconnect`) are external: they are honest, in
that an answer carries the data of its own request, and owe nothing. They occur
only while the thread pumps messages. On the side of the code, `Submit` is
`discard_stale_query_events` and `submit_query`; `Pop` takes the event at the head
in `wait_for_event`; `TimeOut`, `ReceiveError`, `IgnoreEvent` and `DrainTurn` are
the arms that the three wait loops share. A request is a record that also says
which command and account it was for; the code sees only its `tr`
(`tr_index`). All properties about mixed-up answers rest on that difference.

**ExecQuery** adds `fetch_executions`: `SendExec`, the arms of the s8180 loop
(`ExecData`, `ExecMessage`, `ExecComplete`), what is decided afterwards
(`JudgePageDone`, `JudgeRebind`, `JudgeRetry`, `ExecFailed`), the rows
(`FileWholeRow`, `SendSplit` with the arms of the s8118 loop, `JudgeSplit`) and
`NextPage`. **BalanceQuery** adds `fetch_balance` in the same way.

**FetchSession** composes them: commands of one process after LOGIN, the
accounts of a command in turn, the result of each merged into the command's.
`pc` is where the one thread is; `Serve` is everything it does, `Deliver` what
the DLL does. With one command it is also the batch mode of `main`. Whether
`set_active_account` refuses is open here and decided in QvLogin.

**QvLogin** is `QVAuth` in one process of fetch.exe after another, in the four
modes of `main` (a session, a batch, a single account, a list of accounts). What a
caller selects comes from the list an earlier process showed it (`known`), while
the DLL of a new process may give another (`registry`). `LogIn` with `Resolved`
is where the credentials come from (environment, dialog, prompts); `Connect` is
`login_with_credentials` up to the wait; `TakeConnected`, `TakeFailure`,
`TakeMessage` and `TimeOut` are the arms of `wait_for_connected`; `Command` and
`Activate` are the use that `run_batch_query` and `run_balance_query` make of `QVAuth` (the second
takes the trade passwords away), and `SendTr` records what a TR then
carries: the account, the hash and what it is bound to, both trade passwords.

**SessionProtocol** is the client and the session loop over two pipes.
`stdin` and `stdout` are sequences of lines, each with the number of the request
it was written for, which neither program can see. The client writes a request
in one action (the pipe takes it; a request has a few hundred bytes); the loop
reads in the portions in which it decides. `Crash`, `ClientKilled` and the
user's closing of a session may happen at any time. A command, once read,
takes a while and succeeds or not: what it does is FetchSession.

**ServiceCall** is the abstract specification: calls one at a time, carried out
at most once and only while current, "ok" only after being carried out.
`SessionProtocol!KeepsPromise` is the refinement; that calls return as well is
`OthersReturn`.

**AtomicExport** is `write_atomic` step by step over `out` and `tmp`, both
sequences of buffers that name the process they came from (`Hole` where nobody
wrote). A rename is refused when another process has the temporary file open, as
Windows does for a stream's file, when there is no such file, and at the whim of
the system. **FetchMain** puts it into the one-shot process with its exit codes
and into the caller that collects the file.

**DataPath** follows the data of one command, account by account, through the
documents to the screen. **BrokerRows** is what becomes of the fields of a row
(`parse_int`, `normalize_order_no`, `infer_market`, `derive_amount` and so on),
**S8180Diagnosis** the record of each attempt and `build_overall_diagnostic`,
**MockBroker** the invented answers. **JsonText** is the text of the four documents and of the
session answer as tokens, with every comma and quote the C++ code writes by
hand, and `JsonLoads`, an external reader that accepts JSON and nothing else;
a text of the broker is a sequence of parts of which some need an escape.
**TradeLoader** is `data_loader.py` and `balance_loader.py`. **Lists** has the two loops
both programs have everywhere, one that takes some of the entries over and one that adds
numbers up, each as a recursive function of how far the loop has come. So what is compared
at the end is what the broker executed and what the window got.

**ReasonSchema** is `ReasonStore._init_schema`: each statement of its script is an action,
since `executescript` commits them one by one, and a program may end between any
two. **Journal** adds what the window and the automatic mode do with the table:
`Load`, `EditReason`, `ExportPage`, `AutoMerge`, `AutoWrite`, with `CloseWindow` and `AutoEnd`
standing for any end, a kill included. Nothing keeps two programs from migrating at
the same time, or the user from picking a day other than that of the trades shown.
**ReasonBook** is the abstract specification: a reason is kept for its order under the day
the date field shows (`Enter`) and trades are shown with the reasons kept for them
(`Show`); a reason may be refused (`Refused`), and be lost only while the table
of an older version has still to be moved away (`Lose`). `Journal!Remembers` is the refinement.

## 3. The runs

| Run | Question | Bounds | Result |
|---|---|---|---|
| `pages` | does an exported account have each row once, is the number of requests bounded, is a command answered? is the invariant of the proof an invariant? | 1 command of either kind, 1 account, 2 pages that begin with a split row, 2 attempts, 1 abandoned request still to be answered; fairness of the query thread only | holds, 0.24 M states |
| `accounts` | are rows, details and balances filed under the account and row they were asked for? does what breaks off, or fails for another account, lose or repeat a row? | 1 command of either kind, 2 accounts, pages and details of 2 parts, 3 of 4 rows split, both bindings, 1 abandoned request | holds, 2.6 M states |
| `foreign` | may data of an earlier QUERY be filed in a later one? | 2 QUERYs of 1 account, both bindings, 2 attempts, 1 abandoned request | it may |
| `login` | does each TR ask about the account meant, with its passwords? does each login end? | 4 modes, 2 users (one whose two accounts are listed in either order, one with a gap in the list or no accounts), 2 processes, 2 logins each, 2 events, 2 selections, one trade password of two overridden, hash by number there or not; QUERY and BALANCE | holds, 0.45 M states |
| `position` | is `QV_ACCOUNT_INDEX` the index of an account? | list and single mode, a list whose first entry has no number | it is not |
| `protocol` | do client and loop stay in step, does each command run as asked, does it implement ServiceCall, do requests return? | 4 requests, up to two selections, either refused; a trade password that reads as a number and one that does not | holds, 37 k states |
| `password` | does a request return when the trade password reads as a number? | 3 requests | it does not |
| `export` | is the output whole, are trades the caller's own, does an export survive? | 3 processes in turn, 2 buffers | holds, 0.2 M states |
| `twowriters` | does an export survive a process that overlaps? | 2 processes | it does not |
| `datapath` | does what was executed reach the window, can the documents be read, is what is missing told, is the diagnosis true? | 2 accounts and an entry without number; 7 rows, up to 2 on the first account and 1 on the second, at most one of them split; 7 ways an attempt ends; 7 commands | holds, 46 k states |
| `journal` | is a reason that was saved shown again, is none lost in the migration? | 2 programs, 2 days with one order number on both, one reason of an old version | holds, 0.2 M states |
| `wrongday` | is what is filed under a day of that day's trades? | as `journal`, without the old reason | it is not |

Why the bounds suffice to meet the interesting cases.

- *Queries.* Two attempts or two bindings are enough for an answer to outlive its attempt
  or its binding; two pages for a continuation and for a failure after a page was
  already filed; a split row on each for lookups between pages, whose details could
  end up under the other row; two accounts, both with split rows, for data that
  could end up under the other account. `MaxStale` bounds how many abandoned requests
  the broker still remembers: one is what it takes for a stale answer to meet a
  fresh request. `Chunks` is the number of `outblock1` events of a page: two in
  `accounts`, where a page, or the details of a row, can break off between them.
  Attempts are in `pages` and bindings in `accounts`; both at once, more than one command,
  and the three attempts the code makes by default are left to the proofs, which
  hold for any number of each (those of `WholeAccounts` and `RequestBudget` for one command). `ExecBase`, `BalanceBase` and `SplitBase` stand for
  818000, 820100 and 900000: what counts is that the ranges do not meet within a
  command.
- *Login.* Two logins of a process for one that was given up and is answered
  during the next; two processes for a list that has changed since it was shown;
  two selections for an account that is refused before another is queried, and
  for one selected twice; a list with a gap, since places and indices differ only
  then.
- *Protocol.* Four requests are a login, a request that goes wrong, the next
  request, and a login anew. 9999 stands for a trade password that is more than all
  the lines the client writes in a session (here fewer than 30).
- *Export.* Two buffers are what it takes for a document to be cut short; three
  processes for one that finds both an output and the temporary file of a
  killed one.
- *Data.* Two rows for two rows of one order, on one account or on two; one
  more account to fail while the other answers; rows with nothing executed, of no
  side, without an order number, with a fraction that must round, with a text that
  needs an escape and with one that cannot be escaped; a split order whose details
  come, one of them empty, or do not come.
- *Journal.* Two days with one order number, the one account standing for any, for a
  reason filed under the wrong one; an old reason with the number of a new order; any
  statement of the migration may be the last of its process, so that two restarts meet
  every table that can be left behind. Two accounts that share an order number are
  the same question one column further on: the proofs hold for any accounts.

`ExportSurvives` lets a rename that the system refused excuse the loss of the
file: the code then removes the old output before it tries again, so what it
does in that case is plain from `write_atomic` itself.

Deadlock is checked in `journal` and `wrongday`, where there is always something to do. It is
off in the other runs because there the system may rightly stop: the bound on
commands, logins, requests or processes is reached, both processes are gone, or
(`datapath`) the one command is over.

**Fairness.** `pages` assumes weak fairness of `Serve`: the thread keeps
running and its clock advances, so a timeout that stays enabled is taken; every
wait in the code has a deadline (`QV_QUERY_TIMEOUT_MS`, the drain's deadline).
`login` assumes weak fairness of `TimeOut` alone: `wait_for_connected` looks at its
clock in every turn, whether or not an event came, and a turn takes a second at
most. Nothing is assumed of the broker, which may stay silent for ever, or never
stop sending messages. `protocol` assumes weak fairness of the client's and of the
server's own steps: both are sequential programs that the system schedules; `Run`
ends by what `pages` shows. The user, crashes and the broker are not fair.
`OthersReturn` follows from this: a request returns unless a trade password has been taken
for a number, in which case it may wait for ever (`password`).

**Disagreements** between the code and what the repository says of it, one run each:

- `foreign`: a command builds a new `QVQuery`, whose `tr_index` counters start
  over, while the queue and the broker's open requests live on. A late answer of
  a given-up request of the last QUERY passes the `tr_index` test of the next
  one, and the rows of another date are exported. Within a command this cannot
  happen, which is a theorem below.
- `password`: QUERY takes its fourth line for the number of selections when it
  reads as an int, which a numeric trade password does. The request itself is
  answered with an error; the loop then drops the client's next lines, and the
  client waits for ever. `protocol` shows what holds all the same with such a
  password: no answer is taken for another's, and nothing runs that was not asked. (A password of
  eight or nine digits may also end fetch.exe where it reserves memory for that
  many selections: to the client, a `Crash`.)
- `twowriters`: of two processes exporting the same date, the one whose
  temporary file was renamed away removes the other's export. (With a kill on
  top, one of them may also put the torn document of the other in place:
  `WholeOrNothing` fails as well when processes overlap.)
- `position`: the accounts are listed under their index in the login answer, and
  `QV_ACCOUNT_INDEX` is passed as such; `wait_for_connected` uses it as a place among the
  entries that have a number. After a gap the single mode queries the account
  after the one meant, with the password of the one meant. `SentAsMeant`
  excuses this case, and accounts that are not those shown: a list that has changed since, or one
  that the late answer of a login that was given up has brought.
- `wrongday`: the window saves a reason, and names a workbook, after the date field. The
  field keeps its day when a query fails, and the user can pick another without loading;
  the reason is then filed under a day the trade is not of, and the workbook of that day has
  the trades of another. Each of the two conjuncts of `FiledUnderOwnDay` fails by itself.

Smaller ones have no run of their own:

- A trade password that reads as a number smaller than the lines after it, such as 0001,
  leaves lines of its request behind, which are answered as commands: with `TradePasswords = {1}`
  TLC finds `InSync` violated in `protocol`. Hence the premise of the theorems below.
- The state of the stream is never looked at, so on a full disk a document that breaks off is
  renamed over the output and the exit code is 0, where README.md:50 has 40 for a save that failed;
  in batch mode a failed save exits with 30 (README.md:46-50).
- The second binding is tried after every refusal of the password (10009, and texts with
  "계좌비밀번호"), where README.md:88 names 21263 only.
- An account password refused under a single binding is put down to
  `credential_rejected_after_full_password_payload` (qv_query.cpp:1238), where
  docs/qv_required_api_spec.md:405-406 has `binding_mismatch_or_ineligible_account`. `DiagnosticTrue`
  states what the code does.
- `escape_json` leaves control characters other than line breaks and tabs as they are,
  so that a text with one makes a document that cannot be read, which is what
  `Readable` and `DiagnosisReadable` say.

**What `Remembers` does not promise.** Two programs that start at once may both read the old
schema; the second then renames the table the first has just created, and its rows, copied back,
get the account `''` and are not found again. A kill between the rename and the copy leaves the old
rows in `reasons_legacy`, where nobody reads them. ReasonBook allows the first while a table has
still to be moved away (`Moving`), and no longer; `OldReasonsKept` counts a row in either table as kept.

## 4. What is proved

`FetchSessionProofs` proves, for every set of accounts, number of pages, chunks
and attempts, batch, set of jobs and number of commands, under the assumptions
named next to the constants and nothing else:

- `Inductive`: `Spec => []IInv`
- `TypeCorrect`: `Spec => []TypeOK`
- `AnswersAreOwn`: `Spec => []OwnAnswers`

`OwnAnswers` says that within a command no execution, detail or balance is filed
under an account, row or TR it was not asked for, although the only test in the
code is `tr_index` equality and answers to abandoned attempts keep arriving. It
is not inductive. The strengthening, `IInv`, is checked by the run `pages`:

- `QueueInv`: an answer's `tr` is its request's. The queue is finite.
- `IssuedInv`: every request that may still be answered was numbered from a
  counter that has since moved past it, and fits the command's job. The guard
  `nextExec < SplitBase` of `SendExec`, a bound of the model, keeps the numbers of
  s8180 below those of s8118: the code has 82 000 of them in a command, and
  `RequestBudget` says how few it uses.
- `CurrentInv`: no other outstanding request of this command has the `tr_index`
  of the running exchange. This is what makes the test in the code sound, and it
  needs the freshness that `IssuedInv` gives at the moment of `Submit`.
- `SplitInv`: during a lookup, `at` is the row the lookup was sent for, and the
  details so far are that row's.
- `AccountInv`: what the account in progress has gathered is its own.
- `ActiveInv`, `FreshInv`: an account is active while it is queried; nothing
  gathered for one account is left when the next begins. Without `FreshInv` the
  rows of a failed account would have to be shown harmless in every later step.

The proof has one lemma for each action, under it one step for each conjunct the
action can disturb; facts about the queue (`EraseIssued`, `PopIssued`,
`SendIssued`) and the counters (`IssuedKept`, `SendKnown`) are lemmas of their own.

`FetchMainProofs` proves, for any number of processes and buffers:

- `MainTypeCorrect`: `Spec => []TypeOK`, also when processes overlap. It needs
  `WritingInv` (there is a temporary file while somebody writes it), which holds
  because no rename succeeds while another process has the file open.
- `InTurn`, and from it `OutputIsWhole`, `TradesAreOfTheProcess` and
  `LastExportSurvives`: with `Concurrent = FALSE`, `WholeOrNothing`, `TradesAreOwn`
  and `ExportSurvives` are invariants. (`WholeOrNothing` lets a document stand that a failed write
  cut short, and `ExportSurvives` the loss behind a refused rename: see above.) The run `twowriters` shows that the premise is
  needed.

The strengthening, `MInv` (checked by `export`), follows the document on its way:
before the open nothing has been written (`UnwrittenInv`); while p writes, the
temporary file is what p's stream took, and no more (`StreamInv`, which is where
opening with `trunc` matters); what p is about to rename is its document
(`RenameInv`); once saved, and until the caller has read it, the output is p's
(`SavedInv`); the output is removed only after a refused rename (`RefusedInv`); and
at most one process is running or waiting to be collected (`OneAtATime`). Because of
the last, a step of p has to keep only what is said of p (lemma `OnlyOwn`).

`QvLoginProofs` proves, for any users, account lists, passwords, numbers of
processes, logins, events and selections, from `LoginAssumption` alone:

- `LoginInductive`: `Spec => []LInv`, and from it `LoginTypeCorrect` (`TypeOK`),
  `AccountsAreOwn` (`LoginOwn`) and `TrsAreAsMeant` (`SentAsMeant`).

`LInv` follows a selection on its way into a TR. `AnswerInv`: unless a login was
given up, there is at most one answer to come or in the queue, it is the last
user's, and once the login is over there is none, which is why the missing discard of
connection events does no harm. `ModeInv`: which mode can be where, and that a
session's caller knows the accounts the session has. `ChoiceInv`: the selections
are of accounts the caller was shown. `ActiveInv` and `SingleInv`: what
`set_active_account`, or the login itself in single mode, leaves for the query.
An index names one account (lemma `Listed`). The single mode counts places
among the accounts that have a number; where no entry lacks one, place and index agree
(`PlaceOfIndex`, `SelectedIsIndexed`), and only there is it shown to be correct: `SentAsMeant`
excepts single mode after a gap. A TR of a QUERY carries the trade password of the command,
which a refused account before it has not touched.

`JournalProofs` proves, for any days, accounts, order numbers, texts and old
rows:

- `JournalTypeCorrect`: `Spec => []TypeOK`;
- `MigrationKeeps`: `Spec => []OldReasonsKept`, whichever statements of
  whichever programs are interrupted. The strengthening, `KeptInv`: a program past
  its RENAME is the only one there and the renamed table exists (`OnlyOne`); past
  its INSERT the old rows are in `reasons` (`CopiedInv`);
- `JournalRemembers`: `Spec => Remembers`, the refinement of ReasonBook, step by step, with no
  premise on who migrates when or what the field shows. Once no table of the old shape is left
  to be moved (`Moving`), none comes back, and the rows of the new one change only by
  `Save` and by a copy that fills keys of the account `''`; until then a step may also take
  the reasons away, which is `Lose`.

`SessionProtocolProofs` proves, for any selections of any length and any number of requests, from
`ProtocolAssumption` and `NoSmallPassword`: every trade password either does not read as an int or
is more than all the lines of a session, those of its requests (`ToCome(0)`) and one of SHUTDOWN. In
a session of a hundred requests of two accounts each that admits the passwords above 701:

- `ProtocolInductive`: `Spec => []SInv`, and from it `ProtocolTypeCorrect` (`TypeOK`),
  `AnswersAreOwn` (`InSync`), `NothingLeftOver` (`AtRest`) and `RunsAreAsAsked`
  (`RunsAsAsked`);
- `ProtocolKeepsPromise`: `Spec => KeepsPromise`, the refinement of ServiceCall.

`SInv` says for every place of the loop which lines are still to come (`StageInv`): after the
command line, the count or a selection, exactly the rest of the last request
(`Ahead`); at the prompt and while selections are dropped, those to be dropped and
then nothing, SHUTDOWN, or the last request whole (`Following`). Behind a password that was
taken for the count, the loop refuses what it takes for the first selection (`Misreading`) and then
drops more lines than the client can still write (`Swallows`), so none of them is ever taken
for a command. A request that is
being read is unanswered and not carried out (`Unanswered`), an answer on the pipe is
that of the last request and says "ok" only if it was carried out (`AnswerInv`), and
the client rests only with a process that is logged in (`LoggedInv`), which is why the
refusal of a QUERY before LOGIN is never met.

`FetchSessionProofs` also proves `RequestsAreBounded`, for any accounts, pages, attempts and
either setting of the probe, with `MaxCommands = 1`: the process of a one-shot call.
(In a session an answer to the last command may be taken for one of this command and
bring its own continuation key, see `foreign`.) Besides `IInv` its argument needs `BInv`: every request and every answer is the
one command's (`OriginInv`); the paging block in use is that of the page that was asked
for, so that the next page is one more and no further than `LastPage` (`PageInv`); and
the requests so far are at most all tries of the earlier pages and the tries of this
one (`UsedInv`).

`FetchWholeProofs` proves, again for `MaxCommands = 1`, what the document of a QUERY
holds:

- `AccountsAreWhole`: `Spec => []WholeAccounts`, with two premises more. `EachOnce`: no
  account is selected twice (the dialog has one box for each). `KnownRejections`: what
  the broker refuses a password with is a code `is_password_rejected_message` knows; a
  refusal it did not know would pass for an empty page.
- `NothingForeign`: `Spec => []NoForeignRows`, the property that `foreign` refutes for a
  session. All data collected is of the command being served (`HomeInv`).

The argument of the first, `WInv`, follows a page from the broker to the document. The
queue keeps the order in which events came, whatever is erased from it (`OrderInv`, lemma
`EraseMoves`). While an s8180 request is awaited, each block of its page is still to be
sent, or in the queue, or taken, and no two of these (`OnceInv`); and when the end of the
answer is in the queue, all blocks are taken or lie before it, unless a refusal does
(`AllInv`). So an exchange that ends well leaves a whole page (`RowsInv`; the rows are as
many as the chunks because they differ, lemma `AllRows`), while an attempt that ends
otherwise leaves nothing, for `SendExec` starts with no rows. `FoundInv` counts what the
account has: the pages before the one in progress and, of that one, the rows before `at`.
At the end the paging block says that there is no further page, so this is everything,
and goes into the document at once (`RowsJoin`); `OutInv` is the theorem's statement for the
accounts whose turn is over.

`DataPathProofs` proves, for any accounts, commands, rows, split answers, blocks and
outcomes, from `DataAssumption` (fields, texts and outcomes are of the kinds the code
can meet):

- `DiagnosesAreTrue`: `Spec => []DiagnosticTrue`: among the rest, a failure is told by the cause,
  and in the words, of the attempt that failed last (`FailureTold`);
- `MissingIsTold`: `Spec /\ []Readable => []PartialIsReported`;
- `BalancesArrive`: `Spec /\ []Readable => []NumbersArrive`.

The lists of results and diagnoses skip the accounts that gave none, so the entry of
account i stands at `PlaceIn(Gave, i)` or `PlaceIn(Tried, i)`; lemma `Places`: when the
next account joins, the earlier places stay. `VerdictInv` says whose verdict each
diagnosis is, and `VerdictTrue` what a verdict says of a call that ended in any way;
`BalanceInv` is the same for the results, and `FieldsTaken` and `Rounded` follow a
number through writer, reader and rounding. `MessageInv`: there is a message exactly when some
answer misses something. `ShownInv`: what is shown was made from these lists after they were
final. `Readable` is the premise of the last two, since the reader is recursive; the run
`datapath` checks it.

The same module proves what the trades on the screen add up to, for lists of any length:

- `SharesAreConserved`: `SplitsAddUp /\ OneSide /\ Spec /\ []Readable => []Conserved`;
- `AmountsStayClose`: `Spec /\ []Readable => []AmountsAgree`.

Two premises of the first are about the broker, not the code. `OneSide`: the rows of one order of an
account are all purchases or all sales, for `parse_trades` gives a trade the side of its first row.
`SplitsAddUp`: the details `s8118` gives of a split order add up to what `s8180` says it executed, for
the window then counts the details and not the row; DataPath lets any answer in `Splits`
follow any split row, so it asks this of each row and each answer. The run `datapath` evaluates
both on its instance (`BrokerAssumption` in MCDataPath), where details come and do not
come. `AmountsStayClose` needs neither: the price of a detail is its amount by its shares, rounded to
half a won, and the average rounds another half.

The argument has three parts.

- *Loops* (`TradeLoaderProofs`). The library's induction theorems take an operator, which no
  prover here can instantiate, but its well-founded relations need none: `Least` gets from
  `WFMin` that a nonempty set of naturals has a least element, `Counting` that a set
  which holds 0 and with i also i + 1 holds all, and `LoopIs` that a loop written as a recursive
  function has the values its equations say. From there every step is
  first-order: totals of a list that is extended, joined with another, or filtered (`KeptTotal`), and
  `TradeTold`: after `parse_trades` there is a trade for exactly the keys of the rows that
  are one, its shares are the sum over the rows of its key, its side is that of one of
  them, and each of its details is off by half a won a share at most.
- *Records.* `RecordInv`: each collected record has details whose amounts fit and an
  account number (without one the row would be filed under the root account).
  `SourceInv`: answers are the broker's for that account, or all of them the mock's.
  `ShareInv`: for each order, the shares of the collected records and those of the answered rows
  have the same sum, and records and rows have the same orders and sides. It is kept by one account's turn
  because the records of an account tell what its rows tell (`Tells`): a row that executed
  nothing is skipped and adds nothing, a split row adds the sum of its details or, when the lookup
  failed, its own quantity.
- *Window.* What is shown was parsed from the final records (`TradesShown`), so its totals
  are sums over records (`OrdersShown`), which `ShareInv` makes sums over the broker's
  rows. That an order has one side (`SameSide`) then decides which side is shown.

Only model-checked:

- everything with liveness, which the prover cannot express: `Answered`,
  `LoginEnds`, `NoOrphan`, `OthersReturn`, `RequestReturns`;
- `Readable` and `DiagnosisReadable`: that the reader of documents, a recursive descent over
  their tokens, gets back what each of the hand-written writers meant, for records and lists of any
  size and nested to any depth. The induction by least counterexample that serves the sums above would
  have to be repeated for every member of every document, with the reader's state carried along.

## 5. What is abstracted, and what is not modelled

Abstracted in the modules:

- In the modules about queries a row is the request it came from and its place in
  the page; what is in it is DataPath's. DataPath in turn takes the answer of each
  account as given, in the order of the rows.
- Field lengths, code pages, hashes and the format of times. A number of the
  broker is a count of tenths or something that is no number; a text is its parts
  ("plain", a quote, a control character and so on).
- Codes and texts that mean "password refused" are `RejectCodes`; a code stands
  for its message text too. `AutoProbe = FALSE` stands for the two fixed
  bindings, which differ only in what is hashed; which is hashed is in QvLogin.
- The password modes that send a plain or blank password occur in
  S8180Diagnosis only. The mock mode (`QV_MOCK`) is in DataPath and MockBroker; it
  takes no login and sends nothing.
- `encrypted_password_` is written and never read, and is left out.
- `submit_query` and `wait_for_event` do not fail on Windows after a login other
  than by running out of time.
- The session's client is the one in this repository: it logs in first and
  validates what it sends, so that the refusals of QUERY and BALANCE before the
  selections are read are in the module and not reached. `Ask` does nothing when
  `poll()` finds the process gone; the caller gets `FetchError` at once.
- `Conserved` assumes that the details of a split order add up to the order
  (`SplitsAddUp`) and that the rows of one order are on one side (`OneSide`); the single mode's root and warnings
  are not composed in DataPath.

Not modelled:

- A payload copy that faults inside the DLL (`seh_copy_event_payload`), a broker
  that loses its paging block or repeats a continuation key, and pipes that fill
  up: what the vendor's DLL or the pipe does then is not in this repository.
- `parse_args`, and `count_missing_reasons`, which only a test calls.
- Widgets, dialogs, remembered passwords and the status line of the window; the
  balance dialog; the layout of the workbook. They display.
- Paths, start-up checks, log cleanup, logger: no state or one look at the file
  system each. Vendor samples, scripts, CI: no part of the running product.

## 6. What is left

1. A broker with broken paging, as a run of FetchSession.
2. QvLogin composed with FetchSession, in place of the refusals and accounts that
   are open there, so that `OwnAnswers` and `SentAsMeant` are one property of one
   process.
