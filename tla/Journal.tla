------------------------------ MODULE Journal ------------------------------
(***************************************************************************)
(* The window (MainWindow, TradeTreeModel), the automatic mode (run_auto), *)
(* and what they keep: the reasons of the store and the workbooks of       *)
(* generate_excel.  The two programs run at the same time, both may be     *)
(* killed and started again, a query may fail and a save may be refused.   *)
(* A payload of data/json, its trades parsed, is external: its date and    *)
(* some of the orders executed on it.                                      *)
(***************************************************************************)
EXTENDS ReasonSchema

CONSTANTS
  Window, AutoMode,  (* the two programs                                   *)
  Executed,      (* [Days -> SUBSET Orders]: the orders executed each day  *)
  NoPage, NoFile

ASSUME JournalAssumption ==
  /\ Programs = {Window, AutoMode} /\ Window # AutoMode
  /\ Executed \in [Days -> SUBSET (Accounts \X Numbers)]

VARIABLES
  field,    (* date_edit                                                   *)
  page,     (* the trades of the model with their reasons, and their day   *)
  autoPage, (* the same of the automatic mode                              *)
  files     (* the day whose trades the workbook named after a day holds   *)

journalVars == <<field, page, autoPage, files>>
vars == <<schemaVars, journalVars>>

Orders == Accounts \X Numbers
Key(d, o) == <<d, o[1], o[2]>>

Page(d, reason) == [day |-> d, reason |-> reason]
NoTrades == [o \in {} |-> Blank]

(* Variant the runs refute: a trade without a row gets none.               *)
SavedOrNone(d, o) == reasons.rows[Key(d, o)]

(* get_reasons and merge_reasons.                                          *)
Saved(d, o) == IF reasons.rows[Key(d, o)] = NoRow THEN Blank ELSE reasons.rows[Key(d, o)]
Merged(d, shown) == [o \in shown |-> Saved(d, o)]

TableReady == reasons # NoTable /\ reasons.shape = "new"

-----------------------------------------------------------------------------

(* load_from_json: the date of the payload becomes the date of the field,  *)
(* then the reasons are read; when that raises, the old trades stay.       *)
Load(d) ==
  /\ field' = d
  /\ \/ /\ TableReady
        /\ \E shown \in SUBSET Executed[d] : page' = Page(d, Merged(d, shown))
     \/ page' = page
  /\ UNCHANGED <<schemaVars, autoPage, files>>

(* on_fetch_clicked: the trades of the day in the field.  A query that     *)
(* fails changes nothing; the field keeps the day it was given.            *)
Fetch == step[Window] = "ready" /\ Load(field)

(* Given --json, the window starts by loading that file.                   *)
LoadSupplied == step[Window] = "ready" /\ page = NoPage /\ \E d \in Days : Load(d)

(* The user picks another day.  The trades shown stay.                     *)
PickDay ==
  /\ step[Window] = "ready"
  /\ field' \in Days \ {field}
  /\ UNCHANGED <<schemaVars, page, autoPage, files>>

(* Trades are there to be edited and exported, whatever day the field      *)
(* shows.                                                                  *)
AtWork == step[Window] = "ready" /\ page # NoPage

(* Variant the runs refute: the row is looked for by account and number.   *)
SaveAnyDay(d, o, r) ==
  LET same == {x \in Days : reasons.rows[Key(x, o)] # NoRow}
      k == IF same = {} THEN Key(d, o) ELSE Key(CHOOSE x \in same : TRUE, o)
  IN reasons' = [reasons EXCEPT !.rows[k] = r]

(* save_reason: insert, or update on conflict.                             *)
Save(d, o, r) == reasons' = [reasons EXCEPT !.rows[Key(d, o)] = r]

(* setData: the model takes the reason, then the store saves it under the  *)
(* date of the field, or refuses and a message is shown.                   *)
EditReason ==
  /\ AtWork
  /\ \E o \in DOMAIN page.reason, r \in Texts :
       /\ page.reason[o] # r
       /\ page' = [page EXCEPT !.reason[o] = r]
       /\ \/ TableReady /\ Save(field, o, r)
          \/ UNCHANGED reasons
  /\ UNCHANGED <<legacy, step, field, autoPage, files>>

(* on_excel_clicked: the workbook is named after the field.                *)
ExportPage ==
  /\ AtWork
  /\ DOMAIN page.reason # {}
  /\ files' = [files EXCEPT ![field] = page.day]
  /\ UNCHANGED <<schemaVars, field, page, autoPage>>

(* on_login_clicked: a login that succeeds takes the trades away.          *)
LoginAnew ==
  /\ step[Window] = "ready" /\ page # NoPage
  /\ page' = [page EXCEPT !.reason = NoTrades]
  /\ UNCHANGED <<schemaVars, field, autoPage, files>>

(* The window is closed or killed, at any statement; one that cannot write *)
(* its workbook, or cannot start fetch.exe, ends like that.  The next one  *)
(* starts with the day it is given.                                        *)
CloseWindow ==
  /\ step[Window] # "off"
  /\ Goto(Window, "off")
  /\ page' = NoPage /\ field' \in Days
  /\ UNCHANGED <<reasons, legacy, autoPage, files>>

-----------------------------------------------------------------------------

(* run_auto: the trades of the day it was started for, or of the payload   *)
(* it was given, with the reasons saved for them.                          *)
AutoMerge ==
  /\ step[AutoMode] = "ready" /\ autoPage = NoPage
  /\ TableReady
  /\ \E d \in Days : \E shown \in SUBSET Executed[d] : autoPage' = Page(d, Merged(d, shown))
  /\ UNCHANGED <<schemaVars, field, page, files>>

(* No reason is missing: the workbook is written, the program ends.        *)
AutoWrite ==
  /\ step[AutoMode] = "ready" /\ autoPage # NoPage
  /\ \A o \in DOMAIN autoPage.reason : autoPage.reason[o] # Blank
  /\ files' = [files EXCEPT ![autoPage.day] = autoPage.day]
  /\ autoPage' = NoPage /\ Goto(AutoMode, "off")
  /\ UNCHANGED <<reasons, legacy, field, page>>

(* A reason is missing and the user is told so, the query failed, or the   *)
(* program was killed.                                                     *)
AutoEnd ==
  /\ step[AutoMode] # "off"
  /\ autoPage' = NoPage /\ Goto(AutoMode, "off")
  /\ UNCHANGED <<reasons, legacy, field, page, files>>

-----------------------------------------------------------------------------

Init ==
  /\ SchemaInit
  /\ field \in Days
  /\ page = NoPage /\ autoPage = NoPage
  /\ files = [d \in Days |-> NoFile]

Starting(p) == Start(p) /\ UNCHANGED journalVars

Next ==
  \/ \E p \in Programs : Starting(p)
  \/ Fetch \/ LoadSupplied \/ PickDay \/ EditReason \/ ExportPage \/ LoginAnew \/ CloseWindow
  \/ AutoMerge \/ AutoWrite \/ AutoEnd

Spec == Init /\ [][Next]_vars

-----------------------------------------------------------------------------

Pages == UNION {[day : Days, reason : [S -> Texts]] : S \in SUBSET Orders}

(* Every variable has its type.                                            *)
TypeOK ==
  /\ SchemaTypeOK
  /\ field \in Days
  /\ page \in Pages \cup {NoPage}
  /\ autoPage \in Pages \cup {NoPage}
  /\ files \in [Days -> Days \cup {NoFile}]

(* A reason an older version saved is never lost: whichever statements of  *)
(* whichever programs were interrupted, its text is in one of the tables.  *)
OldReasonsKept ==
  \A d \in Days, n \in Numbers : OldRows[<<d, n>>] # NoRow =>
    \/ reasons # NoTable /\ reasons.rows[<<d, NoAccount, n>>] = OldRows[<<d, n>>]
    \/ legacy # NoTable /\ legacy[<<d, NoAccount, n>>] = OldRows[<<d, n>>]

(* The reason the store would give for each order of each day.             *)
Kept == [d \in Days |-> [o \in Orders |-> IF TableReady THEN Saved(d, o) ELSE Blank]]

(* A program has seen the table of an older version and not renamed it     *)
(* yet, or may still see it.                                               *)
Moving == \/ reasons # NoTable /\ reasons.shape = "old"
          \/ \E p \in Programs : step[p] = "rename"

Book == INSTANCE ReasonBook WITH book <- Kept, moving <- Moving

(* The window keeps what ReasonBook promises: a reason entered for a trade *)
(* stays what is shown for that order under the day the field showed,      *)
(* whatever was restarted and whatever the automatic mode did meanwhile;   *)
(* only a program that still has to move a table away may lose reasons.    *)
Remembers == Book!BookSpec

(* What a program files under a day, a reason or a workbook, is of the     *)
(* trades of that day.  _save_reason and on_excel_clicked use the day the  *)
(* field shows, which is another once the user has picked it or a query    *)
(* for it has failed.                                                      *)
FiledUnderOwnDay ==
  [][\A d \in Days :
       /\ Kept'[d] # Kept[d] => page # NoPage /\ page.day = d
       /\ files'[d] # files[d] => files'[d] = d]_vars
=============================================================================
