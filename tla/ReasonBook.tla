----------------------------- MODULE ReasonBook -----------------------------
(***************************************************************************)
(* What the window and its store promise the user: a reason entered for an *)
(* order is kept for that order, under the day the date field shows, until *)
(* another is entered there, and trades are shown with the reasons kept    *)
(* for them.  A reason the store refused is shown, and is gone when the    *)
(* trades are shown again.  While a program still has to move the table of *)
(* an older version away, what was entered may be lost with it; once none  *)
(* has to, never again.  The window, the automatic mode and the migration  *)
(* of the table implement this (Journal).                                  *)
(***************************************************************************)
CONSTANTS Days, Orders, Texts, Blank, NoPage

VARIABLES
  book,   (* the reason kept for each order of each day                    *)
  field,  (* the day in the date field                                     *)
  page,   (* the day and the orders the user sees, with their reasons      *)
  moving  (* a table of an older version has still to be moved away        *)

bookVars == <<book, field, page, moving>>

NoReasons == [d \in Days |-> [o \in Orders |-> Blank]]

BookInit == book = NoReasons /\ field \in Days /\ page = NoPage /\ moving \in BOOLEAN

Show ==
  /\ \E shown \in SUBSET Orders :
       page' = [day |-> field', reason |-> [o \in shown |-> book[field'][o]]]
  /\ UNCHANGED book

Type(o, r) == o \in DOMAIN page.reason /\ page' = [page EXCEPT !.reason[o] = r]

Enter ==
  /\ page # NoPage
  /\ \E o \in Orders, r \in Texts : Type(o, r) /\ book' = [book EXCEPT ![field][o] = r]
  /\ UNCHANGED field

Refused ==
  /\ page # NoPage
  /\ \E o \in Orders, r \in Texts : Type(o, r)
  /\ UNCHANGED <<book, field>>

Clear == page # NoPage /\ page' = [page EXCEPT !.reason = [o \in {} |-> Blank]]
         /\ UNCHANGED <<book, field>>

Hide == page' = NoPage /\ UNCHANGED book

Pick == UNCHANGED <<book, page>>

Lose == moving /\ book' = NoReasons /\ UNCHANGED <<field, page>>

BookNext ==
  /\ field' \in Days
  /\ moving' => moving
  /\ Show \/ Enter \/ Refused \/ Clear \/ Hide \/ Pick \/ Lose

BookSpec == BookInit /\ [][BookNext]_bookVars
=============================================================================
