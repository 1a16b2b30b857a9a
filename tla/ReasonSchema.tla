---------------------------- MODULE ReasonSchema ----------------------------
(***************************************************************************)
(* ReasonStore._init_schema: every program that starts brings the table    *)
(* `reasons` to the shape with account_no.  executescript commits each of  *)
(* its statements by itself, and a program may be killed between any two.  *)
(* SQLite is external: a statement that meets a missing or an existing     *)
(* table, or a key twice, raises, and the program does not start.          *)
(***************************************************************************)
EXTENDS Naturals, FiniteSets

CONSTANTS
  Programs,   (* the window and the automatic mode                         *)
  Days, Texts, Blank,
  Accounts,
  NoAccount,  (* the account '' of the rows that were migrated             *)
  Numbers,    (* order numbers, which the broker gives anew every day      *)
  NoTable, NoRow,
  OldRows     (* [Days \X Numbers -> Texts or NoRow] of an older version   *)

ASSUME SchemaAssumption ==
  /\ NoAccount \notin Accounts
  /\ Blank \in Texts /\ NoRow \notin Texts
  /\ OldRows \in [Days \X Numbers -> Texts \cup {NoRow}]
  /\ NoTable \notin [shape : {"old", "new"},
       rows : [Days \X (Accounts \cup {NoAccount}) \X Numbers -> Texts \cup {NoRow}]]
  /\ NoTable \notin [Days \X (Accounts \cup {NoAccount}) \X Numbers -> Texts \cup {NoRow}]

VARIABLES
  reasons,  (* the table `reasons`: its shape and its rows, or NoTable     *)
  legacy,   (* the rows of `reasons_legacy`, or NoTable                    *)
  step      (* the statement each program is at                            *)

schemaVars == <<reasons, legacy, step>>

Keys == Days \X (Accounts \cup {NoAccount}) \X Numbers
Rows == [Keys -> Texts \cup {NoRow}]
Empty == [k \in Keys |-> NoRow]

Created == [shape |-> "new", rows |-> Empty]
Old == [shape |-> "old",
        rows |-> [k \in Keys |-> IF k[2] = NoAccount THEN OldRows[<<k[1], k[3]>>] ELSE NoRow]]

Migrating == {"rename", "create", "copy", "drop"}

Goto(p, s) == step' = [step EXCEPT ![p] = s]

(* A statement: it raises, or does what the rest of the action says.       *)
Raises(p) == Goto(p, "off") /\ UNCHANGED <<reasons, legacy>>

-----------------------------------------------------------------------------

(* ReasonStore(): SELECT sql FROM sqlite_master.  Nothing keeps another    *)
(* program from migrating the table at the same time.                      *)
ReadSchema(p) ==
  /\ step[p] = "off"
  /\ Goto(p, IF reasons # NoTable /\ reasons.shape = "old" THEN "rename" ELSE "ensure")
  /\ UNCHANGED <<reasons, legacy>>

(* ALTER TABLE reasons RENAME TO reasons_legacy.                           *)
RenameTable(p) ==
  /\ step[p] = "rename"
  /\ IF reasons = NoTable \/ legacy # NoTable
     THEN Raises(p)
     ELSE legacy' = reasons.rows /\ reasons' = NoTable /\ Goto(p, "create")

(* CREATE TABLE reasons.                                                   *)
CreateTable(p) ==
  /\ step[p] = "create"
  /\ IF reasons # NoTable
     THEN Raises(p)
     ELSE reasons' = Created /\ Goto(p, "copy") /\ UNCHANGED legacy

(* The legacy rows of one date and order number, all of which get the      *)
(* account ''.                                                             *)
Sources(d, n) == {a \in Accounts \cup {NoAccount} : legacy[<<d, a, n>>] # NoRow}

(* UNIQUE(date, account_no, order_no) refuses the whole statement.         *)
Collides ==
  \E d \in Days, n \in Numbers :
    /\ Sources(d, n) # {}
    /\ \/ reasons.rows[<<d, NoAccount, n>>] # NoRow
       \/ \E a, b \in Sources(d, n) : a # b

(* Variant the runs refute: only the rows of the old table are there.      *)
CopiedAlone ==
  [k \in Keys |->
     IF k[2] = NoAccount /\ Sources(k[1], k[3]) # {}
     THEN legacy[<<k[1], CHOOSE a \in Sources(k[1], k[3]) : TRUE, k[3]>>]
     ELSE NoRow]

(* The new table after INSERT ... SELECT.                                  *)
Copied ==
  [k \in Keys |->
     IF k[2] = NoAccount /\ Sources(k[1], k[3]) # {}
     THEN legacy[<<k[1], CHOOSE a \in Sources(k[1], k[3]) : TRUE, k[3]>>]
     ELSE reasons.rows[k]]

(* Variant the runs refute: the old table is dropped before it is copied.  *)
DropUncopied(p) ==
  /\ step[p] = "copy"
  /\ legacy' = NoTable /\ Goto(p, "ensure") /\ UNCHANGED reasons

(* INSERT INTO reasons SELECT date, '', order_no, ... FROM reasons_legacy. *)
CopyRows(p) ==
  /\ step[p] = "copy"
  /\ IF reasons = NoTable \/ legacy = NoTable
     THEN Raises(p)
     ELSE IF Collides
     THEN Raises(p)
     ELSE /\ reasons' = [reasons EXCEPT !.rows = Copied]
          /\ Goto(p, "drop")
          /\ UNCHANGED legacy

(* DROP TABLE reasons_legacy.                                              *)
DropLegacy(p) ==
  /\ step[p] = "drop"
  /\ IF legacy = NoTable
     THEN Raises(p)
     ELSE legacy' = NoTable /\ Goto(p, "ensure") /\ UNCHANGED reasons

(* CREATE TABLE IF NOT EXISTS reasons.                                     *)
EnsureTable(p) ==
  /\ step[p] = "ensure"
  /\ reasons' = IF reasons = NoTable THEN Created ELSE reasons
  /\ Goto(p, "ready")
  /\ UNCHANGED legacy

-----------------------------------------------------------------------------

(* A data directory an older version has used, or one of a first start.    *)
SchemaInit ==
  /\ reasons = IF \E k \in Days \X Numbers : OldRows[k] # NoRow THEN Old ELSE NoTable
  /\ legacy = NoTable
  /\ step = [p \in Programs |-> "off"]

Start(p) ==
  \/ ReadSchema(p) \/ RenameTable(p) \/ CreateTable(p) \/ CopyRows(p) \/ DropLegacy(p)
  \/ EnsureTable(p)

SchemaTypeOK ==
  /\ reasons \in [shape : {"old", "new"}, rows : Rows] \cup {NoTable}
  /\ legacy \in Rows \cup {NoTable}
  /\ step \in [Programs -> {"off", "ensure", "ready"} \cup Migrating]
=============================================================================
