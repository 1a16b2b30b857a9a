---------------------------- MODULE AtomicExport ----------------------------
(***************************************************************************)
(* JsonExport::write_atomic and its siblings: the document goes to         *)
(* <output>.tmp, which is renamed to <output>.  Several processes may      *)
(* export to one path: the window's session and the scheduled --auto run   *)
(* both write data/json/<date>.json.  The file system is external: a       *)
(* rename may be refused (a reader or a scanner holds the file) and is     *)
(* refused while another process has the temporary file open; the disk     *)
(* may be full, and a process may be killed between any two steps.         *)
(***************************************************************************)
EXTENDS Naturals, Sequences

CONSTANTS
  Procs,   (* processes of fetch.exe, each of which exports once           *)
  Parts,   (* buffers that a document takes                                *)
  NoFile,  (* the path names no file                                       *)
  Hole     (* bytes nobody wrote                                           *)

ASSUME ExportAssumption ==
  /\ Parts \in Nat \ {0}
  /\ Hole \notin Procs
  /\ NoFile \notin Seq(Procs \cup {Hole})

VARIABLES
  out,     (* what is at <output>, buffer by buffer                        *)
  tmp,     (* what is at <output>.tmp                                      *)
  pc,      (* where each process is                                        *)
  put,     (* buffers it has given to its stream                           *)
  good,    (* its stream has not failed                                    *)
  refused  (* processes whose first rename something else refused          *)

exportVars == <<out, tmp, pc, put, good, refused>>

(* A buffer names the process whose document it belongs to.                *)
Document(p) == [i \in 1..Parts |-> p]

Goto(p, l) == pc' = [pc EXCEPT ![p] = l]

-----------------------------------------------------------------------------

(* Variant the runs refute: the file is opened without ios::trunc.         *)
OpenTmpAppending(p) ==
  /\ pc[p] = "open"
  /\ \/ /\ tmp' = IF tmp = NoFile THEN <<>> ELSE tmp
        /\ Goto(p, "write")
     \/ tmp' = tmp /\ Goto(p, "unsaved")
  /\ UNCHANGED <<out, put, good, refused>>

(* create_directories and ofstream(tmp_path, trunc).                       *)
OpenTmp(p) ==
  /\ pc[p] = "open"
  /\ \/ tmp' = <<>> /\ Goto(p, "write")
     \/ tmp' = tmp /\ Goto(p, "unsaved")
  /\ UNCHANGED <<out, put, good, refused>>

(* Buffer k of file c is written as x.                                     *)
Place(c, k, x) ==
  [i \in 1..(IF k > Len(c) THEN k ELSE Len(c)) |->
     IF i = k THEN x ELSE IF i <= Len(c) THEN c[i] ELSE Hole]

(* Variant the runs refute: one buffer is written after the last.          *)
WriteOneMore(p) ==
  /\ pc[p] = "write" /\ put[p] <= Parts /\ good[p]
  /\ put' = [put EXCEPT ![p] = @ + 1]
  /\ \/ tmp' = Place(tmp, put'[p], p) /\ good' = good
     \/ tmp' = tmp /\ good' = [good EXCEPT ![p] = FALSE]
  /\ UNCHANGED <<out, pc, refused>>

(* The next buffer reaches the file, or the disk is full and the stream    *)
(* takes no more.                                                          *)
Write(p) ==
  /\ pc[p] = "write" /\ put[p] < Parts /\ good[p]
  /\ put' = [put EXCEPT ![p] = @ + 1]
  /\ \/ tmp' = Place(tmp, put'[p], p) /\ good' = good
     \/ tmp' = tmp /\ good' = [good EXCEPT ![p] = FALSE]
  /\ UNCHANGED <<out, pc, refused>>

(* flush and close: the state of the stream is not looked at.              *)
Close(p) ==
  /\ pc[p] = "write" /\ (put[p] = Parts \/ ~good[p])
  /\ Goto(p, "rename")
  /\ UNCHANGED <<out, tmp, put, good, refused>>

(* There is a temporary file, and no other process has it open.            *)
CanRename(p) ==
  /\ tmp # NoFile
  /\ \A q \in Procs \ {p} : pc[q] # "write"

Rename(p) ==
  /\ CanRename(p)
  /\ out' = tmp
  /\ tmp' = NoFile

(* Variant the runs refute: the old file is removed before any rename.     *)
FirstRenameRemoves(p) ==
  /\ pc[p] = "rename"
  /\ out' = NoFile
  /\ Goto(p, "again")
  /\ UNCHANGED <<tmp, put, good, refused>>

FirstRename(p) ==
  /\ pc[p] = "rename"
  /\ \/ Rename(p) /\ Goto(p, "saved") /\ refused' = refused
     \/ /\ Goto(p, "remove")
        /\ refused' = IF CanRename(p) THEN refused \cup {p} ELSE refused
        /\ UNCHANGED <<out, tmp>>
  /\ UNCHANGED <<put, good>>

(* remove(out_path, remove_ec): its result is not looked at.               *)
RemoveOutput(p) ==
  /\ pc[p] = "remove"
  /\ out' \in {out, NoFile}
  /\ Goto(p, "again")
  /\ UNCHANGED <<tmp, put, good, refused>>

SecondRename(p) ==
  /\ pc[p] = "again"
  /\ \/ Rename(p) /\ Goto(p, "saved")
     \/ Goto(p, "unsaved") /\ UNCHANGED <<out, tmp>>
  /\ UNCHANGED <<put, good, refused>>

-----------------------------------------------------------------------------

ExportInit ==
  /\ out = NoFile /\ tmp = NoFile
  /\ pc = [p \in Procs |-> "new"]
  /\ put = [p \in Procs |-> 0]
  /\ good = [p \in Procs |-> TRUE]
  /\ refused = {}

ExportStep(p) ==
  \/ OpenTmp(p) \/ Write(p) \/ Close(p)
  \/ FirstRename(p) \/ RemoveOutput(p) \/ SecondRename(p)

Labels == {"new", "load", "login", "query", "open", "write", "rename", "remove", "again",
           "saved", "unsaved", "exit"}

ExportTypeOK ==
  /\ out \in Seq(Procs \cup {Hole}) \cup {NoFile}
  /\ tmp \in Seq(Procs \cup {Hole}) \cup {NoFile}
  /\ pc \in [Procs -> Labels]
  /\ put \in [Procs -> 0..Parts]
  /\ good \in [Procs -> BOOLEAN]
  /\ refused \subseteq Procs
=============================================================================
