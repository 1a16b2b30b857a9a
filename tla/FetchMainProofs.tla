-------------------------- MODULE FetchMainProofs --------------------------
(***************************************************************************)
(* Type correctness of FetchMain, and WholeOrNothing, TradesAreOwn and     *)
(* ExportSurvives for any number of processes that run one after the       *)
(* other, each ending or killed anywhere.                                  *)
(***************************************************************************)
EXTENDS FetchMain, SequenceTheorems, TLAPS

Buffers == Procs \cup {Hole}

-----------------------------------------------------------------------------
(* Files.                                                                  *)

(* A buffer written beyond the end makes the file longer, one inside it    *)
(* does not.                                                               *)
LEMMA PlaceTyped ==
  ASSUME NEW c \in Seq(Buffers), NEW k \in Nat \ {0}, NEW x \in Buffers
  PROVE  /\ Place(c, k, x) \in Seq(Buffers)
         /\ Len(Place(c, k, x)) = IF k > Len(c) THEN k ELSE Len(c)
<1> DEFINE n == IF k > Len(c) THEN k ELSE Len(c)
<1>1. Len(c) \in Nat /\ DOMAIN c = 1..Len(c) /\ \A i \in 1..Len(c) : c[i] \in Buffers
  BY ElementOfSeq, LenProperties
<1>2. n \in Nat
  BY <1>1
<1>3. \A i \in 1..n : (IF i = k THEN x ELSE IF i <= Len(c) THEN c[i] ELSE Hole) \in Buffers
  <2> TAKE i \in 1..n
  <2>1. i \in Nat /\ i >= 1
    BY <1>2
  <2>2. CASE i <= Len(c)
    <3>1. i \in 1..Len(c)
      BY <1>1, <2>1, <2>2
    <3> QED BY <1>1, <3>1
  <2> QED BY <2>2 DEF Buffers
<1>4. Place(c, k, x) \in [1..n -> Buffers]
  BY <1>3 DEF Place
<1> HIDE DEF n
<1>5. Place(c, k, x) \in Seq(Buffers)
  BY <1>2, <1>4
<1>6. Len(Place(c, k, x)) = n
  <2> DEFINE d == Place(c, k, x)
  <2>1. DOMAIN d = 1..n /\ DOMAIN d = 1..Len(d) /\ Len(d) \in Nat
    BY <1>4, <1>5, LenProperties
  <2> HIDE DEF d
  <2>2. Len(d) = n
    BY <1>2, <2>1
  <2> QED BY <2>2 DEF d
<1> QED BY <1>5, <1>6 DEF n

(* The next buffer of p after those it wrote.                              *)
LEMMA PlaceNext ==
  ASSUME NEW p \in Procs, NEW c \in Seq({p})
  PROVE  /\ Place(c, Len(c) + 1, p) \in Seq({p})
         /\ Len(Place(c, Len(c) + 1, p)) = Len(c) + 1
<1> DEFINE n == Len(c) + 1
           d == Place(c, n, p)
<1>1. Len(c) \in Nat /\ \A i \in 1..Len(c) : c[i] = p
  BY ElementOfSeq, LenProperties
<1>2. n \in Nat /\ n > Len(c)
  BY <1>1
<1>3. d = [i \in 1..n |-> IF i = n THEN p ELSE IF i <= Len(c) THEN c[i] ELSE Hole]
  BY <1>2 DEF Place
<1>4. \A i \in 1..n : (IF i = n THEN p ELSE IF i <= Len(c) THEN c[i] ELSE Hole) = p
  BY <1>1
<1>5. d \in [1..n -> {p}]
  BY <1>3, <1>4
<1> HIDE DEF d
<1>6. d \in Seq({p})
  BY <1>2, <1>5
<1>7. DOMAIN d = 1..n /\ DOMAIN d = 1..Len(d) /\ Len(d) \in Nat
  BY <1>5, <1>6, LenProperties
<1>8. Len(d) = n
  BY <1>2, <1>7
<1> QED BY <1>6, <1>8 DEF d

(* A file that is there is told apart from none.                           *)
LEMMA FragmentIsFile ==
  ASSUME NEW p \in Procs, NEW c \in Seq({p})
  PROVE  c \in Seq(Buffers) /\ c # NoFile
<1>1. c \in Seq(Buffers)
  BY SeqMonotonic, {p} \subseteq Buffers DEF Buffers
<1> QED BY <1>1, ExportAssumption DEF Buffers

(* A fragment of full length is the document.                              *)
LEMMA WholeIsDocument ==
  ASSUME NEW p \in Procs, NEW c, Fragment(c, p), Len(c) = Parts
  PROVE  c = Document(p)
<1>1. Document(p) \in [1..Parts -> {p}]
  BY DEF Document
<1>2. Document(p) \in Seq({p})
  BY <1>1, ExportAssumption
<1>3. c = [i \in 1..Len(c) |-> c[i]] /\ \A i \in 1..Len(c) : c[i] = p
  BY ElementOfSeq, LenProperties DEF Fragment
<1> QED BY <1>3 DEF Document

-----------------------------------------------------------------------------
(* Types.                                                                  *)

(* What is renamed is a file.                                              *)
LEMMA RenameTyped ==
  ASSUME TypeOK, NEW p \in Procs, Rename(p)
  PROVE  /\ out' \in Seq(Buffers) \cup {NoFile}
         /\ tmp' = NoFile
BY DEF TypeOK, ExportTypeOK, Rename, CanRename, Buffers

(* A buffer written to the temporary file leaves a file.                   *)
LEMMA WriteTyped ==
  ASSUME TypeOK, NEW p \in Procs, tmp # NoFile, Write(p)
  PROVE  /\ tmp' \in Seq(Buffers)
         /\ put' \in [Procs -> 0..Parts] /\ put'[p] \in Nat \ {0}
<1>1. tmp \in Seq(Buffers) /\ p \in Buffers
  BY DEF TypeOK, ExportTypeOK, Buffers
<1>2. put' \in [Procs -> 0..Parts] /\ put'[p] \in Nat \ {0}
  BY ExportAssumption DEF TypeOK, ExportTypeOK, Write
<1>3. tmp' = Place(tmp, put'[p], p) \/ tmp' = tmp
  BY DEF Write
<1> QED BY <1>1, <1>2, <1>3, PlaceTyped

(* There is a temporary file while somebody writes it: only a rename takes *)
(* it away, and none succeeds while another process has it open.           *)
WritingInv == (\E p \in Procs : pc[p] = "write") => tmp # NoFile

(* A process moves on, the others stay where they are.                     *)
LEMMA Moved ==
  ASSUME TypeOK, NEW p \in Procs, NEW l \in Labels, Goto(p, l)
  PROVE  /\ pc' \in [Procs -> Labels] /\ pc'[p] = l
         /\ \A q \in Procs \ {p} : pc'[q] = pc[q]
BY DEF Goto, TypeOK, ExportTypeOK

LEMMA ExportTyped ==
  ASSUME TypeOK, WritingInv, NEW p \in Procs, ExportStep(p), UNCHANGED <<mode, code, result>>
  PROVE  TypeOK' /\ WritingInv'
<1> USE DEF Labels
<1>1. CASE OpenTmp(p)
  <2>1. <<>> \in Seq(Buffers)
    BY EmptySeq
  <2>2. <<>> # NoFile
    BY <2>1, ExportAssumption DEF Buffers
  <2>3. CASE tmp' = <<>> /\ Goto(p, "write")
    BY <1>1, <2>1, <2>2, <2>3, Moved DEF OpenTmp, TypeOK, ExportTypeOK, WritingInv, Buffers
  <2>4. CASE tmp' = tmp /\ Goto(p, "unsaved")
    BY <1>1, <2>4, Moved DEF OpenTmp, TypeOK, ExportTypeOK, WritingInv
  <2> QED BY <1>1, <2>3, <2>4 DEF OpenTmp
<1>2. CASE Write(p)
  <2>1. tmp # NoFile
    BY <1>2 DEF WritingInv, Write
  <2>2. tmp' # NoFile
    BY <1>2, <2>1, WriteTyped, ExportAssumption DEF Buffers
  <2> QED BY <1>2, <2>1, <2>2, WriteTyped DEF Write, TypeOK, ExportTypeOK, WritingInv, Buffers
<1>3. CASE Close(p)
  BY <1>3, Moved DEF Close, TypeOK, ExportTypeOK, WritingInv
<1>4. CASE FirstRename(p)
  <2>1. CASE Rename(p) /\ Goto(p, "saved") /\ refused' = refused
    BY <1>4, <2>1, RenameTyped, Moved
    DEF FirstRename, Rename, CanRename, TypeOK, ExportTypeOK, WritingInv, Buffers
  <2>2. CASE Goto(p, "remove") /\ UNCHANGED <<out, tmp>> /\ refused' \in {refused, refused \cup {p}}
    BY <1>4, <2>2, Moved DEF FirstRename, TypeOK, ExportTypeOK, WritingInv
  <2> QED BY <1>4, <2>1, <2>2 DEF FirstRename
<1>5. CASE RemoveOutput(p)
  BY <1>5, Moved DEF RemoveOutput, TypeOK, ExportTypeOK, WritingInv
<1>6. CASE SecondRename(p)
  <2>1. CASE Rename(p) /\ Goto(p, "saved")
    BY <1>6, <2>1, RenameTyped, Moved
    DEF SecondRename, Rename, CanRename, TypeOK, ExportTypeOK, WritingInv, Buffers
  <2>2. CASE Goto(p, "unsaved") /\ UNCHANGED <<out, tmp>>
    BY <1>6, <2>2, Moved DEF SecondRename, TypeOK, ExportTypeOK, WritingInv
  <2> QED BY <1>6, <2>1, <2>2 DEF SecondRename
<1> QED BY <1>1, <1>2, <1>3, <1>4, <1>5, <1>6 DEF ExportStep

(* What a process does before and after its export moves it on or ends it. *)
MainStep(p) == LoadDll(p) \/ LogIn(p) \/ QueryDone(p) \/ Finish(p) \/ Killed(p)

LEMMA MainMoves ==
  ASSUME TypeOK, NEW p \in Procs, MainStep(p)
  PROVE  /\ UNCHANGED <<out, tmp, put, good, refused, mode, result>>
         /\ Running(p)
         /\ \/ \E l \in {"login", "query", "open"} : Goto(p, l) /\ code' = code
            \/ \E c \in {1, 10, 20, 30, 40} : Exit(p, c)
            \/ pc[p] = "saved" /\ Exit(p, 0)
<1>1. CASE LoadDll(p) \/ LogIn(p) \/ QueryDone(p)
  BY <1>1 DEF LoadDll, LogIn, QueryDone, Running
<1>2. CASE Finish(p)
  BY <1>2 DEF Finish, Running
<1>3. CASE Killed(p)
  BY <1>3 DEF Killed
<1> QED BY <1>1, <1>2, <1>3 DEF MainStep

LEMMA MainTyped ==
  ASSUME TypeOK, WritingInv, NEW p \in Procs, Start(p) \/ MainStep(p) \/ Collect(p)
  PROVE  TypeOK' /\ WritingInv'
<1> USE DEF Labels
<1>1. CASE Start(p)
  BY <1>1, Moved, MainAssumption DEF Start, TypeOK, ExportTypeOK, WritingInv
<1>2. CASE MainStep(p)
  <2>1. CASE \E l \in {"login", "query", "open"} : Goto(p, l) /\ code' = code
    BY <1>2, <2>1, MainMoves, Moved DEF TypeOK, ExportTypeOK, WritingInv
  <2>2. CASE \E c \in {0, 1, 10, 20, 30, 40} : Exit(p, c)
    <3>1. PICK c \in {0, 1, 10, 20, 30, 40} : Exit(p, c)
      BY <2>2
    <3>2. code' \in [Procs -> {0, 1, 10, 20, 30, 40}]
      BY <3>1 DEF Exit, TypeOK
    <3>3. pc' \in [Procs -> Labels] /\ \A q \in Procs : pc'[q] = "write" => pc[q] = "write"
      BY <3>1, Moved DEF Exit
    <3> QED BY <1>2, <3>2, <3>3, MainMoves DEF TypeOK, ExportTypeOK, WritingInv
  <2> QED BY <1>2, <2>1, <2>2, MainMoves
<1>3. CASE Collect(p)
  BY <1>3 DEF Collect, exportVars, TypeOK, ExportTypeOK, WritingInv
<1> QED BY <1>1, <1>2, <1>3

(* Every variable has its type, however many processes overlap.            *)
THEOREM MainTypeCorrect == Spec => []TypeOK
<1>1. Init => TypeOK /\ WritingInv
  BY ExportAssumption DEF Init, ExportInit, TypeOK, ExportTypeOK, Labels, WritingInv
<1>2. TypeOK /\ WritingInv /\ [Next]_vars => TypeOK' /\ WritingInv'
  <2> SUFFICES ASSUME TypeOK, WritingInv, [Next]_vars
               PROVE  TypeOK' /\ WritingInv'
    OBVIOUS
  <2>1. CASE Next
    BY <2>1, ExportTyped, MainTyped DEF Next, MainStep
  <2>2. CASE UNCHANGED vars
    BY <2>2 DEF vars, exportVars, TypeOK, ExportTypeOK, WritingInv
  <2> QED BY <2>1, <2>2
<1> QED BY <1>1, <1>2, PTL DEF Spec

-----------------------------------------------------------------------------
(* One process after the other.                                            *)

(* While p runs, every other process is still to start or done with.       *)
LEMMA OthersIdle ==
  ASSUME MInv, NEW p \in Procs, Running(p)
  PROVE  \A q \in Procs \ {p} : ~Busy(q) /\ pc[q] \in {"new", "exit"} /\ ~Saved(q)
<1> TAKE q \in Procs \ {p}
<1>1. ~Busy(q)
  BY DEF MInv, OneAtATime, Busy
<1>2. pc[q] \in {"new", "exit"}
  BY <1>1 DEF Busy, Running
<1>3. ~Saved(q)
  BY <1>1, <1>2 DEF Busy, Saved
<1> QED BY <1>1, <1>2, <1>3

(* What the invariants on files say of p.                                  *)
OwnInv(p) ==
  /\ pc[p] \in {"new", "load", "login", "query", "open"} => put[p] = 0 /\ good[p]
  /\ pc[p] = "write" => /\ tmp \in Seq({p}) /\ Len(tmp) <= put[p]
                        /\ good[p] => Len(tmp) = put[p]
  /\ pc[p] \in {"rename", "remove", "again"} =>
       Fragment(tmp, p) /\ (Len(tmp) < Parts => ~good[p])
  /\ Saved(p) => Fragment(out, p)
  /\ pc[p] \in {"remove", "again"} => refused # {}

FilesInv == UnwrittenInv /\ StreamInv /\ RenameInv /\ SavedInv /\ RefusedInv

LEMMA OwnOfAll == FilesInv <=> \A p \in Procs : OwnInv(p)
BY DEF FilesInv, OwnInv, UnwrittenInv, StreamInv, RenameInv, SavedInv, RefusedInv

(* A step of p, which runs, has to keep only what is said of p.            *)
LEMMA OnlyOwn ==
  ASSUME MInv, NEW p \in Procs, Running(p), NEW l \in Labels,
         Goto(p, l) \/ (pc[p] = l /\ pc' = pc),
         result' = result,
         \A q \in Procs \ {p} : code'[q] = code[q] /\ put'[q] = put[q] /\ good'[q] = good[q],
         OwnInv(p)'
  PROVE  OneAtATime' /\ FilesInv'
<1>1. \A q \in Procs \ {p} : pc'[q] = pc[q] /\ pc[q] \in {"new", "exit"} /\ ~Busy(q) /\ ~Saved(q)
  BY OthersIdle, Moved DEF MInv
<1>2. \A q \in Procs \ {p} : ~Busy(q)' /\ ~Saved(q)'
  BY <1>1 DEF Busy, Saved, Running
<1>3. OneAtATime'
  BY <1>2 DEF OneAtATime
<1>4. \A q \in Procs \ {p} : OwnInv(q)
  BY OwnOfAll DEF MInv, FilesInv
<1>5. \A q \in Procs \ {p} : OwnInv(q)'
  BY <1>1, <1>2, <1>4 DEF OwnInv
<1>6. \A q \in Procs : OwnInv(q)'
  BY <1>5
<1>7. FilesInv'
  BY <1>6 DEF OwnInv, FilesInv, UnwrittenInv, StreamInv, RenameInv, SavedInv, RefusedInv
<1> QED BY <1>3, <1>7

-----------------------------------------------------------------------------
(* The steps of an export.                                                 *)

LEMMA OpenTmpStep ==
  ASSUME MInv, NEW p \in Procs, OpenTmp(p), UNCHANGED <<mode, code, result>>, TypeOK'
  PROVE  MInv'
<1>1. Running(p) /\ OwnInv(p) /\ UNCHANGED <<out, put, good, refused>>
  BY OwnOfAll DEF OpenTmp, Running, MInv, FilesInv
<1>2. OneAtATime' /\ FilesInv'
  <2>1. CASE tmp' = <<>> /\ Goto(p, "write")
    <3>1. pc'[p] = "write" /\ put[p] = 0
      BY <1>1, <2>1, Moved DEF Labels, MInv, OpenTmp, OwnInv
    <3>2. tmp' \in Seq({p}) /\ Len(tmp') = 0
      BY <2>1, EmptySeq
    <3>3. OwnInv(p)'
      BY <1>1, <3>1, <3>2 DEF OwnInv, Saved
    <3> QED BY <1>1, <2>1, <3>3, OnlyOwn DEF Labels
  <2>2. CASE tmp' = tmp /\ Goto(p, "unsaved")
    <3>1. pc'[p] = "unsaved"
      BY <2>2, Moved DEF Labels, MInv
    <3>2. OwnInv(p)'
      BY <3>1 DEF OwnInv, Saved
    <3> QED BY <1>1, <2>2, <3>2, OnlyOwn DEF Labels
  <2> QED BY <2>1, <2>2 DEF OpenTmp
<1>3. WholeOrNothing' /\ TradesAreOwn'
  BY <1>1 DEF MInv, WholeOrNothing, TradesAreOwn
<1>4. ExportSurvives'
  BY <1>1, Moved DEF OpenTmp, MInv, ExportSurvives, Labels
<1> QED BY <1>2, <1>3, <1>4 DEF MInv, FilesInv

LEMMA WriteStep ==
  ASSUME MInv, NEW p \in Procs, Write(p), UNCHANGED <<mode, code, result>>, TypeOK'
  PROVE  MInv'
<1>1. /\ Running(p) /\ OwnInv(p) /\ UNCHANGED <<out, pc, refused>>
      /\ pc[p] = "write" /\ good[p]
  BY OwnOfAll DEF Write, Running, MInv, FilesInv
<1>2. /\ put[p] \in Nat /\ put'[p] = put[p] + 1
      /\ \A q \in Procs \ {p} : put'[q] = put[q] /\ good'[q] = good[q]
  BY DEF Write, MInv, TypeOK, ExportTypeOK
<1>3. tmp \in Seq({p}) /\ Len(tmp) = put[p]
  BY <1>1 DEF OwnInv
<1>4. OwnInv(p)'
  <2>1. CASE tmp' = Place(tmp, put'[p], p) /\ good' = good
    <3>1. tmp' \in Seq({p}) /\ Len(tmp') = put'[p]
      BY <1>2, <1>3, <2>1, PlaceNext
    <3> QED BY <1>1, <1>2, <3>1 DEF OwnInv, Saved
  <2>2. CASE tmp' = tmp /\ good' = [good EXCEPT ![p] = FALSE]
    <3>1. ~good'[p]
      BY <2>2 DEF MInv, TypeOK, ExportTypeOK
    <3> QED BY <1>1, <1>2, <1>3, <2>2, <3>1 DEF OwnInv, Saved
  <2> QED BY <2>1, <2>2 DEF Write
<1>5. OneAtATime' /\ FilesInv'
  BY <1>1, <1>2, <1>4, OnlyOwn DEF Labels
<1>6. WholeOrNothing'
  <2>1. \A q \in Procs : ~good[q] => ~good'[q]
    BY <1>1, <1>2
  <2> QED BY <1>1, <2>1 DEF MInv, WholeOrNothing
<1>7. TradesAreOwn' /\ ExportSurvives'
  BY <1>1 DEF MInv, TradesAreOwn, ExportSurvives
<1> QED BY <1>5, <1>6, <1>7 DEF MInv, FilesInv

LEMMA CloseStep ==
  ASSUME MInv, NEW p \in Procs, Close(p), UNCHANGED <<mode, code, result>>, TypeOK'
  PROVE  MInv'
<1>1. /\ Running(p) /\ OwnInv(p) /\ UNCHANGED <<out, tmp, put, good, refused>>
      /\ pc[p] = "write" /\ (put[p] = Parts \/ ~good[p]) /\ Goto(p, "rename")
  BY OwnOfAll DEF Close, Running, MInv, FilesInv
<1>2. pc'[p] = "rename"
  BY <1>1, Moved DEF Labels, MInv
<1>3. Fragment(tmp, p) /\ (Len(tmp) < Parts => ~good[p])
  <2>1. put[p] \in 0..Parts /\ Parts \in Nat
    BY ExportAssumption DEF MInv, TypeOK, ExportTypeOK
  <2>2. tmp \in Seq({p}) /\ Len(tmp) \in Nat /\ Len(tmp) <= put[p] /\ (good[p] => Len(tmp) = put[p])
    BY <1>1, LenProperties DEF OwnInv
  <2> QED BY <1>1, <2>1, <2>2 DEF Fragment
<1>4. OwnInv(p)'
  BY <1>1, <1>2, <1>3 DEF OwnInv, Saved, Fragment
<1>5. OneAtATime' /\ FilesInv'
  BY <1>1, <1>4, OnlyOwn DEF Labels
<1>6. WholeOrNothing' /\ TradesAreOwn'
  BY <1>1 DEF MInv, WholeOrNothing, TradesAreOwn, Fragment
<1>7. ExportSurvives'
  BY <1>1, <1>2, Moved DEF MInv, ExportSurvives, Labels
<1> QED BY <1>5, <1>6, <1>7 DEF MInv, FilesInv

(* A rename that succeeds puts p's document in place.                      *)
LEMMA Renamed ==
  ASSUME MInv, NEW p \in Procs, pc[p] \in {"rename", "remove", "again"},
         Rename(p), Goto(p, "saved"),
         UNCHANGED <<put, good, refused, mode, code, result>>, TypeOK'
  PROVE  MInv'
<1>1. /\ Running(p) /\ OwnInv(p) /\ out' = tmp
      /\ Fragment(tmp, p) /\ (Len(tmp) < Parts => ~good[p])
  BY OwnOfAll DEF Running, MInv, FilesInv, OwnInv, Rename
<1>2. pc'[p] = "saved"
  BY Moved DEF Labels, MInv
<1>3. OwnInv(p)'
  BY <1>1, <1>2 DEF OwnInv, Fragment
<1>4. OneAtATime' /\ FilesInv'
  BY <1>1, <1>3, OnlyOwn DEF Labels
<1>5. WholeOrNothing'
  BY <1>1 DEF WholeOrNothing, Fragment
<1>6. TradesAreOwn'
  BY DEF MInv, TradesAreOwn
<1>7. ExportSurvives'
  BY <1>1, FragmentIsFile DEF Fragment, ExportSurvives
<1> QED BY <1>4, <1>5, <1>6, <1>7 DEF MInv, FilesInv

LEMMA FirstRenameStep ==
  ASSUME MInv, NEW p \in Procs, FirstRename(p), UNCHANGED <<mode, code, result>>, TypeOK'
  PROVE  MInv'
<1>1. CASE Rename(p) /\ Goto(p, "saved") /\ refused' = refused
  BY <1>1, Renamed DEF FirstRename
<1>2. CASE /\ Goto(p, "remove")
           /\ refused' = IF CanRename(p) THEN refused \cup {p} ELSE refused
           /\ UNCHANGED <<out, tmp>>
  <2>1. /\ Running(p) /\ OwnInv(p) /\ UNCHANGED <<put, good>>
        /\ pc[p] = "rename" /\ Fragment(tmp, p)
    BY OwnOfAll DEF FirstRename, Running, MInv, FilesInv, OwnInv
  <2>2. CanRename(p)
    BY <2>1, OthersIdle, FragmentIsFile DEF Fragment, CanRename
  <2>3. refused' = refused \cup {p}
    BY <1>2, <2>2
  <2>4. pc'[p] = "remove"
    BY <1>2, Moved DEF Labels, MInv
  <2>5. OwnInv(p)'
    BY <1>2, <2>1, <2>3, <2>4 DEF OwnInv, Saved, Fragment
  <2>6. OneAtATime' /\ FilesInv'
    BY <1>2, <2>1, <2>5, OnlyOwn DEF Labels
  <2>7. WholeOrNothing' /\ TradesAreOwn'
    BY <1>2, <2>1 DEF MInv, WholeOrNothing, TradesAreOwn, Fragment
  <2>8. ExportSurvives'
    BY <2>3 DEF ExportSurvives
  <2> QED BY <2>6, <2>7, <2>8 DEF MInv, FilesInv
<1> QED BY <1>1, <1>2 DEF FirstRename

LEMMA RemoveOutputStep ==
  ASSUME MInv, NEW p \in Procs, RemoveOutput(p), UNCHANGED <<mode, code, result>>, TypeOK'
  PROVE  MInv'
<1>1. /\ Running(p) /\ OwnInv(p) /\ UNCHANGED <<tmp, put, good, refused>>
      /\ pc[p] = "remove" /\ Goto(p, "again") /\ out' \in {out, NoFile}
  BY OwnOfAll DEF RemoveOutput, Running, MInv, FilesInv
<1>2. pc'[p] = "again"
  BY <1>1, Moved DEF Labels, MInv
<1>3. OwnInv(p)'
  BY <1>1, <1>2 DEF OwnInv, Saved, Fragment
<1>4. OneAtATime' /\ FilesInv'
  BY <1>1, <1>3, OnlyOwn DEF Labels
<1>5. WholeOrNothing' /\ TradesAreOwn'
  BY <1>1 DEF MInv, WholeOrNothing, TradesAreOwn, Fragment
<1>6. ExportSurvives'
  BY <1>1 DEF OwnInv, ExportSurvives
<1> QED BY <1>4, <1>5, <1>6 DEF MInv, FilesInv

LEMMA SecondRenameStep ==
  ASSUME MInv, NEW p \in Procs, SecondRename(p), UNCHANGED <<mode, code, result>>, TypeOK'
  PROVE  MInv'
<1>1. CASE Rename(p) /\ Goto(p, "saved")
  BY <1>1, Renamed DEF SecondRename
<1>2. CASE Goto(p, "unsaved") /\ UNCHANGED <<out, tmp>>
  <2>1. Running(p) /\ OwnInv(p) /\ UNCHANGED <<put, good, refused>>
    BY OwnOfAll DEF SecondRename, Running, MInv, FilesInv
  <2>2. pc'[p] = "unsaved"
    BY <1>2, Moved DEF Labels, MInv
  <2>3. OwnInv(p)'
    BY <2>2 DEF OwnInv, Saved
  <2>4. OneAtATime' /\ FilesInv'
    BY <1>2, <2>1, <2>3, OnlyOwn DEF Labels
  <2>5. WholeOrNothing' /\ TradesAreOwn'
    BY <1>2, <2>1 DEF MInv, WholeOrNothing, TradesAreOwn, Fragment
  <2>6. ExportSurvives'
    BY <1>2, <2>1, <2>2, Moved DEF MInv, ExportSurvives, Labels
  <2> QED BY <2>4, <2>5, <2>6 DEF MInv, FilesInv
<1> QED BY <1>1, <1>2 DEF SecondRename

-----------------------------------------------------------------------------
(* The rest of main(), and the caller.                                     *)

LEMMA StartStep ==
  ASSUME MInv, Concurrent = FALSE, NEW p \in Procs, Start(p), TypeOK'
  PROVE  MInv'
<1>1. UNCHANGED <<out, tmp, put, good, refused, code, result>> /\ pc[p] = "new"
  BY DEF Start
<1>2. pc'[p] = "load" /\ \A q \in Procs \ {p} : pc'[q] = pc[q]
  BY Moved DEF Start, Labels, MInv
<1>3. \A q \in Procs : ~Busy(q)
  BY DEF Start, Busy
<1>4. \A q \in Procs \ {p} : ~Busy(q)'
  BY <1>1, <1>2, <1>3 DEF Busy, Running
<1>5. OneAtATime'
  BY <1>4 DEF OneAtATime
<1>6. FilesInv'
  BY <1>1, <1>2 DEF MInv, FilesInv, UnwrittenInv, StreamInv, RenameInv, SavedInv, RefusedInv,
     Saved, Fragment
<1>7. WholeOrNothing' /\ TradesAreOwn' /\ ExportSurvives'
  BY <1>1, <1>2 DEF MInv, WholeOrNothing, TradesAreOwn, ExportSurvives, Fragment
<1> QED BY <1>5, <1>6, <1>7 DEF MInv, FilesInv

LEMMA MainStepKeeps ==
  ASSUME MInv, NEW p \in Procs, MainStep(p), TypeOK'
  PROVE  MInv'
<1>1. Running(p) /\ OwnInv(p) /\ UNCHANGED <<out, tmp, put, good, refused, result>>
  BY OwnOfAll, MainMoves DEF MInv, FilesInv
<1>2. WholeOrNothing' /\ TradesAreOwn'
  BY <1>1 DEF MInv, WholeOrNothing, TradesAreOwn, Fragment
<1>3. CASE LoadDll(p) \/ LogIn(p) \/ QueryDone(p)
  <2>1. pc[p] \in {"load", "login", "query"}
    BY <1>3 DEF LoadDll, LogIn, QueryDone
  <2>2. PICK l \in {"login", "query", "open", "exit"} :
          /\ Goto(p, l)
          /\ l = "exit" => \E c \in {10, 20, 30} : code' = [code EXCEPT ![p] = c]
          /\ l # "exit" => code' = code
    BY <1>3 DEF LoadDll, LogIn, QueryDone, Exit
  <2>3. pc'[p] = l
    BY <2>2, Moved DEF Labels, MInv
  <2>4. (\A q \in Procs \ {p} : code'[q] = code[q]) /\ (l = "exit" => code'[p] # 0)
    BY <2>2 DEF MInv, TypeOK
  <2>5. OwnInv(p)'
    BY <1>1, <2>1, <2>3, <2>4 DEF OwnInv, Saved
  <2>6. OneAtATime' /\ FilesInv'
    BY <1>1, <2>2, <2>4, <2>5, OnlyOwn DEF Labels
  <2>7. ExportSurvives'
    BY <1>1, <2>2, <2>3, <2>4, Moved DEF MInv, ExportSurvives, Labels
  <2> QED BY <1>2, <2>6, <2>7 DEF MInv, FilesInv
<1>4. CASE Finish(p) \/ Killed(p)
  <2>1. PICK c \in {0, 1, 30, 40} : Exit(p, c) /\ (c = 0 => pc[p] = "saved")
    BY <1>4 DEF Finish, Killed
  <2>2. pc'[p] = "exit" /\ \A q \in Procs \ {p} : pc'[q] = pc[q]
    BY <2>1, Moved DEF Exit, Labels, MInv
  <2>3. code'[p] = c /\ \A q \in Procs \ {p} : code'[q] = code[q]
    BY <2>1 DEF Exit, MInv, TypeOK
  <2>4. c = 0 => Fragment(out, p)
    BY <1>1, <2>1 DEF OwnInv, Saved
  <2>5. OwnInv(p)'
    BY <1>1, <2>2, <2>3, <2>4 DEF OwnInv, Saved, Fragment
  <2>6. OneAtATime' /\ FilesInv'
    BY <1>1, <2>1, <2>3, <2>5, OnlyOwn DEF Exit, Labels
  <2>7. ExportSurvives'
    <3>1. c = 0 => out # NoFile
      BY <2>4, FragmentIsFile DEF Fragment
    <3> QED BY <1>1, <2>2, <2>3, <3>1 DEF MInv, ExportSurvives
  <2> QED BY <1>2, <2>6, <2>7 DEF MInv, FilesInv
<1> QED BY <1>3, <1>4 DEF MainStep

LEMMA CollectStep ==
  ASSUME MInv, NEW p \in Procs, Collect(p), TypeOK'
  PROVE  MInv'
<1>1. UNCHANGED <<out, tmp, pc, put, good, refused, code>> /\ pc[p] = "exit" /\ result[p] = <<"none">>
  BY DEF Collect, exportVars
<1>2. \A q \in Procs \ {p} : result'[q] = result[q]
  BY DEF Collect, MInv, TypeOK
<1>3. \A q \in Procs : (Busy(q)' => Busy(q)) /\ (Saved(q)' => Saved(q))
  BY <1>1, <1>2 DEF Busy, Saved, Running
<1>4. OneAtATime'
  BY <1>3 DEF MInv, OneAtATime
<1>5. FilesInv'
  BY <1>1, <1>3
  DEF MInv, FilesInv, UnwrittenInv, StreamInv, RenameInv, SavedInv, RefusedInv, Fragment
<1>6. TradesAreOwn'
  <2>1. result'[p] = IF code[p] = 0 /\ out # NoFile /\ Len(out) = Parts THEN out ELSE <<"error">>
    BY DEF Collect, MInv, TypeOK
  <2>2. code[p] = 0 => Fragment(out, p)
    BY <1>1 DEF MInv, SavedInv, Saved
  <2>3. result'[p] \in {<<"error">>, Document(p)}
    BY <2>1, <2>2, WholeIsDocument
  <2> QED BY <1>2, <2>3 DEF MInv, TradesAreOwn, Document
<1>7. WholeOrNothing' /\ ExportSurvives'
  BY <1>1 DEF MInv, WholeOrNothing, ExportSurvives, Fragment
<1> QED BY <1>4, <1>5, <1>6, <1>7 DEF MInv, FilesInv

LEMMA MInit == Init => MInv
<1> SUFFICES ASSUME Init
             PROVE  MInv
  OBVIOUS
<1>1. TypeOK
  BY ExportAssumption DEF Init, ExportInit, TypeOK, ExportTypeOK, Labels
<1>2. OneAtATime /\ FilesInv
  BY DEF Init, ExportInit, OneAtATime, Busy, Running, FilesInv, UnwrittenInv, StreamInv,
     RenameInv, SavedInv, Saved, RefusedInv
<1>3. WholeOrNothing /\ TradesAreOwn /\ ExportSurvives
  BY DEF Init, ExportInit, WholeOrNothing, TradesAreOwn, ExportSurvives
<1> QED BY <1>1, <1>2, <1>3 DEF MInv, FilesInv

LEMMA MStutter ==
  ASSUME MInv, UNCHANGED vars
  PROVE  MInv'
<1>1. UNCHANGED <<out, tmp, pc, put, good, refused, mode, code, result>>
  BY DEF vars, exportVars
<1>2. TypeOK'
  BY <1>1 DEF MInv, TypeOK, ExportTypeOK
<1>3. OneAtATime' /\ RefusedInv' /\ TradesAreOwn' /\ ExportSurvives'
  BY <1>1 DEF MInv, OneAtATime, Busy, Running, RefusedInv, TradesAreOwn, ExportSurvives
<1>4. UnwrittenInv' /\ StreamInv' /\ RenameInv' /\ SavedInv' /\ WholeOrNothing'
  BY <1>1 DEF MInv, UnwrittenInv, StreamInv, RenameInv, SavedInv, Saved, WholeOrNothing, Fragment
<1> QED BY <1>2, <1>3, <1>4 DEF MInv

(* MInv is an invariant of processes that run one after the other.         *)
THEOREM InTurn == Concurrent = FALSE => (Spec => []MInv)
<1> SUFFICES ASSUME Concurrent = FALSE
             PROVE  Spec => []MInv
  OBVIOUS
<1>1. TypeOK /\ WritingInv /\ MInv /\ [Next]_vars => MInv'
  <2> SUFFICES ASSUME TypeOK, WritingInv, MInv, [Next]_vars
               PROVE  MInv'
    OBVIOUS
  <2>1. CASE \E p \in Procs : ExportStep(p) /\ UNCHANGED <<mode, code, result>>
    BY <2>1, ExportTyped, OpenTmpStep, WriteStep, CloseStep, FirstRenameStep, RemoveOutputStep,
       SecondRenameStep
    DEF ExportStep
  <2>2. CASE \E p \in Procs : Start(p) \/ MainStep(p) \/ Collect(p)
    BY <2>2, MainTyped, StartStep, MainStepKeeps, CollectStep
  <2>3. CASE UNCHANGED vars
    BY <2>3, MStutter
  <2> QED BY <2>1, <2>2, <2>3 DEF Next, MainStep
<1>2. MInv => TypeOK /\ WritingInv
  <2> SUFFICES ASSUME MInv
               PROVE  WritingInv
    BY DEF MInv
  <2> SUFFICES ASSUME NEW p \in Procs, pc[p] = "write"
               PROVE  tmp # NoFile
    BY DEF WritingInv
  <2>1. tmp \in Seq({p})
    BY DEF MInv, StreamInv
  <2> QED BY <2>1, FragmentIsFile
<1> QED BY MInit, <1>1, <1>2, PTL DEF Spec

(* Killed or failing at any step, processes that run one after the other   *)
(* never leave a torn or a mixed document at the output path.              *)
THEOREM OutputIsWhole == Concurrent = FALSE => (Spec => []WholeOrNothing)
<1>1. MInv => WholeOrNothing
  BY DEF MInv
<1> QED BY <1>1, InTurn, PTL

(* The rows a caller reads are those of the process it started.            *)
THEOREM TradesAreOfTheProcess == Concurrent = FALSE => (Spec => []TradesAreOwn)
<1>1. MInv => TradesAreOwn
  BY DEF MInv
<1> QED BY <1>1, InTurn, PTL

(* Failed and killed processes keep the last export, unless the system     *)
(* refuses a rename.                                                       *)
THEOREM LastExportSurvives == Concurrent = FALSE => (Spec => []ExportSurvives)
<1>1. MInv => ExportSurvives
  BY DEF MInv
<1> QED BY <1>1, InTurn, PTL
=============================================================================
