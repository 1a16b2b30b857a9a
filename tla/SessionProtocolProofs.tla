----------------------- MODULE SessionProtocolProofs -----------------------
(***************************************************************************)
(* What the session protocol guarantees for any selections, any number of  *)
(* requests and any number of accounts, as long as no trade password reads *)
(* as a small number: client and loop stay in step, what runs is what was  *)
(* asked, and every step is one that ServiceCall allows.  Behind a trade   *)
(* password that reads as a large number requests are not answered (run    *)
(* `password`), but none is answered with what belongs to another.         *)
(***************************************************************************)
EXTENDS SessionProtocol, SequenceTheorems, TLAPS

(* The lines of the longest request, and of all requests still to come     *)
(* when n were made.                                                       *)
MaxLines == 5 + MaxSelections
ToCome(n) == (MaxRequests - n) * MaxLines

(* The premise: a trade password that reads as an int is more than all the *)
(* lines of a session, the SHUTDOWN included.  The run `smallpassword`     *)
(* shows what happens without it.                                          *)
NoSmallPassword == \A p \in TradePasswords : p = NotInt \/ p > ToCome(0) + 1

-----------------------------------------------------------------------------
(* The inductive invariant.                                                *)

Texts == {"LOGIN", "QUERY", "BALANCE", "SHUTDOWN", "field", "sel", "badsel"}
AnyLine == [text: Texts, int: Nat \cup {NotInt}, of: Nat]
Answer == [of: Nat, ok: BOOLEAN]
Asking == {"LOGIN", "QUERY", "BALANCE"}

(* Where the two programs are.                                             *)
PlaceInv ==
  /\ client \in {"idle", "waiting", "closing", "closed", "gone"}
  /\ handle \in BOOLEAN
  /\ then \in {"open", "rest", "exit"}
  /\ result \in {"none", "ok", "error"}
  /\ srv \in {"command", "payload", "count", "selections", "discard", "run", "exited"}
  /\ loggedIn \in BOOLEAN

PipeInv == stdin \in Seq(AnyLine) /\ stdout \in Seq(Answer)

Request ==
  [no: 0..MaxRequests, kind: Asking \cup {"none"}, pw: TradePasswords \cup {NotInt},
   sels: Selections \cup {<<>>}]

(* A request the client may make.                                          *)
Asked(r) ==
  /\ r \in Request /\ r.kind \in Asking /\ r.no > 0
  /\ r.kind = "LOGIN" => r.sels = <<>>
  /\ r.kind \in {"QUERY", "BALANCE"} => r.sels \in Selections
  /\ r.kind # "QUERY" => r.pw = NotInt

(* Requests are numbered in turn, and only those made are carried out.     *)
AskedInv ==
  /\ asked = NoRequest \/ Asked(asked)
  /\ client = "waiting" => Asked(asked)
  /\ client \in {"closing", "closed"} /\ then = "open" => asked.no < MaxRequests
  /\ done \subseteq 1..asked.no

(* Without a handle there is no process, unless the client is closing it.  *)
HandleInv ==
  /\ client = "idle" /\ ~handle => srv = "exited"
  /\ client = "waiting" => handle
  /\ client \in {"closing", "closed"} => ~handle
  /\ client = "closed" => srv = "exited"

(* An answer that waits to be read answers the last request, and "ok" only *)
(* what was carried out.                                                   *)
AnswerInv ==
  /\ Len(stdout) <= 1
  /\ client = "waiting" =>
       \A i \in DOMAIN stdout :
         stdout[i].of = asked.no /\ (stdout[i].ok => asked.no \in done)
  /\ client = "idle" /\ handle => stdout = <<>>

(* The client asks only a process that is logged in.                       *)
LoggedInv ==
  srv # "exited" =>
    /\ client = "idle" => loggedIn
    /\ asked.kind \in {"QUERY", "BALANCE"} => loggedIn
    /\ \A i \in DOMAIN stdout : stdout[i].ok => loggedIn

(* The request is being read or carried out.                               *)
Unanswered ==
  /\ client \in {"waiting", "gone"}
  /\ Asked(asked)
  /\ stdout = <<>>
  /\ asked.no \notin done

(* After k other lines, `in` holds these but for the first n, and nothing  *)
(* else.                                                                   *)
Ahead(in, k, lines, n) ==
  /\ Len(in) = k + (Len(lines) - n)
  /\ \A i \in (n + 1)..Len(lines) : in[(k + i) - n] = lines[i]

(* After k lines comes nothing, SHUTDOWN, or the last request.             *)
Following(k) ==
  \/ Len(stdin) = k /\ client \in {"waiting", "idle", "gone"}
  \/ /\ Len(stdin) = k + 1 /\ stdin[k + 1].text = "SHUTDOWN"
     /\ stdout = <<>> /\ client \in {"closing", "gone"}
  \/ Ahead(stdin, k, Lines(asked), 0) /\ Unanswered

(* The loop drops whatever the client will ever write: it took the trade   *)
(* password of a request for the number of its selections.  It gave that   *)
(* request the answer it refused the count line with, and gives no other.  *)
Swallows ==
  /\ left > Len(stdin) + ToCome(asked.no) + (IF handle THEN 1 ELSE 0)
  /\ client = "idle" \/ stdout # <<>> => asked.pw # NotInt

(* The number of selections was read, and these are read one by one.       *)
Reading ==
  /\ asked.pw = NotInt
  /\ Len(asked.sels) = Len(got) + left
  /\ got \in Seq({"sel", "badsel"})
  /\ \A i \in 1..Len(got) : got[i] = asked.sels[i]
  /\ Ahead(stdin, 0, Lines(asked), Len(Lines(asked)) - left)

(* The trade password was read as their number.                            *)
Misreading ==
  /\ asked.kind = "QUERY" /\ asked.pw # NotInt
  /\ Swallows
  /\ Ahead(stdin, 0, Lines(asked), 4)

(* Where the loop is, in the lines that are still to come.                 *)
StageInv ==
  /\ left \in Nat
  /\ password = NotInt
  /\ srv = "command" => Following(0)
  /\ srv = "discard" => left > 0 /\ (Following(left) \/ Swallows)
  /\ srv \in {"payload", "count", "selections", "run"} =>
       Unanswered /\ current = [no |-> asked.no, kind |-> asked.kind]
  /\ srv = "payload" => Ahead(stdin, 0, Lines(asked), 1)
  /\ srv = "count" =>
       asked.kind = "QUERY" /\ asked.pw = NotInt /\ Ahead(stdin, 0, Lines(asked), 4)
  /\ srv = "selections" => asked.kind # "LOGIN" /\ left > 0 /\ (Reading \/ Misreading)
  /\ srv = "run" =>
       asked.kind # "LOGIN" /\ asked.pw = NotInt /\ got = asked.sels /\ Len(stdin) = 0

SInv == PlaceInv /\ PipeInv /\ AskedInv /\ HandleInv /\ AnswerInv /\ LoggedInv /\ StageInv

-----------------------------------------------------------------------------
(* Lines.                                                                  *)

LEMMA LineTyped ==
  ASSUME NEW text \in Texts, NEW int \in Nat \cup {NotInt}, NEW of \in Nat
  PROVE  <<Line(text, int, of)>> \in Seq(AnyLine)
BY DEF Line, AnyLine

LEMMA FieldsTyped ==
  ASSUME NEW n \in Nat, NEW of \in Nat
  PROVE  Fields(n, of) \in Seq(AnyLine) /\ Len(Fields(n, of)) = n
BY DEF Fields, Line, AnyLine, Texts

LEMMA SelectionsTyped ==
  ASSUME NEW sels \in Seq({"sel", "badsel"}), NEW of \in Nat
  PROVE  /\ SelectionLines(sels, of) \in Seq(AnyLine)
         /\ Len(SelectionLines(sels, of)) = Len(sels)
         /\ \A i \in 1..Len(sels) : SelectionLines(sels, of)[i].text = sels[i]
<1> DEFINE lines == SelectionLines(sels, of)
<1>1. Len(sels) \in Nat /\ DOMAIN sels = 1..Len(sels) /\ \A i \in 1..Len(sels) : sels[i] \in Texts
  BY ElementOfSeq, LenProperties DEF Texts
<1>2. \A i \in 1..Len(sels) : Line(sels[i], NotInt, of) \in AnyLine
  BY <1>1 DEF Line, AnyLine
<1>3. lines \in [1..Len(sels) -> AnyLine]
  BY <1>1, <1>2 DEF SelectionLines
<1> HIDE DEF lines
<1>4. lines \in Seq(AnyLine) /\ Len(lines) = Len(sels)
  BY <1>1, <1>3
<1> QED  BY <1>1, <1>4 DEF lines, SelectionLines, Line

LEMMA SelsTyped ==
  ASSUME NEW r, Asked(r)
  PROVE  /\ r.sels \in Seq({"sel", "badsel"}) /\ r.no \in Nat
         /\ r.kind # "LOGIN" => Len(r.sels) > 0
         /\ Len(r.sels) <= MaxSelections
         /\ r.pw \in Nat \cup {NotInt}
<1>1. r.sels \in Selections \cup {<<>>} /\ r.no \in 0..MaxRequests /\ r.kind \in Asking
  BY DEF Asked, Request
<1>2. Selections \subseteq Seq({"sel", "badsel"}) /\ <<>> \in Seq({"sel", "badsel"})
  BY ProtocolAssumption
<1>3. r.no \in Nat
  BY <1>1, ProtocolAssumption
<1>4. r.sels \in Seq({"sel", "badsel"}) /\ r.no \in Nat
  BY <1>1, <1>2, <1>3
<1>5. r.kind # "LOGIN" => r.sels # <<>>
  BY <1>1, ProtocolAssumption DEF Asked, Asking
<1>6. Len(r.sels) <= MaxSelections
  <2>1. CASE r.sels = <<>>
    BY <2>1, EmptySeq, ProtocolAssumption
  <2>2. CASE r.sels \in Selections
    BY <2>2, ProtocolAssumption
  <2> QED  BY <1>1, <2>1, <2>2
<1>7. r.pw \in Nat \cup {NotInt}
  BY ProtocolAssumption DEF Asked, Request
<1> QED  BY <1>4, <1>5, <1>6, <1>7, EmptySeq

LEMMA Product ==
  ASSUME NEW a \in Nat, NEW b \in Nat
  PROVE  a * b \in Nat
OBVIOUS

(* Each request leaves room for the others.                                *)
LEMMA ToComeLess ==
  ASSUME NEW n \in 0..MaxRequests
  PROVE  /\ MaxLines \in Nat /\ ToCome(n) \in Nat
         /\ n < MaxRequests => ToCome(n) = ToCome(n + 1) + MaxLines
         /\ n > 0 => ToCome(n) + MaxLines <= ToCome(0)
<1>1. MaxLines \in Nat /\ MaxRequests \in Nat /\ MaxRequests - n \in Nat /\ n \in Nat
  BY ProtocolAssumption DEF MaxLines
<1> DEFINE m == MaxLines
           k == MaxRequests
<1> HIDE DEF m, k
<1>2. m \in Nat /\ k \in Nat /\ k - n \in Nat /\ n \in Nat
  BY <1>1 DEF m, k
<1>3. (k - n) * m \in Nat
  BY <1>2, Product
<1>4. (k - n) * m = (k - (n + 1)) * m + m
  BY <1>2
<1>5. n > 0 => (k - n) * m + m <= (k - 0) * m
  <2>1. SUFFICES ASSUME n > 0 PROVE (k - n) * m + m <= (k - 0) * m
    OBVIOUS
  <2>2. (n - 1) * m \in Nat
    BY <1>2, <2>1, Product
  <2>3. (k - 0) * m = ((k - n) * m + m) + (n - 1) * m
    BY <1>2
  <2> QED  BY <1>2, <1>3, <2>2, <2>3
<1> QED  BY <1>2, <1>3, <1>4, <1>5 DEF m, k, ToCome

(* u holds the lines of s and then those of t.                             *)
Join(s, t, u) ==
  /\ u \in Seq(AnyLine)
  /\ Len(u) = Len(s) + Len(t)
  /\ \A i \in 1..Len(s) : u[i] = s[i]
  /\ \A i \in 1..Len(t) : u[Len(s) + i] = t[i]

LEMMA Joined ==
  ASSUME NEW s \in Seq(AnyLine), NEW t \in Seq(AnyLine)
  PROVE  Join(s, t, s \o t)
<1>1. Len(s) \in Nat /\ Len(t) \in Nat
  BY LenProperties
<1>2. \A i \in 1..(Len(s) + Len(t)) : (s \o t)[i] = IF i <= Len(s) THEN s[i] ELSE t[i - Len(s)]
  BY ConcatProperties
<1>3. \A i \in 1..Len(t) :
        /\ Len(s) + i \in 1..(Len(s) + Len(t)) /\ ~(Len(s) + i <= Len(s))
        /\ (Len(s) + i) - Len(s) = i
  BY <1>1
<1> QED  BY <1>1, <1>2, <1>3, ConcatProperties DEF Join

Header == [LOGIN |-> 4, QUERY |-> 5, BALANCE |-> 3]

(* How many lines a request has, and what the loop decides by.             *)
LEMMA LinesOf ==
  ASSUME NEW r, Asked(r)
  PROVE  /\ Lines(r) \in Seq(AnyLine)
         /\ Len(Lines(r)) = Header[r.kind] + Len(r.sels)
         /\ Lines(r)[1].text = r.kind /\ Lines(r)[1].of = r.no
         /\ r.kind = "QUERY" =>
              /\ Lines(r)[4].int = r.pw
              /\ Lines(r)[5].int = Len(r.sels) /\ Lines(r)[5].text = "field"
         /\ r.kind = "BALANCE" => Lines(r)[3].int = Len(r.sels)
         /\ \A i \in 1..Len(r.sels) : Lines(r)[Header[r.kind] + i].text = r.sels[i]
<1> DEFINE first == <<Line(r.kind, NotInt, r.no)>>
           sels == SelectionLines(r.sels, r.no)
<1>1. r.sels \in Seq({"sel", "badsel"}) /\ r.no \in Nat /\ Len(r.sels) \in Nat
      /\ r.pw \in Nat \cup {NotInt}
  BY SelsTyped
<1>2. first \in Seq(AnyLine) /\ Len(first) = 1 /\ first[1].text = r.kind /\ first[1].of = r.no
  BY <1>1, LineTyped DEF Asked, Asking, Texts, Line
<1>3. sels \in Seq(AnyLine) /\ Len(sels) = Len(r.sels)
      /\ \A i \in 1..Len(r.sels) : sels[i].text = r.sels[i]
  BY <1>1, SelectionsTyped
<1> HIDE DEF first, sels
<1>4. CASE r.kind = "LOGIN"
  <2> DEFINE f == Fields(3, r.no)
  <2>1. f \in Seq(AnyLine) /\ Len(f) = 3
    BY <1>1, FieldsTyped
  <2>2. Lines(r) = first \o f
    BY <1>4 DEF Lines, first
  <2> HIDE DEF f
  <2>3. Len(r.sels) = 0
    BY <1>4 DEF Asked
  <2>4. Join(first, f, Lines(r))
    BY <1>2, <2>1, <2>2, Joined, Zenon
  <2>5. Lines(r) \in Seq(AnyLine) /\ Len(Lines(r)) = 4 /\ Lines(r)[1] = first[1]
    BY <1>2, <2>1, <2>4 DEF Join
  <2>6. Header[r.kind] = 4 /\ 1..Len(r.sels) = {}
    BY <1>4, <2>3 DEF Header
  <2>7. \A i \in 1..Len(r.sels) : Lines(r)[Header[r.kind] + i].text = r.sels[i]
    BY <2>6
  <2>8. Len(Lines(r)) = Header[r.kind] + Len(r.sels)
    BY <2>3, <2>5, <2>6
  <2>9. Lines(r)[1].text = r.kind /\ Lines(r)[1].of = r.no
    BY <1>2, <2>5
  <2>10. r.kind # "QUERY" /\ r.kind # "BALANCE"
    BY <1>4
  <2> QED  BY <2>5, <2>6, <2>7, <2>8, <2>9, <2>10
<1>5. CASE r.kind = "QUERY"
  <2> DEFINE f == Fields(2, r.no)
             c == <<Line("field", r.pw, r.no), Line("field", Len(r.sels), r.no)>>
             g == f \o c
             h == g \o sels
  <2>1. f \in Seq(AnyLine) /\ Len(f) = 2
    BY <1>1, FieldsTyped
  <2>2. /\ c \in Seq(AnyLine) /\ Len(c) = 2 /\ c[1].int = r.pw
        /\ c[2].int = Len(r.sels) /\ c[2].text = "field"
    BY <1>1 DEF Line, AnyLine, Texts
  <2>3. Lines(r) = first \o h
    BY <1>5 DEF Lines, first, sels
  <2> HIDE DEF f, c
  <2>4. Join(f, c, g)
    BY <2>1, <2>2, Joined, Zenon
  <2> HIDE DEF g
  <2>5. Join(g, sels, h)
    BY <1>3, <2>4, Joined, Zenon DEF Join
  <2> HIDE DEF h
  <2>6. h \in Seq(AnyLine)
    BY <2>5 DEF Join
  <2>7. Join(first, h, Lines(r))
    BY <1>2, <2>3, <2>6, Joined, Zenon
  <2>8. /\ h \in Seq(AnyLine) /\ Len(h) = 4 + Len(r.sels)
        /\ h[3] = c[1] /\ h[4] = c[2]
        /\ \A i \in 1..Len(r.sels) : h[4 + i] = sels[i]
    BY <1>1, <1>3, <2>1, <2>2, <2>4, <2>5 DEF Join
  <2>9. /\ Lines(r) \in Seq(AnyLine) /\ Len(Lines(r)) = 1 + (4 + Len(r.sels))
        /\ Lines(r)[1] = first[1]
        /\ \A i \in 1..(4 + Len(r.sels)) : Lines(r)[1 + i] = h[i]
    BY <1>2, <2>8, <2>7 DEF Join
  <2>10. Lines(r)[1 + 3] = h[3] /\ Lines(r)[1 + 4] = h[4]
    BY <1>1, <2>9
  <2>11. \A i \in 1..Len(r.sels) : Lines(r)[5 + i] = sels[i]
    <3> TAKE i \in 1..Len(r.sels)
    <3>1. 4 + i \in 1..(4 + Len(r.sels)) /\ 1 + (4 + i) = 5 + i
      BY <1>1
    <3> QED  BY <2>8, <2>9, <3>1
  <2>12. Header[r.kind] = 5 /\ r.kind # "BALANCE"
    BY <1>5 DEF Header
  <2>13. /\ Lines(r)[4].int = r.pw
         /\ Lines(r)[5].int = Len(r.sels) /\ Lines(r)[5].text = "field"
    BY <2>2, <2>8, <2>10
  <2>14. Len(Lines(r)) = 5 + Len(r.sels)
    BY <1>1, <2>9
  <2> QED  BY <1>2, <1>3, <2>9, <2>11, <2>12, <2>13, <2>14
<1>6. CASE r.kind = "BALANCE"
  <2> DEFINE f == Fields(1, r.no)
             c == <<Line("field", Len(r.sels), r.no)>>
             g == f \o c
             h == g \o sels
  <2>1. f \in Seq(AnyLine) /\ Len(f) = 1
    BY <1>1, FieldsTyped
  <2>2. c \in Seq(AnyLine) /\ Len(c) = 1 /\ c[1].int = Len(r.sels)
    BY <1>1 DEF Line, AnyLine, Texts
  <2>3. Lines(r) = first \o h
    BY <1>6 DEF Lines, first, sels
  <2> HIDE DEF f, c
  <2>4. Join(f, c, g)
    BY <2>1, <2>2, Joined, Zenon
  <2> HIDE DEF g
  <2>5. Join(g, sels, h)
    BY <1>3, <2>4, Joined, Zenon DEF Join
  <2> HIDE DEF h
  <2>6. h \in Seq(AnyLine)
    BY <2>5 DEF Join
  <2>7. Join(first, h, Lines(r))
    BY <1>2, <2>3, <2>6, Joined, Zenon
  <2>8. /\ h \in Seq(AnyLine) /\ Len(h) = 2 + Len(r.sels)
        /\ h[2] = c[1]
        /\ \A i \in 1..Len(r.sels) : h[2 + i] = sels[i]
    BY <1>1, <1>3, <2>1, <2>2, <2>4, <2>5 DEF Join
  <2>9. /\ Lines(r) \in Seq(AnyLine) /\ Len(Lines(r)) = 1 + (2 + Len(r.sels))
        /\ Lines(r)[1] = first[1]
        /\ \A i \in 1..(2 + Len(r.sels)) : Lines(r)[1 + i] = h[i]
    BY <1>2, <2>8, <2>7 DEF Join
  <2>10. Lines(r)[1 + 2] = h[2]
    BY <1>1, <2>9
  <2>11. \A i \in 1..Len(r.sels) : Lines(r)[3 + i] = sels[i]
    <3> TAKE i \in 1..Len(r.sels)
    <3>1. 2 + i \in 1..(2 + Len(r.sels)) /\ 1 + (2 + i) = 3 + i
      BY <1>1
    <3> QED  BY <2>8, <2>9, <3>1
  <2>12. Header[r.kind] = 3 /\ r.kind # "QUERY"
    BY <1>6 DEF Header
  <2>13. Lines(r)[3].int = Len(r.sels)
    BY <2>2, <2>8, <2>10
  <2>14. Len(Lines(r)) = 3 + Len(r.sels)
    BY <1>1, <2>9
  <2> QED  BY <1>2, <1>3, <2>9, <2>11, <2>12, <2>13, <2>14
<1> QED  BY <1>4, <1>5, <1>6 DEF Asked, Asking

LEMMA ShutdownLine ==
  /\ Lines([NoRequest EXCEPT !.kind = "SHUTDOWN"]) \in Seq(AnyLine)
  /\ Len(Lines([NoRequest EXCEPT !.kind = "SHUTDOWN"])) = 1
  /\ Lines([NoRequest EXCEPT !.kind = "SHUTDOWN"])[1].text = "SHUTDOWN"
<1> DEFINE first == <<Line("SHUTDOWN", NotInt, 0)>>
<1>1. first \in Seq(AnyLine) /\ Len(first) = 1 /\ first[1].text = "SHUTDOWN"
  BY LineTyped DEF Line, Texts
<1>2. Lines([NoRequest EXCEPT !.kind = "SHUTDOWN"]) = first \o <<>>
  BY DEF Lines, NoRequest
<1> HIDE DEF first
<1> QED  BY <1>1, <1>2, ConcatEmptySeq

(* The rest of `in` after n lines.                                         *)
Rest(in, n, rest) ==
  /\ Len(rest) = Len(in) - n
  /\ \A i \in 1..Len(rest) : rest[i] = in[n + i]

(* n lines of stdin are read.                                              *)
LEMMA ReadLines ==
  ASSUME PipeInv, NEW n \in Nat, Read(n)
  PROVE  /\ stdin' \in Seq(AnyLine) /\ Len(stdin) \in Nat /\ n <= Len(stdin)
         /\ Len(stdin') = Len(stdin) - n
         /\ Rest(stdin, n, stdin')
<1>1. Len(stdin) \in Nat /\ n <= Len(stdin) /\ \A i \in (n + 1)..Len(stdin) : stdin[i] \in AnyLine
  BY ElementOfSeq DEF PipeInv, Read
<1> QED  BY <1>1, SubSeqProperties DEF Read, Rest

(* Of what lies ahead, n more lines have been read.                        *)
LEMMA AheadRead ==
  ASSUME NEW in \in Seq(AnyLine), NEW rest \in Seq(AnyLine), NEW lines \in Seq(AnyLine),
         NEW n \in Nat, NEW m \in Nat, NEW p \in Nat, p = m + n, p <= Len(lines),
         Ahead(in, 0, lines, m), Rest(in, n, rest)
  PROVE  Ahead(rest, 0, lines, p)
<1>1. Len(lines) \in Nat /\ Len(in) = Len(lines) - m /\ Len(rest) = Len(lines) - p
  BY LenProperties DEF Ahead, Rest
<1>2. ASSUME NEW i \in (p + 1)..Len(lines)
      PROVE  rest[(0 + i) - p] = lines[i]
  <2>1. i - p \in 1..Len(rest) /\ n + (i - p) = (0 + i) - m /\ i \in (m + 1)..Len(lines)
    BY <1>1
  <2>2. in[(0 + i) - m] = lines[i]
    BY <2>1 DEF Ahead
  <2>3. (0 + i) - p = i - p
    BY <1>1
  <2> QED  BY <2>1, <2>2, <2>3 DEF Rest
<1> QED  BY <1>1, <1>2 DEF Ahead

(* One of the lines before it has been read.                               *)
LEMMA AheadDrop ==
  ASSUME NEW in \in Seq(AnyLine), NEW rest \in Seq(AnyLine), NEW lines \in Seq(AnyLine),
         NEW k \in Nat \ {0}, Ahead(in, k, lines, 0), Rest(in, 1, rest)
  PROVE  Ahead(rest, k - 1, lines, 0)
<1>1. Len(lines) \in Nat /\ Len(in) = k + Len(lines) /\ Len(rest) = (k - 1) + Len(lines)
  BY LenProperties DEF Ahead, Rest
<1>2. ASSUME NEW i \in (0 + 1)..Len(lines)
      PROVE  rest[((k - 1) + i) - 0] = lines[i]
  <2>1. /\ (k - 1) + i \in 1..Len(rest) /\ 1 + ((k - 1) + i) = (k + i) - 0
        /\ ((k - 1) + i) - 0 = (k - 1) + i
    BY <1>1
  <2>2. in[(k + i) - 0] = lines[i]
    BY DEF Ahead
  <2> QED  BY <2>1, <2>2 DEF Rest
<1> QED  BY <1>1, <1>2 DEF Ahead

(* A request written behind k lines lies ahead of them.                    *)
LEMMA AheadJoin ==
  ASSUME NEW in \in Seq(AnyLine), NEW lines \in Seq(AnyLine)
  PROVE  in \o lines \in Seq(AnyLine) /\ Ahead(in \o lines, Len(in), lines, 0)
<1> DEFINE all == in \o lines
<1>1. Join(in, lines, all)
  BY Joined, Zenon
<1> HIDE DEF all
<1>2. Len(in) \in Nat /\ Len(lines) \in Nat
  BY LenProperties
<1>3. all \in Seq(AnyLine) /\ Ahead(all, Len(in), lines, 0)
  <2>1. \A i \in (0 + 1)..Len(lines) : all[(Len(in) + i) - 0] = lines[i]
    <3> TAKE i \in (0 + 1)..Len(lines)
    <3>1. (Len(in) + i) - 0 = Len(in) + i /\ i \in 1..Len(lines)
      BY <1>2
    <3> QED  BY <1>1, <3>1 DEF Join
  <2> QED  BY <1>1, <1>2, <2>1 DEF Join, Ahead
<1> QED  BY <1>3 DEF all

LEMMA AheadAll ==
  ASSUME NEW lines \in Seq(AnyLine)
  PROVE  Ahead(lines, 0, lines, 0)
<1>1. Len(lines) \in Nat
  BY LenProperties
<1> QED  BY <1>1 DEF Ahead

-----------------------------------------------------------------------------
(* Every step keeps SInv.  First the steps of the client.                  *)

(* Ask keeps SInv.                                                         *)
LEMMA AskStep ==
  ASSUME SInv, NEW r \in Calls, Ask(r)
  PROVE  SInv'
<1> USE DEF SInv
<1>1. /\ client = "idle" /\ handle /\ srv # "exited" /\ asked.no < MaxRequests
      /\ asked' = r /\ stdin' = stdin \o Lines(r) /\ client' = "waiting" /\ result' = "none"
      /\ UNCHANGED <<handle, then, stdout, srv, loggedIn, current, left, got, password, done>>
  BY DEF Ask, Send, Alive, serverVars
<1>2. asked.no \in Nat /\ asked.no + 1 \in 0..MaxRequests /\ asked.no + 1 > 0
  BY <1>1, ProtocolAssumption DEF AskedInv, Asked, Request, NoRequest
<1>3. r.no = asked.no + 1 /\ Asked(r) /\ r.kind # "LOGIN"
  BY <1>2 DEF Calls, Asked, Request, Asking
<1>4. stdout = <<>> /\ loggedIn
  BY <1>1 DEF AnswerInv, LoggedInv
<1>5. \/ srv = "command" /\ Len(stdin) = 0
      \/ srv = "discard" /\ (Len(stdin) = left \/ Swallows)
  BY <1>1 DEF PlaceInv, StageInv, Following, Unanswered
<1>6. stdin' \in Seq(AnyLine) /\ Ahead(stdin', Len(stdin), Lines(r), 0)
  BY <1>1, <1>3, LinesOf, AheadJoin DEF PipeInv
<1>7. r.no \notin done /\ done \subseteq 1..r.no
  BY <1>2, <1>3 DEF AskedInv
<1>8. Unanswered'
  BY <1>1, <1>3, <1>4, <1>7 DEF Unanswered
<1>9. PlaceInv' /\ HandleInv'
  BY <1>1 DEF PlaceInv, HandleInv
<1>10. PipeInv' /\ AskedInv'
  BY <1>1, <1>3, <1>6, <1>7 DEF PipeInv, AskedInv
<1>11. AnswerInv' /\ LoggedInv'
  BY <1>1, <1>4 DEF AnswerInv, LoggedInv
<1>12. Swallows => Swallows'
  <2>1. Len(stdin) \in Nat /\ Len(stdin') = Len(stdin) + Len(Lines(r))
    BY <1>6, LenProperties DEF Ahead, PipeInv
  <2>2. Len(Lines(r)) <= MaxLines /\ Len(Lines(r)) \in Nat
    <3>1. Len(Lines(r)) = Header[r.kind] + Len(r.sels) /\ Len(r.sels) <= MaxSelections
          /\ Len(r.sels) \in Nat /\ Header[r.kind] \in 0..5
      BY <1>3, LinesOf, SelsTyped, LenProperties DEF Header, Asked, Asking
    <3> QED  BY <3>1, ProtocolAssumption DEF MaxLines
  <2>3. /\ ToCome(asked.no) = ToCome(r.no) + MaxLines /\ MaxLines \in Nat
        /\ ToCome(r.no) \in Nat
    <3>1. asked.no \in 0..MaxRequests /\ r.no \in 0..MaxRequests /\ asked.no < MaxRequests
      <4>1. MaxRequests \in Nat
        BY ProtocolAssumption
      <4> QED  BY ONLY <1>1, <1>2, <1>3, <4>1
    <3> QED  BY <1>3, <3>1, ToComeLess
  <2>4. ASSUME Swallows, left \in Nat
        PROVE  Swallows'
    <3>1. left > Len(stdin) + ToCome(asked.no) + 1
      BY <1>1, <2>4 DEF Swallows
    <3>2. left > Len(stdin') + ToCome(r.no) + 1
      BY ONLY <2>1, <2>2, <2>3, <2>4, <3>1
    <3> QED  BY <1>1, <1>4, <3>2 DEF Swallows
  <2> QED  BY <2>4 DEF StageInv
<1>13. StageInv'
  BY <1>1, <1>5, <1>6, <1>8, <1>12 DEF StageInv, Following
<1> QED  BY <1>9, <1>10, <1>11, <1>13

(* CloseSession keeps SInv.                                                *)
LEMMA CloseStep ==
  ASSUME SInv, NEW next \in {"open", "rest", "exit"}, CloseSession(next)
  PROVE  SInv'
<1> USE DEF SInv
<1> DEFINE bye == Lines([NoRequest EXCEPT !.kind = "SHUTDOWN"])
<1>1. /\ client = "idle" /\ handle' = FALSE /\ then' = next
      /\ next = "open" => asked.no < MaxRequests
      /\ UNCHANGED <<asked, result, stdout, srv, loggedIn, current, left, got, password, done>>
  BY DEF CloseSession, serverVars
<1>2. bye \in Seq(AnyLine) /\ Len(bye) = 1 /\ bye[1].text = "SHUTDOWN"
  BY ShutdownLine
<1>3. CASE ~(handle /\ Alive)
  <2>1. client' = "closed" /\ stdin' = stdin /\ srv = "exited"
    BY <1>1, <1>3 DEF CloseSession, Alive, HandleInv
  <2>2. PlaceInv' /\ HandleInv' /\ PipeInv' /\ AskedInv'
    BY <1>1, <2>1 DEF PlaceInv, HandleInv, PipeInv, AskedInv
  <2>3. AnswerInv' /\ LoggedInv' /\ StageInv'
    BY <1>1, <2>1 DEF AnswerInv, LoggedInv, StageInv
  <2> QED  BY <2>2, <2>3
<1>4. CASE handle /\ Alive
  <2>1. client' = "closing" /\ stdin' = stdin \o bye /\ srv # "exited"
    BY <1>1, <1>4 DEF CloseSession, Alive
  <2>2. stdout = <<>>
    BY <1>1, <1>4 DEF AnswerInv
  <2>3. Join(stdin, bye, stdin')
    BY <1>2, <2>1, Joined DEF PipeInv
  <2> HIDE DEF bye
  <2>4. Len(stdin) \in Nat /\ stdin' \in Seq(AnyLine) /\ Len(stdin') = Len(stdin) + 1
        /\ stdin'[Len(stdin) + 1].text = "SHUTDOWN"
    BY <1>2, <2>3, LenProperties DEF Join, PipeInv
  <2>5. \/ srv = "command" /\ Len(stdin) = 0
        \/ srv = "discard" /\ (Len(stdin) = left \/ Swallows)
    BY <1>1, <2>1 DEF PlaceInv, StageInv, Following, Unanswered
  <2>6. PlaceInv' /\ HandleInv' /\ PipeInv' /\ AskedInv'
    BY <1>1, <2>1, <2>4 DEF PlaceInv, HandleInv, PipeInv, AskedInv
  <2>7. AnswerInv' /\ LoggedInv'
    BY <1>1, <2>1, <2>2 DEF AnswerInv, LoggedInv
  <2>8. Swallows => Swallows'
    <3>1. ASSUME Swallows
          PROVE  left > (Len(stdin) + 1) + ToCome(asked.no) + 0
      <4>1. left > Len(stdin) + ToCome(asked.no) + 1 /\ left \in Nat
        BY <1>4, <3>1 DEF Swallows, StageInv
      <4>2. ToCome(asked.no) \in Nat
        BY ToComeLess, ProtocolAssumption DEF AskedInv, Asked, Request, NoRequest
      <4> QED  BY ONLY <2>4, <4>1, <4>2
    <3> QED  BY <1>1, <2>1, <2>2, <2>4, <3>1 DEF Swallows
  <2>9. StageInv'
    BY <1>1, <2>1, <2>2, <2>4, <2>5, <2>8 DEF StageInv, Following
  <2> QED  BY <2>6, <2>7, <2>9
<1> QED  BY <1>3, <1>4

(* Terminate, Closed, a crash and the end of the input keep SInv: the      *)
(* process is gone, or its client.                                         *)
LEMMA EndStep ==
  ASSUME SInv, Terminate \/ Closed \/ Crash \/ EndOfInput
  PROVE  SInv'
<1> USE DEF SInv
<1>1. /\ srv' = "exited"
      /\ UNCHANGED <<handle, then, asked, result, stdin, stdout, loggedIn, current, left, got,
                     password, done>>
      /\ \/ client' = client
         \/ client = "closing" /\ client' = "closed"
         \/ client = "closed" /\ client' \in {"gone", "idle"}
  BY DEF Terminate, Closed, Crash, EndOfInput, clientVars, serverVars, HandleInv
<1>2. PlaceInv' /\ PipeInv' /\ AskedInv' /\ HandleInv'
  BY <1>1 DEF PlaceInv, PipeInv, AskedInv, HandleInv
<1>3. AnswerInv' /\ LoggedInv' /\ StageInv'
  BY <1>1 DEF AnswerInv, LoggedInv, StageInv, HandleInv
<1> QED  BY <1>2, <1>3

(* ClientKilled keeps SInv.                                                *)
LEMMA KilledStep ==
  ASSUME SInv, ClientKilled
  PROVE  SInv'
<1> USE DEF SInv
<1>1. /\ client' = "gone"
      /\ UNCHANGED <<handle, then, asked, result, stdin, stdout, srv, loggedIn, current, left, got,
                     password, done>>
  BY DEF ClientKilled, serverVars
<1>2. (Unanswered => Unanswered') /\ (Swallows => Swallows')
  BY <1>1 DEF Unanswered, Swallows
<1>3. PlaceInv' /\ PipeInv' /\ AskedInv' /\ HandleInv'
  BY <1>1 DEF PlaceInv, PipeInv, AskedInv, HandleInv
<1>4. AnswerInv' /\ LoggedInv'
  BY <1>1 DEF AnswerInv, LoggedInv
<1>5. (Reading => Reading') /\ (Misreading => Misreading')
  BY <1>1, <1>2 DEF Reading, Misreading
<1>6. StageInv'
  BY <1>1, <1>2, <1>5 DEF StageInv, Following
<1> QED  BY <1>3, <1>4, <1>6

(* Spawn keeps SInv.                                                       *)
LEMMA SpawnStep ==
  ASSUME SInv, Spawn
  PROVE  SInv'
<1> USE DEF SInv
<1> DEFINE r == [NoRequest EXCEPT !.no = asked.no + 1, !.kind = "LOGIN"]
<1>1. /\ asked' = r /\ stdin' = Lines(r) /\ client' = "waiting" /\ result' = "none"
      /\ handle' = TRUE /\ stdout' = <<>> /\ srv' = "command" /\ loggedIn' = FALSE
      /\ left' = 0 /\ password' = NotInt /\ then' = then /\ done' = done
  BY DEF Spawn
<1>2. asked.no \in Nat /\ asked.no + 1 \in 0..MaxRequests /\ asked.no + 1 > 0
  BY ProtocolAssumption DEF Spawn, AskedInv, Asked, Request, NoRequest
<1>3. r.no = asked.no + 1 /\ r.kind = "LOGIN" /\ r.sels = <<>> /\ Asked(r)
  BY <1>2 DEF NoRequest, Asked, Request, Asking
<1> HIDE DEF r
<1>4. Lines(r) \in Seq(AnyLine) /\ Ahead(Lines(r), 0, Lines(r), 0)
  BY <1>3, LinesOf, AheadAll
<1>5. r.no \notin done /\ done \subseteq 1..r.no
  BY <1>2, <1>3 DEF AskedInv
<1>6. Unanswered'
  BY <1>1, <1>3, <1>5 DEF Unanswered
<1>7. PlaceInv' /\ HandleInv'
  BY <1>1 DEF PlaceInv, HandleInv
<1>8. PipeInv' /\ AskedInv'
  BY <1>1, <1>3, <1>4, <1>5 DEF PipeInv, AskedInv
<1>9. AnswerInv' /\ LoggedInv'
  BY <1>1, <1>3 DEF AnswerInv, LoggedInv
<1>10. StageInv'
  BY <1>1, <1>4, <1>6 DEF StageInv, Following
<1> QED  BY <1>7, <1>8, <1>9, <1>10

(* Receive and ReadEnd keep SInv.                                          *)
LEMMA ReturnStep ==
  ASSUME SInv, Receive \/ ReadEnd
  PROVE  SInv'
<1> USE DEF SInv
<1>1. /\ client = "waiting" /\ client' = "idle" /\ result' \in {"ok", "error"}
      /\ stdout' = <<>>
      /\ \/ handle' = FALSE /\ srv' = "exited"
         \/ handle' = handle /\ srv' = srv /\ (srv # "exited" => loggedIn /\ stdout # <<>>)
      /\ UNCHANGED <<then, asked, stdin, loggedIn, current, left, got, password, done>>
  <2>1. CASE Receive
    <3>1. stdout # <<>> /\ stdout \in Seq(Answer) /\ Len(stdout) <= 1
      BY <2>1 DEF Receive, PipeInv, AnswerInv
    <3>2. Tail(stdout) = <<>> /\ Head(stdout) = stdout[1] /\ 1 \in DOMAIN stdout
      BY <3>1
    <3>3. client = "waiting" /\ Asked(asked)
      BY <2>1 DEF Receive, Return, AskedInv
    <3>4. srv # "exited" /\ (asked.kind # "LOGIN" \/ stdout[1].ok) => loggedIn
      BY <3>2, <3>3 DEF LoggedInv, Asked, Asking
    <3> QED  BY <2>1, <3>1, <3>2, <3>3, <3>4 DEF Receive, Return
  <2>2. CASE ReadEnd
    BY <2>2 DEF ReadEnd, Return, Alive
  <2> QED  BY <2>1, <2>2
<1>2. PlaceInv'
  BY <1>1 DEF PlaceInv
<1>5. HandleInv'
  <2>1. handle /\ client' = "idle"
    BY <1>1 DEF HandleInv
  <2>2. handle' \/ srv' = "exited"
    BY <1>1, <2>1, Zenon
  <2> QED  BY <2>1, <2>2 DEF HandleInv
<1>3. PipeInv' /\ AskedInv' /\ AnswerInv' /\ LoggedInv'
  BY <1>1 DEF PipeInv, AskedInv, AnswerInv, LoggedInv
<1>6. srv' # "exited" /\ Swallows => Swallows'
  BY <1>1 DEF Swallows
<1>4. StageInv'
  BY <1>1, <1>6 DEF StageInv, Following, Unanswered
<1> QED  BY <1>2, <1>3, <1>4, <1>5

-----------------------------------------------------------------------------
(* The steps of the loop.                                                  *)

(* The answer of the command being served, which the client waits for.     *)
LEMMA AnswerKept ==
  ASSUME SInv, Unanswered, UNCHANGED <<client, handle, asked>>,
         loggedIn' \in BOOLEAN, loggedIn => loggedIn', srv # "exited",
         done' \in {done, done \cup {asked.no}},
         NEW ok \in BOOLEAN, ok => asked.no \in done' /\ loggedIn',
         stdout' = Append(stdout, [of |-> asked.no, ok |-> ok])
  PROVE  stdout' \in Seq(Answer) /\ AnswerInv' /\ LoggedInv'
<1> DEFINE a == [of |-> asked.no, ok |-> ok]
<1>1. asked.no \in Nat /\ stdout = <<>>
  BY ProtocolAssumption DEF Unanswered, Asked, Request
<1>2. a \in Answer /\ a.of = asked.no /\ (a.ok => ok)
  BY <1>1 DEF Answer
<1> HIDE DEF a
<1>3. stdout' = <<a>>
  BY <1>1 DEF a
<1>4. stdout' \in Seq(Answer) /\ Len(stdout') = 1 /\ stdout'[1] = a
  <2>1. <<a>> \in Seq(Answer) /\ Len(<<a>>) = 1 /\ <<a>>[1] = a
    BY <1>2
  <2> QED  BY <1>3, <2>1, Zenon
<1>5. DOMAIN stdout' = {1}
  BY <1>3
<1>6. AnswerInv'
  BY <1>2, <1>4, <1>5 DEF AnswerInv, Unanswered
<1>7. LoggedInv'
  BY <1>2, <1>4, <1>5 DEF SInv, LoggedInv, Unanswered
<1> QED  BY <1>4, <1>6, <1>7

(* A command that has read all its lines is over.                          *)
LEMMA ReplyStep ==
  ASSUME SInv, Unanswered, srv # "exited", current.no = asked.no,
         UNCHANGED <<clientVars>>, stdin' \in Seq(AnyLine), Len(stdin') = 0,
         loggedIn' \in BOOLEAN, loggedIn => loggedIn',
         done' \in {done, done \cup {asked.no}},
         NEW ok \in BOOLEAN, ok => asked.no \in done' /\ loggedIn', Reply(ok)
  PROVE  SInv'
<1>1. /\ stdout' = Append(stdout, [of |-> asked.no, ok |-> ok])
      /\ srv' = "command" /\ left' = 0 /\ password' = NotInt
      /\ UNCHANGED <<client, handle, then, asked, result>>
  BY DEF Reply, Respond, clientVars
<1>2. stdout' \in Seq(Answer) /\ AnswerInv' /\ LoggedInv'
  BY <1>1, AnswerKept
<1>3. asked.no \in 1..asked.no
  BY ProtocolAssumption DEF Unanswered, Asked, Request
<1>4. PlaceInv' /\ HandleInv'
  BY <1>1 DEF SInv, PlaceInv, HandleInv
<1>5. PipeInv' /\ AskedInv'
  BY <1>1, <1>2, <1>3 DEF SInv, PipeInv, AskedInv
<1>6. StageInv'
  BY <1>1 DEF StageInv, Following, Unanswered
<1> QED  BY <1>2, <1>4, <1>5, <1>6 DEF SInv

(* The number of selections is read, and they are all that lies ahead.     *)
LEMMA CountStep ==
  ASSUME SInv, Unanswered, srv # "exited", current = [no |-> asked.no, kind |-> asked.kind],
         asked.kind # "LOGIN", asked.pw = NotInt, TakeCount(Len(asked.sels)),
         UNCHANGED <<clientVars, loggedIn, current, done>>, password' = NotInt,
         stdin' \in Seq(AnyLine),
         Ahead(stdin', 0, Lines(asked), Len(Lines(asked)) - Len(asked.sels))
  PROVE  SInv'
<1>1. Len(asked.sels) \in Nat /\ Len(asked.sels) > 0 /\ Len(asked.sels) # NotInt
  BY SelsTyped, LenProperties, ProtocolAssumption DEF Unanswered
<1>2. /\ srv' = "selections" /\ left' = Len(asked.sels) /\ got' = <<>>
      /\ UNCHANGED <<client, handle, then, asked, result, stdout, loggedIn, current, done>>
  BY <1>1 DEF TakeCount, clientVars
<1>3. Unanswered'
  BY <1>2 DEF Unanswered
<1>4. PlaceInv' /\ HandleInv'
  BY <1>2 DEF SInv, PlaceInv, HandleInv
<1>5. PipeInv' /\ AskedInv' /\ AnswerInv' /\ LoggedInv'
  BY <1>2 DEF SInv, PipeInv, AskedInv, AnswerInv, LoggedInv
<1>6. got' \in Seq({"sel", "badsel"}) /\ Len(got') = 0
  BY <1>2
<1>7. StageInv'
  <2>1. Reading'
    BY <1>1, <1>2, <1>6 DEF Reading, clientVars
  <2> QED  BY <1>1, <1>2, <1>3, <2>1 DEF StageInv
<1> QED  BY <1>4, <1>5, <1>7 DEF SInv

(* ReadCommand keeps SInv.                                                 *)
LEMMA CommandStep ==
  ASSUME SInv, ReadCommand
  PROVE  SInv'
<1> USE DEF SInv
<1>1. /\ srv = "command" /\ Read(1) /\ current' = [no |-> stdin[1].of, kind |-> stdin[1].text]
      /\ UNCHANGED <<client, handle, then, asked, result, loggedIn, left, got, password, done>>
  BY DEF ReadCommand, clientVars
<1>2. /\ stdin' \in Seq(AnyLine) /\ Len(stdin) \in Nat /\ 1 <= Len(stdin)
      /\ Len(stdin') = Len(stdin) - 1 /\ Rest(stdin, 1, stdin')
  BY <1>1, ReadLines
<1>3. stdin[1] \in AnyLine /\ stdin[1].of \in Nat
  <2>1. stdin[1] \in AnyLine
    BY <1>2, ElementOfSeq DEF PipeInv
  <2> QED  BY <2>1 DEF AnyLine
<1>4. CASE /\ stdin[1].text = "SHUTDOWN"
           /\ stdout = <<>> /\ client \in {"closing", "gone"}
  <2>1. srv' = "exited" /\ stdout' = Append(stdout, [of |-> stdin[1].of, ok |-> TRUE])
    BY <1>4 DEF ReadCommand, Respond, Payload
  <2>2. stdout' \in Seq(Answer) /\ Len(stdout') = 1
    <3>1. [of |-> stdin[1].of, ok |-> TRUE] \in Answer
      BY <1>3 DEF Answer
    <3> QED  BY <1>4, <2>1, <3>1, AppendProperties, EmptySeq
  <2>3. PlaceInv' /\ HandleInv' /\ PipeInv' /\ AskedInv'
    BY <1>1, <1>2, <1>4, <2>1, <2>2 DEF PlaceInv, HandleInv, PipeInv, AskedInv
  <2>4. AnswerInv' /\ LoggedInv' /\ StageInv'
    BY <1>1, <1>4, <2>1, <2>2 DEF AnswerInv, LoggedInv, StageInv
  <2> QED  BY <2>3, <2>4
<1>5. CASE Ahead(stdin, 0, Lines(asked), 0) /\ Unanswered
  <2>1. Asked(asked) /\ Lines(asked) \in Seq(AnyLine) /\ Len(Lines(asked)) \in Nat
        /\ Len(Lines(asked)) = Len(stdin)
        /\ Lines(asked)[1].text = asked.kind /\ Lines(asked)[1].of = asked.no
    BY <1>2, <1>5, LinesOf, LenProperties DEF Unanswered, Ahead
  <2>2. stdin[1] = Lines(asked)[1]
    BY <1>2, <1>5, <2>1 DEF Ahead
  <2>3. asked.kind \in Asking
    BY <2>1 DEF Asked
  <2>4. srv' = "payload" /\ stdout' = stdout
    <3>1. Head(stdin) = Lines(asked)[1] /\ DOMAIN Payload = Asking
      BY <1>2, <2>2 DEF Payload, Asking, PipeInv
    <3>2. asked.kind \in DOMAIN Payload /\ asked.kind # "SHUTDOWN"
      BY <2>3, <3>1 DEF Asking
    <3> QED  BY <2>1, <3>1, <3>2 DEF ReadCommand
  <2>5. Ahead(stdin', 0, Lines(asked), 1)
    BY <1>2, <1>5, <2>1, AheadRead DEF PipeInv
  <2>6. Unanswered'
    BY <1>1, <1>5, <2>4 DEF Unanswered
  <2>7. PlaceInv' /\ HandleInv' /\ PipeInv' /\ AskedInv'
    BY <1>1, <1>2, <2>4 DEF PlaceInv, HandleInv, PipeInv, AskedInv
  <2>8. AnswerInv' /\ LoggedInv'
    BY <1>1, <2>4 DEF AnswerInv, LoggedInv
  <2>9. StageInv'
    BY <1>1, <2>1, <2>2, <2>4, <2>5, <2>6 DEF StageInv
  <2> QED  BY <2>7, <2>8, <2>9
<1> QED  BY <1>1, <1>2, <1>4, <1>5 DEF StageInv, Following

(* What lies ahead of a payload.                                           *)
LEMMA PayloadLines ==
  ASSUME SInv, srv = "payload"
  PROVE  /\ Unanswered /\ current = [no |-> asked.no, kind |-> asked.kind]
         /\ Asked(asked) /\ Lines(asked) \in Seq(AnyLine) /\ Len(asked.sels) \in Nat
         /\ Len(Lines(asked)) = Header[asked.kind] + Len(asked.sels)
         /\ Ahead(stdin, 0, Lines(asked), 1)
BY LinesOf, SelsTyped, LenProperties DEF SInv, StageInv, Unanswered

(* Login keeps SInv.                                                       *)
LEMMA LoginStep ==
  ASSUME SInv, Login
  PROVE  SInv'
<1>1. srv = "payload" /\ current.kind = "LOGIN" /\ Read(3) /\ UNCHANGED <<clientVars, current>>
  BY DEF Login
<1>2. Unanswered /\ current.no = asked.no /\ asked.kind = "LOGIN" /\ Len(Lines(asked)) = 4
  BY <1>1, PayloadLines DEF Asked, Header
<1>3. Len(stdin) = 3
  BY <1>1, <1>2, PayloadLines DEF Ahead
<1>4. stdin' \in Seq(AnyLine) /\ Len(stdin') = 0
  BY <1>1, <1>3, ReadLines DEF SInv
<1>5. PICK ok \in BOOLEAN :
        /\ loggedIn' = (loggedIn \/ ok)
        /\ done' = IF ok /\ ~loggedIn THEN done \cup {current.no} ELSE done
        /\ Reply(ok /\ ~loggedIn)
  BY DEF Login
<1>6. /\ loggedIn' \in BOOLEAN /\ (loggedIn => loggedIn')
      /\ (ok /\ ~loggedIn) \in BOOLEAN
      /\ ok /\ ~loggedIn => asked.no \in done' /\ loggedIn'
      /\ done' \in {done, done \cup {asked.no}}
  BY <1>2, <1>5 DEF SInv, PlaceInv
<1> QED  BY <1>1, <1>2, <1>4, <1>5, <1>6, ReplyStep

(* ReadQuery keeps SInv.                                                   *)
LEMMA QueryStep ==
  ASSUME SInv, NoSmallPassword, ReadQuery
  PROVE  SInv'
<1>1. srv = "payload" /\ current.kind = "QUERY" /\ Read(3)
      /\ UNCHANGED <<client, handle, then, asked, result, loggedIn, current, done>>
  BY DEF ReadQuery, clientVars
<1>2. Unanswered /\ asked.kind = "QUERY" /\ Asked(asked) /\ Lines(asked) \in Seq(AnyLine)
      /\ Len(Lines(asked)) = 5 + Len(asked.sels) /\ Len(asked.sels) \in Nat
      /\ Ahead(stdin, 0, Lines(asked), 1)
  BY <1>1, PayloadLines DEF Header
<1>3. /\ stdin' \in Seq(AnyLine) /\ Len(stdin) \in Nat /\ 3 <= Len(stdin)
      /\ Len(stdin') = Len(stdin) - 3 /\ Rest(stdin, 3, stdin')
  BY <1>1, ReadLines DEF SInv
<1>4. stdin[3].int = asked.pw
  <2>1. stdin[(0 + 4) - 1] = Lines(asked)[4]
    BY <1>2 DEF Ahead
  <2> QED  BY <1>2, <2>1, LinesOf
<1>5. loggedIn
  BY <1>1, <1>2 DEF SInv, LoggedInv
<1>6. Ahead(stdin', 0, Lines(asked), 4)
  BY <1>2, <1>3, AheadRead DEF SInv, PipeInv
<1>7. CASE asked.pw = NotInt
  <2>1. srv' = "count" /\ UNCHANGED <<stdout, left, got>> /\ password' = NotInt
    BY <1>4, <1>5, <1>7 DEF ReadQuery
  <2>2. Unanswered'
    BY <1>1, <1>2, <2>1 DEF Unanswered
  <2>3. PlaceInv' /\ HandleInv' /\ PipeInv' /\ AskedInv'
    BY <1>1, <1>3, <2>1 DEF SInv, PlaceInv, HandleInv, PipeInv, AskedInv
  <2>4. AnswerInv' /\ LoggedInv'
    BY <1>1, <2>1 DEF SInv, AnswerInv, LoggedInv
  <2>5. StageInv'
    BY <1>1, <1>2, <1>6, <1>7, <2>1, <2>2 DEF SInv, StageInv
  <2> QED  BY <2>3, <2>4, <2>5 DEF SInv
<1>8. CASE asked.pw # NotInt
  <2>1. asked.pw \in Nat /\ asked.pw > ToCome(0) + 1
    BY <1>2, <1>8, ProtocolAssumption DEF Asked, Request, NoSmallPassword
  <2>2. asked.no \in 1..MaxRequests /\ ToCome(asked.no) \in Nat
        /\ ToCome(asked.no) + MaxLines <= ToCome(0) /\ ToCome(0) \in Nat /\ MaxLines \in Nat
    <3>1. asked.no \in 0..MaxRequests /\ asked.no > 0 /\ 0 \in 0..MaxRequests
      BY <1>2, ProtocolAssumption DEF Asked, Request
    <3> QED  BY <3>1, ToComeLess
  <2>3. Len(stdin') \in Nat /\ Len(stdin') <= MaxLines
    <3>1. Len(asked.sels) <= MaxSelections
      BY <1>2, SelsTyped
    <3>2. Len(stdin') = 1 + Len(asked.sels)
      BY <1>2, <1>6 DEF Ahead
    <3> QED  BY <1>2, <3>1, <3>2, ProtocolAssumption DEF MaxLines
  <2>4. asked.pw > Len(stdin') + ToCome(asked.no) + 1 /\ asked.pw > 0
    BY ONLY <2>1, <2>2, <2>3
  <2>5. /\ srv' = "selections" /\ left' = asked.pw /\ UNCHANGED stdout /\ password' = NotInt
    BY <1>4, <1>5, <1>8, <2>1, <2>4 DEF ReadQuery, TakeCount
  <2>6. Swallows'
    <3>1. asked.pw > Len(stdin') + ToCome(asked.no) + (IF handle THEN 1 ELSE 0)
      BY ONLY <2>1, <2>2, <2>3, <2>4
    <3> QED  BY <1>1, <1>8, <2>5, <3>1 DEF Swallows
  <2>7. Misreading' /\ Unanswered'
    BY <1>1, <1>2, <1>6, <1>8, <2>5, <2>6 DEF Misreading, Unanswered
  <2>8. PlaceInv' /\ HandleInv' /\ PipeInv' /\ AskedInv'
    BY <1>1, <1>3, <2>5 DEF SInv, PlaceInv, HandleInv, PipeInv, AskedInv
  <2>9. AnswerInv' /\ LoggedInv'
    BY <1>1, <2>5 DEF SInv, AnswerInv, LoggedInv
  <2>10. StageInv'
    BY <1>1, <1>2, <2>1, <2>4, <2>5, <2>7, PayloadLines DEF StageInv
  <2> QED  BY <2>8, <2>9, <2>10 DEF SInv
<1> QED  BY <1>7, <1>8

(* ReadCount keeps SInv.                                                   *)
LEMMA CountLineStep ==
  ASSUME SInv, ReadCount
  PROVE  SInv'
<1>1. srv = "count" /\ Read(1) /\ TakeCount(stdin[1].int)
      /\ UNCHANGED <<clientVars, loggedIn, current, password, done>>
  BY DEF ReadCount
<1>2. /\ Unanswered /\ current = [no |-> asked.no, kind |-> asked.kind]
      /\ asked.kind = "QUERY" /\ Ahead(stdin, 0, Lines(asked), 4) /\ password = NotInt
      /\ asked.pw = NotInt
  BY <1>1 DEF SInv, StageInv
<1>3. Asked(asked)
  BY <1>2 DEF Unanswered
<1>4. Lines(asked) \in Seq(AnyLine) /\ Len(asked.sels) \in Nat
      /\ Len(Lines(asked)) = 5 + Len(asked.sels) /\ Lines(asked)[5].int = Len(asked.sels)
  BY <1>2, <1>3, LinesOf, SelsTyped, LenProperties DEF Header
<1>5. stdin[1].int = Len(asked.sels)
  <2>1. stdin[(0 + 5) - 4] = Lines(asked)[5]
    BY <1>2, <1>4 DEF Ahead
  <2> QED  BY <1>4, <2>1
<1>6. stdin' \in Seq(AnyLine) /\ Rest(stdin, 1, stdin')
  BY <1>1, ReadLines DEF SInv
<1>7. Ahead(stdin', 0, Lines(asked), 5)
  BY <1>2, <1>4, <1>6, AheadRead DEF SInv, PipeInv
<1>8. Len(Lines(asked)) - Len(asked.sels) = 5
  BY <1>4
<1>9. TakeCount(Len(asked.sels)) /\ password' = NotInt /\ srv # "exited" /\ asked.kind # "LOGIN"
  BY <1>1, <1>2, <1>5
<1>10. Ahead(stdin', 0, Lines(asked), Len(Lines(asked)) - Len(asked.sels))
  BY <1>7, <1>8
<1> QED  BY <1>1, <1>2, <1>6, <1>9, <1>10, CountStep

(* ReadBalance keeps SInv.                                                 *)
LEMMA BalanceStep ==
  ASSUME SInv, ReadBalance
  PROVE  SInv'
<1>1. srv = "payload" /\ current.kind = "BALANCE" /\ Read(2)
      /\ TakeCount(IF loggedIn THEN stdin[2].int ELSE NotInt)
      /\ UNCHANGED <<clientVars, loggedIn, current, password, done>>
  BY DEF ReadBalance
<1>2. /\ Unanswered /\ current = [no |-> asked.no, kind |-> asked.kind]
      /\ asked.kind = "BALANCE" /\ Asked(asked) /\ Lines(asked) \in Seq(AnyLine)
      /\ Len(Lines(asked)) = 3 + Len(asked.sels) /\ Len(asked.sels) \in Nat
      /\ Ahead(stdin, 0, Lines(asked), 1)
  BY <1>1, PayloadLines DEF Header
<1>3. stdin[2].int = Len(asked.sels)
  <2>1. stdin[(0 + 3) - 1] = Lines(asked)[3]
    BY <1>2 DEF Ahead
  <2> QED  BY <1>2, <2>1, LinesOf
<1>4. loggedIn /\ password = NotInt
  BY <1>1, <1>2 DEF SInv, LoggedInv, StageInv
<1>5. stdin' \in Seq(AnyLine) /\ Rest(stdin, 2, stdin')
  BY <1>1, ReadLines DEF SInv
<1>6. Ahead(stdin', 0, Lines(asked), 3)
  BY <1>2, <1>5, AheadRead DEF SInv, PipeInv
<1>7. Len(Lines(asked)) - Len(asked.sels) = 3
  BY <1>2
<1>8. TakeCount(Len(asked.sels)) /\ password' = NotInt /\ srv # "exited" /\ asked.kind # "LOGIN"
      /\ asked.pw = NotInt
  BY <1>1, <1>2, <1>3, <1>4 DEF Asked
<1>9. Ahead(stdin', 0, Lines(asked), Len(Lines(asked)) - Len(asked.sels))
  BY <1>6, <1>7
<1> QED  BY <1>1, <1>2, <1>5, <1>8, <1>9, CountStep

(* A selection of the request is read.                                     *)
LEMMA ReadingStep ==
  ASSUME SInv, Reading, ReadSelection
  PROVE  SInv'
<1> DEFINE all == Lines(asked)
           n == Len(asked.sels)
           sel == asked.sels[Len(got) + 1]
<1>1. srv = "selections" /\ Read(1)
      /\ UNCHANGED <<client, handle, then, asked, result, loggedIn, current, done>>
  BY DEF ReadSelection, clientVars
<1>2. /\ Unanswered /\ current = [no |-> asked.no, kind |-> asked.kind] /\ asked.kind # "LOGIN"
      /\ asked.pw = NotInt /\ left \in Nat /\ left > 0 /\ n = Len(got) + left
      /\ got \in Seq({"sel", "badsel"})
      /\ \A i \in 1..Len(got) : got[i] = asked.sels[i]
      /\ Ahead(stdin, 0, all, Len(all) - left)
  BY <1>1 DEF SInv, StageInv, Reading
<1>3. Asked(asked) /\ Len(got) \in Nat
  BY <1>2, LenProperties DEF Unanswered
<1>4. /\ all \in Seq(AnyLine) /\ asked.sels \in Seq({"sel", "badsel"}) /\ n \in Nat
      /\ Header[asked.kind] \in Nat /\ Len(all) = Header[asked.kind] + n
      /\ \A i \in 1..n : all[Header[asked.kind] + i].text = asked.sels[i]
  BY <1>3, LinesOf, SelsTyped, LenProperties DEF Header, Asked, Asking
<1>5. stdin[1].text = sel /\ sel \in {"sel", "badsel"}
  <2>1. /\ Len(got) + 1 \in 1..n
        /\ Header[asked.kind] + (Len(got) + 1) \in ((Len(all) - left) + 1)..Len(all)
        /\ (0 + (Header[asked.kind] + (Len(got) + 1))) - (Len(all) - left) = 1
    <3>1. /\ Header[asked.kind] \in Nat /\ Len(all) = Header[asked.kind] + n /\ n \in Nat
          /\ n = Len(got) + left /\ left \in Nat /\ left > 0 /\ Len(got) \in Nat
      BY <1>2, <1>3, <1>4
    <3> DEFINE h == Header[asked.kind]
               g == Len(got)
               a == Len(all)
    <3> HIDE DEF all, n, h, g, a
    <3>2. h \in Nat /\ a = h + n /\ n \in Nat /\ n = g + left /\ left \in Nat /\ left > 0
          /\ g \in Nat
      BY <3>1 DEF h, g, a
    <3>3. /\ g + 1 \in 1..n /\ h + (g + 1) \in ((a - left) + 1)..a
          /\ (0 + (h + (g + 1))) - (a - left) = 1
      BY ONLY <3>2
    <3> QED  BY <3>3 DEF h, g, a
  <2>2. stdin[(0 + (Header[asked.kind] + (Len(got) + 1))) - (Len(all) - left)]
          = all[Header[asked.kind] + (Len(got) + 1)]
    BY <1>2, <2>1 DEF Ahead
  <2>3. sel \in {"sel", "badsel"}
    BY <1>4, <2>1, ElementOfSeq
  <2> QED  BY <1>4, <2>1, <2>2, <2>3
<1>6. /\ stdin' \in Seq(AnyLine) /\ Len(stdin) \in Nat /\ Len(stdin') = Len(stdin) - 1
      /\ Rest(stdin, 1, stdin')
  BY <1>1, ReadLines DEF SInv
<1>7. Len(stdin') = left - 1
  BY <1>2, <1>4, <1>6 DEF Ahead
<1>8. CASE sel = "sel"
  <2>1. /\ got' = Append(got, "sel") /\ left' = left - 1
        /\ srv' = IF left = 1 THEN "run" ELSE srv
        /\ UNCHANGED <<stdout, password>>
    BY <1>5, <1>8 DEF ReadSelection
  <2>2. /\ got' \in Seq({"sel", "badsel"}) /\ Len(got') = Len(got) + 1
        /\ \A i \in 1..Len(got') : got'[i] = asked.sels[i]
    <3>1. /\ got' \in Seq({"sel", "badsel"}) /\ Len(got') = Len(got) + 1
          /\ \A i \in 1..Len(got) : got'[i] = got[i]
          /\ got'[Len(got) + 1] = "sel"
      BY <1>2, <2>1, AppendProperties
    <3> QED  BY <1>2, <1>3, <1>8, <3>1
  <2>3. Unanswered'
    BY <1>1, <1>2, <2>1 DEF Unanswered
  <2>4. PlaceInv' /\ HandleInv' /\ PipeInv' /\ AskedInv'
    BY <1>1, <1>6, <2>1 DEF SInv, PlaceInv, HandleInv, PipeInv, AskedInv
  <2>5. AnswerInv' /\ LoggedInv'
    BY <1>1, <2>1 DEF SInv, AnswerInv, LoggedInv
  <2>6. CASE left = 1
    <3>1. got' = asked.sels
      <4>1. Len(got') = n
        BY <1>2, <1>3, <2>2, <2>6
      <4> QED  BY <1>4, <2>2, <4>1, SeqEqual
    <3>2. srv' = "run" /\ Len(stdin') = 0 /\ left' \in Nat
      BY <1>7, <2>1, <2>6
    <3>3. StageInv'
      BY <1>1, <1>2, <2>1, <2>3, <3>1, <3>2 DEF StageInv, SInv
    <3> QED  BY <2>4, <2>5, <3>3 DEF SInv
  <2>7. CASE left # 1
    <3>1. srv' = "selections" /\ left' \in Nat /\ left' > 0 /\ n = Len(got') + left'
      BY <1>1, <1>2, <1>3, <2>1, <2>2, <2>7
    <3>2. Ahead(stdin', 0, all, Len(all) - left')
      <4>1. /\ Len(all) - left \in Nat /\ Len(all) - left' \in Nat
            /\ Len(all) - left' = (Len(all) - left) + 1 /\ Len(all) - left' <= Len(all)
        <5>1. Len(all) \in Nat /\ left <= Len(all) /\ left \in Nat /\ left > 0
          BY <1>2, <1>3, <1>4
        <5> HIDE DEF all
        <5> QED  BY <2>1, <5>1
      <4> HIDE DEF all
      <4> QED  BY <1>2, <1>4, <1>6, <4>1, AheadRead DEF SInv, PipeInv
    <3>3. Reading'
      BY <1>1, <1>2, <2>2, <3>1, <3>2 DEF Reading
    <3>4. StageInv'
      BY <1>1, <1>2, <2>1, <2>3, <3>1, <3>3 DEF StageInv, SInv
    <3> QED  BY <2>4, <2>5, <3>4 DEF SInv
  <2> QED  BY <2>6, <2>7
<1>9. CASE sel # "sel" /\ left = 1
  <2>1. Reply(FALSE) /\ Len(stdin') = 0
    <3>1. stdin[1].text # "sel" /\ left = 1
      BY <1>5, <1>9
    <3>2. Reply(FALSE)
      BY <3>1, Zenon DEF ReadSelection
    <3>3. Len(stdin') = 0
      BY <1>7, <3>1
    <3> QED  BY <3>2, <3>3
  <2> QED
    BY <1>1, <1>2, <1>6, <2>1, ReplyStep DEF clientVars, SInv, PlaceInv
<1>10. CASE sel # "sel" /\ left # 1
  <2>1. /\ stdout' = Append(stdout, [of |-> asked.no, ok |-> FALSE])
        /\ srv' = "discard" /\ left' = left - 1 /\ UNCHANGED <<got, password>>
    BY <1>2, <1>5, <1>10 DEF ReadSelection, Respond
  <2>2. stdout' \in Seq(Answer) /\ AnswerInv' /\ LoggedInv'
    BY <1>1, <1>2, <2>1, AnswerKept DEF SInv, PlaceInv
  <2>3. PlaceInv' /\ HandleInv'
    BY <1>1, <2>1 DEF SInv, PlaceInv, HandleInv
  <2>4. PipeInv' /\ AskedInv'
    BY <1>1, <1>6, <2>2 DEF SInv, PipeInv, AskedInv
  <2>5. left' \in Nat /\ left' > 0 /\ Len(stdin') = left' /\ client' \in {"waiting", "gone"}
    BY <1>1, <1>2, <1>7, <1>10, <2>1 DEF Unanswered
  <2>6. StageInv'
    BY <1>2, <2>1, <2>5 DEF StageInv, Following, SInv
  <2> QED  BY <2>2, <2>3, <2>4, <2>6 DEF SInv
<1> QED  BY <1>8, <1>9, <1>10

(* What is read in their place when the trade password was taken for their *)
(* number is the count line: it is refused, and the rest dropped.          *)
LEMMA MisreadingStep ==
  ASSUME SInv, Misreading, ReadSelection
  PROVE  SInv'
<1>1. srv = "selections" /\ Read(1)
      /\ UNCHANGED <<client, handle, then, asked, result, loggedIn, current, done>>
  BY DEF ReadSelection, clientVars
<1>2. /\ Unanswered /\ current = [no |-> asked.no, kind |-> asked.kind]
      /\ left \in Nat /\ asked.kind = "QUERY" /\ asked.pw # NotInt /\ Swallows
      /\ Ahead(stdin, 0, Lines(asked), 4) /\ password = NotInt
  BY <1>1 DEF SInv, StageInv, Misreading
<1>3. Asked(asked)
  BY <1>2 DEF Unanswered
<1>4. /\ Lines(asked) \in Seq(AnyLine) /\ Len(asked.sels) \in Nat
      /\ Len(Lines(asked)) = 5 + Len(asked.sels) /\ Lines(asked)[5].text = "field"
  BY <1>2, <1>3, LinesOf, SelsTyped, LenProperties DEF Header
<1>5. stdin[1].text = "field"
  <2>1. stdin[(0 + 5) - 4] = Lines(asked)[5]
    BY <1>2, <1>4 DEF Ahead
  <2> QED  BY <1>4, <2>1
<1>6. /\ stdin' \in Seq(AnyLine) /\ Len(stdin) \in Nat /\ 1 <= Len(stdin)
      /\ Len(stdin') = Len(stdin) - 1
  BY <1>1, ReadLines DEF SInv
<1>7. ToCome(asked.no) \in Nat
  BY <1>3, ToComeLess DEF Asked, Request
<1>8. left > Len(stdin) + ToCome(asked.no) + (IF handle THEN 1 ELSE 0)
  BY <1>2 DEF Swallows
<1>9. left # 1 /\ left - 1 > 0 /\ left - 1 \in Nat
      /\ left - 1 > Len(stdin') + ToCome(asked.no) + (IF handle THEN 1 ELSE 0)
  BY ONLY <1>2, <1>6, <1>7, <1>8
<1>10. /\ stdout' = Append(stdout, [of |-> asked.no, ok |-> FALSE])
       /\ srv' = "discard" /\ left' = left - 1 /\ password' = NotInt
  BY <1>2, <1>5, <1>9 DEF ReadSelection, Respond
<1>11. stdout' \in Seq(Answer) /\ AnswerInv' /\ LoggedInv'
  BY <1>1, <1>2, <1>10, AnswerKept DEF SInv, PlaceInv
<1>12. PlaceInv' /\ HandleInv' /\ PipeInv' /\ AskedInv'
  BY <1>1, <1>6, <1>10, <1>11 DEF SInv, PlaceInv, HandleInv, PipeInv, AskedInv
<1>13. Swallows'
  BY <1>1, <1>2, <1>9, <1>10 DEF Swallows
<1>14. StageInv'
  BY <1>9, <1>10, <1>13 DEF StageInv
<1> QED  BY <1>11, <1>12, <1>14 DEF SInv

(* ReadSelection keeps SInv.                                               *)
LEMMA SelectionStep ==
  ASSUME SInv, ReadSelection
  PROVE  SInv'
<1>1. Reading \/ Misreading
  BY DEF SInv, StageInv, ReadSelection
<1> QED  BY <1>1, ReadingStep, MisreadingStep

(* Discard keeps SInv.                                                     *)
LEMMA DiscardStep ==
  ASSUME SInv, Discard
  PROVE  SInv'
<1>1. /\ srv = "discard" /\ Read(1) /\ left' = left - 1
      /\ srv' = (IF left = 1 THEN "command" ELSE srv)
      /\ password' = (IF left = 1 THEN NotInt ELSE password)
      /\ UNCHANGED <<client, handle, then, asked, result, stdout, loggedIn, current, done>>
  BY DEF Discard, clientVars
<1>2. left \in Nat /\ left > 0 /\ (Following(left) \/ Swallows) /\ password = NotInt
  BY <1>1 DEF SInv, StageInv
<1>3. /\ stdin' \in Seq(AnyLine) /\ Len(stdin) \in Nat /\ Len(stdin') = Len(stdin) - 1
      /\ Rest(stdin, 1, stdin')
  BY <1>1, ReadLines DEF SInv
<1>4. left' \in Nat /\ (Following(left) => Following(left)')
  <2> SUFFICES ASSUME Following(left)
               PROVE  left' \in Nat /\ Following(left)'
    BY <1>1, <1>2
  <2>1. left' \in Nat /\ left' + 1 = left
    BY <1>1, <1>2
  <2>2. CASE Len(stdin) = left /\ client \in {"waiting", "idle", "gone"}
    BY <1>1, <1>3, <2>1, <2>2 DEF Following
  <2>3. CASE /\ Len(stdin) = left + 1 /\ stdin[left + 1].text = "SHUTDOWN"
             /\ stdout = <<>> /\ client \in {"closing", "gone"}
    <3>1. Len(stdin') = left /\ left \in 1..Len(stdin') /\ 1 + left = left + 1
      BY <1>2, <1>3, <2>3
    <3>2. stdin'[left] = stdin[left + 1]
      BY <1>3, <3>1 DEF Rest
    <3>3. Len(stdin') = left' + 1 /\ stdin'[left' + 1] = stdin[left + 1]
      BY <2>1, <3>1, <3>2
    <3> QED  BY <1>1, <2>1, <2>3, <3>3 DEF Following
  <2>4. CASE Ahead(stdin, left, Lines(asked), 0) /\ Unanswered
    <3>1. Lines(asked) \in Seq(AnyLine)
      BY <2>4, LinesOf DEF Unanswered
    <3>2. Ahead(stdin', left - 1, Lines(asked), 0)
      BY <1>2, <1>3, <2>4, <3>1, AheadDrop DEF SInv, PipeInv
    <3>3. Unanswered' /\ Ahead(stdin', left', Lines(asked'), 0)
      BY <1>1, <2>4, <3>2 DEF Unanswered
    <3> QED  BY <2>1, <3>3 DEF Following
  <2> QED  BY <1>2, <2>2, <2>3, <2>4, <2>1 DEF Following
<1>5. PlaceInv' /\ HandleInv' /\ PipeInv' /\ AskedInv'
  BY <1>1, <1>3 DEF SInv, PlaceInv, HandleInv, PipeInv, AskedInv
<1>6. AnswerInv' /\ LoggedInv'
  BY <1>1 DEF SInv, AnswerInv, LoggedInv
<1>8. Swallows => left # 1 /\ Swallows'
  <2>1. ToCome(asked.no) \in Nat
    BY ToComeLess, ProtocolAssumption DEF SInv, AskedInv, Asked, Request, NoRequest
  <2>2. ASSUME Swallows
        PROVE  left # 1 /\ Swallows'
    <3>1. left > Len(stdin) + ToCome(asked.no) + (IF handle THEN 1 ELSE 0)
      BY <2>2 DEF Swallows
    <3>2. 1 <= Len(stdin)
      BY <1>1, ReadLines DEF SInv
    <3>3. left # 1 /\ left' > Len(stdin') + ToCome(asked.no) + (IF handle THEN 1 ELSE 0)
      <4>1. left' = left - 1
        BY <1>1
      <4> QED  BY ONLY <1>2, <1>3, <2>1, <3>1, <3>2, <4>1
    <3> QED  BY <1>1, <2>2, <3>3 DEF Swallows
  <2> QED  BY <2>2
<1>7. StageInv'
  <2>1. left = 1 => left' = 0
    BY <1>1
  <2>2. /\ srv' \in {"command", "discard"}
        /\ (srv' = "command" => left' = 0) /\ (srv' = "discard" => left' > 0)
    BY <1>1, <1>2, <2>1
  <2>3. srv' = "command" => Following(0)'
    <3>1. srv' = "command" => left = 1 /\ left' = 0
      BY <1>1, <2>2
    <3> QED  BY <1>2, <1>4, <1>8, <3>1 DEF Following
  <2> QED  BY <1>1, <1>2, <1>4, <1>8, <2>2, <2>3 DEF StageInv
<1> QED  BY <1>5, <1>6, <1>7 DEF SInv

(* Run keeps SInv.                                                         *)
LEMMA RunStep ==
  ASSUME SInv, Run
  PROVE  SInv'
<1>1. srv = "run" /\ UNCHANGED <<clientVars, stdin, loggedIn, current>>
  BY DEF Run
<1>2. Unanswered /\ current.no = asked.no /\ asked.kind # "LOGIN" /\ Len(stdin') = 0
      /\ stdin' \in Seq(AnyLine)
  BY <1>1 DEF SInv, StageInv, PipeInv
<1>3. loggedIn /\ loggedIn' \in BOOLEAN /\ (loggedIn => loggedIn')
  BY <1>1, <1>2 DEF SInv, LoggedInv, PlaceInv, Unanswered, Asked, Asking
<1>4. PICK ok \in BOOLEAN :
        /\ done' = IF ok THEN done \cup {current.no} ELSE done
        /\ Reply(ok)
  BY DEF Run
<1>5. done' \in {done, done \cup {asked.no}} /\ (ok => asked.no \in done' /\ loggedIn')
  BY <1>1, <1>2, <1>3, <1>4
<1> QED  BY <1>1, <1>2, <1>3, <1>4, <1>5, ReplyStep

(* SInv holds at the start.                                                *)
LEMMA StartInv == Init => SInv
<1> SUFFICES ASSUME Init PROVE SInv
  OBVIOUS
<1>1. PlaceInv /\ HandleInv
  BY DEF Init, PlaceInv, HandleInv
<1>2. PipeInv /\ AskedInv
  BY EmptySeq DEF Init, PipeInv, AskedInv
<1>3. AnswerInv /\ LoggedInv /\ StageInv
  BY DEF Init, AnswerInv, LoggedInv, StageInv
<1> QED  BY <1>1, <1>2, <1>3 DEF SInv

(* A step that changes nothing keeps SInv.                                 *)
LEMMA StutterStep ==
  ASSUME SInv, UNCHANGED vars
  PROVE  SInv'
<1>1. UNCHANGED <<client, handle, then, asked, result, stdin, stdout, srv, loggedIn, current,
                  left, got, password, done>>
  BY DEF vars, clientVars, serverVars
<1>2. PlaceInv' /\ PipeInv' /\ AskedInv' /\ HandleInv'
  BY <1>1 DEF SInv, PlaceInv, PipeInv, AskedInv, HandleInv
<1>3. AnswerInv' /\ LoggedInv'
  BY <1>1 DEF SInv, AnswerInv, LoggedInv
<1>4. StageInv'
  <2>1. (Swallows => Swallows') /\ (Unanswered => Unanswered')
    BY <1>1 DEF Swallows, Unanswered
  <2>2. (Reading => Reading') /\ (Misreading => Misreading')
    BY <1>1, <2>1 DEF Reading, Misreading
  <2> QED  BY <1>1, <2>1, <2>2 DEF SInv, StageInv, Following
<1> QED  BY <1>2, <1>3, <1>4 DEF SInv

LEMMA ProtocolStep ==
  ASSUME NoSmallPassword, SInv, [Next]_vars
  PROVE  SInv'
<1>1. CASE User
  BY <1>1, AskStep, CloseStep, KilledStep DEF User
<1>2. CASE Client
  BY <1>2, EndStep, SpawnStep, ReturnStep DEF Client
<1>3. CASE Server
  BY <1>3, CommandStep, LoginStep, QueryStep, CountLineStep, BalanceStep, SelectionStep,
     DiscardStep, RunStep, EndStep DEF Server
<1> QED  BY <1>1, <1>2, <1>3, EndStep, StutterStep DEF Next

-----------------------------------------------------------------------------
(* The theorems.                                                           *)

(* Client and loop are where SInv says they are, through crashes, kills,   *)
(* refused selections and new sessions, for any number of requests.        *)
THEOREM ProtocolInductive == NoSmallPassword => (Spec => []SInv)
<1> SUFFICES ASSUME NoSmallPassword PROVE Spec => []SInv
  OBVIOUS
<1>1. SInv /\ [Next]_vars => SInv'
  BY ProtocolStep
<1> QED  BY StartInv, <1>1, PTL DEF Spec

(* Every reachable state of the protocol is type correct.                  *)
THEOREM ProtocolTypeCorrect == NoSmallPassword => (Spec => []TypeOK)
<1>1. SInv => TypeOK
  <2> SUFFICES ASSUME SInv PROVE TypeOK
    OBVIOUS
  <2>1. asked.no \in 0..MaxRequests /\ MaxRequests \in Nat
    BY ProtocolAssumption DEF SInv, AskedInv, Asked, Request, NoRequest
  <2>2. done \subseteq 1..MaxRequests
    BY <2>1 DEF SInv, AskedInv
  <2>3. \A i \in DOMAIN stdin : stdin[i] \in AnyLine
    BY DEF SInv, PipeInv
  <2>4. \A i \in DOMAIN stdout : stdout[i] \in Answer
    BY DEF SInv, PipeInv
  <2>5. \A i \in DOMAIN stdin : stdin[i].of \in Nat /\ stdin[i].int \in Nat \cup {NotInt}
    BY <2>3 DEF AnyLine
  <2>6. \A i \in DOMAIN stdout : stdout[i].ok \in BOOLEAN
    BY <2>4 DEF Answer
  <2> QED  BY <2>2, <2>5, <2>6 DEF SInv, PlaceInv, StageInv, TypeOK
<1> QED  BY ProtocolInductive, <1>1, PTL

(* The client never takes one request's answer for another's, whatever     *)
(* crashed, was refused or was opened anew in between.                     *)
THEOREM AnswersAreOwn == NoSmallPassword => (Spec => []InSync)
<1>1. SInv => InSync
  <2> SUFFICES ASSUME SInv PROVE InSync
    OBVIOUS
  <2>1. stdout # <<>> => 1 \in DOMAIN stdout
    BY DEF SInv, PipeInv
  <2> QED  BY <2>1 DEF SInv, AnswerInv, InSync
<1> QED  BY ProtocolInductive, <1>1, PTL

(* While the client rests, no line of its earlier requests can be taken    *)
(* for a command; the loop drops exactly what is left of a refused one, or *)
(* all that comes, and that only behind a numeric trade password.          *)
THEOREM NothingLeftOver == NoSmallPassword => (Spec => []AtRest)
<1>1. SInv => AtRest
  <2> SUFFICES ASSUME SInv, client = "idle", handle, Alive
               PROVE  \/ srv = "command" /\ stdin = <<>>
                      \/ /\ srv = "discard" /\ Len(stdin) <= left
                         /\ Len(stdin) < left => asked.pw # NotInt
    BY DEF AtRest
  <2>1. srv \in {"command", "discard"}
    BY DEF SInv, PlaceInv, StageInv, Unanswered, Alive
  <2>2. CASE srv = "command"
    <3>1. Len(stdin) = 0
      BY <2>2 DEF SInv, StageInv, Following, Unanswered
    <3> QED  BY <2>2, <3>1, EmptySeq DEF SInv, PipeInv
  <2>3. CASE srv = "discard"
    <3>1. Len(stdin) \in Nat /\ left \in Nat /\ ToCome(asked.no) \in Nat
      BY LenProperties, ToComeLess, ProtocolAssumption
         DEF SInv, PipeInv, StageInv, AskedInv, Asked, Request, NoRequest
    <3>2. CASE Following(left)
      BY <2>3, <3>1, <3>2 DEF Following, Unanswered
    <3>3. CASE Swallows
      <4>1. left > Len(stdin) + ToCome(asked.no) + (IF handle THEN 1 ELSE 0)
        BY <3>3 DEF Swallows
      <4>2. Len(stdin) <= left
        BY ONLY <3>1, <4>1
      <4> QED  BY <2>3, <3>3, <4>2 DEF Swallows
    <3> QED  BY <2>3, <3>2, <3>3 DEF SInv, StageInv
  <2> QED  BY <2>1, <2>2, <2>3
<1> QED  BY ProtocolInductive, <1>1, PTL

(* What fetch.exe runs has the trade password and all the selections of    *)
(* the request that the client waits for.                                  *)
THEOREM RunsAreAsAsked == NoSmallPassword => (Spec => []RunsAsAsked)
<1>1. SInv => RunsAsAsked
  <2> SUFFICES ASSUME SInv, srv = "run"
               PROVE  current.no = asked.no /\ password = asked.pw /\ got = asked.sels
    BY DEF RunsAsAsked
  <2>1. /\ current = [no |-> asked.no, kind |-> asked.kind] /\ got = asked.sels
        /\ password = NotInt /\ asked.pw = NotInt
    BY DEF SInv, StageInv
  <2> QED  BY <2>1
<1> QED  BY ProtocolInductive, <1>1, PTL

-----------------------------------------------------------------------------
(* The refinement.                                                         *)

LEMMA CallStart == Init => Promise!CallInit
BY DEF Init, NoRequest, Promise!CallInit

(* A step of the protocol is a step of ServiceCall, or none.               *)
LEMMA CallStep ==
  ASSUME SInv, [Next]_vars
  PROVE  [Promise!CallNext]_(Promise!callVars)
<1> DEFINE phase == CASE client = "waiting" -> "busy"
                      [] client = "gone" -> "left"
                      [] OTHER -> "idle"
<1> SUFFICES Promise!CallNext \/ (UNCHANGED <<phase, asked.no, done, result>>)
  BY DEF Promise!callVars
<1>1. ASSUME NEW r \in Calls, Ask(r)
      PROVE  Promise!Call
  BY <1>1 DEF Ask, Send, Calls, serverVars, Promise!Call
<1>2. ASSUME Spawn
      PROVE  Promise!Call
  BY <1>2 DEF Spawn, NoRequest, Promise!Call
<1>3. ASSUME ClientKilled \/ (Closed /\ then = "exit")
      PROVE  Promise!Depart
  BY <1>3 DEF ClientKilled, Closed, serverVars, Promise!Depart
<1>4. ASSUME Receive \/ ReadEnd
      PROVE  Promise!Return
  <2>1. /\ client = "waiting" /\ client' = "idle" /\ asked' = asked /\ done' = done
        /\ result' \in {"ok", "error"}
        /\ result' = "ok" => stdout # <<>> /\ Head(stdout).ok
    BY <1>4 DEF Receive, ReadEnd, Return
  <2>2. result' = "ok" => asked.no \in done
    <3>1. stdout # <<>> => 1 \in DOMAIN stdout /\ Head(stdout) = stdout[1]
      BY DEF SInv, PipeInv
    <3> QED  BY <2>1, <3>1 DEF SInv, AnswerInv
  <2> QED  BY <2>1, <2>2 DEF Promise!Return
<1>5. ASSUME Login \/ Run
      PROVE  Promise!CarryOut \/ UNCHANGED <<phase, asked.no, done, result>>
  <2>1. UNCHANGED <<client, asked, result>>
    BY <1>5 DEF Login, Run, clientVars
  <2>2. Unanswered /\ current.no = asked.no
    BY <1>5 DEF SInv, StageInv, Login, Run
  <2>3. done' \in {done, done \cup {asked.no}}
    BY <1>5, <2>2 DEF Login, Run
  <2> QED  BY <2>1, <2>2, <2>3 DEF Unanswered, Promise!CarryOut
<1>6. ASSUME \/ \E next \in {"open", "rest", "exit"} : CloseSession(next)
             \/ Terminate \/ (Closed /\ then # "exit") \/ Crash \/ UNCHANGED vars
             \/ ReadCommand \/ ReadQuery \/ ReadCount \/ ReadBalance \/ ReadSelection
             \/ Discard \/ EndOfInput
      PROVE  UNCHANGED <<phase, asked.no, done, result>>
  <2>1. UNCHANGED <<asked, done, result>>
    BY <1>6 DEF CloseSession, Terminate, Closed, Crash, ReadCommand, ReadQuery, ReadCount,
       ReadBalance, ReadSelection, Discard, EndOfInput, vars, clientVars, serverVars
  <2>2. \/ client' = client
        \/ client \in {"idle", "closing", "closed"} /\ client' \in {"idle", "closing", "closed"}
    BY <1>6 DEF CloseSession, Terminate, Closed, Crash, ReadCommand, ReadQuery, ReadCount,
       ReadBalance, ReadSelection, Discard, EndOfInput, vars, clientVars, serverVars
  <2> QED  BY <2>1, <2>2
<1> QED
  BY <1>1, <1>2, <1>3, <1>4, <1>5, <1>6 DEF Next, User, Client, Server, Promise!CallNext

(* Every step of the two programs is one that ServiceCall allows: calls    *)
(* one at a time, carried out at most once and only while current, "ok"    *)
(* only of what was carried out.                                           *)
THEOREM ProtocolKeepsPromise == NoSmallPassword => (Spec => KeepsPromise)
<1> SUFFICES ASSUME NoSmallPassword
             PROVE  Spec => Promise!CallInit /\ [][Promise!CallNext]_(Promise!callVars)
  BY DEF KeepsPromise, Promise!CallSpec
<1>1. SInv /\ [Next]_vars => SInv'
  BY ProtocolStep
<1>2. SInv /\ [Next]_vars => [Promise!CallNext]_(Promise!callVars)
  BY CallStep
<1> QED  BY StartInv, CallStart, <1>1, <1>2, PTL DEF Spec
=============================================================================
