--------------------------- MODULE QvLoginProofs ---------------------------
(***************************************************************************)
(* Proofs about QvLogin, for any users, account lists, selections, bounds  *)
(* and modes: LInv is inductive; whoever is logged in has his own          *)
(* accounts, and a TR is sent as it was meant.                             *)
(***************************************************************************)
EXTENDS QvLogin, FiniteSetTheorems, TLAPS

-----------------------------------------------------------------------------
(* Account lists.                                                          *)

(* The accounts of a list are accounts.                                    *)
LEMMA ListingType ==
  ASSUME NEW l \in Seq(Numbers \cup {NoNumber})
  PROVE  Listing(l) \subseteq Account
  BY DEF Listing, Account

(* An account is listed under its index.                                   *)
LEMMA Listed ==
  ASSUME NEW l, NEW i, NEW n, [index |-> i, no |-> n] \in Listing(l)
  PROVE  i \in DOMAIN l /\ l[i] = n
  BY DEF Listing

(* What configure_trade_passwords is given are passwords.                  *)
LEMMA ConfiguredType ==
  /\ Blank \in Passwords
  /\ Unconfigured \in Passwords \X Passwords \X Passwords
  /\ \A p \in Passwords : Configured(p) \in Passwords \X Passwords \X Passwords
<1>1. Overrides[1] \in Passwords /\ Overrides[2] \in Passwords /\ Blank \in Passwords
  BY LoginAssumption DEF Passwords
<1> QED  BY <1>1 DEF Configured, Unconfigured

(* What the caller chooses are accounts it was shown.                      *)
LEMMA ChoiceOf ==
  ASSUME known \subseteq Account, NEW bad \in {{}, {BadPassword}}, NEW c \in Choices(bad)
  PROVE  /\ c \in Seq(Ticked)
         /\ 1 \in DOMAIN c
         /\ \A i \in DOMAIN c : [index |-> c[i].index, no |-> c[i].no] \in known
         /\ \A i \in DOMAIN c : c[i].pw \in {c[i].no} \cup bad
<1>1. PICK n \in 1..MaxSelections :
        c \in [1..n -> {s \in Selection(Numbers \cup bad) : s.pw \in {s.no} \cup bad}]
  BY DEF Choices
<1>2. \A s \in Selection(Numbers \cup bad) :
        /\ s \in Ticked
        /\ [index |-> s.index, no |-> s.no] \in known
  BY DEF Selection, Account, Ticked
<1>3. n \in Nat /\ n >= 1
  BY <1>1, LoginAssumption
<1> DEFINE S == {s \in Selection(Numbers \cup bad) : s.pw \in {s.no} \cup bad}
<1>4. c \in [1..n -> S]
  BY <1>1
<1>5. \A s \in S : /\ s \in Ticked
                  /\ [index |-> s.index, no |-> s.no] \in known
                  /\ s.pw \in {s.no} \cup bad
  BY <1>2
<1> HIDE DEF S
<1>6. \A i \in 1..n : c[i] \in S
  BY <1>4
<1>7. c \in [1..n -> Ticked]
  <2>1. \A i \in 1..n : c[i] \in Ticked
    BY <1>5, <1>6
  <2>2. c = [i \in 1..n |-> c[i]]
    BY <1>4
  <2>3. [i \in 1..n |-> c[i]] \in [1..n -> Ticked]
    BY <2>1
  <2> QED  BY <2>2, <2>3
<1>8. c \in Seq(Ticked) /\ DOMAIN c = 1..n /\ 1 \in DOMAIN c
  BY <1>3, <1>4, <1>7
<1> QED  BY <1>5, <1>6, <1>8

(* When no entry is blank, an account's place is its index.                *)
LEMMA PlaceOfIndex ==
  ASSUME NEW l \in Seq(Numbers \cup {NoNumber}), \A i \in DOMAIN l : l[i] # NoNumber,
         NEW k \in 0..Len(l)
  PROVE  Cardinality({y \in Listing(l) : y.index <= k}) = k
<1> DEFINE S == {y \in Listing(l) : y.index <= k}
           f == [i \in 1..k |-> [index |-> i, no |-> l[i]]]
<1>1. f \in Bijection(1..k, S)
  <2>1. f \in [1..k -> S]
    BY DEF Listing
  <2>2. \A i, j \in 1..k : f[i] = f[j] => i = j
    OBVIOUS
  <2>3. \A y \in S : \E i \in 1..k : f[i] = y
    BY DEF Listing
  <2> QED  BY <2>1, <2>2, <2>3 DEF Bijection, Injection, Surjection, IsInjective
<1>2. IsFiniteSet(1..k) /\ Cardinality(1..k) = k
  BY FS_Interval
<1> HIDE DEF S, f
<1>3. ExistsBijection(1..k, S)
  BY <1>1 DEF ExistsBijection
<1>4. Cardinality(S) = Cardinality(1..k)
  BY <1>2, <1>3, FS_Bijection
<1> QED  BY <1>2, <1>4 DEF S

(* accounts_ have an account at each place.                                *)
LEMMA SelectedIn ==
  ASSUME NEW l \in Seq(Numbers \cup {NoNumber}), Listing(l) # {}, NEW p \in Nat
  PROVE  Selected(Listing(l), p) \in Listing(l)
<1> DEFINE L == Listing(l)
           P(x) == {y \in L : y.index <= x.index}
           index_ == [x \in L |-> x.index]
           place == [x \in L |-> Cardinality(P(x))]
           n == Cardinality(L)
<1>1. \A x \in L : x.index \in 1..Len(l) /\ x = [index |-> x.index, no |-> l[x.index]]
  BY DEF Listing
<1>2. IsFiniteSet(L) /\ n \in Nat
  <2>1. index_ \in Injection(L, 1..Len(l))
    BY <1>1 DEF Injection, IsInjective
  <2>2. IsFiniteSet(1..Len(l))
    BY FS_Interval
  <2> HIDE DEF index_, L
  <2>3. IsFiniteSet(L)
    BY <2>1, <2>2, FS_Injection
  <2> QED  BY <2>3, FS_CardinalityType
<1> HIDE DEF L
<1>3. \A x \in L : IsFiniteSet(P(x)) /\ Cardinality(P(x)) \in 1..n
  <2> TAKE x \in L
  <2>1. x \in P(x) /\ P(x) \subseteq L
    BY <1>1
  <2> HIDE DEF P
  <2>2. IsFiniteSet(P(x)) /\ Cardinality(P(x)) <= n
    BY <1>2, <2>1, FS_Subset
  <2>3. Cardinality(P(x)) \in Nat /\ Cardinality(P(x)) # 0
    BY <2>1, <2>2, FS_EmptySet, FS_CardinalityType
  <2> QED  BY <1>2, <2>2, <2>3
<1>4. \A x, z \in L : x.index < z.index => Cardinality(P(x)) # Cardinality(P(z))
  <2> TAKE x, z \in L
  <2> HAVE x.index < z.index
  <2>1. P(x) \subseteq P(z) /\ z \in P(z) /\ z \notin P(x)
    BY <1>1
  <2>2. IsFiniteSet(P(z))
    BY <1>3
  <2> HIDE DEF P
  <2> QED  BY <2>1, <2>2, FS_Subset
<1>5. \A x, z \in L : x # z => x.index < z.index \/ z.index < x.index
  BY <1>1
<1>6. place \in Injection(L, 1..n)
  <2>1. \A x, z \in L : place[x] = place[z] => x = z
    <3> TAKE x, z \in L
    <3> SUFFICES ASSUME x # z PROVE place[x] # place[z]
      OBVIOUS
    <3>1. CASE x.index < z.index
      BY <3>1, <1>4
    <3>2. CASE z.index < x.index
      BY <3>2, <1>4
    <3> QED  BY <3>1, <3>2, <1>5
  <2>2. place \in [L -> 1..n]
    BY <1>3
  <2> HIDE DEF place
  <2> QED  BY <2>1, <2>2 DEF Injection, IsInjective
<1>7. place \in Surjection(L, 1..n)
  <2>1. IsFiniteSet(1..n) /\ Cardinality(1..n) = n
    BY <1>2, FS_Interval
  <2> HIDE DEF place
  <2> QED  BY <1>6, <2>1, FS_Injection
<1>8. n # 0
  BY <1>2, FS_EmptySet DEF L
<1>9. (IF p < 1 THEN 1 ELSE IF p > n THEN n ELSE p) \in 1..n
  BY <1>2, <1>8
<1>10. \A k \in 1..n : \E x \in L : Cardinality(P(x)) = k
  BY <1>7 DEF Surjection
<1>11. \A x \in L : Place(L, x) = Cardinality(P(x))
  BY DEF Place
<1> HIDE DEF P, n
<1>12. \E x \in L : Place(L, x) = (IF p < 1 THEN 1 ELSE IF p > n THEN n ELSE p)
  BY <1>9, <1>10, <1>11
<1> QED  BY <1>12 DEF Selected, L, n

(* When no entry is blank, QV_ACCOUNT_INDEX selects the account of it.     *)
LEMMA SelectedIsIndexed ==
  ASSUME NEW l \in Seq(Numbers \cup {NoNumber}), \A i \in DOMAIN l : l[i] # NoNumber,
         NEW k \in DOMAIN l
  PROVE  Selected(Listing(l), k) = [index |-> k, no |-> l[k]]
<1> DEFINE L == Listing(l)
<1>1. Cardinality(L) = Len(l)
  <2>1. L = {y \in L : y.index <= Len(l)}
    BY DEF Listing
  <2> QED  BY <2>1, PlaceOfIndex
<1>2. \A x \in L : Place(L, x) = x.index
  <2> TAKE x \in L
  <2>1. x.index \in 0..Len(l)
    BY DEF Listing
  <2> QED  BY <2>1, PlaceOfIndex DEF Place
<1>3. [index |-> k, no |-> l[k]] \in L
  BY DEF Listing
<1>4. \A x \in L : x.index = k => x = [index |-> k, no |-> l[k]]
  BY DEF Listing
<1>5. k \in 1..Len(l)
  OBVIOUS
<1> HIDE DEF L
<1>6. Selected(L, k) = CHOOSE x \in L : Place(L, x) = k
  BY <1>1, <1>5 DEF Selected
<1> QED  BY <1>2, <1>3, <1>4, <1>6 DEF L

-----------------------------------------------------------------------------
(* What the DLL may do with connect c.                                     *)
Delivered(c) ==
  \/ /\ \E l \in Lists[c.user] : Post("connected", l) /\ registry' = l
     /\ connects' = connects \ {c}
  \/ /\ \E code \in {"noinfo", "error", "lost"} : Post(code, <<>>)
     /\ connects' = connects \ {c} /\ registry' = registry
  \/ Post("message", <<>>) /\ UNCHANGED <<connects, registry>>

(* Every step keeps LInv.                                                  *)

(* Start keeps LInv.                                                       *)
LEMMA StartStep ==
  ASSUME LInv, NEW m \in Modes, Start(m)
  PROVE  LInv'
<1> USE DEF LInv
<1>1. TypeOK'
  <2>1. choice' \in Seq(Ticked)
    <3>1. CASE m = "batch"
      BY <3>1, ChoiceOf DEF Start, TypeOK
    <3>2. CASE m = "single"
      <4>1. choice' \in Choices({})
        BY <3>2 DEF Start
      <4> QED  BY <4>1, ChoiceOf DEF TypeOK
    <3>3. CASE m \notin {"batch", "single"}
      <4>1. choice' = <<>>
        BY <3>3 DEF Start
      <4> QED  BY <4>1
    <3> QED  BY <3>1, <3>2, <3>3
  <2>2. m \in {"session", "batch", "single", "list"}
    BY LoginAssumption
  <2>3. wanted' \in Passwords /\ job' = "QUERY"
    <3>1. wanted' \in IF m \in {"batch", "single"} THEN Passwords ELSE {Blank}
      BY DEF Start
    <3>2. wanted' = Blank \/ wanted' \in Passwords
      BY <3>1
    <3>3. job' = "QUERY"
      BY DEF Start
    <3> QED  BY <3>2, <3>3 DEF Passwords
  <2>4. <<>> \in Seq(Event) /\ <<>> \in Seq(Numbers \cup {NoNumber})
    OBVIOUS
  <2>5. /\ known' = known /\ user' = user /\ process' = process + 1 /\ mode' = m /\ pc' = "load"
        /\ at' = 1 /\ loggedIn' = FALSE /\ events' = <<>> /\ symbols' = {}
        /\ accounts' = {} /\ index' = 1 /\ number' = NoNumber /\ password' = Blank
        /\ trade' = Unconfigured
        /\ logins' = 0 /\ connects' = {} /\ registry' = <<>> /\ abandoned' = FALSE
    BY DEF Start
  <2>6. process' \in Nat /\ at' \in Nat \ {0} /\ index' \in Nat /\ logins' \in Nat
    BY <2>5 DEF TypeOK
  <2>7. events' \in Seq(Event) /\ registry' \in Seq(Numbers \cup {NoNumber})
    BY <2>4, <2>5
  <2>8. /\ known' \subseteq Account /\ accounts' \subseteq Account
        /\ connects' \subseteq [user: Users, no: Nat] /\ user' \in Users
    BY <2>5 DEF TypeOK
  <2>9. /\ mode' \in {"session", "batch", "single", "list"} /\ pc' = "load"
        /\ symbols' \subseteq {"index", "number", "order"}
        /\ trade' \in Passwords \X Passwords \X Passwords /\ loggedIn' = FALSE /\ abandoned' = FALSE
        /\ number' \in Numbers \cup {NoNumber, Zeros} /\ password' \in Numbers \cup {Blank}
    BY <2>2, <2>5, ConfiguredType
  <2> QED  BY <2>1, <2>3, <2>6, <2>7, <2>8, <2>9 DEF TypeOK
<1>2. LoginOwn'
  BY DEF LoginOwn, AnswerInv, ModeInv, Start, callerVars, accountVars, dllVars, Exit
<1>3. AnswerInv'
  BY DEF AnswerInv, ModeInv, Start, callerVars, accountVars, dllVars, Exit
<1>4. ModeInv'
  <2>1. m = "batch" => choice' # <<>>
    <3> HAVE m = "batch"
    <3>1. choice' \in Choices({BadPassword})
      BY DEF Start
    <3>2. 1 \in DOMAIN choice'
      BY <3>1, ChoiceOf DEF TypeOK
    <3> QED  BY <3>2
  <2>2. m = "single" => Len(choice') = 1
    BY DEF Start
  <2>3. mode' = m /\ pc' = "load" /\ at' = 1 /\ abandoned' = FALSE /\ loggedIn' = FALSE
    BY DEF Start
  <2> QED  BY <2>1, <2>2, <2>3 DEF ModeInv
<1>5. ChoiceInv'
  <2>1. CASE m = "batch"
    BY <2>1, ChoiceOf DEF ChoiceInv, Start, TypeOK
  <2>2. CASE m = "single"
    <3>1. choice' \in Choices({})
      BY <2>2 DEF Start
    <3> QED  BY <2>2, <3>1, ChoiceOf DEF ChoiceInv, Start, TypeOK
  <2> QED  BY <2>1, <2>2 DEF ChoiceInv, Start
<1>6. ActiveInv'
  BY DEF ActiveInv, ModeInv, Start, callerVars, accountVars, dllVars, Exit
<1>7. SingleInv'
  BY DEF SingleInv, ModeInv, Start, callerVars, accountVars, dllVars, Exit
<1>8. SentAsMeant'
  <2>1. sent' = NoTr
    BY DEF Start
  <2> QED  BY <2>1 DEF SentAsMeant, NoTr
<1> QED  BY <1>1, <1>2, <1>3, <1>4, <1>5, <1>6, <1>7, <1>8 DEF LInv

(* LoadDll keeps LInv.                                                     *)
LEMMA LoadDllStep ==
  ASSUME LInv, LoadDll
  PROVE  LInv'
<1> USE DEF LInv
<1>1. TypeOK'
  <2>1. symbols' \subseteq {"index", "number", "order"}
        /\ pc' \in {"none", "ready", "credentials"}
    BY LoginAssumption DEF LoadDll, ResolveSymbols, Exit, TypeOK
  <2> QED  BY <2>1 DEF TypeOK, LoadDll, accountVars, dllVars
<1>2. LoginOwn'
  BY DEF LoginOwn, AnswerInv, ModeInv, LoadDll, callerVars, accountVars, dllVars, Exit
<1>3. AnswerInv'
  BY DEF AnswerInv, ModeInv, LoadDll, callerVars, accountVars, dllVars, Exit
<1>4. ModeInv'
  BY DEF ModeInv, TypeOK, LoadDll, callerVars, accountVars, dllVars, Exit
<1>5. ChoiceInv'
  BY DEF ChoiceInv, ModeInv, LoadDll, callerVars, accountVars, dllVars, Exit
<1>6. ActiveInv'
  BY DEF ActiveInv, ModeInv, LoadDll, callerVars, accountVars, dllVars, Exit
<1>7. SingleInv'
  BY DEF SingleInv, ModeInv, LoadDll, callerVars, accountVars, dllVars, Exit
<1>8. SentAsMeant'
  BY DEF SentAsMeant, LoadDll, callerVars, accountVars, dllVars, Exit
<1> QED  BY <1>1, <1>2, <1>3, <1>4, <1>5, <1>6, <1>7, <1>8 DEF LInv

(* LogIn keeps LInv.                                                       *)
LEMMA LogInStep ==
  ASSUME LInv, LogIn
  PROVE  LInv'
<1> USE DEF LInv
<1>1. TypeOK'
  <2>1. choice[1].pw \in Numbers \cup {Blank} \/ mode # "single"
    <3> SUFFICES ASSUME mode = "single" PROVE choice[1].pw \in Numbers
      OBVIOUS
    <3>1. 1 \in DOMAIN choice /\ choice[1] \in Ticked /\ choice[1].pw = choice[1].no
      <4>1. Len(choice) = 1 /\ pc # "none"
        BY DEF ModeInv, LogIn
      <4>2. choice \in Seq(Ticked)
        BY DEF TypeOK
      <4>3. 1 \in DOMAIN choice /\ choice[1] \in Ticked
        BY <4>1, <4>2
      <4>4. choice[1].pw = choice[1].no
        BY <4>1, <4>3 DEF ChoiceInv
      <4> QED  BY <4>3, <4>4
    <3> QED  BY <3>1 DEF Ticked
  <2>2. /\ pc' \in {"none", "connecting"} /\ user' \in Users
        /\ password' \in Numbers \cup {Blank} /\ logins' \in Nat
        /\ connects' \subseteq [user: Users, no: Nat]
    BY <2>1 DEF TypeOK, LogIn, Connect, Exit
  <2> QED  BY <2>2 DEF TypeOK, LogIn, callerVars
<1>2. LoginOwn'
  BY DEF LoginOwn, AnswerInv, ModeInv, LogIn, callerVars, accountVars, dllVars, Connect, Exit
<1>3. AnswerInv'
  BY DEF AnswerInv, LogIn, Connect, Exit, Final
<1>4. ModeInv'
  BY DEF ModeInv, TypeOK, LogIn, callerVars, accountVars, dllVars, Connect, Exit
<1>5. ChoiceInv'
  BY DEF ChoiceInv, ModeInv, LogIn, callerVars, accountVars, dllVars, Connect, Exit
<1>6. ActiveInv'
  BY DEF ActiveInv, ModeInv, LogIn, callerVars, accountVars, dllVars, Connect, Exit
<1>7. SingleInv'
  BY DEF SingleInv, ModeInv, LogIn, callerVars, accountVars, dllVars, Connect, Exit
<1>8. SentAsMeant'
  BY DEF SentAsMeant, LogIn, callerVars, accountVars, dllVars, Connect, Exit
<1> QED  BY <1>1, <1>2, <1>3, <1>4, <1>5, <1>6, <1>7, <1>8 DEF LInv

(* SessionLogin keeps LInv.                                                *)
LEMMA SessionLoginStep ==
  ASSUME LInv, SessionLogin
  PROVE  LInv'
<1> USE DEF LInv
<1>1. TypeOK'
  BY LoginAssumption DEF TypeOK, Account, SessionLogin, callerVars, accountVars, dllVars, Connect
<1>2. LoginOwn'
  BY DEF LoginOwn, AnswerInv, ModeInv, SessionLogin, callerVars, accountVars, dllVars, Connect
<1>3. AnswerInv'
  BY DEF AnswerInv, SessionLogin, Connect, Final
<1>4. ModeInv'
  BY DEF ModeInv, TypeOK, SessionLogin, callerVars, accountVars, dllVars, Connect
<1>5. ChoiceInv'
  BY DEF ChoiceInv, ModeInv, SessionLogin, callerVars, accountVars, dllVars, Connect
<1>6. ActiveInv'
  BY DEF ActiveInv, ModeInv, SessionLogin, callerVars, accountVars, dllVars, Connect
<1>7. SingleInv'
  BY DEF SingleInv, ModeInv, SessionLogin, callerVars, accountVars, dllVars, Connect
<1>8. SentAsMeant'
  BY DEF SentAsMeant, SessionLogin, callerVars, accountVars, dllVars, Connect
<1> QED  BY <1>1, <1>2, <1>3, <1>4, <1>5, <1>6, <1>7, <1>8 DEF LInv

(* SessionEnd keeps LInv.                                                  *)
LEMMA SessionEndStep ==
  ASSUME LInv, SessionEnd
  PROVE  LInv'
<1> USE DEF LInv
<1>1. TypeOK'
  BY LoginAssumption DEF TypeOK, Account, SessionEnd, callerVars, accountVars, dllVars, Exit
<1>2. LoginOwn'
  BY DEF LoginOwn, AnswerInv, ModeInv, SessionEnd, callerVars, accountVars, dllVars, Exit
<1>3. AnswerInv'
  BY DEF AnswerInv, ModeInv, SessionEnd, callerVars, accountVars, dllVars, Exit
<1>4. ModeInv'
  BY DEF ModeInv, TypeOK, SessionEnd, callerVars, accountVars, dllVars, Exit
<1>5. ChoiceInv'
  BY DEF ChoiceInv, ModeInv, SessionEnd, callerVars, accountVars, dllVars, Exit
<1>6. ActiveInv'
  BY DEF ActiveInv, ModeInv, SessionEnd, callerVars, accountVars, dllVars, Exit
<1>7. SingleInv'
  BY DEF SingleInv, ModeInv, SessionEnd, callerVars, accountVars, dllVars, Exit
<1>8. SentAsMeant'
  BY DEF SentAsMeant, SessionEnd, callerVars, accountVars, dllVars, Exit
<1> QED  BY <1>1, <1>2, <1>3, <1>4, <1>5, <1>6, <1>7, <1>8 DEF LInv

(* Deliver keeps LInv.                                                     *)
LEMMA DeliverStep ==
  ASSUME LInv, Deliver
  PROVE  LInv'
<1> USE DEF LInv
<1>1. TypeOK'
  <2>1. PICK c \in connects : Delivered(c)
    BY DEF Deliver, Delivered
  <2>2. \A l \in Lists[c.user] : l \in Seq(Numbers \cup {NoNumber})
    BY LoginAssumption DEF TypeOK
  <2>3. \E e \in Event : events' = Append(events, e)
    <3>1. \A code \in {"connected", "noinfo", "message", "error", "lost"} :
            \A l \in Seq(Numbers \cup {NoNumber}) :
              [code |-> code, list |-> l] \in Event
      BY DEF Event
    <3>2. <<>> \in Seq(Numbers \cup {NoNumber})
      OBVIOUS
    <3> QED  BY <2>1, <2>2, <3>1, <3>2 DEF Delivered, Post
  <2>4. events' \in Seq(Event)
    BY <2>3 DEF TypeOK
  <2>5. registry' \in Seq(Numbers \cup {NoNumber}) /\ connects' \subseteq [user: Users, no: Nat]
    BY <2>1, <2>2 DEF TypeOK, Delivered
  <2> QED  BY <2>4, <2>5 DEF TypeOK, Deliver, callerVars, accountVars
<1>2. LoginOwn'
  BY DEF LoginOwn, AnswerInv, ModeInv, Deliver, callerVars, accountVars, dllVars, Post, Pumping
<1>3. AnswerInv'
  <2> SUFFICES ASSUME ~abandoned' PROVE AnswerInv'
    BY DEF AnswerInv
  <2>1. ~abandoned /\ events \in Seq(Event) /\ user' = user /\ pc' = pc
    BY DEF Deliver, TypeOK
  <2>2. PICK c \in connects : Delivered(c)
    BY DEF Deliver, Delivered
  <2>3. /\ connects = {c} /\ c.user = user /\ pc = "connecting"
        /\ \A i \in DOMAIN events : ~Final(events[i])
    BY <2>1 DEF AnswerInv
  <2>4. \A e : events' = Append(events, e) =>
          /\ DOMAIN events' = DOMAIN events \cup {Len(events) + 1}
          /\ \A i \in DOMAIN events : events'[i] = events[i]
          /\ events'[Len(events) + 1] = e
          /\ \A i \in DOMAIN events' : Final(events'[i]) => i = Len(events) + 1
    BY <2>1, <2>3
  <2>5. CASE \E l \in Lists[c.user] : Post("connected", l) /\ registry' = l /\ connects' = connects \ {c}
    <3>1. PICK l \in Lists[user] : /\ events' = Append(events, [code |-> "connected", list |-> l])
                                  /\ registry' = l /\ connects' = {}
      BY <2>3, <2>5 DEF Post
    <3> QED  BY <2>1, <2>3, <2>4, <3>1 DEF AnswerInv, Final
  <2>6. CASE \E code \in {"noinfo", "error", "lost"} :
               Post(code, <<>>) /\ connects' = connects \ {c} /\ registry' = registry
    <3>1. PICK code \in {"noinfo", "error", "lost"} :
               events' = Append(events, [code |-> code, list |-> <<>>]) /\ connects' = {}
      BY <2>3, <2>6 DEF Post
    <3> QED  BY <2>1, <2>3, <2>4, <3>1 DEF AnswerInv, Final
  <2>7. CASE Post("message", <<>>) /\ UNCHANGED <<connects, registry>>
    <3>1. events' = Append(events, [code |-> "message", list |-> <<>>])
          /\ connects' = connects /\ registry' = registry
      BY <2>7 DEF Post
    <3>2. \A i \in DOMAIN events' : ~Final(events'[i])
      BY <2>4, <3>1 DEF Final
    <3> QED  BY <2>1, <2>3, <3>1, <3>2 DEF AnswerInv, Final
  <2> QED  BY <2>2, <2>5, <2>6, <2>7 DEF Delivered
<1>4. ModeInv'
  BY DEF ModeInv, TypeOK, Deliver, callerVars, accountVars, dllVars, Post, Pumping
<1>5. ChoiceInv'
  BY DEF ChoiceInv, ModeInv, Deliver, callerVars, accountVars, dllVars, Post, Pumping
<1>6. ActiveInv'
  BY DEF ActiveInv, ModeInv, Deliver, callerVars, accountVars, dllVars, Post, Pumping
<1>7. SingleInv'
  BY DEF SingleInv, ModeInv, Deliver, callerVars, accountVars, dllVars, Post, Pumping
<1>8. SentAsMeant'
  BY DEF SentAsMeant, Deliver, callerVars, accountVars, dllVars, Post, Pumping
<1> QED  BY <1>1, <1>2, <1>3, <1>4, <1>5, <1>6, <1>7, <1>8 DEF LInv

(* TakeConnected keeps LInv.                                               *)
LEMMA TakeConnectedStep ==
  ASSUME LInv, TakeConnected
  PROVE  LInv'
<1> USE DEF LInv
<1>1. TypeOK'
  <2>1. events \in Seq(Event) /\ events # <<>>
    BY DEF TypeOK, TakeConnected, Take
  <2>2. Head(events) \in Event /\ events' \in Seq(Event)
    BY <2>1 DEF TakeConnected, Take
  <2>3. accounts' \subseteq Account
    BY <2>2, ListingType DEF TakeConnected, Event
  <2>4. mode = "single" => choice[1].index \in Nat
    <3> HAVE mode = "single"
    <3>1. 1 \in DOMAIN choice /\ choice[1] \in Ticked
      <4>1. Len(choice) = 1
        BY DEF ModeInv, TakeConnected, Take
      <4>2. choice \in Seq(Ticked)
        BY DEF TypeOK
      <4> QED  BY <4>1, <4>2
    <3> QED  BY <3>1 DEF Ticked
  <2>5. accounts' # {} => \A p \in Nat : Selected(accounts', p) \in accounts'
    BY <2>2, SelectedIn DEF TakeConnected, Event
  <2>6. index' \in Nat /\ number' \in Numbers \cup {NoNumber, Zeros}
    BY <2>3, <2>4, <2>5 DEF TakeConnected, Account
  <2>7. pc' \in {"none", "ready", "activate", "query"}
    <3>1. mode \in {"session", "batch", "single", "list"}
      BY DEF TypeOK
    <3>2. pc' = CASE mode = "session" -> "ready" [] mode = "list" -> "none"
                  [] mode = "batch" -> "activate" [] mode = "single" -> "query"
      BY DEF TakeConnected
    <3> QED  BY <3>1, <3>2
  <2>8. known' \subseteq Account /\ trade' \in Passwords \X Passwords \X Passwords
    BY <2>3, ConfiguredType DEF TypeOK, TakeConnected
  <2>9. /\ loggedIn' = TRUE
        /\ UNCHANGED <<process, mode, symbols, choice, job, wanted, at, user, password, dllVars, abandoned>>
    BY DEF TakeConnected
  <2>10. pc' \in {"activate", "query"} => at \in DOMAIN choice
    <3>1. pc' \in {"activate", "query"} => mode \in {"batch", "single"}
      BY DEF TakeConnected, TypeOK
    <3>2. choice \in Seq(Ticked) /\ pc = "connecting"
      BY DEF TypeOK, TakeConnected, Take
    <3>3. mode = "batch" => at = 1 /\ choice # <<>>
      BY <3>2 DEF ModeInv
    <3>4. mode = "single" => at = 1 /\ Len(choice) = 1
      BY <3>2 DEF ModeInv
    <3>5. choice # <<>> => 1 \in DOMAIN choice
      BY <3>2
    <3>6. Len(choice) = 1 => 1 \in DOMAIN choice
      BY <3>2
    <3> QED  BY <3>1, <3>3, <3>4, <3>5, <3>6
  <2> QED  BY <2>2, <2>3, <2>6, <2>7, <2>8, <2>9, <2>10 DEF TypeOK, dllVars
<1>2. LoginOwn'
  BY DEF LoginOwn, AnswerInv, ModeInv, TakeConnected, callerVars, accountVars, dllVars, Take
<1>3. AnswerInv'
  <2>1. events \in Seq(Event) /\ events # <<>>
    BY DEF TypeOK, TakeConnected, Take
  <2>2. /\ DOMAIN events = 1..Len(events) /\ Len(events) \in Nat \ {0}
        /\ DOMAIN events' = 1..(Len(events) - 1)
        /\ \A i \in DOMAIN events' : i + 1 \in DOMAIN events /\ events'[i] = events[i + 1]
        /\ 1 \in DOMAIN events /\ Final(events[1])
    BY <2>1 DEF TakeConnected, Take, Final
  <2>3. ~abandoned => connects = {} /\ \A i \in DOMAIN events' : ~Final(events'[i])
    BY <2>2 DEF AnswerInv
  <2> HIDE DEF LInv
  <2> QED  BY <2>3 DEF AnswerInv, TakeConnected, dllVars, Final
<1>4. ModeInv'
  BY DEF ModeInv, TypeOK, TakeConnected, callerVars, accountVars, dllVars, Take
<1>5. ChoiceInv'
  BY DEF ChoiceInv, ModeInv, TakeConnected, callerVars, accountVars, dllVars, Take
<1>6. ActiveInv'
  BY DEF ActiveInv, ModeInv, TakeConnected, callerVars, accountVars, dllVars, Take
<1>7. SingleInv'
  BY DEF SingleInv, ModeInv, TakeConnected, callerVars, accountVars, dllVars, Take
<1>8. SentAsMeant'
  BY DEF SentAsMeant, TakeConnected, callerVars, accountVars, dllVars, Take
<1> QED  BY <1>1, <1>2, <1>3, <1>4, <1>5, <1>6, <1>7, <1>8 DEF LInv

(* TakeMessage keeps LInv.                                                 *)
LEMMA TakeMessageStep ==
  ASSUME LInv, TakeMessage
  PROVE  LInv'
<1> USE DEF LInv
<1>1. TypeOK'
  BY LoginAssumption DEF TypeOK, Account, TakeMessage, callerVars, accountVars, dllVars, Take
<1>2. LoginOwn'
  BY DEF LoginOwn, AnswerInv, ModeInv, TakeMessage, callerVars, accountVars, dllVars, Take
<1>3. AnswerInv'
  <2>1. events \in Seq(Event) /\ events # <<>>
    BY DEF TypeOK, TakeMessage, Take
  <2>2. /\ DOMAIN events = 1..Len(events) /\ Len(events) \in Nat \ {0}
        /\ DOMAIN events' = 1..(Len(events) - 1)
        /\ \A i \in DOMAIN events' : i + 1 \in DOMAIN events /\ events'[i] = events[i + 1]
    BY <2>1 DEF TakeMessage, Take
  <2> HIDE DEF LInv
  <2>3. AnswerInv
    BY DEF LInv
  <2> QED  BY <2>2, <2>3 DEF AnswerInv, TakeMessage, dllVars, Final
<1>4. ModeInv'
  BY DEF ModeInv, TypeOK, TakeMessage, callerVars, accountVars, dllVars, Take
<1>5. ChoiceInv'
  BY DEF ChoiceInv, ModeInv, TakeMessage, callerVars, accountVars, dllVars, Take
<1>6. ActiveInv'
  BY DEF ActiveInv, ModeInv, TakeMessage, callerVars, accountVars, dllVars, Take
<1>7. SingleInv'
  BY DEF SingleInv, ModeInv, TakeMessage, callerVars, accountVars, dllVars, Take
<1>8. SentAsMeant'
  BY DEF SentAsMeant, TakeMessage, callerVars, accountVars, dllVars, Take
<1> QED  BY <1>1, <1>2, <1>3, <1>4, <1>5, <1>6, <1>7, <1>8 DEF LInv

(* TakeFailure keeps LInv.                                                 *)
LEMMA TakeFailureStep ==
  ASSUME LInv, TakeFailure
  PROVE  LInv'
<1> USE DEF LInv
<1>1. TypeOK'
  BY LoginAssumption DEF TypeOK, Account, TakeFailure, callerVars, accountVars, dllVars, Take, Failed
<1>2. LoginOwn'
  BY DEF LoginOwn, AnswerInv, ModeInv, TakeFailure, callerVars, accountVars, dllVars, Take, Failed
<1>3. AnswerInv'
  <2>1. events \in Seq(Event) /\ events # <<>>
    BY DEF TypeOK, TakeFailure, Take
  <2>2. /\ DOMAIN events = 1..Len(events) /\ Len(events) \in Nat \ {0}
        /\ DOMAIN events' = 1..(Len(events) - 1)
        /\ \A i \in DOMAIN events' : i + 1 \in DOMAIN events /\ events'[i] = events[i + 1]
        /\ 1 \in DOMAIN events /\ Final(events[1])
    BY <2>1 DEF TakeFailure, Take, Final
  <2>3. ~abandoned => connects = {} /\ \A i \in DOMAIN events' : ~Final(events'[i])
    BY <2>2 DEF AnswerInv
  <2> HIDE DEF LInv
  <2> QED  BY <2>3 DEF AnswerInv, TakeFailure, dllVars, Final
<1>4. ModeInv'
  BY DEF ModeInv, TypeOK, TakeFailure, callerVars, accountVars, dllVars, Take, Failed
<1>5. ChoiceInv'
  BY DEF ChoiceInv, ModeInv, TakeFailure, callerVars, accountVars, dllVars, Take, Failed
<1>6. ActiveInv'
  BY DEF ActiveInv, ModeInv, TakeFailure, callerVars, accountVars, dllVars, Take, Failed
<1>7. SingleInv'
  BY DEF SingleInv, ModeInv, TakeFailure, callerVars, accountVars, dllVars, Take, Failed
<1>8. SentAsMeant'
  BY DEF SentAsMeant, TakeFailure, callerVars, accountVars, dllVars, Take, Failed
<1> QED  BY <1>1, <1>2, <1>3, <1>4, <1>5, <1>6, <1>7, <1>8 DEF LInv

(* TimeOut keeps LInv.                                                     *)
LEMMA TimeOutStep ==
  ASSUME LInv, TimeOut
  PROVE  LInv'
<1> USE DEF LInv
<1>1. TypeOK'
  BY LoginAssumption DEF TypeOK, Account, TimeOut, callerVars, accountVars, dllVars, Failed
<1>2. LoginOwn'
  BY DEF LoginOwn, AnswerInv, ModeInv, TimeOut, callerVars, accountVars, dllVars, Failed
<1>3. AnswerInv'
  BY DEF AnswerInv, ModeInv, TimeOut, callerVars, accountVars, dllVars, Failed
<1>4. ModeInv'
  BY DEF ModeInv, TypeOK, TimeOut, callerVars, accountVars, dllVars, Failed
<1>5. ChoiceInv'
  BY DEF ChoiceInv, ModeInv, TimeOut, callerVars, accountVars, dllVars, Failed
<1>6. ActiveInv'
  BY DEF ActiveInv, ModeInv, TimeOut, callerVars, accountVars, dllVars, Failed
<1>7. SingleInv'
  BY DEF SingleInv, ModeInv, TimeOut, callerVars, accountVars, dllVars, Failed
<1>8. SentAsMeant'
  BY DEF SentAsMeant, TimeOut, callerVars, accountVars, dllVars, Failed
<1> QED  BY <1>1, <1>2, <1>3, <1>4, <1>5, <1>6, <1>7, <1>8 DEF LInv

(* Command keeps LInv.                                                     *)
LEMMA CommandStep ==
  ASSUME LInv, Command
  PROVE  LInv'
<1> USE DEF LInv
<1>1. TypeOK'
  <2>1. choice' \in Seq(Ticked)
        /\ 1 \in DOMAIN choice'
    BY ChoiceOf DEF Command, TypeOK
  <2>2. job' \in {"QUERY", "BALANCE"} /\ wanted' \in Passwords
    BY DEF Command, Passwords
  <2>3. trade' \in Passwords \X Passwords \X Passwords
    BY <2>2, ConfiguredType DEF Command
  <2> QED  BY <2>1, <2>2, <2>3 DEF TypeOK, Command, dllVars
<1>2. LoginOwn'
  BY DEF LoginOwn, AnswerInv, ModeInv, Command, callerVars, accountVars, dllVars
<1>3. AnswerInv'
  BY DEF AnswerInv, ModeInv, Command, callerVars, accountVars, dllVars
<1>4. ModeInv'
  BY DEF ModeInv, TypeOK, Command, callerVars, accountVars, dllVars
<1>5. ChoiceInv'
  <2>0. choice' \in Choices({}) /\ known \subseteq Account
    BY DEF Command, TypeOK
  <2>1. \A i \in DOMAIN choice' :
          /\ [index |-> choice'[i].index, no |-> choice'[i].no] \in known
          /\ choice'[i].pw \in {choice'[i].no}
    BY <2>0, ChoiceOf
  <2> QED  BY <2>1 DEF ChoiceInv, Command
<1>6. ActiveInv'
  BY DEF ActiveInv, ModeInv, Command, callerVars, accountVars, dllVars
<1>7. SingleInv'
  BY DEF SingleInv, ModeInv, Command, callerVars, accountVars, dllVars
<1>8. SentAsMeant'
  BY DEF SentAsMeant, Command, callerVars, accountVars, dllVars
<1> QED  BY <1>1, <1>2, <1>3, <1>4, <1>5, <1>6, <1>7, <1>8 DEF LInv

(* Activate keeps LInv.                                                    *)
LEMMA ActivateStep ==
  ASSUME LInv, Activate
  PROVE  LInv'
<1> USE DEF LInv
<1>1. TypeOK'
  <2>1. Len(choice) \in Nat /\ DOMAIN choice = 1..Len(choice) /\ at \in DOMAIN choice
    BY DEF TypeOK, Activate
  <2>2. at + 1 \in Nat \ {0} /\ (at < Len(choice) => at + 1 \in DOMAIN choice)
    BY <2>1
  <2>3. choice[at] \in Ticked
    BY <2>1 DEF TypeOK
  <2>4. at' \in Nat \ {0} /\ (pc' \in {"activate", "query"} => at' \in DOMAIN choice')
    BY <2>1, <2>2 DEF TypeOK, Activate, Advance, callerVars
  <2>5. index' \in Nat /\ number' \in Numbers \cup {NoNumber, Zeros}
    BY <2>3 DEF TypeOK, Activate, Account, Ticked
  <2>6. password' \in Numbers \cup {Blank}
    BY <2>3 DEF TypeOK, Activate, Ticked
  <2>7. pc' \in {"none", "load", "credentials", "connecting", "ready", "activate", "query"}
    BY DEF Activate, Advance
  <2> QED  BY <2>4, <2>5, <2>6, <2>7 DEF TypeOK, Activate, callerVars, accountVars, dllVars
<1>2. LoginOwn'
  BY DEF LoginOwn, AnswerInv, ModeInv, Activate, callerVars, accountVars, dllVars, Advance
<1>3. AnswerInv'
  BY DEF AnswerInv, ModeInv, Activate, callerVars, accountVars, dllVars, Advance
<1>4. ModeInv'
  BY DEF ModeInv, TypeOK, Activate, callerVars, accountVars, dllVars, Advance
<1>5. ChoiceInv'
  BY DEF ChoiceInv, ModeInv, Activate, callerVars, accountVars, dllVars, Advance
<1>6. ActiveInv'
  <2>1. \/ at' = at /\ choice' = choice /\ mode' = mode /\ accounts' = accounts /\ known' = known
        \/ pc' # "query"
    BY DEF Activate, Advance, callerVars
  <2> QED  BY <2>1 DEF ActiveInv, Activate, Advance, TypeOK, Account, callerVars
<1>7. SingleInv'
  BY DEF SingleInv, ModeInv, Activate, callerVars, accountVars, dllVars, Advance
<1>8. SentAsMeant'
  BY DEF SentAsMeant, Activate, callerVars, accountVars, dllVars, Advance
<1> QED  BY <1>1, <1>2, <1>3, <1>4, <1>5, <1>6, <1>7, <1>8 DEF LInv

(* SendTr keeps LInv.                                                      *)
LEMMA SendTrStep ==
  ASSUME LInv, NEW binding \in {"index", "number"}, SendTr(binding)
  PROVE  LInv'
<1> USE DEF LInv
<1>1. TypeOK'
  BY LoginAssumption DEF TypeOK, Account, SendTr, callerVars, accountVars, dllVars
<1>2. LoginOwn'
  BY DEF LoginOwn, AnswerInv, ModeInv, SendTr, callerVars, accountVars, dllVars
<1>3. AnswerInv'
  BY DEF AnswerInv, ModeInv, SendTr, callerVars, accountVars, dllVars
<1>4. ModeInv'
  BY DEF ModeInv, TypeOK, SendTr, callerVars, accountVars, dllVars
<1>5. ChoiceInv'
  BY DEF ChoiceInv, ModeInv, SendTr, callerVars, accountVars, dllVars
<1>6. ActiveInv'
  BY DEF ActiveInv, ModeInv, SendTr, callerVars, accountVars, dllVars
<1>7. SingleInv'
  BY DEF SingleInv, ModeInv, SendTr, callerVars, accountVars, dllVars
<1>8. SentAsMeant'
  <2> SUFFICES ASSUME sent'.same, ~(sent'.mode = "single" /\ sent'.gap)
               PROVE  AsMeant(sent')
    BY DEF SentAsMeant
  <2> DEFINE c == choice[at]
  <2>1. known = Listing(registry) /\ (mode = "single" => \A i \in DOMAIN registry : registry[i] # NoNumber)
    BY DEF SendTr
  <2>2. /\ pc = "query" /\ at \in DOMAIN choice
        /\ [index |-> c.index, no |-> c.no] \in known
        /\ c.pw \in {c.no, BadPassword} /\ (mode # "batch" => c.pw = c.no)
    BY DEF SendTr, TypeOK, ChoiceInv
  <2>3. c.index \in DOMAIN registry /\ registry[c.index] = c.no
    BY <2>1, <2>2, Listed
  <2>4. accounts = known
    BY <2>1, <2>2 DEF ModeInv, LoginOwn, TypeOK
  <2>5. index = c.index /\ number = c.no /\ password = c.pw /\ c.pw = c.no
    <3>1. CASE mode = "single"
      <4>1. at = 1 /\ Selected(accounts, c.index) = [index |-> c.index, no |-> registry[c.index]]
        BY <3>1, <2>1, <2>2, <2>3, <2>4, SelectedIsIndexed DEF ModeInv, TypeOK
      <4> QED  BY <3>1, <4>1, <2>2, <2>3, <2>4 DEF SingleInv
    <3>2. CASE mode # "single"
      <4>1. index = c.index /\ [index |-> index, no |-> number] \in known /\ password = c.pw
            /\ c.pw # BadPassword
        BY <3>2, <2>2, <2>4 DEF ActiveInv
      <4> QED  BY <4>1, <2>1, <2>2, <2>3, Listed
    <3> QED  BY <3>1, <3>2
  <2>6. Entry(index) = c.no
    BY <2>3, <2>5 DEF Entry
  <2>7. ASSUME job = "QUERY" PROVE trade = Configured(wanted)
    BY <2>2, <2>7 DEF ModeInv
  <2>8. ASSUME job = "QUERY", NEW i \in {1, 2}
        PROVE  TradePassword(i) = IF Overrides[i] # Blank THEN Overrides[i] ELSE wanted
    BY <2>7, <2>8 DEF TradePassword, Configured
  <2> QED  BY <2>5, <2>6, <2>8 DEF AsMeant, SendTr
<1> QED  BY <1>1, <1>2, <1>3, <1>4, <1>5, <1>6, <1>7, <1>8 DEF LInv

(* TakeInQuery keeps LInv.                                                 *)
LEMMA TakeInQueryStep ==
  ASSUME LInv, TakeInQuery
  PROVE  LInv'
<1> USE DEF LInv
<1>1. TypeOK'
  BY LoginAssumption DEF TypeOK, Account, TakeInQuery, callerVars, accountVars, dllVars
<1>2. LoginOwn'
  BY DEF LoginOwn, AnswerInv, ModeInv, TakeInQuery, callerVars, accountVars, dllVars
<1>3. AnswerInv'
  BY DEF AnswerInv, ModeInv, TakeInQuery, callerVars, accountVars, dllVars
<1>4. ModeInv'
  BY DEF ModeInv, TypeOK, TakeInQuery, callerVars, accountVars, dllVars
<1>5. ChoiceInv'
  BY DEF ChoiceInv, ModeInv, TakeInQuery, callerVars, accountVars, dllVars
<1>6. ActiveInv'
  BY DEF ActiveInv, ModeInv, TakeInQuery, callerVars, accountVars, dllVars
<1>7. SingleInv'
  BY DEF SingleInv, ModeInv, TakeInQuery, callerVars, accountVars, dllVars
<1>8. SentAsMeant'
  BY DEF SentAsMeant, TakeInQuery, callerVars, accountVars, dllVars
<1> QED  BY <1>1, <1>2, <1>3, <1>4, <1>5, <1>6, <1>7, <1>8 DEF LInv

(* QueryDone keeps LInv.                                                   *)
LEMMA QueryDoneStep ==
  ASSUME LInv, QueryDone
  PROVE  LInv'
<1> USE DEF LInv
<1>1. TypeOK'
  <2>1. Len(choice) \in Nat /\ DOMAIN choice = 1..Len(choice)
    BY DEF TypeOK
  <2>2. at' \in Nat \ {0} /\ (at < Len(choice) => at' \in DOMAIN choice)
    BY <2>1 DEF TypeOK, QueryDone, Advance
  <2>3. at' \in Nat \ {0} /\ (pc' \in {"activate", "query"} => at' \in DOMAIN choice')
    BY <2>2 DEF QueryDone, Advance, callerVars
  <2> QED  BY <2>3 DEF TypeOK, QueryDone, Advance, callerVars, accountVars, dllVars
<1>2. LoginOwn'
  BY DEF LoginOwn, AnswerInv, ModeInv, QueryDone, callerVars, accountVars, dllVars, Advance
<1>3. AnswerInv'
  BY DEF AnswerInv, ModeInv, QueryDone, callerVars, accountVars, dllVars, Advance
<1>4. ModeInv'
  <2>0. mode = "single" => at = 1 /\ Len(choice) = 1
    BY ONLY LInv, QueryDone DEF LInv, ModeInv, QueryDone
  <2>1. mode = "single" => ~(at < Len(choice))
    BY ONLY <2>0
  <2>2. mode = "single" => pc' = "none"
    BY <2>1 DEF QueryDone, Advance
  <2>3. pc = "query" /\ (pc' = "activate" \/ pc' = "none" \/ (pc' = "ready" /\ mode = "session"))
    BY DEF QueryDone, Advance
  <2> QED  BY <2>2, <2>3 DEF ModeInv, QueryDone, callerVars, accountVars
<1>5. ChoiceInv'
  BY DEF ChoiceInv, ModeInv, QueryDone, callerVars, accountVars, dllVars, Advance
<1>6. ActiveInv'
  BY DEF ActiveInv, ModeInv, QueryDone, callerVars, accountVars, dllVars, Advance
<1>7. SingleInv'
  BY DEF SingleInv, ModeInv, QueryDone, callerVars, accountVars, dllVars, Advance
<1>8. SentAsMeant'
  BY DEF SentAsMeant, QueryDone, callerVars, accountVars, dllVars, Advance
<1> QED  BY <1>1, <1>2, <1>3, <1>4, <1>5, <1>6, <1>7, <1>8 DEF LInv

-----------------------------------------------------------------------------

(* Stuttering.                                                             *)
LEMMA StutterStep ==
  ASSUME LInv, UNCHANGED vars
  PROVE  LInv'
<1> USE DEF vars, callerVars, accountVars, dllVars, LInv
<1>1. TypeOK' /\ LoginOwn'
  BY DEF TypeOK, LoginOwn
<1>2. AnswerInv' /\ ModeInv'
  BY DEF AnswerInv, ModeInv
<1>3. ChoiceInv' /\ ActiveInv' /\ SingleInv' /\ SentAsMeant'
  BY DEF ChoiceInv, ActiveInv, SingleInv, SentAsMeant
<1> QED  BY <1>1, <1>2, <1>3

(* LInv holds before the first process.                                    *)
LEMMA InitLInv == Init => LInv
<1> SUFFICES ASSUME Init PROVE LInv
  OBVIOUS
<1>1. TypeOK
  <2>1. /\ known = {} /\ process = 0 /\ mode = "list" /\ pc = "none" /\ symbols = {}
        /\ choice = <<>> /\ at = 1 /\ job = "QUERY" /\ wanted = Blank /\ user \in Users /\ loggedIn = FALSE
        /\ events = <<>> /\ accounts = {} /\ index = 1 /\ number = NoNumber
        /\ password = Blank /\ trade = Unconfigured
        /\ logins = 0 /\ connects = {} /\ registry = <<>> /\ abandoned = FALSE
    BY DEF Init
  <2>2. <<>> \in Seq(Event) /\ <<>> \in Seq(Numbers \cup {NoNumber}) /\ <<>> \in Seq(Ticked)
    OBVIOUS
  <2>3. choice \in Seq(Ticked) /\ events \in Seq(Event) /\ registry \in Seq(Numbers \cup {NoNumber})
    BY <2>1, <2>2
  <2>4. known \subseteq Account /\ accounts \subseteq Account /\ connects \subseteq [user: Users, no: Nat]
    BY <2>1
  <2>5. process \in Nat /\ at \in Nat \ {0} /\ index \in Nat /\ logins \in Nat
    BY <2>1
  <2> QED  BY <2>1, <2>3, <2>4, <2>5, ConfiguredType DEF TypeOK
<1>2. sent = NoTr
  BY DEF Init
<1>3. LoginOwn /\ AnswerInv /\ ModeInv /\ ChoiceInv /\ ActiveInv /\ SingleInv
  BY DEF Init, LoginOwn, AnswerInv, ModeInv, ChoiceInv, ActiveInv, SingleInv
<1>4. SentAsMeant
  BY <1>2 DEF SentAsMeant, NoTr
<1> QED  BY <1>1, <1>3, <1>4 DEF LInv

(* LInv is an invariant: the argument behind the theorems below.           *)
THEOREM LoginInductive == Spec => []LInv
<1>1. LInv /\ [Next]_vars => LInv'
  <2> SUFFICES ASSUME LInv, [Next]_vars PROVE LInv'
    OBVIOUS
  <2> USE StartStep, LoadDllStep, LogInStep, SessionLoginStep, SessionEndStep, DeliverStep,
          TakeConnectedStep, TakeMessageStep, TakeFailureStep, TimeOutStep, CommandStep,
          ActivateStep, SendTrStep, TakeInQueryStep, QueryDoneStep
  <2>1. ASSUME NEW m \in Modes, Start(m) PROVE LInv'
    BY <2>1
  <2>2. ASSUME NEW binding \in {"index", "number"}, SendTr(binding) PROVE LInv'
    BY <2>2
  <2>3. CASE UNCHANGED vars
    BY <2>3, StutterStep
  <2> QED  BY <2>1, <2>2, <2>3 DEF Next
<1> QED  BY <1>1, InitLInv, PTL DEF Spec

(* Every variable of the login keeps its type.                             *)
THEOREM LoginTypeCorrect == Spec => []TypeOK
<1>1. LInv => TypeOK
  BY DEF LInv
<1> QED  BY <1>1, LoginInductive, PTL

(* Whatever logins fail or are answered late, the accounts of a process    *)
(* that gave up no login are those of its user.                            *)
THEOREM AccountsAreOwn == Spec => []LoginOwn
<1>1. LInv => LoginOwn
  BY DEF LInv
<1> QED  BY <1>1, LoginInductive, PTL

(* While the caller was shown the accounts the DLL has, a TR is about the  *)
(* account that was meant, with its password, whatever was refused before. *)
THEOREM TrsAreAsMeant == Spec => []SentAsMeant
<1>1. LInv => SentAsMeant
  BY DEF LInv
<1> QED  BY <1>1, LoginInductive, PTL
=============================================================================
