------------------------- MODULE FetchWholeProofs -------------------------
(***************************************************************************)
(* What the document of a QUERY holds, for any accounts, pages, chunks and *)
(* attempts and whatever the broker does, in a process that serves one     *)
(* command: every account is failed and has no row, or has every row of    *)
(* every page once.  Of a session it cannot be said: the run `foreign`     *)
(* shows an answer to the last command among the rows of this one.         *)
(***************************************************************************)
EXTENDS FetchSessionProofs

(* Every code that refuses a password is one that fetch.exe knows.         *)
KnownRejections == RejectCodes \subseteq {"10009", "21263"}

(* A command selects no account twice: the dialog has one box for each.    *)
EachOnce == \A i, j \in DOMAIN Batch : Batch[i] = Batch[j] => i = j

-----------------------------------------------------------------------------
(* The inductive invariant.                                                *)

Waiting == {"await", "drain", "judge"}

(* Positions in the queue are distinct, and an event goes behind them all. *)
OrderInv ==
  /\ \A e \in queue : e.at <= Cardinality(queue)
  /\ \A e, f \in queue : e.at = f.at => e = f

(* A request is of the kind its job makes, and what is drained has failed.  *)
KindInv ==
  /\ pc \in Waiting => job = IF req.kind = "c8201" THEN "BALANCE" ELSE "QUERY"
  /\ pc = "drain" => outcome # "ok"

(* What is queued of the running request, and what may still come of it.   *)
Mine == {e \in queue : ~IsConnectionEvent(e) /\ e.from = req}
Open == {p \in pending : p.req = req}

Chunk(n) == [name |-> "outblock1", n |-> n]
Data(b) == {e \in Mine : e.code = "data" /\ e.block = b}
Refusals == {e \in Mine : e.code = "message"}
Taken(b) == IF b.name = "outblock1" THEN \E i \in DOMAIN rows : rows[i].n = b.n
                                    ELSE cts = NextCts(req)

(* No block of the page comes twice.                                       *)
OnceInv ==
  /\ \A p, q \in Open : p = q
  /\ \A e \in Mine : e.code = "data" =>
       /\ e.block \in Blocks("s8180")
       /\ Data(e.block) = {e}
       /\ \A p \in Open : e.block \in p.sent
       /\ \A i \in DOMAIN rows : e.block # Chunk(rows[i].n)
  /\ \A i \in DOMAIN rows :
       /\ rows[i].from = req /\ rows[i].n \in 1..Chunks
       /\ \A p \in Open : Chunk(rows[i].n) \in p.sent
       /\ \A j \in DOMAIN rows : rows[i].n = rows[j].n => i = j

(* No block is missing when the answer ends, unless it was refused before. *)
AllInv ==
  /\ \A p \in Open : p.sent \subseteq Blocks("s8180")
                     /\ \A b \in p.sent : Taken(b) \/ Data(b) # {} \/ Refusals # {}
  /\ \A m \in Refusals : m.msg \in RejectCodes
  /\ \A c \in Mine : c.code = "complete" =>
       /\ Open = {}
       /\ \/ \E m \in Refusals : m.at < c.at
          \/ \A b \in Blocks("s8180") : Taken(b) \/ \E e \in Data(b) : e.at < c.at

AnswerInv == pc = "await" /\ req.kind = "s8180" => OnceInv /\ AllInv

(* The page that was asked for, whole.                                     *)
PageWhole ==
  /\ Len(rows) = Chunks
  /\ \A i \in DOMAIN rows : rows[i].from.page = page
  /\ {rows[i].n : i \in DOMAIN rows} = 1..Chunks
  /\ cts = IF page < LastPage[active] THEN page + 1 ELSE 0

(* A page is asked for; its rows are filed.                                *)
Asking == pc = "send" \/ (pc \in Waiting /\ req.kind = "s8180")
Filing == pc = "rows" \/ (pc \in Waiting /\ req.kind = "s8118")

RowsInv ==
  /\ Filing => PageWhole /\ at \in 1..(Chunks + 1)
  /\ pc = "judge" /\ req.kind = "s8180" /\ outcome = "ok" => PageWhole

Cells(xs) == {<<xs[i].row.from.page, xs[i].row.n>> : i \in DOMAIN xs}
Grid(n) == (1..n) \X (1..Chunks)

(* What the account has got: the pages before, and the rows filed of this. *)
FoundInv ==
  /\ \A i \in DOMAIN found : found[i].acct = active
  /\ \A i, j \in DOMAIN found : i < j => found[i].row.from.page <= found[j].row.from.page
  /\ job = "QUERY" /\ Asking =>
       Len(found) = (page - 1) * Chunks /\ Cells(found) = Grid(page - 1)
  /\ Filing =>
       /\ Len(found) = (page - 1) * Chunks + (at - 1)
       /\ Cells(found) = Grid(page - 1) \cup {<<page, rows[i].n>> : i \in 1..(at - 1)}

(* The selections whose query has ended.                                   *)
Past == IF pc \in {"next", "export"} \/ reply # "none" THEN 1..turn ELSE 1..(turn - 1)

WholeRows(acct) ==
  LET mine == RowsOf(acct)
  IN  /\ Cardinality(mine) = LastPage[acct] * Chunks
      /\ {<<out[i].row.from.page, out[i].row.n>> : i \in mine} = Grid(LastPage[acct])
      /\ \A i, j \in mine : i < j => out[i].row.from.page <= out[j].row.from.page

OutInv ==
  /\ reply # "none" => pc = "idle"
  /\ pc = "export" \/ reply # "none" => turn = Len(Batch)
  /\ job = "QUERY" =>
       /\ failed \subseteq {Batch[i] : i \in Past}
       /\ \A k \in DOMAIN out : out[k].acct \in {Batch[i] : i \in Past}
       /\ \A i \in Past : IF Batch[i] \in failed THEN RowsOf(Batch[i]) = {}
                                                 ELSE WholeRows(Batch[i])

WInv == OrderInv /\ KindInv /\ AnswerInv /\ RowsInv /\ FoundInv /\ OutInv

-----------------------------------------------------------------------------
(* The queue keeps its order.                                              *)

LEMMA Ranks ==
  ASSUME NEW K, IsFiniteSet(K), \A e \in K : e.at \in Nat, NEW e \in K, NEW f \in K
  PROVE  LET rank(x) == Cardinality({g \in K : g.at <= x.at})
         IN  /\ rank(e) \in Nat /\ rank(e) <= Cardinality(K)
             /\ f.at < e.at => rank(f) < rank(e)
<1> DEFINE upto(x) == {g \in K : g.at <= x.at}
<1>1. \A x \in K : IsFiniteSet(upto(x)) /\ Cardinality(upto(x)) \in Nat
                   /\ Cardinality(upto(x)) <= Cardinality(K)
  <2> TAKE x \in K
  <2>1. upto(x) \in SUBSET K
    OBVIOUS
  <2> HIDE DEF upto
  <2> QED  BY <2>1, FS_Subset, FS_CardinalityType
<1>2. ASSUME f.at < e.at PROVE Cardinality(upto(f)) < Cardinality(upto(e))
  <2>1. upto(f) \in SUBSET upto(e) /\ e \in upto(e) /\ e \notin upto(f)
    BY <1>2
  <2> HIDE DEF upto
  <2>2. Cardinality(upto(f)) <= Cardinality(upto(e)) /\ Cardinality(upto(f)) # Cardinality(upto(e))
    BY <1>1, <2>1, FS_Subset
  <2> QED  BY <1>1, <2>2
<1> QED  BY <1>1, <1>2

(* Every event kept is moved up, none past another.                        *)
LEMMA EraseMoves ==
  ASSUME QueueOK, OrderInv, NEW STATE gone, Erase(gone)
  PROVE  /\ OrderInv'
         /\ \E m \in [queue \ gone -> queue'] :
              /\ \A e \in queue' : \E f \in queue \ gone : e = m[f]
              /\ \A f \in queue \ gone :
                   /\ m[f].code = f.code /\ m[f].tr = f.tr /\ m[f].block = f.block
                   /\ m[f].msg = f.msg /\ m[f].from = f.from
                   /\ \A g \in queue \ gone : (f.at < g.at <=> m[f].at < m[g].at)
                                              /\ (m[f] = m[g] => f = g)
<1> DEFINE kept == queue \ gone
           rank(e) == Cardinality({f \in kept : f.at <= e.at})
           moved == [e \in kept |-> [e EXCEPT !.at = rank(e)]]
<1>1. IsFiniteSet(kept) /\ kept \subseteq Event
  BY FS_Subset DEF QueueOK, QueueInv
<1>2. \A e \in kept : e.at \in Nat
  BY <1>1 DEF Event
<1>3. \A e, f \in kept : /\ rank(e) \in Nat /\ rank(e) <= Cardinality(kept)
                         /\ f.at < e.at => rank(f) < rank(e)
  <2> TAKE e, f \in kept
  <2> HIDE DEF kept
  <2> QED  BY <1>1, <1>2, Ranks
<1>4. queue' = {moved[e] : e \in kept}
  BY DEF Erase
<1>5. \A e \in kept : /\ moved[e].at = rank(e)
                      /\ moved[e].code = e.code /\ moved[e].tr = e.tr /\ moved[e].block = e.block
                      /\ moved[e].msg = e.msg /\ moved[e].from = e.from
  <2> TAKE e \in kept
  <2>1. e \in Event /\ moved[e] = [e EXCEPT !.at = rank(e)]
    BY <1>1
  <2> HIDE DEF kept, moved, rank
  <2> QED  BY <2>1 DEF Event
<1>6. \A e, f \in kept : e.at = f.at => e = f
  BY DEF OrderInv
<1>7. \A e, f \in kept : /\ f.at < e.at <=> moved[f].at < moved[e].at
                         /\ moved[f].at = moved[e].at => e = f
  <2> TAKE e, f \in kept
  <2>1. e.at \in Nat /\ f.at \in Nat /\ rank(e) \in Nat /\ rank(f) \in Nat
    BY <1>2, <1>3
  <2>2. (f.at < e.at => rank(f) < rank(e)) /\ (e.at < f.at => rank(e) < rank(f))
    BY <1>3
  <2>3. e.at = f.at => e = f
    BY <1>6
  <2> HIDE DEF kept, moved, rank
  <2> QED  BY <1>5, <2>1, <2>2, <2>3
<1>8. Cardinality(queue') = Cardinality(kept)
  <2>1. moved \in Bijection(kept, queue')
    <3>1. moved \in [kept -> queue'] /\ \A e \in queue' : \E f \in kept : moved[f] = e
      BY <1>4
    <3> HIDE DEF kept, moved
    <3>2. \A e, f \in kept : moved[e] = moved[f] => e = f
      BY <1>7
    <3> QED  BY <3>1, <3>2 DEF Bijection, Injection, IsInjective, Surjection
  <2> HIDE DEF kept, moved
  <2> QED  BY <1>1, <2>1, FS_Bijection DEF ExistsBijection
<1>9. moved \in [kept -> queue'] /\ \A e \in queue' : \E f \in kept : e = moved[f]
  BY <1>4
<1> HIDE DEF kept, rank, moved
<1>10. OrderInv'
  <2>1. \A e \in queue' : e.at <= Cardinality(queue')
    BY <1>3, <1>5, <1>8, <1>9
  <2>2. \A e, f \in queue' : e.at = f.at => e = f
    BY <1>7, <1>9
  <2> QED  BY <2>1, <2>2 DEF OrderInv
<1>11. \A f, g \in kept : (f.at < g.at <=> moved[f].at < moved[g].at) /\ (moved[f] = moved[g] => f = g)
  BY <1>7
<1> QED  BY <1>5, <1>9, <1>10, <1>11 DEF kept

LEMMA PostOrders ==
  ASSUME QueueOK, OrderInv, NEW STATE e, Post(e), e.at = Cardinality(queue) + 1
  PROVE  OrderInv' /\ \A f \in queue : f.at < e.at
<1>1. \A f \in queue : f.at \in Nat
  BY DEF QueueOK, Event
<1>2. IsFiniteSet(queue) /\ Cardinality(queue) \in Nat
  BY FS_CardinalityType DEF QueueOK, QueueInv
<1>3. \A f \in queue : f.at < e.at
  BY <1>1, <1>2 DEF OrderInv
<1>4. queue' = queue \cup {e} /\ e \notin queue
  BY <1>1, <1>2, <1>3 DEF Post
<1>5. Cardinality(queue') = Cardinality(queue) + 1
  BY <1>2, <1>4, FS_AddElement
<1> QED  BY <1>1, <1>2, <1>3, <1>4, <1>5 DEF OrderInv

-----------------------------------------------------------------------------
(* What happens to the answer of the running request.                      *)

(* In a process with one command the tr_index tells a request from all.    *)
LEMMA OwnIsMine ==
  ASSUME IInv, BInv, pc = "await", NEW e \in queue, ~IsConnectionEvent(e)
  PROVE  (Own(e) <=> e \in Mine) /\ e.from \in Request
<1>1. e.from \in Issued /\ e.tr = e.from.tr
  BY DEF Issued, IInv, QueueInv
<1>2. e.from.cmd = 1 /\ cmd = 1 /\ e.from \in Request
  BY <1>1 DEF BInv, OriginInv, IInv, IssuedInv, Known
<1>3. e.from.tr = req.tr => e.from = req
  BY <1>1, <1>2 DEF IInv, CurrentInv
<1> QED  BY <1>1, <1>2, <1>3 DEF Own, Mine

LEMMA PopMine ==
  ASSUME IInv, OrderInv, NEW e \in queue, Pop(e), req' = req
  PROVE  /\ OrderInv' /\ Open' = Open
         /\ \A f \in queue : e.at <= f.at
         /\ \E m : /\ \A x \in Mine' : \E y \in Mine \ {e} : x = m[y]
                   /\ \A y \in Mine \ {e} :
                        /\ m[y] \in Mine' /\ m[y].code = y.code /\ m[y].block = y.block
                        /\ m[y].msg = y.msg
                        /\ \A z \in Mine \ {e} : (y.at < z.at <=> m[y].at < m[z].at)
                                                 /\ (m[y] = m[z] => y = z)
<1>1. QueueOK /\ Erase({e}) /\ Open' = Open /\ \A f \in queue : e.at <= f.at
  BY PumpOK DEF Pop, Open
<1>2. OrderInv'
  BY <1>1, EraseMoves
<1>3. PICK m \in [queue \ {e} -> queue'] :
              /\ \A x \in queue' : \E f \in queue \ {e} : x = m[f]
              /\ \A f \in queue \ {e} :
                   /\ m[f].code = f.code /\ m[f].tr = f.tr /\ m[f].block = f.block
                   /\ m[f].msg = f.msg /\ m[f].from = f.from
                   /\ \A g \in queue \ {e} : (f.at < g.at <=> m[f].at < m[g].at)
                                             /\ (m[f] = m[g] => f = g)
  BY <1>1, EraseMoves
<1>4. \A x \in Mine' : \E y \in Mine \ {e} : x = m[y]
  BY <1>3 DEF Mine, IsConnectionEvent
<1>5. \A y \in Mine \ {e} : m[y] \in Mine'
  BY <1>3 DEF Mine, IsConnectionEvent
<1>6. \A y \in Mine \ {e} : y \in queue \ {e}
  BY DEF Mine
<1>7. \A y \in Mine \ {e} :
                        /\ m[y] \in Mine' /\ m[y].code = y.code /\ m[y].block = y.block
                        /\ m[y].msg = y.msg
                        /\ \A z \in Mine \ {e} : (y.at < z.at <=> m[y].at < m[z].at)
                                                 /\ (m[y] = m[z] => y = z)
  BY <1>3, <1>5, <1>6
<1> QED  BY <1>1, <1>2, <1>4, <1>7

(* An event of another request passes by.                                  *)
LEMMA PassBy ==
  ASSUME IInv, OrderInv, OnceInv, AllInv, NEW e \in queue, e \notin Mine, Pop(e),
         UNCHANGED <<req, rows, cts>>
  PROVE  OnceInv' /\ AllInv'
<1>1. Open' = Open /\ Mine \ {e} = Mine
  BY PopMine
<1>2. PICK m : /\ \A x \in Mine' : \E y \in Mine \ {e} : x = m[y]
               /\ \A y \in Mine \ {e} :
                    /\ m[y] \in Mine' /\ m[y].code = y.code /\ m[y].block = y.block
                    /\ m[y].msg = y.msg
                    /\ \A z \in Mine \ {e} : (y.at < z.at <=> m[y].at < m[z].at)
                                             /\ (m[y] = m[z] => y = z)
  BY PopMine
<1>3. \A y \in Mine : y \in Data(y.block) <=> m[y] \in Data(y.block)'
  BY <1>1, <1>2 DEF Data
<1>4. \A b : (Data(b) # {} => Data(b)' # {}) /\ (Taken(b)' <=> Taken(b))
  BY <1>1, <1>2 DEF Data, Taken
<1>5. (Refusals # {} => Refusals' # {}) /\ \A x \in Refusals' : x.msg \in RejectCodes
  BY <1>1, <1>2 DEF Refusals, AllInv
<1>6. OnceInv'
  <2>1. \A x \in Mine' : x.code = "data" =>
          /\ x.block \in Blocks("s8180")
          /\ Data(x.block)' = {x}
          /\ \A p \in Open' : x.block \in p.sent
          /\ \A i \in DOMAIN rows' : x.block # Chunk(rows'[i].n)
    <3> SUFFICES ASSUME NEW x \in Mine', x.code = "data"
                 PROVE  /\ x.block \in Blocks("s8180")
                        /\ Data(x.block)' = {x}
                        /\ \A p \in Open' : x.block \in p.sent
                        /\ \A i \in DOMAIN rows' : x.block # Chunk(rows'[i].n)
      OBVIOUS
    <3>1. PICK y \in Mine : x = m[y] /\ y.code = "data" /\ y.block = x.block
      BY <1>1, <1>2
    <3>2. \A z \in Data(x.block)' : z = x
      <4> TAKE z \in Data(x.block)'
      <4>1. PICK w \in Mine : z = m[w] /\ w \in Data(x.block)
        BY <1>1, <1>2 DEF Data
      <4> QED  BY <3>1, <4>1 DEF OnceInv
    <3>3. x \in Data(x.block)'
      BY DEF Data
    <3> QED  BY <1>1, <3>1, <3>2, <3>3 DEF OnceInv
  <2> QED  BY <1>1, <2>1 DEF OnceInv
<1>7. AllInv'
  <2>1. \A p \in Open' : p.sent \subseteq Blocks("s8180")
                         /\ \A b \in p.sent : Taken(b)' \/ Data(b)' # {} \/ Refusals' # {}
    BY <1>1, <1>4, <1>5 DEF AllInv
  <2>2. \A x \in Mine' : x.code = "complete" =>
          /\ Open' = {}
          /\ \/ \E r \in Refusals' : r.at < x.at
             \/ \A b \in Blocks("s8180") : Taken(b)' \/ \E d \in Data(b)' : d.at < x.at
    <3> SUFFICES ASSUME NEW x \in Mine', x.code = "complete"
                 PROVE  /\ Open' = {}
                        /\ \/ \E r \in Refusals' : r.at < x.at
                           \/ \A b \in Blocks("s8180") : Taken(b)' \/ \E d \in Data(b)' : d.at < x.at
      OBVIOUS
    <3>1. PICK y \in Mine : x = m[y] /\ y.code = "complete"
      BY <1>1, <1>2
    <3>2. \A r \in Refusals : r.at < y.at => m[r] \in Refusals' /\ m[r].at < x.at
      BY <1>1, <1>2, <3>1 DEF Refusals
    <3>3. \A b : \A d \in Data(b) : d.at < y.at => m[d] \in Data(b)' /\ m[d].at < x.at
      BY <1>1, <1>2, <3>1 DEF Data
    <3> QED  BY <1>1, <1>4, <3>1, <3>2, <3>3 DEF AllInv
  <2> QED  BY <1>5, <2>1, <2>2 DEF AllInv
<1> QED  BY <1>6, <1>7

LEMMA BlocksOfPage ==
  ASSUME NEW b \in Blocks("s8180")
  PROVE  \/ b.name = "outblock1" /\ b.n \in 1..Chunks /\ b = Chunk(b.n)
         \/ b.name = "outblock_in" /\ b.n = 1
BY DEF Blocks, Chunk

LEMMA ChunkIsBlock ==
  ASSUME NEW n \in 1..Chunks
  PROVE  Chunk(n) \in Blocks("s8180") /\ Chunk(n).name = "outblock1" /\ Chunk(n).n = n
BY DEF Blocks, Chunk

(* A block of the page is taken.                                           *)
LEMMA TakeBlock ==
  ASSUME IInv, OrderInv, OnceInv, AllInv, NEW e \in Mine, e.code = "data", Pop(e),
         req' = req, req \in Request,
         IF e.block.name = "outblock1"
           THEN rows' = Append(rows, [from |-> e.from, n |-> e.block.n]) /\ cts' = cts
           ELSE rows' = rows /\ cts' = NextCts(e.from)
  PROVE  OnceInv' /\ AllInv'
<1> DEFINE rest == Mine \ {e}
<1>1. e \in queue /\ e.from = req /\ rows \in Seq(Row)
  BY DEF Mine, IInv, TypeOK, ExecTypeOK
<1>2. Open' = Open
  BY <1>1, PopMine
<1>3. PICK m : /\ \A x \in Mine' : \E y \in rest : x = m[y]
               /\ \A y \in rest :
                    /\ m[y] \in Mine' /\ m[y].code = y.code /\ m[y].block = y.block
                    /\ m[y].msg = y.msg
                    /\ \A z \in rest : (y.at < z.at <=> m[y].at < m[z].at)
                                       /\ (m[y] = m[z] => y = z)
  BY <1>1, PopMine
<1>4. /\ e.block \in Blocks("s8180") /\ Data(e.block) = {e}
      /\ \A p \in Open : e.block \in p.sent
      /\ \A i \in DOMAIN rows : e.block # Chunk(rows[i].n)
  BY DEF OnceInv
<1>5. \A y \in rest : y.code = "data" => y.block # e.block
  BY <1>4 DEF Data
(* The rows then: the old ones and, with a chunk, one of e.                *)
<1>6. \A i \in DOMAIN rows' :
        \/ i \in DOMAIN rows /\ rows'[i] = rows[i]
        \/ /\ e.block = Chunk(rows'[i].n) /\ rows'[i].from = req /\ rows'[i].n \in 1..Chunks
           /\ i = Len(rows) + 1
  <2>1. CASE e.block.name = "outblock1"
    <3> DEFINE r == [from |-> e.from, n |-> e.block.n]
    <3>1. rows' = Append(rows, r) /\ r.from = req /\ r.n = e.block.n
      BY <1>1, <2>1
    <3>2. e.block = Chunk(e.block.n) /\ e.block.n \in 1..Chunks
      BY <1>4, <2>1, BlocksOfPage
    <3> HIDE DEF r
    <3>3. \A i \in DOMAIN rows' : \/ i \in DOMAIN rows /\ rows'[i] = rows[i]
                                  \/ i = Len(rows) + 1 /\ rows'[i] = r
      BY <1>1, <3>1
    <3> QED  BY <3>1, <3>2, <3>3
  <2>2. CASE e.block.name # "outblock1"
    BY <2>2
  <2> QED  BY <2>1, <2>2
<1>7. \A b : Taken(b) => Taken(b)'
  <2> SUFFICES ASSUME NEW b, Taken(b) PROVE Taken(b)'
    OBVIOUS
  <2>1. CASE b.name = "outblock1"
    <3>1. PICK i \in DOMAIN rows : rows[i].n = b.n
      BY <2>1 DEF Taken
    <3>2. i \in DOMAIN rows' /\ rows'[i] = rows[i]
      BY <1>1
    <3> QED  BY <2>1, <3>1, <3>2 DEF Taken
  <2>2. CASE b.name # "outblock1"
    BY <1>1, <2>2 DEF Taken
  <2> QED  BY <2>1, <2>2
<1>8. Taken(e.block)'
  <2>1. CASE e.block.name = "outblock1"
    <3> DEFINE r == [from |-> e.from, n |-> e.block.n]
    <3>1. rows' = Append(rows, r) /\ r.n = e.block.n
      BY <2>1
    <3> HIDE DEF r
    <3>2. Len(rows) + 1 \in DOMAIN rows' /\ rows'[Len(rows) + 1] = r
      BY <1>1, <3>1
    <3> QED  BY <2>1, <3>1, <3>2 DEF Taken
  <2>2. CASE e.block.name # "outblock1"
    BY <1>1, <2>2 DEF Taken
  <2> QED  BY <2>1, <2>2
<1>9. \A r \in Refusals : r \in rest /\ m[r] \in Refusals'
  BY <1>3 DEF Refusals
<1>10. OnceInv'
  <2>1. ASSUME NEW x \in Mine', x.code = "data"
        PROVE  /\ x.block \in Blocks("s8180")
               /\ Data(x.block)' = {x}
               /\ \A p \in Open' : x.block \in p.sent
               /\ \A i \in DOMAIN rows' : x.block # Chunk(rows'[i].n)
    <3>1. PICK y \in rest : x = m[y] /\ y.code = "data" /\ y.block = x.block
      BY <1>3, <2>1
    <3>2. \A z \in Data(x.block)' : z = x
      <4> TAKE z \in Data(x.block)'
      <4>1. PICK w \in rest : z = m[w] /\ w \in Data(x.block)
        BY <1>3 DEF Data
      <4> QED  BY <3>1, <4>1 DEF OnceInv
    <3>3. x \in Data(x.block)'
      BY <2>1 DEF Data
    <3>4. \A i \in DOMAIN rows' : x.block # Chunk(rows'[i].n)
      BY <1>5, <1>6, <3>1 DEF OnceInv
    <3> QED  BY <1>2, <3>1, <3>2, <3>3, <3>4 DEF OnceInv
  <2>2. ASSUME NEW i \in DOMAIN rows'
        PROVE  /\ rows'[i].from = req /\ rows'[i].n \in 1..Chunks
               /\ \A p \in Open : Chunk(rows'[i].n) \in p.sent
               /\ \A j \in DOMAIN rows' : rows'[i].n = rows'[j].n => i = j
    <3>1. \A j \in DOMAIN rows' : rows'[i].n = rows'[j].n => i = j
      BY <1>4, <1>6 DEF OnceInv
    <3> QED  BY <1>4, <1>6, <3>1 DEF OnceInv
  <2> QED  BY <1>2, <2>1, <2>2 DEF OnceInv
<1>11. AllInv'
  <2>1. \A b : \A d \in Data(b) : (d = e /\ Taken(b)') \/ (d \in rest /\ m[d] \in Data(b)')
    BY <1>3, <1>8 DEF Data
  <2>2. \A p \in Open : p.sent \subseteq Blocks("s8180")
                        /\ \A b \in p.sent : Taken(b)' \/ Data(b)' # {} \/ Refusals' # {}
    BY <1>7, <1>9, <2>1 DEF AllInv
  <2>3. \A r \in Refusals' : r.msg \in RejectCodes
    <3>1. \A r \in Refusals' : \E y \in Refusals : r.msg = y.msg
      BY <1>3 DEF Refusals
    <3> QED  BY <3>1 DEF AllInv
  <2>4. ASSUME NEW x \in Mine', x.code = "complete"
        PROVE  /\ Open = {}
               /\ \/ \E r \in Refusals' : r.at < x.at
                  \/ \A b \in Blocks("s8180") : Taken(b)' \/ \E d \in Data(b)' : d.at < x.at
    <3>1. PICK y \in rest : x = m[y] /\ y.code = "complete"
      BY <1>3, <2>4
    <3>2. \A r \in Refusals : r.at < y.at => m[r] \in Refusals' /\ m[r].at < x.at
      BY <1>3, <1>9, <3>1
    <3>3. \A b : \A d \in Data(b) : d.at < y.at =>
            Taken(b)' \/ (m[d] \in Data(b)' /\ m[d].at < x.at)
      BY <1>3, <2>1, <3>1
    <3>4. \A b : (Taken(b) \/ \E d \in Data(b) : d.at < y.at)
                    => Taken(b)' \/ \E d \in Data(b)' : d.at < x.at
      BY <1>7, <3>3
    <3>5. CASE \E r \in Refusals : r.at < y.at
      BY <3>1, <3>2, <3>5 DEF AllInv
    <3>6. CASE ~\E r \in Refusals : r.at < y.at
      BY <3>1, <3>4, <3>6 DEF AllInv
    <3> QED  BY <3>5, <3>6
  <2> QED  BY <1>2, <2>2, <2>3, <2>4 DEF AllInv
<1> QED  BY <1>10, <1>11

(* What the broker posts comes last.                                       *)
LEMMA PostLast ==
  ASSUME IInv, OrderInv, Broker
  PROVE  /\ OrderInv'
         /\ \E e : /\ queue' = queue \cup {e} /\ \A f \in queue : f.at < e.at
                   /\ \/ /\ Disconnect /\ IsConnectionEvent(e)
                      \/ /\ e.code # "disconnected" /\ e.from \in {p.req : p \in pending}
<1>1. QueueOK
  BY PumpOK
<1>2. PICK r, code, block, msg :
        /\ Post(Answer(r, code, block, msg))
        /\ \/ Disconnect /\ code = "disconnected"
           \/ code # "disconnected" /\ r \in {p.req : p \in pending}
  BY DEF Broker, PostData, PostRejection, PostComplete, PostError, Disconnect
<1> DEFINE e == Answer(r, code, block, msg)
<1>3. e.at = Cardinality(queue) + 1 /\ e.code = code /\ e.from = r
  BY DEF Answer
<1>4. Post(e)
  BY <1>2
<1> HIDE DEF e
<1>5. OrderInv' /\ \A f \in queue : f.at < e.at
  BY <1>1, <1>3, <1>4, PostOrders
<1>6. queue' = queue \cup {e}
  BY <1>4 DEF Post
<1> QED  BY <1>2, <1>3, <1>5, <1>6 DEF IsConnectionEvent

LEMMA SentTyped ==
  ASSUME IInv, NEW p \in pending, NEW s
  PROVE  LET q == [p EXCEPT !.sent = s] IN q.req = p.req /\ q.sent = s
<1>1. p = [req |-> p.req, sent |-> p.sent]
  BY DEF IInv, TypeOK, PumpTypeOK
<1> QED  BY <1>1

(* The broker posts for another request.                                   *)
LEMMA PostAside ==
  ASSUME OnceInv, AllInv, UNCHANGED <<rows, cts, req>>, Mine' = Mine, Open' \subseteq Open
  PROVE  OnceInv' /\ AllInv'
<1>1. \A b : (Taken(b)' <=> Taken(b)) /\ Data(b)' = Data(b)
  BY DEF Taken, Data
<1>2. Refusals' = Refusals
  BY DEF Refusals
<1>3. OnceInv'
  BY <1>1 DEF OnceInv
<1>4. AllInv'
  BY <1>1, <1>2 DEF AllInv
<1> QED  BY <1>3, <1>4

LEMMA NoEndYet ==
  ASSUME AllInv, Open # {}
  PROVE  \A c \in Mine : c.code # "complete"
BY DEF AllInv

LEMMA PostDataMine ==
  ASSUME IInv, OnceInv, AllInv, UNCHANGED <<rows, cts, req>>, req.kind = "s8180",
         NEW p \in Open, PostData(p)
  PROVE  OnceInv' /\ AllInv'
<1>1. PICK b \in Blocks("s8180") \ p.sent :
        /\ Post(Answer(req, "data", b, "none"))
        /\ pending' = (pending \ {p}) \cup {[p EXCEPT !.sent = p.sent \cup {b}]}
  BY DEF PostData, Open
<1> DEFINE e == Answer(req, "data", b, "none")
           q == [p EXCEPT !.sent = p.sent \cup {b}]
<1>2. q.req = req /\ q.sent = p.sent \cup {b}
  BY SentTyped DEF Open
<1>3. e.code = "data" /\ e.from = req /\ e.block = b
  BY DEF Answer
<1>4. queue' = queue \cup {e}
  BY <1>1 DEF Post
<1>5. pending' = (pending \ {p}) \cup {q}
  BY <1>1
<1> HIDE DEF e, q
<1>6. Mine' = Mine \cup {e}
  BY <1>3, <1>4 DEF Mine, IsConnectionEvent
<1>7. Open = {p} /\ Open' = {q}
  <2>1. \A x \in Open : x = p
    BY DEF OnceInv
  <2> QED  BY <1>2, <1>5, <2>1 DEF Open
<1>8. \A x \in Mine : x.code = "data" => x.block # b
  BY <1>1 DEF OnceInv
<1>9. Data(b)' = {e} /\ \A x \in Blocks("s8180") : x # b => Data(x)' = Data(x)
  BY <1>3, <1>6, <1>8 DEF Data
<1>10. \A x : Taken(x)' <=> Taken(x)
  BY DEF Taken
<1>11. Refusals' = Refusals
  BY <1>3, <1>6 DEF Refusals
<1>12. OnceInv'
  <2>1. \A i \in DOMAIN rows : Chunk(rows[i].n) # b
    BY <1>1 DEF OnceInv
  <2>2. ASSUME NEW x \in Mine', x.code = "data"
        PROVE  /\ x.block \in Blocks("s8180")
               /\ Data(x.block)' = {x}
               /\ x.block \in q.sent
               /\ \A i \in DOMAIN rows : x.block # Chunk(rows[i].n)
    <3>1. CASE x = e
      BY <1>2, <1>3, <1>9, <2>1, <3>1
    <3>2. CASE x # e
      BY <1>2, <1>6, <1>8, <1>9, <2>2, <3>2 DEF OnceInv
    <3> QED  BY <3>1, <3>2
  <2> QED  BY <1>2, <1>7, <2>2 DEF OnceInv
<1>13. AllInv'
  <2>1. q.sent \subseteq Blocks("s8180")
    BY <1>1, <1>2 DEF AllInv
  <2>2. \A x \in q.sent : Taken(x)' \/ Data(x)' # {} \/ Refusals' # {}
    BY <1>2, <1>9, <1>10, <1>11, <2>1 DEF AllInv
  <2>3. \A x \in Mine' : x.code # "complete"
    BY <1>3, <1>6, NoEndYet
  <2> QED  BY <1>7, <1>11, <2>1, <2>2, <2>3 DEF AllInv
<1> QED  BY <1>12, <1>13

LEMMA PostRejectionMine ==
  ASSUME IInv, OnceInv, AllInv, UNCHANGED <<rows, cts, req>>, req.kind = "s8180",
         NEW p \in Open, PostRejection(p)
  PROVE  OnceInv' /\ AllInv'
<1>1. PICK c \in RejectCodes :
        /\ Post(Answer(req, "message", NoBlock, c))
        /\ pending' = (pending \ {p}) \cup {[p EXCEPT !.sent = Blocks("s8180")]}
  BY DEF PostRejection, Open
<1> DEFINE e == Answer(req, "message", NoBlock, c)
           q == [p EXCEPT !.sent = Blocks("s8180")]
<1>2. q.req = req /\ q.sent = Blocks("s8180")
  BY SentTyped DEF Open
<1>3. e.code = "message" /\ e.from = req /\ e.msg = c
  BY DEF Answer
<1>4. queue' = queue \cup {e}
  BY <1>1 DEF Post
<1>5. pending' = (pending \ {p}) \cup {q}
  BY <1>1
<1> HIDE DEF e, q
<1>6. Mine' = Mine \cup {e}
  BY <1>3, <1>4 DEF Mine, IsConnectionEvent
<1>7. Open = {p} /\ Open' = {q}
  <2>1. \A x \in Open : x = p
    BY DEF OnceInv
  <2> QED  BY <1>2, <1>5, <2>1 DEF Open
<1>8. \A x : Data(x)' = Data(x)
  BY <1>3, <1>6 DEF Data
<1>9. Refusals' = Refusals \cup {e}
  BY <1>3, <1>6 DEF Refusals
<1>10. OnceInv'
  <2>1. \A i \in DOMAIN rows : Chunk(rows[i].n) \in Blocks("s8180")
    BY ChunkIsBlock DEF OnceInv
  <2> QED  BY <1>2, <1>3, <1>6, <1>7, <1>8, <2>1 DEF OnceInv
<1>11. AllInv'
  <2>1. \A x \in Mine' : x.code # "complete"
    BY <1>3, <1>6, NoEndYet
  <2> QED  BY <1>2, <1>3, <1>7, <1>9, <2>1 DEF AllInv
<1> QED  BY <1>10, <1>11

(* The end of the answer, or its breaking off.                             *)
LEMMA PostEndMine ==
  ASSUME IInv, OrderInv, OnceInv, AllInv, UNCHANGED <<rows, cts, req>>, req.kind = "s8180",
         NEW p \in Open, PostComplete(p) \/ PostError(p)
  PROVE  OnceInv' /\ AllInv'
<1>1. PICK code \in {"complete", "error"} :
        /\ Post(Answer(req, code, NoBlock, "none"))
        /\ pending' = pending \ {p}
        /\ code = "complete" => p.sent = Blocks("s8180")
  BY DEF PostComplete, PostError, Open
<1> DEFINE e == Answer(req, code, NoBlock, "none")
<1>2. e.code = code /\ e.from = req /\ e.at = Cardinality(queue) + 1
  BY DEF Answer
<1>3. Post(e)
  BY <1>1
<1> HIDE DEF e
<1>4. queue' = queue \cup {e} /\ \A f \in queue : f.at < e.at
  BY <1>2, <1>3, PumpOK, PostOrders DEF Post
<1>5. Mine' = Mine \cup {e}
  BY <1>2, <1>4 DEF Mine, IsConnectionEvent
<1>6. Open = {p} /\ Open' = {}
  <2>1. \A x \in Open : x = p
    BY DEF OnceInv
  <2> QED  BY <1>1, <2>1 DEF Open
<1>7. (\A x : Data(x)' = Data(x) /\ (Taken(x)' <=> Taken(x))) /\ Refusals' = Refusals
  BY <1>2, <1>5 DEF Data, Refusals, Taken
<1>8. OnceInv'
  BY <1>2, <1>5, <1>6, <1>7 DEF OnceInv
<1>9. AllInv'
  <2>1. ASSUME NEW c \in Mine', c.code = "complete"
        PROVE  \/ \E m \in Refusals : m.at < c.at
               \/ \A b \in Blocks("s8180") : Taken(b) \/ \E d \in Data(b) : d.at < c.at
    <3>1. c = e /\ p.sent = Blocks("s8180")
      BY <1>1, <1>2, <1>5, <1>6, <2>1, NoEndYet
    <3>2. \A b \in Blocks("s8180") : Taken(b) \/ Data(b) # {} \/ Refusals # {}
      BY <3>1 DEF AllInv
    <3>3. (\A b : Data(b) \subseteq queue) /\ Refusals \subseteq queue
      BY DEF Data, Refusals, Mine
    <3> QED  BY <1>4, <3>1, <3>2, <3>3
  <2> QED  BY <1>6, <1>7, <2>1 DEF AllInv
<1> QED  BY <1>8, <1>9

(* Whatever the broker does while a page is awaited.                       *)
LEMMA BrokerAnswers ==
  ASSUME IInv, OrderInv, OnceInv, AllInv, Broker, UNCHANGED <<rows, cts, req>>,
         req \in Request, req.kind = "s8180"
  PROVE  OnceInv' /\ AllInv'
<1>1. ASSUME NEW p \in pending, p.req # req,
             PostData(p) \/ PostRejection(p) \/ PostComplete(p) \/ PostError(p)
      PROVE  Mine' = Mine /\ Open' \subseteq Open
  <2>1. PICK code, block, msg : Post(Answer(p.req, code, block, msg))
    BY <1>1 DEF PostData, PostRejection, PostComplete, PostError
  <2> DEFINE e == Answer(p.req, code, block, msg)
  <2>2. queue' = queue \cup {e} /\ e.from = p.req
    BY <2>1 DEF Post, Answer
  <2> HIDE DEF e
  <2>3. Mine' = Mine
    BY <1>1, <2>2 DEF Mine, IsConnectionEvent
  <2>4. pending' \subseteq pending \/ \E s : pending' = (pending \ {p}) \cup {[p EXCEPT !.sent = s]}
    BY <1>1 DEF PostData, PostRejection, PostComplete, PostError
  <2>5. \A s : [p EXCEPT !.sent = s].req = p.req
    BY SentTyped
  <2>6. Open' \subseteq Open
    BY <1>1, <2>4, <2>5 DEF Open
  <2> QED  BY <2>3, <2>6
<1>2. ASSUME Disconnect
      PROVE  Mine' = Mine /\ Open' \subseteq Open
  <2>1. PICK e : queue' = queue \cup {e} /\ e.code = "disconnected" /\ pending' = {}
    BY <1>2 DEF Disconnect, Post, Answer
  <2> QED  BY <2>1 DEF Mine, Open, IsConnectionEvent
<1>3. CASE \E p \in pending : p.req = req /\ (PostData(p) \/ PostRejection(p) \/ PostComplete(p) \/ PostError(p))
  <2>1. PICK p \in Open : PostData(p) \/ PostRejection(p) \/ PostComplete(p) \/ PostError(p)
    BY <1>3 DEF Open
  <2> QED  BY <2>1, PostDataMine, PostRejectionMine, PostEndMine
<1> QED  BY <1>1, <1>2, <1>3, PostAside DEF Broker

(* A request that is new to the broker has no answer yet.                  *)
LEMMA SendFresh ==
  ASSUME IInv, BInv, OrderInv, Query(SendExec)
  PROVE  OrderInv' /\ OnceInv' /\ AllInv'
<1> DEFINE r == [cmd |-> cmd, kind |-> "s8180", acct |-> active, page |-> page,
                 item |-> 0, tr |-> nextExec]
<1>1. /\ pc = "send" /\ Begin(r) /\ (Submit(r) \/ pending' = pending) /\ rows' = <<>>
  BY DEF Query, SendExec
<1>2. OrderInv' /\ \A e \in queue' : IsConnectionEvent(e)
  <2> DEFINE gone == {e \in queue : ~IsConnectionEvent(e)}
  <2>1. Erase(gone) /\ QueueOK
    BY <1>1, PumpOK DEF Begin, DiscardStale
  <2>2. \A e \in queue \ gone : IsConnectionEvent(e)
    OBVIOUS
  <2> HIDE DEF gone
  <2>3. OrderInv'
    BY <2>1, EraseMoves
  <2>4. \A e \in queue' : \E f \in queue \ gone : e.code = f.code
    BY <2>1, EraseKeeps
  <2> QED  BY <2>2, <2>3, <2>4 DEF IsConnectionEvent
<1>3. \A p \in pending : p.req # r
  <2> SUFFICES ASSUME NEW p \in pending, p.req = r PROVE FALSE
    OBVIOUS
  <2>1. Known(p.req)
    BY DEF IInv, IssuedInv, Issued
  <2>2. p.req.cmd = cmd /\ p.req.kind = "s8180" /\ p.req.tr = nextExec
    OBVIOUS
  <2> HIDE DEF r
  <2> QED  BY <2>1, <2>2, Typed DEF Known
<1>4. req' = r
  BY <1>1 DEF Begin
<1> HIDE DEF r
<1>5. Mine' = {}
  BY <1>2 DEF Mine, IsConnectionEvent
<1>6. Open' \subseteq {[req |-> r, sent |-> {}]}
  <2>1. pending' \subseteq pending \cup {[req |-> r, sent |-> {}]}
    BY <1>1 DEF Submit
  <2> QED  BY <1>3, <1>4, <2>1 DEF Open
<1>7. DOMAIN rows' = {}
  BY <1>1
<1>8. OnceInv'
  BY <1>5, <1>6, <1>7 DEF OnceInv
<1>9. \A p \in Open' : p.sent = {}
  BY <1>6
<1>10. AllInv'
  BY <1>5, <1>9 DEF AllInv, Refusals
<1> QED  BY <1>2, <1>8, <1>10

LEMMA EraseOrders ==
  ASSUME IInv, OrderInv, NEW STATE gone, Erase(gone)
  PROVE  OrderInv'
BY PumpOK, EraseMoves

LEMMA StillOrdered ==
  ASSUME OrderInv, UNCHANGED pumpVars
  PROVE  OrderInv'
BY DEF OrderInv, pumpVars

-----------------------------------------------------------------------------
(* Frames of the steps.                                                    *)

Inner == {"activate", "send", "await", "drain", "judge", "rows"}

LEMMA OutKept ==
  ASSUME OutInv, UNCHANGED <<out, failed, job, turn, reply>>, pc \in Inner, pc' \in Inner
  PROVE  OutInv'
<1>1. reply = "none" /\ pc \notin {"next", "export"} /\ pc' \notin {"next", "export"}
  BY DEF OutInv, Inner
<1>2. Past' = Past
  BY <1>1 DEF Past
<1>3. \A x : RowsOf(x)' = RowsOf(x) /\ (WholeRows(x)' <=> WholeRows(x))
  BY DEF RowsOf, WholeRows
<1> QED  BY <1>1, <1>2, <1>3 DEF OutInv

(* A step that neither takes rows nor files them.                          *)
LEMMA Onward ==
  ASSUME IInv, WInv, pc \in Inner, pc' \in Inner,
         UNCHANGED <<rows, cts, page, active, found, at, job, out, failed, turn, reply>>,
         OrderInv', AnswerInv', KindInv',
         Filing' => Filing, Asking' => Asking,
         pc' = "judge" /\ req'.kind = "s8180" /\ outcome' = "ok" => PageWhole
  PROVE  WInv'
<1>1. PageWhole' <=> PageWhole
  BY DEF PageWhole
<1>2. RowsInv'
  BY <1>1 DEF WInv, RowsInv
<1>3. Cells(found)' = Cells(found)
  BY DEF Cells
<1>4. FoundInv'
  BY <1>3 DEF WInv, FoundInv
<1>5. OutInv'
  BY OutKept DEF WInv
<1> QED  BY <1>2, <1>4, <1>5 DEF WInv

-----------------------------------------------------------------------------
(* The steps of the wait loops.                                            *)

LEMMA AwaitedTyped ==
  ASSUME IInv, pc = "await"
  PROVE  req \in Request
BY DEF IInv, CurrentInv, Known

(* The arms of the wait loops that take nothing from the answer of a page. *)
LEMMA PassStep ==
  ASSUME IInv, BInv, WInv, NEW e \in queue,
         \/ Exchange(ReceiveError(e)) \/ Exchange(IgnoreEvent(e))
         \/ Query(SplitData(e) \/ SplitMessage(e) \/ SplitComplete(e))
         \/ AskBalance(BalanceEvent(e))
  PROVE  WInv'
<1>1. /\ pc = "await" /\ pc' \in Waiting /\ Pop(e) /\ req' = req
      /\ UNCHANGED <<rows, cts, page, active, found, at, job, out, failed, turn, reply>>
      /\ \/ pc' = "drain" /\ outcome' = "error"
         \/ pc' = "judge" /\ req.kind # "s8180"
         \/ pc' = "await" /\ (req.kind = "s8180" => IgnoreEvent(e))
  BY DEF Exchange, ReceiveError, IgnoreEvent, Query, SplitData, SplitMessage, SplitComplete,
     AskBalance, BalanceEvent, BalanceData, BalanceMessage, BalanceComplete, Awaiting, GiveUp,
     Conclude, flowVars, execVars, counters, place, yield, balanceVars, batchVars, Waiting
<1>2. OrderInv'
  BY <1>1, EraseOrders DEF Pop, WInv
<1>3. AnswerInv'
  <2> SUFFICES ASSUME pc' = "await", req.kind = "s8180" PROVE OnceInv' /\ AllInv'
    BY <1>1 DEF AnswerInv
  <2>1. OnceInv /\ AllInv /\ IgnoreEvent(e) /\ OrderInv
    BY <1>1 DEF WInv, AnswerInv
  <2>2. e \notin Mine
    <3>1. IsConnectionEvent(e) \/ ~Own(e)
      BY <2>1 DEF IgnoreEvent
    <3>2. CASE ~IsConnectionEvent(e)
      BY <1>1, <3>1, <3>2, OwnIsMine
    <3> QED  BY <3>2 DEF Mine
  <2> QED  BY <1>1, <2>1, <2>2, PassBy
<1>4. KindInv'
  BY <1>1 DEF WInv, KindInv, Waiting
<1>5. (Filing' => Filing) /\ (Asking' => Asking)
  BY <1>1 DEF Filing, Asking, Waiting
<1> QED  BY <1>1, <1>2, <1>3, <1>4, <1>5, Onward DEF Inner, Waiting

LEMMA TimeOutWholeStep ==
  ASSUME IInv, WInv, Exchange(TimeOut) \/ Exchange(DrainTurn)
  PROVE  WInv'
<1>1. /\ pc \in {"await", "drain"} /\ pc' \in {"drain", "judge"} /\ req' = req
      /\ UNCHANGED <<rows, cts, page, active, found, at, job, out, failed, turn, reply>>
  BY DEF Exchange, TimeOut, DrainTurn, GiveUp, execVars, counters, place, yield, batchVars
<1>0. outcome' # "ok"
  BY DEF Exchange, TimeOut, DrainTurn, GiveUp, WInv, KindInv
<1>2. OrderInv'
  BY EraseOrders, StillOrdered DEF Exchange, TimeOut, DrainTurn, WInv, pumpVars
<1>3. AnswerInv' /\ KindInv'
  BY <1>0, <1>1 DEF AnswerInv, WInv, KindInv, Waiting
<1>4. (Filing' => Filing) /\ (Asking' => Asking)
  BY <1>1 DEF Filing, Asking, Waiting
<1> QED  BY <1>0, <1>1, <1>2, <1>3, <1>4, Onward DEF Inner

LEMMA TakeStep ==
  ASSUME IInv, BInv, WInv, NEW e \in queue, Query(ExecData(e))
  PROVE  WInv'
<1>1. /\ pc = "await" /\ pc' = pc /\ req.kind = "s8180" /\ req' = req
      /\ Pop(e) /\ e.code = "data" /\ Own(e)
      /\ UNCHANGED <<page, active, found, at, job, out, failed, turn, reply, outcome>>
  BY DEF Query, ExecData, Awaiting, flowVars, counters, place, batchVars
<1>2. IF e.block.name = "outblock1"
        THEN rows' = Append(rows, [from |-> e.from, n |-> e.block.n]) /\ cts' = cts
        ELSE rows' = rows /\ cts' = NextCts(e.from)
  BY DEF Query, ExecData
<1>3. e \in Mine
  BY <1>1, OwnIsMine DEF IsConnectionEvent
<1>4. OnceInv /\ AllInv /\ OrderInv
  BY <1>1 DEF WInv, AnswerInv
<1>5. OnceInv' /\ AllInv'
  BY <1>1, <1>2, <1>3, <1>4, AwaitedTyped, TakeBlock
<1>6. OrderInv' /\ AnswerInv'
  BY <1>1, <1>4, <1>5, EraseOrders DEF Pop, AnswerInv
<1>7. KindInv' /\ RowsInv'
  BY <1>1 DEF WInv, KindInv, RowsInv, Filing, Waiting
<1>8. Cells(found)' = Cells(found)
  BY <1>1 DEF Cells
<1>9. FoundInv'
  BY <1>1, <1>8 DEF WInv, FoundInv, Asking, Filing, Waiting
<1>10. OutInv'
  BY <1>1, OutKept DEF WInv, Inner
<1> QED  BY <1>6, <1>7, <1>9, <1>10 DEF WInv

(* The only messages a page can bring are refusals fetch.exe knows.        *)
LEMMA RefusalStep ==
  ASSUME IInv, BInv, WInv, KnownRejections, NEW e \in queue, Query(ExecMessage(e))
  PROVE  WInv'
<1>1. /\ pc = "await" /\ req.kind = "s8180" /\ req' = req
      /\ Pop(e) /\ e.code = "message" /\ Own(e)
      /\ UNCHANGED <<rows, cts, page, active, found, at, job, out, failed, turn, reply>>
      /\ IsPasswordRejection(e) => pc' = "drain" /\ outcome' = "rejected"
  BY DEF Query, ExecMessage, Awaiting, GiveUp, execVars, counters, place, yield, batchVars
<1>2. e \in Refusals
  BY <1>1, OwnIsMine DEF IsConnectionEvent, Refusals
<1>3. IsPasswordRejection(e)
  BY <1>1, <1>2 DEF WInv, AnswerInv, AllInv, KnownRejections, IsPasswordRejection
<1>4. OrderInv'
  BY <1>1, EraseOrders DEF Pop, WInv
<1>5. AnswerInv' /\ KindInv'
  BY <1>1, <1>3 DEF AnswerInv, WInv, KindInv, Waiting
<1>6. (Filing' => Filing) /\ (Asking' => Asking)
  BY <1>1, <1>3 DEF Filing, Asking, Waiting
<1> QED  BY <1>1, <1>3, <1>4, <1>5, <1>6, Onward DEF Inner

(* Different rows of a page that has all chunks are as many as the chunks. *)
LEMMA AllRows ==
  ASSUME IInv, \A i \in DOMAIN rows : rows[i].n \in 1..Chunks,
         \A i, j \in DOMAIN rows : rows[i].n = rows[j].n => i = j,
         \A n \in 1..Chunks : \E i \in DOMAIN rows : rows[i].n = n
  PROVE  Len(rows) = Chunks /\ {rows[i].n : i \in DOMAIN rows} = 1..Chunks
<1>1. rows \in Seq(Row) /\ Chunks \in Nat
  BY PumpAssumption DEF IInv, TypeOK, ExecTypeOK
<1>2. DOMAIN rows = 1..Len(rows) /\ Len(rows) \in Nat
  BY <1>1
<1> DEFINE f == [i \in 1..Len(rows) |-> rows[i].n]
<1>3. f \in Bijection(1..Len(rows), 1..Chunks)
  <2>1. f \in [1..Len(rows) -> 1..Chunks]
    BY <1>2
  <2>2. \A i, j \in 1..Len(rows) : f[i] = f[j] => i = j
    BY <1>2
  <2>3. \A n \in 1..Chunks : \E i \in 1..Len(rows) : f[i] = n
    BY <1>2
  <2> HIDE DEF f
  <2> QED  BY <2>1, <2>2, <2>3 DEF Bijection, Injection, IsInjective, Surjection
<1> HIDE DEF f
<1>4. Cardinality(1..Chunks) = Cardinality(1..Len(rows))
  BY <1>2, <1>3, UpTo, FS_Bijection DEF ExistsBijection
<1>5. Len(rows) = Chunks
  <2>1. Cardinality(1..Chunks) = Chunks
    BY <1>1, UpTo
  <2>2. Cardinality(1..Len(rows)) = Len(rows)
    BY <1>2, UpTo
  <2> QED  BY <1>4, <2>1, <2>2
<1>6. {rows[i].n : i \in DOMAIN rows} = 1..Chunks
  <2> DEFINE got == {rows[i].n : i \in DOMAIN rows}
             all == 1..Chunks
  <2>1. \A n \in got : n \in all
    OBVIOUS
  <2>2. \A n \in all : n \in got
    <3> TAKE n \in all
    <3>1. PICK i \in DOMAIN rows : rows[i].n = n
      OBVIOUS
    <3> QED  BY <3>1
  <2> HIDE DEF got, all
  <2>3. got = all
    BY <2>1, <2>2, Zenon
  <2> QED  BY <2>3 DEF got, all
<1> QED  BY <1>5, <1>6

(* The end of the answer is taken last, so the page is whole.              *)
LEMMA PageCompleteStep ==
  ASSUME IInv, BInv, WInv, NEW e \in queue, Query(ExecComplete(e))
  PROVE  WInv'
<1>1. /\ pc = "await" /\ pc' = "judge" /\ req.kind = "s8180" /\ req' = req
      /\ Pop(e) /\ e.code = "complete" /\ Own(e) /\ job = "QUERY"
      /\ UNCHANGED <<rows, cts, page, active, found, at, job, out, failed, turn, reply>>
  BY DEF Query, ExecComplete, Awaiting, Conclude, execVars, counters, place, yield, batchVars
<1>2. e \in Mine
  BY <1>1, OwnIsMine DEF IsConnectionEvent
<1>3. OnceInv /\ AllInv
  BY <1>1 DEF WInv, AnswerInv
<1>4. \A f \in Mine : ~(f.at < e.at)
  <2>1. \A f \in queue : e.at <= f.at /\ e.at \in Nat /\ f.at \in Nat
    BY <1>1 DEF Pop, IInv, TypeOK, PumpTypeOK, Event
  <2> QED  BY <2>1 DEF Mine
<1>5. \A b \in Blocks("s8180") : Taken(b)
  BY <1>1, <1>2, <1>3, <1>4 DEF AllInv, Refusals, Data
<1>6. PageWhole
  <2>1. \A n \in 1..Chunks : \E i \in DOMAIN rows : rows[i].n = n
    BY <1>5, ChunkIsBlock DEF Taken
  <2>2. Len(rows) = Chunks /\ {rows[i].n : i \in DOMAIN rows} = 1..Chunks
    BY <1>3, <2>1, AllRows DEF OnceInv
  <2>3. cts = NextCts(req)
    <3>1. [name |-> "outblock_in", n |-> 1] \in Blocks("s8180")
      BY DEF Blocks
    <3> QED  BY <1>5, <3>1 DEF Taken
  <2>4. req.page = page /\ req.acct = active
    BY <1>1 DEF BInv, PageInv, Busy, IInv, CurrentInv
  <2> QED  BY <1>3, <2>2, <2>3, <2>4 DEF PageWhole, OnceInv, NextCts
<1>7. OrderInv'
  BY <1>1, EraseOrders DEF Pop, WInv
<1>8. AnswerInv' /\ KindInv'
  BY <1>1 DEF AnswerInv, WInv, KindInv, Waiting
<1>9. (Filing' => Filing) /\ (Asking' => Asking)
  BY <1>1 DEF Filing, Asking, Waiting
<1> QED  BY <1>1, <1>6, <1>7, <1>8, <1>9, Onward DEF Inner

(* What the broker sends, while the query thread pumps.                    *)
LEMMA DeliverWholeStep ==
  ASSUME IInv, BInv, WInv, Deliver
  PROVE  WInv'
<1>1. /\ pc \in {"send", "rows", "await", "drain"} /\ Broker
      /\ UNCHANGED <<pc, req, outcome, rows, cts, page, active, found, at, job, out, failed, turn,
                     reply>>
  BY DEF Deliver, Broker, Pumping, flowVars, execVars, counters, place, yield, batchVars
<1>2. OrderInv'
  BY <1>1, PostLast DEF WInv
<1>3. AnswerInv'
  <2> SUFFICES ASSUME pc = "await", req.kind = "s8180" PROVE OnceInv' /\ AllInv'
    BY <1>1 DEF AnswerInv
  <2> QED  BY <1>1, AwaitedTyped, BrokerAnswers DEF WInv, AnswerInv
<1>4. KindInv'
  BY <1>1 DEF WInv, KindInv
<1>5. (Filing' => Filing) /\ (Asking' => Asking)
  BY <1>1 DEF Filing, Asking
<1> QED  BY <1>1, <1>2, <1>3, <1>4, <1>5, Onward DEF Inner

-----------------------------------------------------------------------------
(* The steps of the queries.                                               *)

LEMMA AskPageWholeStep ==
  ASSUME IInv, BInv, WInv, Query(SendExec)
  PROVE  WInv'
<1>1. /\ pc = "send" /\ job = "QUERY" /\ req'.kind = "s8180"
      /\ (pc' = "await" \/ (pc' = "judge" /\ outcome' = "nohash"))
      /\ UNCHANGED <<page, active, found, at, job, out, failed, turn, reply>>
  BY DEF Query, SendExec, Begin, place, batchVars
<1>2. OrderInv' /\ AnswerInv'
  BY SendFresh DEF WInv, AnswerInv
<1>3. KindInv' /\ RowsInv'
  BY <1>1 DEF KindInv, RowsInv, Filing, Waiting
<1>4. Cells(found)' = Cells(found)
  BY <1>1 DEF Cells
<1>5. FoundInv'
  BY <1>1, <1>4 DEF WInv, FoundInv, Asking, Filing, Waiting
<1>6. OutInv'
  BY <1>1, OutKept DEF WInv, Inner
<1> QED  BY <1>2, <1>3, <1>5, <1>6 DEF WInv

(* An s8118 or c8201 request.                                              *)
LEMMA AskOtherStep ==
  ASSUME IInv, WInv, Query(SendSplit) \/ AskBalance(SendBalance)
  PROVE  WInv'
<1>1. /\ \/ pc = "rows" /\ req'.kind = "s8118" /\ job = "QUERY"
         \/ pc = "send" /\ req'.kind = "c8201" /\ job = "BALANCE"
      /\ pc' \in {"await", "judge"} /\ DiscardStale
      /\ UNCHANGED <<rows, cts, page, active, found, at, job, out, failed, turn, reply>>
  BY DEF Query, SendSplit, AskBalance, SendBalance, Begin, place, yield, execVars, counters,
     batchVars
<1>2. OrderInv'
  BY <1>1, EraseOrders DEF DiscardStale, WInv
<1>3. AnswerInv' /\ KindInv'
  BY <1>1 DEF AnswerInv, KindInv, Waiting
<1>4. (Filing' => Filing) /\ (Asking' => Asking)
  BY <1>1 DEF Filing, Asking, Waiting
<1> QED  BY <1>1, <1>2, <1>3, <1>4, Onward DEF Inner

LEMMA AgainWholeStep ==
  ASSUME IInv, WInv, Query(JudgeRebind \/ JudgeRetry)
  PROVE  WInv'
<1>1. /\ pc = "judge" /\ req.kind = "s8180" /\ pc' = "send" /\ UNCHANGED pumpVars
      /\ UNCHANGED <<rows, cts, page, active, found, at, job, out, failed, turn, reply>>
  BY DEF Query, JudgeRebind, JudgeRetry, Judging, Leave, counters, yield, batchVars
<1>2. OrderInv' /\ AnswerInv' /\ KindInv'
  BY <1>1, StillOrdered DEF WInv, AnswerInv, KindInv, Waiting
<1>3. ~Filing' /\ Asking
  BY <1>1 DEF Filing, Asking, Waiting
<1> QED  BY <1>1, <1>2, <1>3, Onward DEF Inner

(* The page is whole, its first row comes next.                            *)
LEMMA JudgePageWholeStep ==
  ASSUME IInv, WInv, Query(JudgePageDone)
  PROVE  WInv'
<1>1. /\ pc = "judge" /\ req.kind = "s8180" /\ outcome = "ok" /\ pc' = "rows" /\ at' = 1
      /\ job = "QUERY" /\ UNCHANGED pumpVars
      /\ UNCHANGED <<rows, cts, page, active, found, job, out, failed, turn, reply>>
  BY DEF Query, JudgePageDone, Judging, Leave, place, yield, batchVars
<1>2. OrderInv' /\ AnswerInv' /\ KindInv'
  BY <1>1, StillOrdered DEF WInv, AnswerInv, KindInv, Waiting
<1>3. PageWhole' /\ Asking /\ ~Asking'
  BY <1>1 DEF PageWhole, WInv, RowsInv, Asking, Waiting
<1>4. RowsInv'
  BY <1>1, <1>3, PumpAssumption DEF RowsInv
<1>5. FoundInv'
  <2>1. Cells(found)' = Cells(found)
    BY <1>1 DEF Cells
  <2>2. Len(found) = (page - 1) * Chunks /\ Cells(found) = Grid(page - 1)
    BY <1>1, <1>3 DEF WInv, FoundInv
  <2>3. page - 1 \in Nat /\ Chunks \in Nat
    BY Typed, PumpAssumption
  <2>4. (page - 1) * Chunks \in Nat
    BY <2>3, OneMore
  <2> DEFINE m == (page - 1) * Chunks
  <2> HIDE DEF m
  <2>5. Len(found) = m + (at' - 1)
    BY <1>1, <2>2, <2>4 DEF m
  <2>6. {<<page, rows[i].n>> : i \in 1..(at' - 1)} = {}
    BY <1>1
  <2> QED  BY <1>1, <1>3, <2>1, <2>2, <2>5, <2>6 DEF FoundInv, WInv, m
<1>6. OutInv'
  BY <1>1, OutKept DEF WInv, Inner
<1> QED  BY <1>2, <1>4, <1>5, <1>6 DEF WInv

(* The row at `at` joins the account's list.                               *)
LEMMA FileRowStep ==
  ASSUME IInv, WInv, Query(FileWholeRow \/ JudgeSplit)
  PROVE  WInv'
<1>1. /\ pc' = "rows" /\ pc \in {"rows", "judge"} /\ job = "QUERY" /\ UNCHANGED pumpVars
      /\ UNCHANGED <<rows, cts, page, active, job, out, failed, turn, reply>>
      /\ Filing
      /\ \E ds : File(ds)
  BY DEF Query, FileWholeRow, JudgeSplit, Judging, Leave, flowVars, place, yield, batchVars,
     Filing, Waiting
<1>2. at \in DOMAIN rows
  <2>1. CASE pc = "rows"
    <3>1. at <= Len(rows)
      BY <2>1 DEF Query, FileWholeRow, JudgeSplit, Judging
    <3> QED  BY <1>1, <3>1 DEF WInv, RowsInv, IInv, TypeOK, ExecTypeOK
  <2>2. CASE pc = "judge"
    <3>1. req.kind = "s8118"
      BY <2>2 DEF Query, FileWholeRow, JudgeSplit, Judging
    <3> QED  BY <2>2, <3>1 DEF IInv, SplitInv
  <2> QED  BY <1>1, <2>1, <2>2
<1>3. PageWhole /\ rows \in Seq(Row) /\ found \in Seq(Execution) /\ Chunks \in Nat \ {0}
      /\ page \in Nat \ {0}
  BY <1>1, Typed, PumpAssumption DEF WInv, RowsInv, IInv, TypeOK, ExecTypeOK
<1>4. at \in 1..Chunks /\ rows[at].from.page = page
  BY <1>2, <1>3 DEF PageWhole
<1>5. PICK ds : /\ found' = Append(found, [acct |-> active, row |-> rows[at], details |-> ds])
                /\ at' = at + 1
  BY <1>1 DEF File
<1> DEFINE x == [acct |-> active, row |-> rows[at], details |-> ds]
           n == Len(found) + 1
<1>6. x.acct = active /\ x.row = rows[at]
  OBVIOUS
<1>7. found' = Append(found, x)
  BY <1>5
<1> HIDE DEF x
<1>8. /\ DOMAIN found' = DOMAIN found \cup {n} /\ found'[n] = x /\ Len(found') = Len(found) + 1
      /\ \A i \in DOMAIN found : found'[i] = found[i] /\ i < n
  BY <1>3, <1>7
<1>9. OrderInv' /\ AnswerInv' /\ KindInv'
  BY <1>1, StillOrdered DEF WInv, AnswerInv, KindInv, Waiting
<1>10. RowsInv'
  <2>1. PageWhole'
    BY <1>1, <1>3 DEF PageWhole
  <2> QED  BY <1>1, <1>3, <1>4, <1>5, <2>1 DEF RowsInv
<1>11. FoundInv'
  <2>1. \A i \in DOMAIN found' : found'[i].acct = active'
    BY <1>1, <1>6, <1>8 DEF WInv, FoundInv
  <2>2. Cells(found) = Grid(page - 1) \cup {<<page, rows[i].n>> : i \in 1..(at - 1)}
        /\ Len(found) = (page - 1) * Chunks + (at - 1)
    BY <1>1 DEF WInv, FoundInv
  <2>3. \A i \in DOMAIN found : found[i].row.from.page <= page
    <3> TAKE i \in DOMAIN found
    <3>1. <<found[i].row.from.page, found[i].row.n>> \in Cells(found)
      BY DEF Cells
    <3>2. \/ found[i].row.from.page \in 1..(page - 1)
          \/ found[i].row.from.page = page
      BY <2>2, <3>1 DEF Grid
    <3> QED  BY <1>3, <3>2
  <2>4. \A i, j \in DOMAIN found' : i < j => found'[i].row.from.page <= found'[j].row.from.page
    <3> TAKE i, j \in DOMAIN found'
    <3>1. CASE j \in DOMAIN found
      BY <1>3, <1>8, <3>1 DEF WInv, FoundInv
    <3>2. CASE j = n
      BY <1>3, <1>4, <1>6, <1>8, <2>3, <3>2
    <3> QED  BY <1>8, <3>1, <3>2
  <2>5. Cells(found)' = Cells(found) \cup {<<page, rows[at].n>>}
    BY <1>4, <1>6, <1>8 DEF Cells
  <2>6. {<<page, rows[i].n>> : i \in 1..((at + 1) - 1)}
          = {<<page, rows[i].n>> : i \in 1..(at - 1)} \cup {<<page, rows[at].n>>}
    <3>1. 1..((at + 1) - 1) = (1..(at - 1)) \cup {at}
      BY <1>4
    <3> QED  BY <3>1
  <2>7. Cells(found)' = Grid(page - 1) \cup {<<page, rows[i].n>> : i \in 1..((at + 1) - 1)}
    BY <2>2, <2>5, <2>6
  <2>8. Len(found') = (page - 1) * Chunks + ((at + 1) - 1)
    <3>1. (page - 1) * Chunks \in Nat
      BY <1>3, OneMore
    <3> DEFINE m == (page - 1) * Chunks
    <3> HIDE DEF m
    <3>2. Len(found') = m + ((at + 1) - 1)
      BY <1>4, <1>8, <2>2, <3>1 DEF m
    <3> QED  BY <3>2 DEF m
  <2>9. ~Asking'
    BY <1>1 DEF Asking, Waiting
  <2> QED  BY <1>1, <1>5, <2>1, <2>4, <2>7, <2>8, <2>9 DEF FoundInv, Grid
<1>12. OutInv'
  BY <1>1, OutKept DEF WInv, Inner
<1> QED  BY <1>9, <1>10, <1>11, <1>12 DEF WInv

(* All rows of the page are filed.                                         *)
LEMMA PageFiled ==
  ASSUME IInv, WInv, pc = "rows", at > Len(rows)
  PROVE  Len(found) = page * Chunks /\ Cells(found) = Grid(page)
<1>1. PageWhole /\ at \in 1..(Chunks + 1) /\ Chunks \in Nat \ {0} /\ page \in Nat \ {0}
  BY Typed, PumpAssumption DEF WInv, RowsInv, Filing
<1>2. at = Chunks + 1 /\ DOMAIN rows = 1..Chunks
  <2>1. rows \in Seq(Row)
    BY DEF IInv, TypeOK, ExecTypeOK
  <2> QED  BY <1>1, <2>1 DEF PageWhole
<1>3. Len(found) = (page - 1) * Chunks + (at - 1)
      /\ Cells(found) = Grid(page - 1) \cup {<<page, rows[i].n>> : i \in 1..(at - 1)}
  BY DEF WInv, FoundInv, Filing
<1>4. {<<page, rows[i].n>> : i \in 1..(at - 1)} = {page} \X (1..Chunks)
  <2>1. 1..(at - 1) = DOMAIN rows
    BY <1>1, <1>2
  <2>2. {rows[i].n : i \in DOMAIN rows} = 1..Chunks
    BY <1>1 DEF PageWhole
  <2>3. \A i \in DOMAIN rows : <<page, rows[i].n>> \in {page} \X (1..Chunks)
    BY <2>2
  <2>4. \A c \in {page} \X (1..Chunks) : \E i \in DOMAIN rows : c = <<page, rows[i].n>>
    <3> TAKE c \in {page} \X (1..Chunks)
    <3>1. PICK n \in 1..Chunks : c = <<page, n>>
      OBVIOUS
    <3>2. PICK i \in DOMAIN rows : rows[i].n = n
      BY <2>2
    <3> QED  BY <3>1, <3>2
  <2>5. {<<page, rows[i].n>> : i \in DOMAIN rows} = {page} \X (1..Chunks)
    BY <2>3, <2>4, Zenon
  <2> QED  BY <2>1, <2>5
<1>5. Grid(page) = Grid(page - 1) \cup ({page} \X (1..Chunks))
  <2>1. 1..page = (1..(page - 1)) \cup {page}
    BY <1>1
  <2> QED  BY <2>1 DEF Grid
<1>6. Len(found) = page * Chunks
  <2>1. (page - 1) * Chunks \in Nat /\ ((page - 1) + 1) * Chunks = (page - 1) * Chunks + Chunks
    BY <1>1, OneMore
  <2>2. (page - 1) + 1 = page
    BY <1>1
  <2> DEFINE m == (page - 1) * Chunks
             k == page * Chunks
  <2>3. k = m + Chunks
    BY <2>1, <2>2
  <2> HIDE DEF m, k
  <2>4. Len(found) = k
    BY <1>1, <1>2, <1>3, <2>1, <2>3 DEF m
  <2> QED  BY <2>4 DEF k
<1> QED  BY <1>3, <1>4, <1>5, <1>6

LEMMA NextPageWholeStep ==
  ASSUME IInv, BInv, WInv, Query(NextPage)
  PROVE  WInv'
<1>1. /\ pc = "rows" /\ pc' = "send" /\ at > Len(rows) /\ cts # 0 /\ page' = cts
      /\ job = "QUERY" /\ UNCHANGED pumpVars
      /\ UNCHANGED <<rows, active, found, job, out, failed, turn, reply>>
  BY DEF Query, NextPage, yield, batchVars
<1>2. OrderInv' /\ AnswerInv' /\ KindInv' /\ RowsInv'
  BY <1>1, StillOrdered DEF WInv, AnswerInv, KindInv, RowsInv, Filing, Waiting
<1>3. page' = page + 1 /\ page \in Nat
  BY <1>1, Typed DEF BInv, PageInv, Busy
<1>4. Len(found) = page * Chunks /\ Cells(found) = Grid(page)
  BY <1>1, PageFiled
<1>5. page' - 1 = page
  BY <1>3
<1>6. Cells(found)' = Cells(found)
  BY <1>1 DEF Cells
<1>7. FoundInv'
  <2>1. Len(found') = (page' - 1) * Chunks /\ Cells(found)' = Grid(page' - 1)
    BY <1>1, <1>4, <1>5, <1>6
  <2>2. ~Filing'
    BY <1>1 DEF Filing, Waiting
  <2> QED  BY <1>1, <2>1, <2>2 DEF WInv, FoundInv, Grid
<1>8. OutInv'
  BY <1>1, OutKept DEF WInv, Inner
<1> QED  BY <1>2, <1>7, <1>8 DEF WInv

-----------------------------------------------------------------------------
(* The end of an account.                                                  *)

(* The rows of the account go behind those of the others.                  *)
LEMMA RowsJoin ==
  ASSUME IInv, out' = out \o found, NEW a, RowsOf(a) = {},
         \A i \in DOMAIN found : found[i].acct = a
  PROVE  /\ \A i \in DOMAIN out : out'[i] = out[i] /\ i \in DOMAIN out'
         /\ \A i \in DOMAIN found : out'[Len(out) + i] = found[i]
         /\ RowsOf(a)' = {Len(out) + i : i \in DOMAIN found}
         /\ \A b : b # a => RowsOf(b)' = RowsOf(b)
         /\ Len(found) \in Nat /\ DOMAIN found = 1..Len(found) /\ Len(out) \in Nat
         /\ Cardinality(RowsOf(a)') = Len(found)
<1>1. /\ out \in Seq(Execution) /\ found \in Seq(Execution)
      /\ Len(out) \in Nat /\ Len(found) \in Nat
  BY DEF IInv, TypeOK, ExecTypeOK, SessionTypeOK
<1>2. DOMAIN out = 1..Len(out) /\ DOMAIN found = 1..Len(found)
  BY <1>1
<1>3. /\ DOMAIN out' = 1..(Len(out) + Len(found))
      /\ \A i \in 1..(Len(out) + Len(found)) :
           out'[i] = IF i <= Len(out) THEN out[i] ELSE found[i - Len(out)]
  BY <1>1
<1>4. \A i \in DOMAIN out : out'[i] = out[i] /\ i \in DOMAIN out'
  BY <1>1, <1>2, <1>3
<1>5. \A i \in DOMAIN found : out'[Len(out) + i] = found[i] /\ Len(out) + i \in DOMAIN out'
  BY <1>1, <1>2, <1>3
<1>6. \A k \in DOMAIN out' : k \in DOMAIN out \/ \E i \in DOMAIN found : k = Len(out) + i
  <2> TAKE k \in DOMAIN out'
  <2>1. k \in DOMAIN out \/ (k - Len(out) \in DOMAIN found /\ k = Len(out) + (k - Len(out)))
    BY <1>1, <1>2, <1>3
  <2> QED  BY <2>1
<1>7. RowsOf(a)' = {Len(out) + i : i \in DOMAIN found}
  BY <1>4, <1>5, <1>6 DEF RowsOf
<1>8. \A b : b # a => RowsOf(b)' = RowsOf(b)
  BY <1>4, <1>5, <1>6 DEF RowsOf
<1>9. Cardinality(RowsOf(a)') = Len(found)
  <2> DEFINE R == {Len(out) + i : i \in 1..Len(found)}
             f == [i \in 1..Len(found) |-> Len(out) + i]
  <2>1. f \in [1..Len(found) -> R] /\ \A k \in R : \E i \in 1..Len(found) : f[i] = k
    OBVIOUS
  <2>2. \A i, j \in 1..Len(found) : f[i] = f[j] => i = j
    BY <1>1
  <2> HIDE DEF f, R
  <2>3. f \in Bijection(1..Len(found), R)
    BY <2>1, <2>2 DEF Bijection, Injection, IsInjective, Surjection
  <2>4. Cardinality(R) = Cardinality(1..Len(found))
    BY <1>1, <2>3, UpTo, FS_Bijection DEF ExistsBijection
  <2> QED  BY <1>1, <1>2, <1>7, <2>4, UpTo DEF R
<1> QED  BY <1>1, <1>2, <1>4, <1>5, <1>7, <1>8, <1>9

(* Rows that stay where they were stay whole.                              *)
LEMMA WholeKept ==
  ASSUME NEW b, RowsOf(b)' = RowsOf(b), \A i \in DOMAIN out : out'[i] = out[i], WholeRows(b)
  PROVE  WholeRows(b)'
<1>1. \A i \in RowsOf(b) : out'[i] = out[i]
  BY DEF RowsOf
<1>2. {<<out'[i].row.from.page, out'[i].row.n>> : i \in RowsOf(b)}
        = {<<out[i].row.from.page, out[i].row.n>> : i \in RowsOf(b)}
  BY <1>1
<1> QED  BY <1>1, <1>2 DEF WholeRows

(* What an account that succeeded adds is whole.                           *)
LEMMA WholeJoined ==
  ASSUME IInv, FoundInv, out' = out \o found, NEW a, RowsOf(a) = {}, a = active,
         Len(found) = LastPage[a] * Chunks, Cells(found) = Grid(LastPage[a])
  PROVE  WholeRows(a)'
<1>1. /\ \A i \in DOMAIN found : out'[Len(out) + i] = found[i]
      /\ RowsOf(a)' = {Len(out) + i : i \in DOMAIN found}
      /\ Len(found) \in Nat /\ DOMAIN found = 1..Len(found) /\ Len(out) \in Nat
      /\ Cardinality(RowsOf(a)') = Len(found)
  BY RowsJoin DEF FoundInv
<1>2. {<<out'[k].row.from.page, out'[k].row.n>> : k \in RowsOf(a)'} = Cells(found)
  <2>1. \A k \in RowsOf(a)' : \E i \in DOMAIN found :
          <<out'[k].row.from.page, out'[k].row.n>> = <<found[i].row.from.page, found[i].row.n>>
    BY <1>1
  <2>2. \A i \in DOMAIN found : \E k \in RowsOf(a)' :
          <<out'[k].row.from.page, out'[k].row.n>> = <<found[i].row.from.page, found[i].row.n>>
    BY <1>1
  <2> DEFINE filed == {<<out'[k].row.from.page, out'[k].row.n>> : k \in RowsOf(a)'}
  <2>3. \A c \in filed : c \in Cells(found)
    <3> TAKE c \in filed
    <3>1. PICK k \in RowsOf(a)' : c = <<out'[k].row.from.page, out'[k].row.n>>
      OBVIOUS
    <3>2. PICK i \in DOMAIN found :
            <<out'[k].row.from.page, out'[k].row.n>> = <<found[i].row.from.page, found[i].row.n>>
      BY <2>1
    <3> QED  BY <3>1, <3>2 DEF Cells
  <2>4. \A c \in Cells(found) : c \in filed
    <3> TAKE c \in Cells(found)
    <3>1. PICK i \in DOMAIN found : c = <<found[i].row.from.page, found[i].row.n>>
      BY DEF Cells
    <3>2. PICK k \in RowsOf(a)' :
            <<out'[k].row.from.page, out'[k].row.n>> = <<found[i].row.from.page, found[i].row.n>>
      BY <2>2
    <3> QED  BY <3>1, <3>2
  <2> HIDE DEF filed
  <2>5. filed = Cells(found)
    BY <2>3, <2>4, Zenon
  <2> QED  BY <2>5 DEF filed
<1>3. \A k, l \in RowsOf(a)' : k < l => out'[k].row.from.page <= out'[l].row.from.page
  <2> TAKE k, l \in RowsOf(a)'
  <2>1. PICK i \in DOMAIN found : k = Len(out) + i
    BY <1>1
  <2>2. PICK j \in DOMAIN found : l = Len(out) + j
    BY <1>1
  <2>3. k < l => i < j
    BY <1>1, <2>1, <2>2
  <2> QED  BY <1>1, <2>1, <2>2, <2>3 DEF FoundInv
<1> QED  BY <1>1, <1>2, <1>3 DEF WholeRows

(* The account whose query ends is none of those whose query has ended.    *)
LEMMA NoneYet ==
  ASSUME IInv, WInv, EachOnce, job = "QUERY", pc \in Inner
  PROVE  /\ Past = 1..(turn - 1) /\ reply = "none"
         /\ \A i \in Past : Batch[i] # Batch[turn] /\ i \in DOMAIN Batch
         /\ RowsOf(Batch[turn]) = {}
<1>1. Past = 1..(turn - 1) /\ reply = "none"
  BY DEF Past, WInv, OutInv, Inner
<1>2. DOMAIN Batch = 1..Len(Batch) /\ turn \in 1..Len(Batch) /\ Len(Batch) \in Nat
  BY Typed, SessionAssumption
<1>3. \A i \in Past : Batch[i] # Batch[turn] /\ i \in DOMAIN Batch
  BY <1>1, <1>2 DEF EachOnce
<1>4. RowsOf(Batch[turn]) = {}
  BY <1>3 DEF WInv, OutInv, RowsOf
<1> QED  BY <1>1, <1>3, <1>4

LEMMA AccountDoneWholeStep ==
  ASSUME IInv, BInv, WInv, EachOnce, AccountDone
  PROVE  WInv'
<1>1. /\ pc \in {"judge", "rows"} /\ pc' = "next" /\ UNCHANGED pumpVars
      /\ req' = NoRequest /\ at' = 0 /\ page' = 1 /\ found' = <<>>
      /\ UNCHANGED <<active, job, turn, reply>>
      /\ \/ pc = "rows" /\ at > Len(rows) /\ cts = 0 /\ out' = out \o found /\ failed' = failed
         \/ failed' = failed \cup {active} /\ out' = out /\ job = "QUERY"
         \/ job = "BALANCE"
  BY DEF AccountDone, ExecSucceeded, BalanceSucceeded, ExecFailed, BalanceFailed, Judging, Leave,
     FirstPage, WInv, KindInv, Waiting
<1>2. OrderInv' /\ AnswerInv' /\ KindInv' /\ RowsInv'
  BY <1>1, StillOrdered DEF WInv, AnswerInv, KindInv, RowsInv, Filing, Waiting
<1>3. FoundInv'
  BY <1>1 DEF FoundInv, Asking, Filing, Waiting
<1>4. OutInv'
  <2>1. reply' = "none" /\ pc' # "export"
    BY <1>1 DEF WInv, OutInv
  <2> SUFFICES ASSUME job = "QUERY"
               PROVE  /\ failed' \subseteq {Batch[i] : i \in Past'}
                      /\ \A k \in DOMAIN out' : out'[k].acct \in {Batch[i] : i \in Past'}
                      /\ \A i \in Past' : IF Batch[i] \in failed' THEN RowsOf(Batch[i])' = {}
                                                                ELSE WholeRows(Batch[i])'
    BY <1>1, <2>1 DEF OutInv
  <2>2. PICK a : a = Batch[turn]
    OBVIOUS
  <2>3. a = active /\ RowsOf(a) = {} /\ Past = 1..(turn - 1) /\ Past' = 1..turn
        /\ \A i \in Past : Batch[i] # a
    BY <1>1, <2>2, NoneYet DEF Inner, BInv, PageInv, Resting, Past
  <2>4. Past' = Past \cup {turn} /\ turn \in Past' /\ \A i \in Past' : Batch[i] # a => i \in Past
    <3>1. 1..turn = (1..(turn - 1)) \cup {turn}
      BY Typed
    <3>2. Past' = Past \cup {turn}
      BY <2>3, <3>1
    <3> QED  BY <2>2, <3>2
  <2>5. /\ failed \subseteq {Batch[i] : i \in Past}
        /\ \A k \in DOMAIN out : out[k].acct \in {Batch[i] : i \in Past}
        /\ \A i \in Past : IF Batch[i] \in failed THEN RowsOf(Batch[i]) = {}
                                                 ELSE WholeRows(Batch[i])
    BY DEF WInv, OutInv
  <2>6. CASE pc = "rows" /\ at > Len(rows) /\ cts = 0 /\ out' = out \o found /\ failed' = failed
    <3>1. Len(found) = page * Chunks /\ Cells(found) = Grid(page)
      BY <2>6, PageFiled
    <3>2. page = LastPage[a]
      <4>1. PageWhole /\ page <= LastPage[a]
        BY <2>3, <2>6 DEF WInv, RowsInv, Filing, BInv, PageInv, Resting
      <4>2. page \in Nat /\ LastPage[a] \in Nat
        BY <2>2, Typed, ExecAssumption
      <4> QED  BY <2>3, <2>6, <4>1, <4>2 DEF PageWhole
    <3>3. WholeRows(a)'
      BY <2>3, <2>6, <3>1, <3>2, WholeJoined DEF WInv
    <3>4. \A i \in DOMAIN found : found[i].acct = a
      BY <2>3 DEF WInv, FoundInv
    <3>5. /\ \A i \in DOMAIN out : out'[i] = out[i]
          /\ \A b : b # a => RowsOf(b)' = RowsOf(b)
      BY <2>3, <2>6, <3>4, RowsJoin
    <3>6. \A k \in DOMAIN out' : out'[k].acct \in {Batch[i] : i \in Past'}
      <4> TAKE k \in DOMAIN out'
      <4>1. CASE out'[k].acct = a
        BY <2>2, <2>4, <4>1
      <4>2. CASE out'[k].acct # a
        <5>1. PICK b : b = out'[k].acct
          OBVIOUS
        <5>2. k \in RowsOf(b)' /\ RowsOf(b)' = RowsOf(b)
          BY <3>5, <4>2, <5>1 DEF RowsOf
        <5>3. k \in DOMAIN out /\ out[k].acct = out'[k].acct
          BY <5>1, <5>2 DEF RowsOf
        <5> QED  BY <2>4, <2>5, <5>3
      <4> QED  BY <4>1, <4>2
    <3>7. ASSUME NEW i \in Past'
          PROVE  IF Batch[i] \in failed' THEN RowsOf(Batch[i])' = {} ELSE WholeRows(Batch[i])'
      <4>1. CASE Batch[i] = a
        <5>1. a \notin failed'
          BY <2>3, <2>5, <2>6
        <5> QED  BY <3>3, <4>1, <5>1
      <4>2. CASE Batch[i] # a
        <5>1. i \in Past /\ RowsOf(Batch[i])' = RowsOf(Batch[i])
          BY <2>4, <3>5, <4>2
        <5>2. WholeRows(Batch[i]) => WholeRows(Batch[i])'
          BY <3>5, <5>1, WholeKept
        <5> QED  BY <2>5, <2>6, <5>1, <5>2
      <4> QED  BY <4>1, <4>2
    <3> QED  BY <2>4, <2>5, <2>6, <3>6, <3>7
  <2>7. CASE failed' = failed \cup {active} /\ out' = out
    <3>1. \A b : RowsOf(b)' = RowsOf(b) /\ (WholeRows(b)' <=> WholeRows(b))
      BY <2>7 DEF RowsOf, WholeRows
    <3>2. ASSUME NEW i \in Past'
          PROVE  IF Batch[i] \in failed' THEN RowsOf(Batch[i])' = {} ELSE WholeRows(Batch[i])'
      <4>1. CASE Batch[i] = a
        BY <2>3, <2>7, <3>1, <4>1
      <4>2. CASE Batch[i] # a
        BY <2>3, <2>4, <2>5, <2>7, <3>1, <4>2
      <4> QED  BY <4>1, <4>2
    <3>3. failed' \subseteq {Batch[i] : i \in Past'}
      BY <2>2, <2>3, <2>4, <2>5, <2>7
    <3>4. \A k \in DOMAIN out' : out'[k].acct \in {Batch[i] : i \in Past'}
      BY <2>4, <2>5, <2>7
    <3> QED  BY <3>2, <3>3, <3>4
  <2> QED  BY <1>1, <2>6, <2>7
<1> QED  BY <1>2, <1>3, <1>4 DEF WInv

-----------------------------------------------------------------------------
(* The steps between accounts and around a command.                        *)

LEMMA ActivateWholeStep ==
  ASSUME IInv, BInv, WInv, Activate
  PROVE  WInv'
<1>1. /\ pc = "activate" /\ pc' = "send" /\ UNCHANGED pumpVars
      /\ UNCHANGED <<rows, cts, page, found, at, job, out, failed, turn, reply>>
  BY DEF Activate, execVars, place, yield, batchVars
<1>2. OrderInv' /\ AnswerInv' /\ KindInv' /\ RowsInv'
  BY <1>1, StillOrdered DEF WInv, AnswerInv, KindInv, RowsInv, Filing, Waiting
<1>3. found = <<>> /\ page = 1
  BY <1>1 DEF IInv, FreshInv, BInv, PageInv, Resting
<1>4. FoundInv'
  <2>1. Chunks \in Nat
    BY PumpAssumption
  <2>2. Cells(found)' = {} /\ Grid(page' - 1) = {} /\ (page' - 1) * Chunks = 0 /\ Len(found') = 0
    BY <1>1, <1>3, <2>1 DEF Cells, Grid
  <2> QED  BY <1>1, <1>3, <2>2 DEF FoundInv, Filing, Waiting, Grid
<1>5. OutInv'
  BY <1>1, OutKept DEF WInv, Inner
<1> QED  BY <1>2, <1>4, <1>5 DEF WInv

(* An account that is not found is failed and has no row.                  *)
LEMMA RefuseWholeStep ==
  ASSUME IInv, BInv, WInv, EachOnce, RefuseAccount
  PROVE  WInv'
<1>1. /\ pc = "activate" /\ pc' = "next" /\ UNCHANGED pumpVars
      /\ UNCHANGED <<rows, cts, page, active, found, at, job, out, turn, reply>>
      /\ failed' = failed \cup {Batch[turn]}
  BY DEF RefuseAccount, execVars, place, yield
<1>2. OrderInv' /\ AnswerInv' /\ KindInv' /\ RowsInv'
  BY <1>1, StillOrdered DEF WInv, AnswerInv, KindInv, RowsInv, Filing, Waiting
<1>3. FoundInv'
  BY <1>1 DEF IInv, FreshInv, FoundInv, Asking, Filing, Waiting
<1>4. OutInv'
  <2>1. reply' = "none" /\ pc' # "export"
    BY <1>1 DEF WInv, OutInv
  <2> SUFFICES ASSUME job = "QUERY"
               PROVE  /\ failed' \subseteq {Batch[i] : i \in Past'}
                      /\ \A k \in DOMAIN out' : out'[k].acct \in {Batch[i] : i \in Past'}
                      /\ \A i \in Past' : IF Batch[i] \in failed' THEN RowsOf(Batch[i])' = {}
                                                                ELSE WholeRows(Batch[i])'
    BY <1>1, <2>1 DEF OutInv
  <2>2. PICK a : a = Batch[turn]
    OBVIOUS
  <2>3. RowsOf(a) = {} /\ Past = 1..(turn - 1) /\ Past' = 1..turn /\ \A i \in Past : Batch[i] # a
    BY <1>1, <2>2, NoneYet DEF Inner, Past
  <2>4. Past' = Past \cup {turn} /\ turn \in Past' /\ \A i \in Past' : Batch[i] # a => i \in Past
    <3>1. 1..turn = (1..(turn - 1)) \cup {turn}
      BY Typed
    <3>2. Past' = Past \cup {turn}
      BY <2>3, <3>1
    <3> QED  BY <2>2, <3>2
  <2>5. /\ failed \subseteq {Batch[i] : i \in Past}
        /\ \A k \in DOMAIN out : out[k].acct \in {Batch[i] : i \in Past}
        /\ \A i \in Past : IF Batch[i] \in failed THEN RowsOf(Batch[i]) = {}
                                                 ELSE WholeRows(Batch[i])
    BY DEF WInv, OutInv
  <2>6. \A b : RowsOf(b)' = RowsOf(b) /\ (WholeRows(b)' <=> WholeRows(b))
    BY <1>1 DEF RowsOf, WholeRows
  <2>7. ASSUME NEW i \in Past'
        PROVE  IF Batch[i] \in failed' THEN RowsOf(Batch[i])' = {} ELSE WholeRows(Batch[i])'
    BY <1>1, <2>2, <2>3, <2>4, <2>5, <2>6
  <2> QED  BY <1>1, <2>2, <2>3, <2>4, <2>5, <2>7
<1> QED  BY <1>2, <1>3, <1>4 DEF WInv

LEMMA BetweenWholeStep ==
  ASSUME IInv, WInv, NextAccount \/ Export
  PROVE  WInv'
<1>1. /\ pc \in {"next", "export"} /\ UNCHANGED pumpVars
      /\ UNCHANGED <<rows, cts, page, active, found, at, job, out, failed>>
      /\ \/ pc = "next" /\ pc' = "activate" /\ turn' = turn + 1 /\ UNCHANGED reply
         \/ pc = "next" /\ pc' = "export" /\ turn' = turn /\ UNCHANGED reply /\ ~(turn < Len(Batch))
         \/ pc = "export" /\ pc' = "idle" /\ turn' = turn /\ reply' \in {"ok", "error"}
  BY DEF NextAccount, Export, execVars, place, yield, batchVars
<1>2. OrderInv' /\ AnswerInv' /\ KindInv' /\ RowsInv'
  BY <1>1, StillOrdered DEF WInv, AnswerInv, KindInv, RowsInv, Filing, Waiting
<1>3. FoundInv'
  BY <1>1 DEF IInv, FreshInv, FoundInv, Asking, Filing, Waiting
<1>4. turn \in 1..Len(Batch) /\ Len(Batch) \in Nat /\ reply = "none"
  BY <1>1, Typed DEF WInv, OutInv
<1>5. Past' = Past
  BY <1>1, <1>4 DEF Past
<1>6. \A b : RowsOf(b)' = RowsOf(b) /\ (WholeRows(b)' <=> WholeRows(b))
  BY <1>1 DEF RowsOf, WholeRows
<1>7. OutInv'
  <2>1. /\ reply' # "none" => pc' = "idle"
        /\ pc' = "export" \/ reply' # "none" => turn' = Len(Batch)
    BY <1>1, <1>4 DEF WInv, OutInv
  <2> QED  BY <1>1, <1>5, <1>6, <2>1 DEF WInv, OutInv
<1> QED  BY <1>2, <1>3, <1>7 DEF WInv

LEMMA StartWholeStep ==
  ASSUME IInv, WInv, NEW j \in Jobs, StartCommand(j)
  PROVE  WInv'
<1>1. /\ pc = "idle" /\ pc' = "activate" /\ UNCHANGED pumpVars
      /\ UNCHANGED <<rows, cts, active, found, at>>
      /\ turn' = 1 /\ out' = <<>> /\ failed' = {} /\ reply' = "none"
  BY DEF StartCommand, place, yield
<1>2. OrderInv' /\ AnswerInv' /\ KindInv' /\ RowsInv'
  BY <1>1, StillOrdered DEF WInv, AnswerInv, KindInv, RowsInv, Filing, Waiting
<1>3. FoundInv'
  BY <1>1 DEF IInv, FreshInv, FoundInv, Asking, Filing, Waiting
<1>4. OutInv'
  <2>1. Past' = {}
    BY <1>1 DEF Past
  <2> QED  BY <1>1, <2>1 DEF OutInv
<1> QED  BY <1>2, <1>3, <1>4 DEF WInv

LEMMA WholeInit == Init => WInv
<1> SUFFICES ASSUME Init PROVE WInv
  OBVIOUS
<1>1. /\ queue = {} /\ pc = "idle" /\ found = <<>> /\ out = <<>> /\ failed = {} /\ job = "none"
      /\ reply = "none"
  BY DEF Init, PumpInit, ExecInit
<1> QED  BY <1>1 DEF WInv, OrderInv, KindInv, AnswerInv, RowsInv, FoundInv, OutInv, Asking, Filing,
            Waiting

(* A stutter.                                                              *)
LEMMA StillWhole ==
  ASSUME IInv, WInv, UNCHANGED vars
  PROVE  WInv'
<1>1. /\ UNCHANGED pumpVars /\ UNCHANGED <<pc, req, outcome, active>>
      /\ UNCHANGED <<rows, cts, page, found, at, job, out, failed, turn, reply>>
  BY DEF vars, flowVars, execVars, place, yield, batchVars
<1>2. Mine' = Mine /\ Open' = Open
  BY <1>1 DEF Mine, Open, pumpVars
<1>3. /\ OnceInv' <=> OnceInv
      /\ AllInv' <=> AllInv
  <2>1. \A b : Data(b)' = Data(b) /\ (Taken(b)' <=> Taken(b))
    BY <1>1, <1>2 DEF Data, Taken
  <2>2. Refusals' = Refusals
    BY <1>2 DEF Refusals
  <2> QED  BY <1>1, <1>2, <2>1, <2>2 DEF OnceInv, AllInv
<1>4. OrderInv' /\ AnswerInv' /\ KindInv'
  BY <1>1, <1>3, StillOrdered DEF WInv, AnswerInv, KindInv
<1>5. RowsInv'
  <2>1. PageWhole' <=> PageWhole
    BY <1>1 DEF PageWhole
  <2> QED  BY <1>1, <2>1 DEF WInv, RowsInv, Filing
<1>6. FoundInv'
  <2>1. Cells(found)' = Cells(found)
    BY <1>1 DEF Cells
  <2> QED  BY <1>1, <2>1 DEF WInv, FoundInv, Filing, Asking
<1>7. OutInv'
  <2>1. Past' = Past
    BY <1>1 DEF Past
  <2>2. \A b : RowsOf(b)' = RowsOf(b) /\ (WholeRows(b)' <=> WholeRows(b))
    BY <1>1 DEF RowsOf, WholeRows
  <2> QED  BY <1>1, <2>1, <2>2 DEF WInv, OutInv
<1> QED  BY <1>4, <1>5, <1>6, <1>7 DEF WInv

LEMMA WholeStep ==
  ASSUME OneCommand, KnownRejections, EachOnce, IInv, BInv, WInv, [Next]_vars
  PROVE  WInv'
<1>1. CASE \E j \in Jobs : StartCommand(j)
  BY <1>1, StartWholeStep
<1>2. CASE Serve
  <2>1. ASSUME NEW e \in queue, Exchange(ReceiveError(e)) \/ Exchange(IgnoreEvent(e))
        PROVE  WInv'
    BY <2>1, PassStep
  <2>2. ASSUME NEW e \in queue, Query(ExecEvent(e)) PROVE WInv'
    <3>1. \/ Query(ExecData(e)) \/ Query(ExecMessage(e)) \/ Query(ExecComplete(e))
          \/ Query(SplitData(e) \/ SplitMessage(e) \/ SplitComplete(e))
      BY <2>2 DEF ExecEvent, Query
    <3> QED  BY <3>1, TakeStep, RefusalStep, PageCompleteStep, PassStep
  <2>3. ASSUME Query(ExecStep) PROVE WInv'
    <3>1. \/ Query(SendExec) \/ Query(JudgePageDone) \/ Query(FileWholeRow \/ JudgeSplit)
          \/ Query(JudgeRebind \/ JudgeRetry) \/ Query(SendSplit) \/ Query(NextPage)
          \/ \E e \in queue : Query(ExecEvent(e))
      BY <2>3 DEF ExecStep, Query
    <3> QED
      BY <2>2, <3>1, AskPageWholeStep, JudgePageWholeStep, FileRowStep, AgainWholeStep,
         AskOtherStep, NextPageWholeStep
  <2>4. ASSUME AskBalance(BalanceStep) PROVE WInv'
    <3>1. AskBalance(SendBalance) \/ \E e \in queue : AskBalance(BalanceEvent(e))
      BY <2>4 DEF BalanceStep, AskBalance
    <3> QED  BY <3>1, AskOtherStep, PassStep
  <2> QED
    BY <1>2, <2>1, <2>3, <2>4, ActivateWholeStep, RefuseWholeStep, TimeOutWholeStep,
       AccountDoneWholeStep, BetweenWholeStep DEF Serve
<1>3. CASE Deliver
  BY <1>3, DeliverWholeStep
<1>4. CASE UNCHANGED vars
  BY <1>4, StillWhole
<1> QED  BY <1>1, <1>2, <1>3, <1>4 DEF Next

-----------------------------------------------------------------------------
(* All data collected is of the command being served.                      *)

HomeInv ==
  /\ \A i \in DOMAIN rows : rows[i].from.cmd = cmd
  /\ \A d \in details : d.cmd = cmd
  /\ \A i \in DOMAIN found : /\ found[i].row.from.cmd = cmd
                             /\ \A d \in found[i].details : d.cmd = cmd
  /\ \A i \in DOMAIN positions : positions[i].cmd = cmd
  /\ summary # NoRequest => summary.cmd = cmd
  /\ NoForeignRows

Collected == <<cmd, rows, details, found, positions, summary, out, balances>>

LEMMA HomeKept ==
  ASSUME HomeInv, UNCHANGED Collected
  PROVE  HomeInv'
BY DEF HomeInv, Collected, NoForeignRows

(* What is taken from the queue was asked for by the one command.          *)
LEMMA TakenIsHome ==
  ASSUME IInv, BInv, pc = "await", NEW e \in queue, ~IsConnectionEvent(e)
  PROVE  e.from.cmd = cmd
<1>1. e.from \in Issued
  BY DEF Issued
<1> QED  BY <1>1 DEF BInv, OriginInv

LEMMA TakeHomeStep ==
  ASSUME IInv, BInv, HomeInv, NEW e \in queue,
         \/ Query(ExecData(e)) \/ Query(SplitData(e)) \/ AskBalance(BalanceData(e))
  PROVE  HomeInv'
<1>1. /\ pc = "await" /\ e.code = "data" /\ cmd' = cmd /\ UNCHANGED <<found, out, balances>>
      /\ \/ rows' = rows \/ rows' = Append(rows, [from |-> e.from, n |-> e.block.n])
      /\ \/ details' = details \/ details' = details \cup {e.from}
      /\ \/ positions' = positions \/ positions' = Append(positions, e.from)
      /\ \/ summary' = summary \/ summary' = e.from
  BY DEF Query, ExecData, SplitData, AskBalance, BalanceData, Awaiting, flowVars, execVars, yield,
     balanceVars, batchVars
<1>2. e.from.cmd = cmd
  BY <1>1, TakenIsHome DEF IsConnectionEvent
<1>3. rows \in Seq(Row) /\ positions \in Seq(Request)
  BY DEF IInv, TypeOK, ExecTypeOK, BalanceTypeOK
<1>4. \A i \in DOMAIN rows' : rows'[i].from.cmd = cmd'
  <2> DEFINE x == [from |-> e.from, n |-> e.block.n]
  <2>1. x.from = e.from
    OBVIOUS
  <2> HIDE DEF x
  <2>2. CASE rows' = Append(rows, x)
    BY <1>1, <1>2, <1>3, <2>1, <2>2 DEF HomeInv
  <2>3. CASE rows' = rows
    BY <1>1, <2>3 DEF HomeInv
  <2> QED  BY <1>1, <2>2, <2>3 DEF x
<1>5. \A d \in details' : d.cmd = cmd'
  BY <1>1, <1>2 DEF HomeInv
<1>6. \A i \in DOMAIN positions' : positions'[i].cmd = cmd'
  <2>1. CASE positions' = Append(positions, e.from)
    BY <1>1, <1>2, <1>3, <2>1 DEF HomeInv
  <2>2. CASE positions' = positions
    BY <1>1, <2>2 DEF HomeInv
  <2> QED  BY <1>1, <2>1, <2>2
<1>7. summary' # NoRequest => summary'.cmd = cmd'
  BY <1>1, <1>2 DEF HomeInv
<1> QED  BY <1>1, <1>4, <1>5, <1>6, <1>7 DEF HomeInv, NoForeignRows

(* An attempt begins without rows; a row that is filed keeps its origin.   *)
LEMMA FileHomeStep ==
  ASSUME IInv, HomeInv, Query(SendExec) \/ Query(FileWholeRow \/ JudgeSplit)
  PROVE  HomeInv'
<1>1. UNCHANGED <<cmd, positions, summary, out, balances>>
  BY DEF Query, SendExec, FileWholeRow, JudgeSplit, Begin, Leave, flowVars, balanceVars, batchVars
<1>2. CASE Query(SendExec)
  <2>1. rows' = <<>> /\ UNCHANGED <<found, details>>
    BY <1>2 DEF Query, SendExec
  <2> QED  BY <1>1, <2>1 DEF HomeInv, NoForeignRows
<1>3. CASE Query(FileWholeRow \/ JudgeSplit)
  <2>1. rows' = rows /\ \E ds \in SUBSET details : File(ds)
    BY <1>3 DEF Query, FileWholeRow, JudgeSplit, yield
  <2>2. PICK ds \in SUBSET details :
          /\ found' = Append(found, [acct |-> active, row |-> rows[at], details |-> ds])
          /\ details' = {}
    BY <2>1 DEF File
  <2>3. at \in DOMAIN rows
    <3>1. CASE Query(FileWholeRow)
      BY <3>1 DEF Query, FileWholeRow, IInv, TypeOK, ExecTypeOK, SplitInv
    <3>2. CASE Query(JudgeSplit)
      BY <3>2 DEF Query, JudgeSplit, Judging, IInv, SplitInv
    <3> QED  BY <1>3, <3>1, <3>2 DEF Query
  <2> DEFINE x == [acct |-> active, row |-> rows[at], details |-> ds]
  <2>4. x.row.from.cmd = cmd /\ \A d \in x.details : d.cmd = cmd
    BY <2>2, <2>3 DEF HomeInv
  <2>5. found \in Seq(Execution) /\ found' = Append(found, x)
    BY <2>2 DEF IInv, TypeOK, ExecTypeOK
  <2> HIDE DEF x
  <2>6. \A i \in DOMAIN found' : /\ found'[i].row.from.cmd = cmd
                                 /\ \A d \in found'[i].details : d.cmd = cmd
    BY <2>4, <2>5 DEF HomeInv
  <2> QED  BY <1>1, <2>1, <2>2, <2>6 DEF HomeInv, NoForeignRows
<1> QED  BY <1>2, <1>3

LEMMA AccountDoneHomeStep ==
  ASSUME IInv, HomeInv, AccountDone
  PROVE  HomeInv'
<1>1. /\ cmd' = cmd /\ rows' = <<>> /\ details' = {} /\ found' = <<>>
      /\ positions' = <<>> /\ summary' = NoRequest
      /\ out' = out \/ out' = out \o found
      /\ \/ balances' = balances
         \/ /\ summary # NoRequest
            /\ balances' = Append(balances, [acct |-> active, positions |-> positions,
                                            summary |-> summary])
  BY DEF AccountDone, FirstPage, BalanceStart, Leave, BalanceSucceeded
<1>2. out \in Seq(Execution) /\ found \in Seq(Execution) /\ balances \in Seq(Balance)
  BY DEF IInv, TypeOK, ExecTypeOK, SessionTypeOK
<1>3. \A i \in DOMAIN out' : /\ out'[i].row.from.cmd = cmd
                             /\ \A d \in out'[i].details : d.cmd = cmd
  <2>1. CASE out' = out
    BY <2>1 DEF HomeInv, NoForeignRows
  <2>2. CASE out' = out \o found
    <3>1. \A i \in DOMAIN out' : (\E k \in DOMAIN out : out'[i] = out[k])
                                 \/ \E k \in DOMAIN found : out'[i] = found[k]
      <4> TAKE i \in DOMAIN out'
      <4>1. CASE i \in DOMAIN out
        BY <1>2, <2>2, <4>1
      <4>2. CASE i \notin DOMAIN out
        <5>1. i - Len(out) \in DOMAIN found /\ out'[i] = found[i - Len(out)]
          BY <1>2, <2>2, <4>2
        <5> QED  BY <5>1
      <4> QED  BY <4>1, <4>2
    <3> QED  BY <3>1 DEF HomeInv, NoForeignRows
  <2> QED  BY <1>1, <2>1, <2>2
<1>4. \A i \in DOMAIN balances' :
        /\ balances'[i].summary.cmd = cmd
        /\ \A k \in DOMAIN balances'[i].positions : balances'[i].positions[k].cmd = cmd
  <2> DEFINE b == [acct |-> active, positions |-> positions, summary |-> summary]
  <2>1. CASE balances' = balances
    BY <2>1 DEF HomeInv, NoForeignRows
  <2>2. CASE summary # NoRequest /\ balances' = Append(balances, b)
    <3>1. b.summary.cmd = cmd /\ \A k \in DOMAIN b.positions : b.positions[k].cmd = cmd
      BY <2>2 DEF HomeInv
    <3> HIDE DEF b
    <3> QED  BY <1>2, <2>2, <3>1 DEF HomeInv, NoForeignRows
  <2> QED  BY <1>1, <2>1, <2>2
<1> QED  BY <1>1, <1>3, <1>4 DEF HomeInv, NoForeignRows

LEMMA StartHomeStep ==
  ASSUME IInv, HomeInv, NEW j \in Jobs, StartCommand(j)
  PROVE  HomeInv'
<1>1. /\ rows' = rows /\ details' = details /\ found' = found /\ positions' = positions
      /\ summary' = summary /\ out' = <<>> /\ balances' = <<>> /\ pc = "idle"
  BY DEF StartCommand, yield
<1>2. rows = <<>> /\ found = <<>> /\ details = {} /\ positions = <<>> /\ summary = NoRequest
  BY <1>1 DEF IInv, FreshInv
<1> QED  BY <1>1, <1>2 DEF HomeInv, NoForeignRows

LEMMA HomeStep ==
  ASSUME IInv, BInv, HomeInv, [Next]_vars
  PROVE  HomeInv'
<1>1. CASE \E j \in Jobs : StartCommand(j)
  BY <1>1, StartHomeStep
<1>2. CASE Serve
  <2>1. ASSUME NEW e \in queue, Exchange(ReceiveError(e)) \/ Exchange(IgnoreEvent(e))
        PROVE  HomeInv'
    BY <2>1, HomeKept
    DEF Exchange, ReceiveError, IgnoreEvent, GiveUp, flowVars, execVars, yield, balanceVars,
        batchVars, Collected
  <2>2. CASE Exchange(TimeOut) \/ Exchange(DrainTurn)
    BY <2>2, HomeKept
    DEF Exchange, TimeOut, DrainTurn, GiveUp, execVars, yield, balanceVars, batchVars, Collected
  <2>3. ASSUME NEW e \in queue, Query(ExecEvent(e)) PROVE HomeInv'
    <3>1. CASE Query(ExecData(e)) \/ Query(SplitData(e))
      BY <3>1, TakeHomeStep
    <3>2. CASE Query(ExecMessage(e) \/ ExecComplete(e) \/ SplitMessage(e) \/ SplitComplete(e))
      BY <3>2, HomeKept
      DEF Query, ExecMessage, ExecComplete, SplitMessage, SplitComplete, GiveUp, Conclude, flowVars,
          execVars, yield, balanceVars, batchVars, Collected
    <3> QED  BY <2>3, <3>1, <3>2 DEF ExecEvent, Query
  <2>4. ASSUME Query(ExecStep) PROVE HomeInv'
    <3>1. CASE Query(SendExec) \/ Query(FileWholeRow \/ JudgeSplit)
      BY <3>1, FileHomeStep
    <3>2. CASE Query(JudgePageDone \/ JudgeRebind \/ JudgeRetry \/ SendSplit \/ NextPage)
      <4>1. UNCHANGED <<cmd, rows, found, positions, summary, out, balances, details>>
        BY <3>2
        DEF Query, JudgePageDone, JudgeRebind, JudgeRetry, SendSplit, NextPage, Leave, Begin, yield,
            balanceVars, batchVars
      <4> QED  BY <4>1, HomeKept DEF Collected
    <3> QED  BY <2>3, <2>4, <3>1, <3>2 DEF ExecStep, Query
  <2>5. ASSUME AskBalance(BalanceStep) PROVE HomeInv'
    <3>1. CASE AskBalance(SendBalance)
      BY <3>1, HomeKept
      DEF AskBalance, SendBalance, Begin, execVars, yield, batchVars, Collected
    <3>2. ASSUME NEW e \in queue, AskBalance(BalanceEvent(e)) PROVE HomeInv'
      <4>1. CASE AskBalance(BalanceData(e))
        BY <4>1, TakeHomeStep
      <4>2. CASE AskBalance(BalanceMessage(e) \/ BalanceComplete(e))
        BY <4>2, HomeKept
        DEF AskBalance, BalanceMessage, BalanceComplete, Conclude, flowVars, execVars, yield,
            balanceVars, batchVars, Collected
      <4> QED  BY <3>2, <4>1, <4>2 DEF BalanceEvent, AskBalance
    <3> QED  BY <2>5, <3>1, <3>2 DEF BalanceStep, AskBalance
  <2>6. CASE Activate \/ RefuseAccount \/ NextAccount \/ Export
    BY <2>6, HomeKept
    DEF Activate, RefuseAccount, NextAccount, Export, execVars, yield, balanceVars, batchVars,
        Collected
  <2> QED  BY <1>2, <2>1, <2>2, <2>4, <2>5, <2>6, AccountDoneHomeStep DEF Serve
<1>3. CASE Deliver
  BY <1>3, HomeKept DEF Deliver, flowVars, execVars, yield, balanceVars, batchVars, Collected
<1>4. CASE UNCHANGED vars
  BY <1>4, HomeKept DEF vars, flowVars, execVars, yield, balanceVars, batchVars, Collected
<1> QED  BY <1>1, <1>2, <1>3, <1>4 DEF Next

-----------------------------------------------------------------------------
(* The theorems.                                                           *)

(* However often the broker refuses, leaves unanswered or answers late,    *)
(* the document of a QUERY names an account in errors[] and has no row of  *)
(* it, or has every row of each of its pages exactly once and in order.    *)
THEOREM AccountsAreWhole ==
  OneCommand /\ KnownRejections /\ EachOnce => (Spec => []WholeAccounts)
<1> SUFFICES ASSUME OneCommand, KnownRejections, EachOnce PROVE Spec => []WholeAccounts
  OBVIOUS
<1>1. IInv /\ BInv /\ [Next]_vars => BInv'
  BY BudgetStep
<1>2. IInv /\ BInv /\ WInv /\ [Next]_vars => WInv'
  BY WholeStep
<1>3. IInv /\ WInv => WholeAccounts
  <2> SUFFICES ASSUME IInv, WInv, job = "QUERY", reply = "ok", NEW i \in DOMAIN Batch
               PROVE  LET mine == RowsOf(Batch[i])
                      IN  IF Batch[i] \in failed THEN mine = {}
                          ELSE /\ Cardinality(mine) = LastPage[Batch[i]] * Chunks
                               /\ {<<out[k].row.from.page, out[k].row.n>> : k \in mine}
                                    = (1..LastPage[Batch[i]]) \X (1..Chunks)
                               /\ \A k, l \in mine :
                                    k < l => out[k].row.from.page <= out[l].row.from.page
    BY DEF WholeAccounts
  <2>1. turn = Len(Batch) /\ DOMAIN Batch = 1..Len(Batch)
    BY SessionAssumption DEF WInv, OutInv
  <2>2. i \in Past
    BY <2>1 DEF Past
  <2> QED  BY <2>2 DEF WInv, OutInv, WholeRows, Grid
<1>4. Init => BInv /\ WInv
  BY BudgetInit, WholeInit
<1> QED  BY Inductive, <1>1, <1>2, <1>3, <1>4, PTL DEF Spec

(* A process that serves one command files no data of another: what the    *)
(* run `foreign` finds takes a session.                                    *)
THEOREM NothingForeign == OneCommand => (Spec => []NoForeignRows)
<1> SUFFICES ASSUME OneCommand PROVE Spec => []NoForeignRows
  OBVIOUS
<1>1. IInv /\ BInv /\ [Next]_vars => BInv'
  BY BudgetStep
<1>2. IInv /\ BInv /\ HomeInv /\ [Next]_vars => HomeInv'
  BY HomeStep
<1>3. HomeInv => NoForeignRows
  BY DEF HomeInv
<1>4. Init => BInv /\ HomeInv
  <2>1. Init => HomeInv
    BY DEF Init, ExecInit, BalanceInit, HomeInv, NoForeignRows
  <2> QED  BY <2>1, BudgetInit
<1> QED  BY Inductive, <1>1, <1>2, <1>3, <1>4, PTL DEF Spec
=============================================================================
