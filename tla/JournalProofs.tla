--------------------------- MODULE JournalProofs ---------------------------
(***************************************************************************)
(* What Journal guarantees for every set of days, accounts, order numbers  *)
(* and texts: its types, that no reason of an older version is lost, and   *)
(* that it implements ReasonBook.                                          *)
(***************************************************************************)
EXTENDS Journal, TLAPS

(* A program past its RENAME is the only one, and the renamed table is     *)
(* there; past its INSERT the rows of the older version are in `reasons`.  *)
OnlyOne ==
  \A p \in Programs : step[p] \in {"create", "copy", "drop"} =>
    /\ legacy # NoTable
    /\ \A q \in Programs : step[q] \in {"create", "copy", "drop"} => q = p

CopiedInv ==
  \A p \in Programs : step[p] = "drop" =>
    /\ reasons # NoTable
    /\ \A d \in Days, n \in Numbers : OldRows[<<d, n>>] # NoRow =>
         reasons.rows[<<d, NoAccount, n>>] = OldRows[<<d, n>>]

KeptInv == TypeOK /\ OnlyOne /\ CopiedInv /\ OldReasonsKept

-----------------------------------------------------------------------------

LEMMA KeyParts ==
  ASSUME NEW k \in Keys
  PROVE  k[1] \in Days /\ k[2] \in Accounts \cup {NoAccount} /\ k[3] \in Numbers
         /\ <<k[1], k[2], k[3]>> = k
  BY DEF Keys

LEMMA OldKey ==
  ASSUME NEW d \in Days, NEW n \in Numbers
  PROVE  <<d, NoAccount, n>> \in Keys
  BY DEF Keys

LEMMA TradeKey ==
  ASSUME NEW d \in Days, NEW o \in Orders
  PROVE  /\ Key(d, o) \in Keys
         /\ \A n \in Numbers, x \in Days : Key(d, o) # <<x, NoAccount, n>>
  BY SchemaAssumption DEF Keys, Key, Orders

LEMMA EmptyType == Empty \in Rows
  BY DEF Empty, Rows

LEMMA CreatedType == Created \in [shape : {"old", "new"}, rows : Rows]
  BY EmptyType DEF Created

LEMMA OldType == Old \in [shape : {"old", "new"}, rows : Rows]
<1>1. ASSUME NEW k \in Keys
      PROVE  (IF k[2] = NoAccount THEN OldRows[<<k[1], k[3]>>] ELSE NoRow) \in Texts \cup {NoRow}
  <2>1. k[1] \in Days /\ k[3] \in Numbers
    BY <1>1, KeyParts
  <2>2. <<k[1], k[3]>> \in Days \X Numbers
    BY <2>1
  <2> QED
    BY <2>2, SchemaAssumption
<1> QED
  BY <1>1 DEF Old, Rows

LEMMA CopiedType ==
  ASSUME reasons \in [shape : {"old", "new"}, rows : Rows], legacy \in Rows
  PROVE  Copied \in Rows
<1>1. ASSUME NEW k \in Keys, Sources(k[1], k[3]) # {}
      PROVE  legacy[<<k[1], CHOOSE a \in Sources(k[1], k[3]) : TRUE, k[3]>>] \in Texts \cup {NoRow}
  <2>1. k[1] \in Days /\ k[3] \in Numbers
    BY KeyParts
  <2>2. (CHOOSE a \in Sources(k[1], k[3]) : TRUE) \in Accounts \cup {NoAccount}
    BY <1>1 DEF Sources
  <2>3. <<k[1], CHOOSE a \in Sources(k[1], k[3]) : TRUE, k[3]>> \in Keys
    BY <2>1, <2>2 DEF Keys
  <2> QED
    BY <2>3 DEF Rows
<1> QED
  BY <1>1 DEF Copied, Rows

LEMMA SavedType ==
  ASSUME TypeOK, TableReady, NEW d \in Days, NEW o \in Orders
  PROVE  Saved(d, o) \in Texts
<1>1. reasons.rows \in Rows
  BY DEF TypeOK, SchemaTypeOK, TableReady
<1>2. reasons.rows[Key(d, o)] \in Texts \cup {NoRow}
  BY <1>1, TradeKey DEF Rows
<1> QED
  BY <1>2, SchemaAssumption DEF Saved

LEMMA PageType ==
  ASSUME NEW d \in Days, NEW S \in SUBSET Orders, NEW f \in [S -> Texts]
  PROVE  Page(d, f) \in Pages
<1>1. Page(d, f) \in [day : Days, reason : [S -> Texts]]
  BY DEF Page
<1> QED
  BY <1>1 DEF Pages

LEMMA PageFields ==
  ASSUME NEW x \in Pages
  PROVE  /\ x.day \in Days
         /\ DOMAIN x.reason \in SUBSET Orders
         /\ x.reason \in [DOMAIN x.reason -> Texts]
         /\ x = Page(x.day, x.reason)
  BY DEF Pages, Page

LEMMA MergedType ==
  ASSUME TypeOK, TableReady, NEW d \in Days, NEW shown \in SUBSET Executed[d]
  PROVE  Page(d, Merged(d, shown)) \in Pages
<1>1. shown \in SUBSET Orders
  BY JournalAssumption DEF Orders
<1>2. Merged(d, shown) \in [shown -> Texts]
  BY <1>1, SavedType DEF Merged
<1> QED
  BY <1>1, <1>2, PageType

LEMMA SaveType ==
  ASSUME TypeOK, TableReady, NEW d \in Days, NEW o \in Orders, NEW r \in Texts, Save(d, o, r)
  PROVE  reasons' \in [shape : {"old", "new"}, rows : Rows]
<1>1. reasons \in [shape : {"old", "new"}, rows : Rows]
  BY DEF TypeOK, SchemaTypeOK, TableReady
<1>2. [reasons.rows EXCEPT ![Key(d, o)] = r] \in Rows
  BY <1>1 DEF Rows
<1> QED
  BY <1>1, <1>2 DEF Save

LEMMA StartType ==
  ASSUME TypeOK, NEW p \in Programs, Start(p)
  PROVE  SchemaTypeOK'
<1> USE DEF TypeOK, SchemaTypeOK, Goto, Raises, Migrating
<1>1. CASE ReadSchema(p)
  BY <1>1 DEF ReadSchema
<1>2. CASE RenameTable(p)
  BY <1>2 DEF RenameTable
<1>3. CASE CreateTable(p)
  BY <1>3, CreatedType DEF CreateTable
<1>4. CASE CopyRows(p)
  <2>1. CASE Raises(p)
    BY <1>4, <2>1 DEF CopyRows
  <2>2. CASE ~Raises(p)
    <3>1. reasons # NoTable /\ legacy # NoTable
      BY <1>4, <2>2 DEF CopyRows
    <3>2. Copied \in Rows
      BY <3>1, CopiedType
    <3>3. reasons' = [reasons EXCEPT !.rows = Copied] /\ legacy' = legacy
          /\ step' = [step EXCEPT ![p] = "drop"]
      BY <1>4, <2>2, <3>1 DEF CopyRows
    <3> QED
      BY <3>1, <3>2, <3>3
  <2> QED
    BY <2>1, <2>2
<1>5. CASE DropLegacy(p)
  BY <1>5 DEF DropLegacy
<1>6. CASE EnsureTable(p)
  BY <1>6, CreatedType DEF EnsureTable
<1> QED
  BY <1>1, <1>2, <1>3, <1>4, <1>5, <1>6 DEF Start

LEMMA LoadType ==
  ASSUME TypeOK, NEW d \in Days, Load(d)
  PROVE  TypeOK'
<1>1. SchemaTypeOK'
  BY DEF TypeOK, SchemaTypeOK, Load, schemaVars
<1>2. page' \in Pages \cup {NoPage}
  BY MergedType DEF Load, TypeOK
<1> QED
  BY <1>1, <1>2 DEF TypeOK, Load

LEMMA EditType ==
  ASSUME TypeOK, EditReason
  PROVE  TypeOK'
<1>1. PICK o \in DOMAIN page.reason, r \in Texts :
        /\ page' = [page EXCEPT !.reason[o] = r]
        /\ \/ TableReady /\ Save(field, o, r)
           \/ UNCHANGED reasons
  BY DEF EditReason
<1>2. page \in Pages
  BY DEF EditReason, AtWork, TypeOK
<1>3. o \in Orders
  BY <1>2, PageFields
<1>4. page' = Page(page.day, [page.reason EXCEPT ![o] = r])
  BY <1>1, <1>2, PageFields DEF Page
<1>5. [page.reason EXCEPT ![o] = r] \in [DOMAIN page.reason -> Texts]
  BY <1>2, PageFields
<1>6. page' \in Pages
  BY <1>2, <1>4, <1>5, PageFields, PageType
<1>7. SchemaTypeOK'
  <2>1. CASE UNCHANGED reasons
    BY <2>1 DEF EditReason, TypeOK, SchemaTypeOK
  <2>2. CASE TableReady /\ Save(field, o, r)
    <3>1. field \in Days
      BY DEF TypeOK
    <3>2. reasons' \in [shape : {"old", "new"}, rows : Rows]
      BY <1>3, <2>2, <3>1, SaveType
    <3> QED
      BY <3>2 DEF EditReason, TypeOK, SchemaTypeOK
  <2> QED
    BY <1>1, <2>1, <2>2
<1> QED
  BY <1>6, <1>7 DEF EditReason, TypeOK

LEMMA LoginType ==
  ASSUME TypeOK, LoginAnew
  PROVE  TypeOK'
<1>1. page \in Pages
  BY DEF LoginAnew, TypeOK
<1>2. page' = Page(page.day, NoTrades)
  BY <1>1, PageFields DEF LoginAnew, Page
<1>3. NoTrades \in [{} -> Texts]
  BY DEF NoTrades
<1>4. page' \in Pages
  BY <1>1, <1>2, <1>3, PageFields, PageType
<1> QED
  BY <1>4 DEF LoginAnew, TypeOK, SchemaTypeOK, schemaVars

LEMMA TypeInit == Init => TypeOK
  BY OldType, SchemaAssumption DEF Init, SchemaInit, TypeOK, SchemaTypeOK

LEMMA TypeStep == TypeOK /\ [Next]_vars => TypeOK'
<1> SUFFICES ASSUME TypeOK, [Next]_vars PROVE TypeOK'
  OBVIOUS
<1>a. /\ Window \in Programs /\ AutoMode \in Programs
  BY JournalAssumption
<1>1. ASSUME NEW p \in Programs, Starting(p) PROVE TypeOK'
  BY <1>1, StartType DEF Starting, TypeOK, journalVars
<1>2. CASE Fetch
  BY <1>2, LoadType DEF Fetch, TypeOK
<1>3. CASE LoadSupplied
  BY <1>3, LoadType DEF LoadSupplied
<1>4. CASE PickDay
  BY <1>4 DEF PickDay, TypeOK, SchemaTypeOK, schemaVars
<1>5. CASE EditReason
  BY <1>5, EditType
<1>6. CASE ExportPage
  <2>1. field \in Days /\ page.day \in Days
    BY <1>6, PageFields DEF ExportPage, AtWork, TypeOK
  <2> QED
    BY <1>6, <2>1 DEF ExportPage, TypeOK, SchemaTypeOK, schemaVars
<1>7. CASE LoginAnew
  BY <1>7, LoginType
<1>8. CASE CloseWindow
  BY <1>8, <1>a DEF CloseWindow, TypeOK, SchemaTypeOK, Goto
<1>9. CASE AutoMerge
  <2>1. autoPage' \in Pages
    BY <1>9, MergedType DEF AutoMerge
  <2> QED
    BY <1>9, <2>1 DEF AutoMerge, TypeOK, SchemaTypeOK, schemaVars
<1>10. CASE AutoWrite
  <2>1. autoPage.day \in Days
    BY <1>10, PageFields DEF AutoWrite, TypeOK
  <2> QED
    BY <1>10, <2>1, <1>a DEF AutoWrite, TypeOK, SchemaTypeOK, Goto
<1>11. CASE AutoEnd
  BY <1>11, <1>a DEF AutoEnd, TypeOK, SchemaTypeOK, Goto
<1>12. CASE UNCHANGED vars
  BY <1>12 DEF vars, schemaVars, journalVars, TypeOK, SchemaTypeOK
<1> QED
  BY <1>1, <1>2, <1>3, <1>4, <1>5, <1>6, <1>7, <1>8, <1>9, <1>10, <1>11, <1>12 DEF Next

(* Every variable of Journal has its type.                                 *)
THEOREM JournalTypeCorrect == Spec => []TypeOK
<1> QED
  BY TypeInit, TypeStep, PTL DEF Spec

-----------------------------------------------------------------------------

(* Steps that are no statement of a migration leave it as it is: they end  *)
(* a program, or write a row of an account that has a number.              *)
Apart ==
  /\ legacy' = legacy
  /\ \A p \in Programs : step'[p] \in {step[p], "off"}
  /\ \/ reasons' = reasons
     \/ /\ reasons # NoTable /\ reasons' # NoTable /\ reasons'.shape = reasons.shape
        /\ reasons.shape = "new"
        /\ \A d \in Days, n \in Numbers :
             reasons'.rows[<<d, NoAccount, n>>] = reasons.rows[<<d, NoAccount, n>>]

LEMMA SaveApart ==
  ASSUME TypeOK, TableReady, NEW d \in Days, NEW o \in Orders, NEW r \in Texts, Save(d, o, r)
  PROVE  /\ reasons' # NoTable /\ reasons'.shape = reasons.shape
         /\ \A x \in Days, n \in Numbers :
              reasons'.rows[<<x, NoAccount, n>>] = reasons.rows[<<x, NoAccount, n>>]
<1>1. reasons \in [shape : {"old", "new"}, rows : Rows]
  BY DEF TypeOK, SchemaTypeOK, TableReady
<1>2. reasons' \in [shape : {"old", "new"}, rows : Rows]
  BY SaveType
<1>3. reasons' # NoTable
  BY <1>2, SchemaAssumption DEF Rows, Keys
<1>4. reasons'.shape = reasons.shape
  BY <1>1 DEF Save
<1>5. ASSUME NEW x \in Days, NEW n \in Numbers
      PROVE  reasons'.rows[<<x, NoAccount, n>>] = reasons.rows[<<x, NoAccount, n>>]
  <2>1. Key(d, o) # <<x, NoAccount, n>> /\ <<x, NoAccount, n>> \in Keys
    BY TradeKey, OldKey
  <2> QED
    BY <1>1, <2>1 DEF Save, Rows
<1> QED
  BY <1>3, <1>4, <1>5

LEMMA OthersApart ==
  ASSUME TypeOK, [Next]_vars, \A p \in Programs : ~Starting(p)
  PROVE  Apart
<1>a. /\ Window \in Programs /\ AutoMode \in Programs
  BY JournalAssumption
<1>1. CASE Fetch \/ LoadSupplied
  BY <1>1 DEF Fetch, LoadSupplied, Load, Apart, schemaVars
<1>2. CASE PickDay \/ ExportPage \/ LoginAnew \/ AutoMerge \/ UNCHANGED vars
  BY <1>2 DEF PickDay, ExportPage, LoginAnew, AutoMerge, Apart, schemaVars, vars
<1>3. CASE EditReason
  <2>1. PICK o \in DOMAIN page.reason, r \in Texts :
          (TableReady /\ Save(field, o, r)) \/ UNCHANGED reasons
    BY <1>3 DEF EditReason
  <2>2. o \in Orders /\ field \in Days
    BY <1>3, PageFields DEF EditReason, AtWork, TypeOK
  <2>3. legacy' = legacy /\ step' = step
    BY <1>3 DEF EditReason
  <2>4. CASE UNCHANGED reasons
    BY <2>3, <2>4 DEF Apart
  <2>5. CASE TableReady /\ Save(field, o, r)
    BY <2>2, <2>3, <2>5, SaveApart DEF Apart, TableReady
  <2> QED
    BY <2>1, <2>4, <2>5
<1>4. CASE CloseWindow \/ AutoWrite \/ AutoEnd
  BY <1>4, <1>a DEF CloseWindow, AutoWrite, AutoEnd, Goto, Apart, TypeOK, SchemaTypeOK
<1> QED
  BY <1>1, <1>2, <1>3, <1>4 DEF Next

LEMMA OnlyOneStep ==
  ASSUME TypeOK, OnlyOne, NEW p \in Programs, Start(p)
  PROVE  OnlyOne'
<1> USE DEF TypeOK, SchemaTypeOK, OnlyOne, Goto, Raises
<1>1. CASE ReadSchema(p)
  BY <1>1 DEF ReadSchema
<1>2. CASE RenameTable(p)
  <2>1. CASE Raises(p)
    BY <2>1
  <2>2. CASE ~Raises(p)
    <3>1. reasons # NoTable /\ legacy = NoTable /\ legacy' = reasons.rows
          /\ step' = [step EXCEPT ![p] = "create"]
      BY <1>2, <2>2 DEF RenameTable
    <3>2. legacy' # NoTable
      BY <3>1, SchemaAssumption DEF Rows, Keys
    <3> QED
      BY <3>1, <3>2
  <2> QED
    BY <2>1, <2>2
<1>3. CASE CreateTable(p)
  BY <1>3 DEF CreateTable
<1>4. CASE CopyRows(p)
  BY <1>4 DEF CopyRows
<1>5. CASE DropLegacy(p)
  BY <1>5 DEF DropLegacy
<1>6. CASE EnsureTable(p)
  BY <1>6 DEF EnsureTable
<1> QED
  BY <1>1, <1>2, <1>3, <1>4, <1>5, <1>6 DEF Start

(* What INSERT ... SELECT leaves of a row of the older version.            *)
LEMMA CopyKeeps ==
  ASSUME TypeOK, OldReasonsKept, reasons # NoTable, legacy # NoTable, ~Collides,
         NEW d \in Days, NEW n \in Numbers, OldRows[<<d, n>>] # NoRow
  PROVE  Copied[<<d, NoAccount, n>>] = OldRows[<<d, n>>]
<1> DEFINE k == <<d, NoAccount, n>>
<1>1. k \in Keys /\ k[1] = d /\ k[2] = NoAccount /\ k[3] = n
  BY OldKey
<1>2. Copied[k] = IF Sources(d, n) # {}
                  THEN legacy[<<d, CHOOSE a \in Sources(d, n) : TRUE, n>>]
                  ELSE reasons.rows[k]
  <2>1. Copied[k] = IF k[2] = NoAccount /\ Sources(k[1], k[3]) # {}
                    THEN legacy[<<k[1], CHOOSE a \in Sources(k[1], k[3]) : TRUE, k[3]>>]
                    ELSE reasons.rows[k]
    <3> HIDE DEF k
    <3> QED
      BY <1>1 DEF Copied
  <2> QED
    BY <1>1, <2>1, Zenon
<1>3. reasons.rows[k] = OldRows[<<d, n>>] \/ legacy[k] = OldRows[<<d, n>>]
  BY DEF OldReasonsKept
<1>4. CASE Sources(d, n) = {}
  <2>1. legacy[k] = NoRow
    BY <1>4 DEF Sources
  <2> QED
    BY <1>2, <1>3, <1>4, <2>1
<1>5. CASE Sources(d, n) # {}
  <2>1. reasons.rows[k] = NoRow
    BY <1>5 DEF Collides
  <2>2. legacy[k] = OldRows[<<d, n>>]
    BY <1>3, <2>1
  <2>3. NoAccount \in Sources(d, n)
    BY <2>2 DEF Sources
  <2>4. (CHOOSE a \in Sources(d, n) : TRUE) = NoAccount
    BY <2>3 DEF Collides
  <2> QED
    BY <1>2, <1>5, <2>2, <2>4
<1> QED
  BY <1>4, <1>5

LEMMA OldKeptStart ==
  ASSUME KeptInv, NEW p \in Programs, Start(p)
  PROVE  OldReasonsKept' /\ CopiedInv'
<1>8. \/ Raises(p) \/ ReadSchema(p) \/ EnsureTable(p)
      \/ (RenameTable(p) /\ ~Raises(p)) \/ (CreateTable(p) /\ ~Raises(p))
      \/ (CopyRows(p) /\ ~Raises(p)) \/ (DropLegacy(p) /\ ~Raises(p))
  BY DEF Start
<1> USE DEF KeptInv, Goto, Raises
<1>t. SchemaTypeOK
  BY DEF TypeOK
<1>1. CASE ReadSchema(p)
  <2>1. /\ legacy' = legacy /\ reasons' = reasons
        /\ \E s \in {"rename", "ensure"} : step' = [step EXCEPT ![p] = s]
    BY <1>1 DEF ReadSchema
  <2> QED
    BY <1>t, <2>1 DEF OldReasonsKept, CopiedInv, SchemaTypeOK
<1>2. CASE Raises(p)
  BY <1>2, <1>t DEF OldReasonsKept, CopiedInv, SchemaTypeOK
<1>3. CASE RenameTable(p) /\ ~Raises(p)
  <2>1. /\ reasons # NoTable /\ legacy = NoTable /\ legacy' = reasons.rows
        /\ step' = [step EXCEPT ![p] = "create"]
    BY <1>3 DEF RenameTable
  <2>2. legacy' # NoTable
    BY <1>t, <2>1, SchemaAssumption DEF Rows, Keys, SchemaTypeOK
  <2>3. OldReasonsKept'
    BY <2>1, <2>2 DEF OldReasonsKept
  <2>4. CopiedInv'
    BY <1>t, <2>1 DEF OnlyOne, CopiedInv, SchemaTypeOK
  <2> QED
    BY <2>3, <2>4
<1>4. CASE CreateTable(p) /\ ~Raises(p)
  <2>1. /\ reasons = NoTable /\ legacy' = legacy
        /\ step[p] = "create" /\ step' = [step EXCEPT ![p] = "copy"]
    BY <1>4 DEF CreateTable
  <2>2. OldReasonsKept'
    BY <2>1 DEF OldReasonsKept
  <2>3. CopiedInv'
    BY <1>t, <2>1 DEF OnlyOne, CopiedInv, SchemaTypeOK
  <2> QED
    BY <2>2, <2>3
<1>5. CASE CopyRows(p) /\ ~Raises(p)
  <2>1. /\ step[p] = "copy" /\ reasons # NoTable /\ legacy # NoTable /\ ~Collides
        /\ reasons' = [reasons EXCEPT !.rows = Copied] /\ legacy' = legacy
        /\ step' = [step EXCEPT ![p] = "drop"]
    BY <1>5 DEF CopyRows
  <2>2. reasons \in [shape : {"old", "new"}, rows : Rows] /\ legacy \in Rows
    BY <1>t, <2>1 DEF SchemaTypeOK
  <2>3. reasons' \in [shape : {"old", "new"}, rows : Rows] /\ reasons'.rows = Copied
    BY <2>1, <2>2, CopiedType
  <2>4. reasons' # NoTable
    BY <2>3, SchemaAssumption DEF Rows, Keys
  <2>5. ASSUME NEW d \in Days, NEW n \in Numbers, OldRows[<<d, n>>] # NoRow
        PROVE  reasons'.rows[<<d, NoAccount, n>>] = OldRows[<<d, n>>]
    BY <2>1, <2>3, <2>5, CopyKeeps
  <2>6. OldReasonsKept'
    BY <2>4, <2>5 DEF OldReasonsKept
  <2>7. CopiedInv'
    BY <2>4, <2>5 DEF CopiedInv
  <2> QED
    BY <2>6, <2>7
<1>6. CASE DropLegacy(p) /\ ~Raises(p)
  <2>1. /\ step[p] = "drop" /\ legacy' = NoTable /\ reasons' = reasons
        /\ step' = [step EXCEPT ![p] = "ensure"]
    BY <1>6 DEF DropLegacy
  <2>2. OldReasonsKept'
    BY <2>1 DEF OldReasonsKept, CopiedInv
  <2>3. CopiedInv'
    BY <1>t, <2>1 DEF CopiedInv, SchemaTypeOK
  <2> QED
    BY <2>2, <2>3
<1>7. CASE EnsureTable(p)
  <2>1. /\ legacy' = legacy /\ step[p] = "ensure" /\ step' = [step EXCEPT ![p] = "ready"]
        /\ reasons' = IF reasons = NoTable THEN Created ELSE reasons
    BY <1>7 DEF EnsureTable
  <2>2. OldReasonsKept'
    BY <2>1 DEF OldReasonsKept
  <2>3. CopiedInv'
    BY <1>t, <2>1 DEF CopiedInv, SchemaTypeOK
  <2> QED
    BY <2>2, <2>3
<1> QED
  BY <1>1, <1>2, <1>3, <1>4, <1>5, <1>6, <1>7, <1>8

LEMMA KeptInit == Init => KeptInv
<1> SUFFICES ASSUME Init PROVE KeptInv
  OBVIOUS
<1>1. OnlyOne /\ CopiedInv
  BY DEF Init, SchemaInit, OnlyOne, CopiedInv
<1>2. OldReasonsKept
  <2> SUFFICES ASSUME NEW d \in Days, NEW n \in Numbers, OldRows[<<d, n>>] # NoRow
               PROVE  reasons # NoTable /\ reasons.rows[<<d, NoAccount, n>>] = OldRows[<<d, n>>]
    BY DEF OldReasonsKept
  <2>1. \E k \in Days \X Numbers : OldRows[k] # NoRow
    <3> WITNESS <<d, n>> \in Days \X Numbers
    <3> QED
      OBVIOUS
  <2>2. reasons = Old
    BY <2>1 DEF Init, SchemaInit
  <2>3. Old # NoTable
    BY OldType, SchemaAssumption DEF Rows, Keys
  <2>4. <<d, NoAccount, n>> \in Keys
    BY OldKey
  <2>5. Old.rows[<<d, NoAccount, n>>] = OldRows[<<d, n>>]
    BY <2>4 DEF Old
  <2> QED
    BY <2>2, <2>3, <2>5
<1> QED
  BY <1>1, <1>2, TypeInit DEF KeptInv

LEMMA KeptStep == KeptInv /\ [Next]_vars => KeptInv'
<1> SUFFICES ASSUME KeptInv, [Next]_vars PROVE KeptInv'
  OBVIOUS
<1>1. TypeOK'
  BY TypeStep DEF KeptInv
<1>2. ASSUME NEW p \in Programs, Starting(p) PROVE KeptInv'
  BY <1>1, <1>2, OnlyOneStep, OldKeptStart DEF KeptInv, Starting
<1>3. CASE \A p \in Programs : ~Starting(p)
  <2>1. Apart
    BY <1>3, OthersApart DEF KeptInv
  <2>2. OnlyOne'
    BY <2>1 DEF Apart, OnlyOne, KeptInv
  <2>3. CopiedInv'
    BY <2>1 DEF Apart, CopiedInv, KeptInv
  <2>4. OldReasonsKept'
    BY <2>1 DEF Apart, OldReasonsKept, KeptInv
  <2> QED
    BY <1>1, <2>2, <2>3, <2>4 DEF KeptInv
<1> QED
  BY <1>2, <1>3

(* A reason an older version saved is never lost, wherever the migration   *)
(* is interrupted and however many programs run it at once.                *)
THEOREM MigrationKeeps == Spec => []OldReasonsKept
<1>1. KeptInv => OldReasonsKept
  BY DEF KeptInv
<1> QED
  BY KeptInit, KeptStep, <1>1, PTL DEF Spec

-----------------------------------------------------------------------------

LEMMA CreatedParts ==
  Created # NoTable /\ Created.shape = "new" /\ Created.rows = Empty
  BY CreatedType, SchemaAssumption DEF Created, Rows, Keys

(* What INSERT ... SELECT leaves of the rows of an account with a number.  *)
LEMMA CopySaves ==
  ASSUME NEW d \in Days, NEW o \in Orders
  PROVE  Copied[Key(d, o)] = reasons.rows[Key(d, o)]
<1> DEFINE k == Key(d, o)
<1>1. k \in Keys /\ k[2] # NoAccount
  BY TradeKey, SchemaAssumption DEF Key, Orders
<1>2. Copied[k] = reasons.rows[k]
  <2> HIDE DEF k
  <2> QED
    BY <1>1 DEF Copied
<1> QED
  BY <1>2

(* Statements of a migration leave the reasons of the orders alone, but    *)
(* for the RENAME, which takes them away with the table.                   *)
LEMMA StartKeeps ==
  ASSUME TypeOK, NEW p \in Programs, Start(p)
  PROVE  Kept' = Kept \/ (Moving /\ Kept' = Book!NoReasons)
<1>8. \/ Raises(p) \/ ReadSchema(p) \/ EnsureTable(p)
      \/ (RenameTable(p) /\ ~Raises(p)) \/ (CreateTable(p) /\ ~Raises(p))
      \/ (CopyRows(p) /\ ~Raises(p)) \/ (DropLegacy(p) /\ ~Raises(p))
  BY DEF Start
<1>k. reasons' = reasons => Kept' = Kept
  BY DEF Kept, TableReady, Saved
<1>c. reasons = NoTable /\ reasons' = Created => Kept' = Kept
  <2> SUFFICES ASSUME reasons = NoTable, reasons' = Created PROVE Kept' = Kept
    OBVIOUS
  <2>1. ASSUME NEW d \in Days, NEW o \in Orders PROVE Saved(d, o)' = Blank
    <3>1. Key(d, o) \in Keys
      BY TradeKey
    <3>2. Empty[Key(d, o)] = NoRow
      BY <3>1 DEF Empty
    <3> QED
      BY CreatedParts, <3>2 DEF Saved
  <2>2. ~TableReady /\ TableReady'
    BY CreatedParts DEF TableReady
  <2> QED
    BY <2>1, <2>2 DEF Kept
<1>t. SchemaTypeOK
  BY DEF TypeOK
<1>1. CASE ReadSchema(p)
  BY <1>1, <1>k DEF ReadSchema
<1>2. CASE Raises(p)
  BY <1>2, <1>k DEF Raises
<1>3. CASE RenameTable(p) /\ ~Raises(p)
  <2>1. step[p] = "rename" /\ reasons' = NoTable
    BY <1>3 DEF RenameTable
  <2>2. Kept' = Book!NoReasons
    BY <2>1 DEF Kept, TableReady, Book!NoReasons
  <2> QED
    BY <2>1, <2>2 DEF Moving
<1>4. CASE CreateTable(p) /\ ~Raises(p)
  BY <1>4, <1>c DEF CreateTable
<1>5. CASE CopyRows(p) /\ ~Raises(p)
  <2>1. reasons # NoTable /\ legacy # NoTable /\ reasons' = [reasons EXCEPT !.rows = Copied]
    BY <1>5 DEF CopyRows
  <2>2. reasons \in [shape : {"old", "new"}, rows : Rows] /\ legacy \in Rows
    BY <1>t, <2>1 DEF SchemaTypeOK
  <2>3. /\ reasons' \in [shape : {"old", "new"}, rows : Rows]
        /\ reasons'.rows = Copied /\ reasons'.shape = reasons.shape
    BY <2>1, <2>2, CopiedType
  <2>4. reasons' # NoTable
    BY <2>3, SchemaAssumption DEF Rows, Keys
  <2>5. ASSUME NEW d \in Days, NEW o \in Orders PROVE Saved(d, o)' = Saved(d, o)
    BY <2>3, CopySaves DEF Saved
  <2>6. TableReady' <=> TableReady
    BY <2>1, <2>3, <2>4 DEF TableReady
  <2> QED
    BY <2>5, <2>6 DEF Kept
<1>6. CASE DropLegacy(p) /\ ~Raises(p)
  BY <1>6, <1>k DEF DropLegacy
<1>7. CASE EnsureTable(p)
  BY <1>7, <1>c, <1>k DEF EnsureTable
<1> QED
  BY <1>1, <1>2, <1>3, <1>4, <1>5, <1>6, <1>7, <1>8

(* A table of the old shape is made by none of the statements.             *)
LEMMA StartMoves ==
  ASSUME TypeOK, NEW p \in Programs, Start(p), Moving'
  PROVE  Moving
<1> USE DEF Goto, Raises, TypeOK, SchemaTypeOK
<1>1. CASE ReadSchema(p)
  BY <1>1 DEF ReadSchema, Moving
<1>2. CASE RenameTable(p)
  BY <1>2 DEF RenameTable, Moving
<1>3. CASE CreateTable(p)
  BY <1>3, CreatedParts DEF CreateTable, Moving
<1>4. CASE CopyRows(p)
  <2>1. \A q \in Programs : step'[q] = "rename" => step[q] = "rename"
    BY <1>4 DEF CopyRows
  <2>2. reasons' = reasons \/ (reasons # NoTable /\ reasons' = [reasons EXCEPT !.rows = Copied])
    BY <1>4 DEF CopyRows
  <2>3. reasons' # NoTable /\ reasons'.shape = "old" => reasons # NoTable /\ reasons.shape = "old"
    BY <2>2
  <2> QED
    BY <2>1, <2>3 DEF Moving
<1>5. CASE DropLegacy(p)
  BY <1>5 DEF DropLegacy, Moving
<1>6. CASE EnsureTable(p)
  BY <1>6, CreatedParts DEF EnsureTable, Moving
<1> QED
  BY <1>1, <1>2, <1>3, <1>4, <1>5, <1>6 DEF Start

LEMMA NeverAgain == TypeOK /\ [Next]_vars /\ Moving' => Moving
<1> SUFFICES ASSUME TypeOK, [Next]_vars, Moving' PROVE Moving
  OBVIOUS
<1>1. ASSUME NEW p \in Programs, Starting(p) PROVE Moving
  BY <1>1, StartMoves DEF Starting
<1>2. CASE \A p \in Programs : ~Starting(p)
  BY <1>2, OthersApart DEF Apart, Moving
<1> QED
  BY <1>1, <1>2

-----------------------------------------------------------------------------

LEMMA BookStart == Init => Book!BookInit
<1> SUFFICES ASSUME Init PROVE Book!BookInit
  OBVIOUS
<1>1. ~TableReady
  BY DEF Init, SchemaInit, Old, TableReady
<1> QED
  BY <1>1 DEF Init, Kept, Book!BookInit, Book!NoReasons, Moving

LEMMA KeptOf ==
  ASSUME TableReady, NEW d \in Days, NEW o \in Orders
  PROVE  Kept[d][o] = Saved(d, o)
  BY DEF Kept

(* What load_from_json and a forced login show.                            *)
LEMMA ShowsKept ==
  ASSUME TableReady, NEW d \in Days, NEW shown \in SUBSET Executed[d]
  PROVE  /\ shown \in SUBSET Orders
         /\ Page(d, Merged(d, shown)) = [day |-> d, reason |-> [o \in shown |-> Kept[d][o]]]
<1>1. shown \in SUBSET Orders
  BY JournalAssumption DEF Orders
<1> QED
  BY <1>1, KeptOf DEF Page, Merged

LEMMA LoadShows ==
  ASSUME NEW d \in Days, Load(d)
  PROVE  Book!Show \/ Book!Pick
<1>1. Kept' = Kept /\ field' = d
  BY DEF Load, schemaVars, Kept, TableReady, Saved
<1>2. CASE page' = page
  BY <1>1, <1>2 DEF Book!Pick
<1>3. CASE TableReady /\ \E shown \in SUBSET Executed[d] : page' = Page(d, Merged(d, shown))
  BY <1>1, <1>3, ShowsKept DEF Book!Show
<1> QED
  BY <1>2, <1>3 DEF Load

LEMMA EditEnters ==
  ASSUME TypeOK, EditReason
  PROVE  Book!Enter \/ Book!Refused
<1>1. PICK o \in DOMAIN page.reason, r \in Texts :
        /\ page' = [page EXCEPT !.reason[o] = r]
        /\ \/ TableReady /\ Save(field, o, r)
           \/ UNCHANGED reasons
  BY DEF EditReason
<1>2. page \in Pages /\ page # NoPage /\ field' = field
  BY DEF EditReason, AtWork, TypeOK
<1>3. o \in Orders /\ field \in Days
  BY <1>2, PageFields DEF TypeOK
<1>4. Book!Type(o, r)
  BY <1>1 DEF Book!Type
<1>5. CASE UNCHANGED reasons
  <2>1. Kept' = Kept
    BY <1>5 DEF Kept, TableReady, Saved
  <2> QED
    BY <1>2, <1>3, <1>4, <2>1 DEF Book!Refused
<1>6. CASE TableReady /\ Save(field, o, r)
  <2>1. reasons \in [shape : {"old", "new"}, rows : Rows] /\ reasons.shape = "new"
    BY <1>6 DEF TypeOK, SchemaTypeOK, TableReady
  <2>2. reasons'.rows = [reasons.rows EXCEPT ![Key(field, o)] = r] /\ reasons'.shape = "new"
    BY <1>6, <2>1 DEF Save
  <2>3. TableReady'
    BY <1>3, <1>6, <2>2, SaveApart DEF TableReady
  <2>4. ASSUME NEW d \in Days, NEW q \in Orders
        PROVE  Saved(d, q)' = IF d = field /\ q = o THEN r ELSE Saved(d, q)
    <3>1. Key(d, q) \in Keys /\ Key(field, o) \in Keys
      BY <1>3, TradeKey
    <3>2. Key(d, q) = Key(field, o) <=> d = field /\ q = o
      BY <1>3 DEF Key, Orders
    <3>3. reasons'.rows[Key(d, q)] =
            IF Key(d, q) = Key(field, o) THEN r ELSE reasons.rows[Key(d, q)]
      BY <2>1, <2>2, <3>1 DEF Rows
    <3>4. r # NoRow
      BY SchemaAssumption
    <3> QED
      BY <3>2, <3>3, <3>4 DEF Saved
  <2>5. Kept' = [d \in Days |-> [q \in Orders |-> Saved(d, q)']]
    BY <2>3 DEF Kept
  <2>6. Kept = [d \in Days |-> [q \in Orders |-> Saved(d, q)]]
    BY <1>6 DEF Kept
  <2>7. Kept' = [Kept EXCEPT ![field][o] = r]
    BY <1>3, <2>4, <2>5, <2>6
  <2> QED
    BY <1>2, <1>3, <1>4, <2>7 DEF Book!Enter
<1> QED
  BY <1>1, <1>5, <1>6

LEMMA LoginClears ==
  ASSUME TypeOK, LoginAnew
  PROVE  Book!Clear
<1>1. page \in Pages /\ page # NoPage /\ field' = field
  BY DEF LoginAnew, TypeOK
<1>2. page' = [page EXCEPT !.reason = [o \in {} |-> Blank]]
  BY DEF LoginAnew, NoTrades
<1>3. Kept' = Kept
  BY DEF LoginAnew, schemaVars, Kept, TableReady, Saved
<1> QED
  BY <1>1, <1>2, <1>3 DEF Book!Clear

LEMMA BookStep == TypeOK /\ [Next]_vars => [Book!BookNext]_(Book!bookVars)
<1> SUFFICES ASSUME TypeOK, [Next]_vars PROVE Book!BookNext
  OBVIOUS
<1>a. field' \in Days
  BY TypeStep DEF TypeOK
<1>b. Moving' => Moving
  BY NeverAgain
<1> SUFFICES Book!Show \/ Book!Enter \/ Book!Refused \/ Book!Clear \/ Book!Hide
             \/ Book!Pick \/ Book!Lose
  BY <1>a, <1>b DEF Book!BookNext
<1>k. reasons' = reasons => Kept' = Kept
  BY DEF Kept, TableReady, Saved
<1>1. ASSUME NEW p \in Programs, Starting(p)
      PROVE  Book!Pick \/ Book!Lose
  <2>1. Start(p) /\ field' = field /\ page' = page
    BY <1>1 DEF Starting, journalVars
  <2>2. Kept' = Kept \/ (Moving /\ Kept' = Book!NoReasons)
    BY <2>1, StartKeeps
  <2> QED
    BY <2>1, <2>2 DEF Book!Pick, Book!Lose
<1>2. CASE Fetch
  BY <1>2, LoadShows DEF Fetch, TypeOK
<1>3. CASE LoadSupplied
  BY <1>3, LoadShows DEF LoadSupplied
<1>4. CASE EditReason
  BY <1>4, EditEnters
<1>5. CASE LoginAnew
  BY <1>5, LoginClears
<1>6. CASE CloseWindow
  BY <1>6, <1>k DEF CloseWindow, Book!Hide
<1>7. CASE PickDay \/ ExportPage \/ AutoMerge \/ AutoWrite \/ AutoEnd \/ UNCHANGED vars
  BY <1>7, <1>k DEF PickDay, ExportPage, AutoMerge, AutoWrite, AutoEnd, schemaVars, vars, journalVars,
                    Book!Pick
<1> QED
  BY <1>1, <1>2, <1>3, <1>4, <1>5, <1>6, <1>7 DEF Next

(* Journal implements ReasonBook: whichever programs are started, killed   *)
(* or migrating at once, and whatever day the field shows.                 *)
THEOREM JournalRemembers == Spec => Remembers
<1> QED
  BY TypeInit, TypeStep, BookStart, BookStep, PTL DEF Spec, Remembers, Book!BookSpec

=============================================================================
