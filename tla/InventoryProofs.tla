-------------------------- MODULE InventoryProofs --------------------------
(***************************************************************************)
(* Theorems of Inventory for any numbers, partners, sales, workers and     *)
(* circumstances.                                                          *)
(***************************************************************************)
EXTENDS Inventory, TLAPS

OfPartner == {"reserving", "marking", "creating", "linking", "importing", "copying", "rehoming"}
OfNumber == {"registering", "reserving", "marking", "updating", "removing", "importing", "copying"}
OfOneSale == {"creating", "linking", "selling", "importing", "copying", "aligning", "rehoming"}

\* The fields of an operation, by the point it has reached.
LEMMA OperationFields ==
    ASSUME NEW o \in Operation
    PROVE  /\ o = Idle <=> o.at = "idle"
           /\ o.at \in OfPartner => o.partner \in Partners
           /\ o.at \in OfNumber => o.line \in Lines
           /\ o.at \in OfOneSale => o.sale \in Sales
           /\ o.at \in {"registering", "updating"} => o.owner \in Owners
           /\ o.at = "updating" => o.status \in LineStatus
           /\ o.at \in {"creating", "linking", "rehoming"} => o.line \in Lines \cup {None}
           /\ o.at \in {"creating", "linking"} => o.number \in Lines \cup {None}
           /\ o.at \in {"copying", "aligning"} => o.concluded \in BOOLEAN
  BY DEF Operation, Idle, OfPartner, OfNumber, OfOneSale

\* Every operation the actions build is one.
LEMMA OperationBuilt ==
    /\ Idle \in Operation
    /\ \A l \in Lines, p \in Owners : [at |-> "registering", line |-> l, owner |-> p] \in Operation
    /\ \A a \in {"reserving", "marking"}, l \in Lines, p \in Partners :
        [at |-> a, line |-> l, partner |-> p] \in Operation
    /\ \A l \in Lines, p \in Owners, t \in LineStatus :
        [at |-> "updating", line |-> l, owner |-> p, status |-> t] \in Operation
    /\ \A l \in Lines : [at |-> "removing", line |-> l] \in Operation
    /\ \A a \in {"creating", "linking"}, s \in Sales, p \in Partners,
          l \in Lines \cup {None}, n \in Lines \cup {None} :
        [at |-> a, sale |-> s, partner |-> p, line |-> l, number |-> n] \in Operation
    /\ \A s \in Sales : [at |-> "selling", sale |-> s] \in Operation
    /\ \A s \in Sales, l \in Lines, p \in Partners :
        [at |-> "importing", sale |-> s, line |-> l, partner |-> p] \in Operation
    /\ \A s \in Sales, l \in Lines, p \in Partners, c \in BOOLEAN :
        [at |-> "copying", sale |-> s, line |-> l, partner |-> p, concluded |-> c] \in Operation
    /\ \A s \in Sales, c \in BOOLEAN : [at |-> "aligning", sale |-> s, concluded |-> c] \in Operation
    /\ \A s \in Sales, l \in Lines \cup {None}, p \in Partners :
        [at |-> "rehoming", sale |-> s, line |-> l, partner |-> p] \in Operation
  BY DEF Operation

\* What is in a row.
LEMMA LineFields ==
    ASSUME TypeOK, NEW l \in Lines
    PROVE  /\ line[l].owner \in Owners
           /\ line[l].status \in LineStatus <=> l \in InStock
           /\ line[l].status \in LineStatus \cup {"absent"}
           /\ line[l].status = "absent" => line[l].owner = None
           /\ l \in InStock => line[l] \in [status : LineStatus, owner : Owners]
  BY DEF TypeOK, LineRow, NoLine, LineStatus, Owners, InStock

LEMMA SaleFields ==
    ASSUME TypeOK, NEW s \in Sales
    PROVE  /\ s \in Kept => sale[s] \in [state : SaleState, partner : Partners,
                                         line : Lines \cup {None}, number : Lines \cup {None}]
           /\ s \in Kept <=> sale[s].state \in SaleState
  BY DEF TypeOK, SaleRow, SaleState, NoSale, Removed, Kept

LEMMA InventoryInit == Init => TypeOK /\ ReservedToOne
  BY OperationBuilt DEF Init, TypeOK, ReservedToOne, LineRow, SaleRow, Owners

\* A step of worker w leaves the operations of the others.
LEMMA Continues ==
    ASSUME TypeOK, NEW w \in Workers, NEW o \in Operation, Continue(w, o)
    PROVE  /\ op' \in [Workers -> Operation]
           /\ op'[w] = o
           /\ \A v \in Workers \ {w} : op'[v] = op[v]
  BY DEF TypeOK, Continue

\* A row that is written, and the end of what was told of the one before.
LEMMA Rewriting ==
    ASSUME TypeOK, ReservedToOne, NEW l \in Lines, NEW row \in LineRow, Rewrite(l, row)
    PROVE  /\ line' \in [Lines -> LineRow]
           /\ holders' \in [Lines -> SUBSET Partners]
           /\ line'[l] = row
           /\ \A k \in Lines \ {l} : line'[k] = line[k]
           /\ ReservedToOne'
  BY DEF TypeOK, ReservedToOne, Rewrite

(***************************************************************************)
(* Types, and reservations                                                 *)
(***************************************************************************)

\* What every step keeps.
Safe == TypeOK /\ ReservedToOne

\* A step that changes one operation at most.
LEMMA OnlyOperation ==
    ASSUME Safe, NEW w \in Workers, NEW o \in Operation, Continue(w, o),
           UNCHANGED <<weather, line, sale, holders>>
    PROVE  Safe'
<1>1. op' \in [Workers -> Operation]
  BY Continues DEF Safe
<1> QED
  BY <1>1 DEF Safe, TypeOK, ReservedToOne

LEMMA LineBegins ==
    ASSUME Safe, NEW w \in Workers, NEW l \in Lines, OfLine(w, l)
    PROVE  Safe'
<1> USE DEF Safe
<1>1. ASSUME NEW p \in Owners, registerLine(w, l, p)
      PROVE  Safe'
  BY <1>1, OperationBuilt, OnlyOperation DEF registerLine
<1>2. ASSUME NEW p \in Partners, reserve(w, l, p)
      PROVE  Safe'
  BY <1>2, OperationBuilt, OnlyOperation DEF reserve
<1>3. CASE update(w, l)
  BY <1>3, OperationBuilt, OnlyOperation DEF update
<1>4. CASE remove(w, l)
  BY <1>4, OperationBuilt, OnlyOperation DEF remove
<1> QED
  BY <1>1, <1>2, <1>3, <1>4 DEF OfLine

LEMMA SaleBegins ==
    ASSUME Safe, NEW w \in Workers, NEW s \in Sales, OfSale(w, s)
    PROVE  Safe'
<1> USE DEF Safe
<1>1. ASSUME NEW p \in Partners, create(w, s, p)
      PROVE  Safe'
  <2>1. PICK id \in Lines \cup {None}, number \in Lines \cup {None} :
            Continue(w, [at |-> "creating", sale |-> s, partner |-> p,
                         line |-> Resolved(id, number), number |-> number])
    BY <1>1 DEF create
  <2>2. Resolved(id, number) \in Lines \cup {None}
    BY DEF Resolved, InStock
  <2> QED
    BY <1>1, <2>1, <2>2, OperationBuilt, OnlyOperation DEF create
<1>2. CASE updateSale(w, s)
  <2>1. sale[s] \in [state : SaleState, partner : Partners,
                     line : Lines \cup {None}, number : Lines \cup {None}]
    BY <1>2, SaleFields DEF updateSale, Open
  <2>2. PICK id \in Lines \cup {None}, number \in Lines \cup {None} :
            Continue(w, [at |-> "linking", sale |-> s, partner |-> sale[s].partner,
                         line |-> Resolved(id, number), number |-> number])
    BY <1>2, <2>1 DEF updateSale
  <2>3. Resolved(id, number) \in Lines \cup {None}
    BY DEF Resolved, InStock
  <2> QED
    BY <1>2, <2>1, <2>2, <2>3, OperationBuilt, OnlyOperation DEF updateSale
<1>3. CASE conclude(w, s)
  <2>1. sale[s] \in [state : SaleState, partner : Partners,
                     line : Lines \cup {None}, number : Lines \cup {None}]
    BY <1>3, SaleFields DEF conclude, Open
  <2>2. sale' \in [Sales -> SaleRow]
    BY <1>3, <2>1 DEF conclude, TypeOK, SaleRow, SaleState
  <2>3. op' \in [Workers -> Operation]
    BY <1>3, OperationBuilt, Continues DEF conclude
  <2> QED
    BY <1>3, <2>2, <2>3 DEF conclude, TypeOK, ReservedToOne
<1>4. ASSUME NEW l \in Lines, NEW p \in Partners, importConcluded(w, s, l, p)
      PROVE  Safe'
  BY <1>4, OperationBuilt, OnlyOperation DEF importConcluded
<1>5. ASSUME NEW l \in Lines, NEW p \in Partners, importHistorical(w, s, l, p)
      PROVE  Safe'
  BY <1>5, OperationBuilt, OnlyOperation DEF importHistorical
<1>6. ASSUME NEW p \in Partners, rehome(w, s, p)
      PROVE  Safe'
  <2>1. sale[s].line \in Lines \cup {None}
    BY <1>6, SaleFields DEF rehome
  <2> QED
    BY <1>6, <2>1, OperationBuilt, OnlyOperation DEF rehome
<1>7. CASE importAgain(w, s)
  BY <1>7, OperationBuilt, OnlyOperation DEF importAgain
<1> QED
  BY <1>1, <1>2, <1>3, <1>4, <1>5, <1>6, <1>7 DEF OfSale

\* The statuses of a sale that change at once.
LEMMA SaleChanges ==
    ASSUME Safe, NEW s \in Sales, endSale(s) \/ removeSale(s) \/ reopen(s)
    PROVE  Safe'
<1> USE DEF Safe
<1>1. s \in Kept
  BY DEF endSale, removeSale, reopen, Activated
<1>2. sale[s] \in [state : SaleState, partner : Partners,
                   line : Lines \cup {None}, number : Lines \cup {None}]
  BY <1>1, SaleFields
<1>3. sale' \in [Sales -> SaleRow]
  BY <1>2 DEF endSale, removeSale, reopen, TypeOK, SaleRow, SaleState
<1> QED
  BY <1>3 DEF endSale, removeSale, reopen, TypeOK, ReservedToOne

\* A step that writes a line, and no sale.
LEMMA OnlyLine ==
    ASSUME Safe, NEW w \in Workers, NEW l \in Lines, NEW row \in LineRow, Rewrite(l, row),
           Done(w), UNCHANGED <<weather, sale>>
    PROVE  Safe'
<1>1. op' \in [Workers -> Operation]
  BY Continues, OperationBuilt DEF Safe, Done
<1> QED
  BY <1>1, Rewriting DEF Safe, TypeOK

LEMMA LineProceeds ==
    ASSUME Safe, NEW w \in Workers,
           RegisterLine(w) \/ Reserve(w) \/ Update(w) \/ MarkSold(w)
    PROVE  Safe'
<1> DEFINE l == op[w].line
<1> USE DEF Safe
<1>0. op[w] \in Operation
  BY DEF TypeOK
<1>1. CASE RegisterLine(w)
  <2>1. [status |-> "AVAILABLE", owner |-> op[w].owner] \in LineRow /\ l \in Lines
    BY <1>0, <1>1, OperationFields DEF RegisterLine, At, LineRow, LineStatus, OfNumber
  <2> QED
    BY <1>1, <2>1, OnlyLine, OnlyOperation, OperationBuilt DEF RegisterLine, Done
<1>2. CASE Reserve(w)
  <2>1. op[w].partner \in Partners /\ l \in Lines
    BY <1>0, <1>2, OperationFields DEF Reserve, At, OfNumber, OfPartner
  <2>2. CASE ~Reservable(l, op[w].partner)
    BY <1>2, <2>2, OnlyOperation, OperationBuilt DEF Reserve, Done
  <2>3. CASE Reservable(l, op[w].partner)
    <3>1. line' = [line EXCEPT ![l] = [status |-> "RESERVED", owner |-> op[w].partner]]
          /\ holders' = [holders EXCEPT ![l] = @ \cup {op[w].partner}]
      BY <1>2, <2>3 DEF Reserve
    <3>2. holders[l] = {}
      BY <2>1, <2>3 DEF Reservable, ReservedToOne
    <3>3. op' \in [Workers -> Operation]
      BY <1>2, Continues, OperationBuilt DEF Reserve, Done
    <3>4. line' \in [Lines -> LineRow] /\ holders' \in [Lines -> SUBSET Partners]
      BY <2>1, <3>1 DEF TypeOK, LineRow, LineStatus, Owners
    <3>5. ReservedToOne'
      BY <2>1, <3>1, <3>2 DEF ReservedToOne, TypeOK
    <3> QED
      BY <1>2, <3>3, <3>4, <3>5 DEF Reserve, TypeOK
  <2> QED
    BY <2>2, <2>3
<1>3. CASE Update(w)
  <2>1. op[w].owner \in Owners /\ op[w].status \in LineStatus /\ l \in Lines
    BY <1>0, <1>3, OperationFields DEF Update, At, OfNumber
  <2>2. line[l].owner \in Owners
    BY <2>1, LineFields
  <2>3. \A p \in Owners : [status |-> op[w].status, owner |-> p] \in LineRow
    BY <2>1 DEF LineRow
  <2> QED
    BY <1>3, <2>1, <2>2, <2>3, OnlyLine, OnlyOperation, OperationBuilt DEF Update, Done
<1>4. CASE MarkSold(w)
  <2>1. [status |-> "ACTIVATED", owner |-> op[w].partner] \in LineRow /\ l \in Lines
    BY <1>0, <1>4, OperationFields DEF MarkSold, At, LineRow, LineStatus, OfNumber, OfPartner, Owners
  <2> QED
    BY <1>4, <2>1, OnlyLine, OnlyOperation, OperationBuilt DEF MarkSold, Done
<1> QED
  BY <1>1, <1>2, <1>3, <1>4

\* A step that writes sales, and no line.
LEMMA OnlySale ==
    ASSUME Safe, NEW w \in Workers, sale' \in [Sales -> SaleRow], Done(w),
           UNCHANGED <<weather, line, holders>>
    PROVE  Safe'
<1>1. op' \in [Workers -> Operation]
  BY Continues, OperationBuilt DEF Safe, Done
<1> QED
  BY <1>1 DEF Safe, TypeOK, ReservedToOne

\* A step that writes a line and sales.
LEMMA LineAndSale ==
    ASSUME Safe, NEW w \in Workers, NEW l \in Lines, NEW row \in LineRow, Rewrite(l, row),
           sale' \in [Sales -> SaleRow], NEW o \in Operation, Continue(w, o), UNCHANGED weather
    PROVE  Safe'
<1>1. op' \in [Workers -> Operation]
  BY Continues DEF Safe
<1> QED
  BY <1>1, Rewriting DEF Safe, TypeOK

LEMMA SaleProceeds ==
    ASSUME Safe, NEW w \in Workers, CreateSale(w) \/ UpdateSale(w) \/ FindSoldLine(w) \/ Remove(w)
    PROVE  Safe'
<1> USE DEF Safe
<1>0. op[w] \in Operation
  BY DEF TypeOK
<1>1. CASE CreateSale(w)
  <2>1. /\ op[w].sale \in Sales /\ op[w].partner \in Partners
        /\ op[w].line \in Lines \cup {None} /\ op[w].number \in Lines \cup {None}
    BY <1>0, <1>1, OperationFields DEF CreateSale, At, OfOneSale, OfPartner
  <2>2. sale' \in [Sales -> SaleRow]
    BY <1>1, <2>1 DEF CreateSale, TypeOK, SaleRow, SaleState
  <2> QED
    BY <1>1, <2>2, OnlySale DEF CreateSale
<1>2. CASE UpdateSale(w)
  <2>1. /\ op[w].sale \in Sales
        /\ op[w].line \in Lines \cup {None} /\ op[w].number \in Lines \cup {None}
    BY <1>0, <1>2, OperationFields DEF UpdateSale, At, OfOneSale
  <2>2. sale' \in [Sales -> SaleRow]
    BY <1>2, <2>1, SaleFields DEF UpdateSale, TypeOK, SaleRow
  <2> QED
    BY <1>2, <2>2, OnlySale DEF UpdateSale
<1>3. CASE FindSoldLine(w)
  <2>1. op[w].sale \in Sales
    BY <1>0, <1>3, OperationFields DEF FindSoldLine, At, OfOneSale
  <2> DEFINE s == op[w].sale
  <2>2. s \in Kept => /\ sale[s].line \in Lines \cup {None} /\ sale[s].number \in Lines \cup {None}
                      /\ sale[s].partner \in Partners
    BY <2>1, SaleFields
  <2> QED
    BY <1>3, <2>2, OperationBuilt, OnlyOperation DEF FindSoldLine, Done
<1>4. CASE Remove(w)
  <2>1. op[w].line \in Lines
    BY <1>0, <1>4, OperationFields DEF Remove, At, OfNumber
  <2>2. ASSUME NEW s \in Sales, s \in LinkedTo(op[w].line)
        PROVE  [sale[s] EXCEPT !.line = None] \in SaleRow
    <3>1. sale[s] \in [state : SaleState, partner : Partners,
                       line : Lines \cup {None}, number : Lines \cup {None}]
      BY <2>2, SaleFields DEF LinkedTo
    <3> QED
      BY <3>1 DEF SaleRow
  <2>3. sale' \in [Sales -> SaleRow]
    BY <1>4, <2>2 DEF Remove, TypeOK
  <2> QED
    BY <1>4, <2>1, <2>3, LineAndSale, OperationBuilt DEF Remove, LineRow, Done
<1> QED
  BY <1>1, <1>2, <1>3, <1>4

LEMMA ImportProceeds ==
    ASSUME Safe, NEW w \in Workers,
           ImportConcluded(w) \/ ImportHistorical(w) \/ alignDatesWithTask(w) \/ Rehome(w)
    PROVE  Safe'
<1> DEFINE s == op[w].sale
           l == op[w].line
           p == op[w].partner
<1> USE DEF Safe
<1>0. op[w] \in Operation
  BY DEF TypeOK
<1>1. CASE ImportConcluded(w)
  <2>1. s \in Sales /\ l \in Lines /\ p \in Partners
    BY <1>0, <1>1, OperationFields DEF ImportConcluded, At, OfOneSale, OfNumber, OfPartner
  <2>2. [status |-> "ACTIVATED", owner |-> p] \in LineRow
    BY <2>1 DEF LineRow, LineStatus, Owners
  <2>3. [sale EXCEPT ![s] = [state |-> "sold", partner |-> p, line |-> l, number |-> l]]
        \in [Sales -> SaleRow]
    BY <2>1 DEF TypeOK, SaleRow, SaleState
  <2> QED
    BY <1>1, <2>1, <2>2, <2>3, LineAndSale, OnlyOperation, OperationBuilt DEF ImportConcluded, Done
<1>2. CASE ImportHistorical(w)
  <2>1. s \in Sales /\ l \in Lines /\ p \in Partners /\ op[w].concluded \in BOOLEAN
    BY <1>0, <1>2, OperationFields DEF ImportHistorical, At, OfOneSale, OfNumber, OfPartner
  <2>2. CopiedStatus(l, op[w].concluded) \in LineStatus
    BY <2>1, LineFields DEF CopiedStatus, LineStatus
  <2>3. [status |-> CopiedStatus(l, op[w].concluded), owner |-> p] \in LineRow
    BY <2>1, <2>2 DEF LineRow, Owners
  <2>4. [sale EXCEPT ![s] = [state |-> IF op[w].concluded THEN "sold" ELSE "open",
                             partner |-> p, line |-> l, number |-> l]]
        \in [Sales -> SaleRow]
    BY <2>1 DEF TypeOK, SaleRow, SaleState
  <2> QED
    BY <1>2, <2>1, <2>3, <2>4, LineAndSale, OnlyOperation, OperationBuilt DEF ImportHistorical, Done
<1>3. CASE Rehome(w)
  <2>1. s \in Sales /\ l \in Lines \cup {None} /\ p \in Partners
    BY <1>0, <1>3, OperationFields DEF Rehome, At, OfOneSale, OfPartner
  <2>2. CASE ~(s \in Kept /\ l \in InStock \cup {None})
    BY <1>3, <2>2, OnlyOperation, OperationBuilt DEF Rehome, Done
  <2>3. CASE s \in Kept /\ l \in InStock \cup {None}
    <3>1. sale' = [sale EXCEPT ![s].partner = p]
      BY <1>3, <2>3 DEF Rehome
    <3>2. sale[s] \in [state : SaleState, partner : Partners,
                       line : Lines \cup {None}, number : Lines \cup {None}]
      BY <2>1, <2>3, SaleFields
    <3>3. sale' \in [Sales -> SaleRow]
      BY <2>1, <3>1, <3>2 DEF TypeOK, SaleRow
    <3>4. CASE l = None
      BY <1>3, <2>3, <3>3, <3>4, OnlySale DEF Rehome
    <3>5. CASE l # None
      <4>1. l \in InStock /\ l \in Lines
        BY <2>1, <2>3, <3>5
      <4>2. [line[l] EXCEPT !.owner = p] \in LineRow
        BY <2>1, <4>1, LineFields DEF LineRow, Owners
      <4> QED
        BY <1>3, <2>3, <3>3, <3>5, <4>1, <4>2, LineAndSale, OperationBuilt DEF Rehome, Done
    <3> QED
      BY <3>4, <3>5
  <2> QED
    BY <2>2, <2>3
<1>4. CASE alignDatesWithTask(w)
  <2>1. s \in Sales
    BY <1>0, <1>4, OperationFields DEF alignDatesWithTask, At, OfOneSale
  <2>2. Aligned(s, op[w].concluded) \in SaleState
    BY DEF Aligned, SaleState
  <2>3. sale' \in [Sales -> SaleRow]
    BY <1>4, <2>1, <2>2, SaleFields DEF alignDatesWithTask, TypeOK, SaleRow
  <2> QED
    BY <1>4, <2>3, OnlySale DEF alignDatesWithTask
<1> QED
  BY <1>1, <1>2, <1>3, <1>4

LEMMA SafeNext == Safe /\ [Next]_vars => Safe'
<1> SUFFICES ASSUME Safe, [Next]_vars PROVE Safe'
  OBVIOUS
<1>1. ASSUME NEW w \in Workers, NEW l \in Lines, OfLine(w, l)
      PROVE  Safe'
  BY <1>1, LineBegins
<1>2. ASSUME NEW w \in Workers, NEW s \in Sales, OfSale(w, s)
      PROVE  Safe'
  BY <1>2, SaleBegins
<1>3. ASSUME NEW s \in Sales, endSale(s) \/ removeSale(s) \/ reopen(s)
      PROVE  Safe'
  BY <1>3, SaleChanges
<1>4. ASSUME NEW w \in Workers, Proceed(w)
      PROVE  Safe'
  BY <1>4, LineProceeds, SaleProceeds, ImportProceeds DEF Proceed
<1>5. ASSUME NEW w \in Workers, Fail(w)
      PROVE  Safe'
  BY <1>5, OnlyOperation, OperationBuilt DEF Fail, Done
<1>6. CASE UNCHANGED vars
  BY <1>6 DEF vars, Safe, TypeOK, ReservedToOne
<1> QED
  BY <1>1, <1>2, <1>3, <1>4, <1>5, <1>6 DEF Next

\* The variables of Inventory keep their types.
THEOREM InventoryTypeCorrect == Spec => []TypeOK
<1>1. Init => Safe
  BY InventoryInit DEF Safe
<1>2. Safe => TypeOK
  BY DEF Safe
<1> QED
  BY <1>1, <1>2, SafeNext, PTL DEF Spec

\* However requests overlap and whatever fails, a line is reserved to one
\* partner, the one who was told so.
THEOREM ReservedAlone == Spec => []ReservedToOne
<1>1. Init => Safe
  BY InventoryInit DEF Safe
<1>2. Safe => ReservedToOne
  BY DEF Safe
<1> QED
  BY <1>1, <1>2, SafeNext, PTL DEF Spec

(***************************************************************************)
(* Requests that do not overlap                                            *)
(***************************************************************************)

\* What an operation read is still so when it writes.
StillTrue(o) ==
    /\ o.at = "removing" => LinkedTo(o.line) = {}
    /\ o.at = "linking" => Open(o.sale)
    /\ o.at \in {"marking", "copying"} => line[o.line].owner \in {None, o.partner}
    /\ o.at \in {"updating", "rehoming"} => "edit" \in weather
    /\ o.at = "importing" => "sheet" \in weather

SerialInv ==
    /\ \A v, w \in Workers : op[v] # Idle /\ op[w] # Idle => v = w
    /\ \A w \in Workers : StillTrue(op[w])

Quiet == \A w \in Workers : op[w] = Idle

LEMMA QuietIsSerial == Quiet => SerialInv
  BY DEF Quiet, SerialInv, StillTrue, Idle

\* A request that begins alone.
LEMMA BeginsAlone ==
    ASSUME TypeOK, Quiet, NEW w \in Workers, NEW o \in Operation, Continue(w, o), StillTrue(o)'
    PROVE  SerialInv'
<1>1. op'[w] = o /\ \A v \in Workers \ {w} : op'[v] = Idle
  BY Continues DEF Quiet
<1>2. \A v \in Workers \ {w} : StillTrue(op[v])'
  BY <1>1 DEF StillTrue, Idle
<1>3. StillTrue(op[w])'
  BY <1>1 DEF StillTrue
<1> QED
  BY <1>1, <1>2, <1>3 DEF SerialInv

\* A request that ends leaves nothing under way.
LEMMA EndsAlone ==
    ASSUME TypeOK, SerialInv, NEW w \in Workers, op[w] # Idle, Done(w)
    PROVE  Quiet'
<1>1. op'[w] = Idle /\ \A v \in Workers \ {w} : op'[v] = op[v]
  BY OperationBuilt, Continues DEF Done
<1> QED
  BY <1>1 DEF SerialInv, Quiet

LEMMA SerialBegins ==
    ASSUME Safe, "overlap" \notin weather, NEW w \in Workers,
           \/ \E l \in Lines : OfLine(w, l)
           \/ \E s \in Sales : OfSale(w, s)
    PROVE  Quiet /\ SerialInv'
<1> USE DEF Safe
<1>1. Quiet
  BY DEF OfLine, OfSale, registerLine, reserve, update, remove, create, updateSale, conclude,
         importConcluded, importHistorical, importAgain, rehome, Free, Turn, Quiet
<1>2. ASSUME NEW l \in Lines, OfLine(w, l)
      PROVE  SerialInv'
  <2>1. ASSUME NEW p \in Owners, registerLine(w, l, p)
        PROVE  SerialInv'
    BY <1>1, <2>1, OperationBuilt, BeginsAlone DEF registerLine, StillTrue
  <2>2. ASSUME NEW p \in Partners, reserve(w, l, p)
        PROVE  SerialInv'
    BY <1>1, <2>2, OperationBuilt, BeginsAlone DEF reserve, StillTrue
  <2>3. CASE update(w, l)
    BY <1>1, <2>3, OperationBuilt, BeginsAlone DEF update, StillTrue
  <2>4. CASE remove(w, l)
    BY <1>1, <2>4, OperationBuilt, BeginsAlone DEF remove, Removable, StillTrue, LinkedTo, Kept
  <2> QED
    BY <1>2, <2>1, <2>2, <2>3, <2>4 DEF OfLine
<1>3. ASSUME NEW s \in Sales, OfSale(w, s)
      PROVE  SerialInv'
  <2>1. ASSUME NEW p \in Partners, create(w, s, p)
        PROVE  SerialInv'
    <3>1. PICK id \in Lines \cup {None}, number \in Lines \cup {None} :
              Continue(w, [at |-> "creating", sale |-> s, partner |-> p,
                           line |-> Resolved(id, number), number |-> number])
      BY <2>1 DEF create
    <3>2. Resolved(id, number) \in Lines \cup {None}
      BY DEF Resolved, InStock
    <3> QED
      BY <1>1, <3>1, <3>2, OperationBuilt, BeginsAlone DEF StillTrue
  <2>2. CASE updateSale(w, s)
    <3>1. sale[s] \in [state : SaleState, partner : Partners,
                       line : Lines \cup {None}, number : Lines \cup {None}]
      BY <2>2, SaleFields DEF updateSale, Open
    <3>2. PICK id \in Lines \cup {None}, number \in Lines \cup {None} :
              Continue(w, [at |-> "linking", sale |-> s, partner |-> sale[s].partner,
                           line |-> Resolved(id, number), number |-> number])
      BY <2>2, <3>1 DEF updateSale
    <3>3. Resolved(id, number) \in Lines \cup {None}
      BY DEF Resolved, InStock
    <3>4. Open(s)'
      BY <2>2 DEF updateSale, Open, Kept
    <3> QED
      BY <1>1, <3>1, <3>2, <3>3, <3>4, OperationBuilt, BeginsAlone DEF StillTrue
  <2>3. CASE conclude(w, s)
    BY <1>1, <2>3, OperationBuilt, BeginsAlone DEF conclude, StillTrue
  <2>4. ASSUME NEW l \in Lines, NEW p \in Partners, importConcluded(w, s, l, p)
        PROVE  SerialInv'
    BY <1>1, <2>4, OperationBuilt, BeginsAlone DEF importConcluded, StillTrue
  <2>5. ASSUME NEW l \in Lines, NEW p \in Partners, importHistorical(w, s, l, p)
        PROVE  SerialInv'
    BY <1>1, <2>5, OperationBuilt, BeginsAlone DEF importHistorical, Copyable, StillTrue
  <2>6. ASSUME NEW p \in Partners, rehome(w, s, p)
        PROVE  SerialInv'
    <3>1. sale[s].line \in Lines \cup {None}
      BY <2>6, SaleFields DEF rehome
    <3> QED
      BY <1>1, <2>6, <3>1, OperationBuilt, BeginsAlone DEF rehome, StillTrue
  <2>7. CASE importAgain(w, s)
    BY <1>1, <2>7, OperationBuilt, BeginsAlone DEF importAgain, StillTrue
  <2> QED
    BY <1>3, <2>1, <2>2, <2>3, <2>4, <2>5, <2>6, <2>7 DEF OfSale
<1> QED
  BY <1>1, <1>2, <1>3

LEMMA SerialProceeds ==
    ASSUME Safe, SerialInv, NEW w \in Workers, Proceed(w)
    PROVE  /\ op[w] # Idle
           /\ \A v \in Workers \ {w} : op[v] = Idle
           /\ SerialInv'
<1> USE DEF Safe
<1>1. op[w] # Idle
  BY DEF Proceed, RegisterLine, Reserve, Update, Remove, CreateSale, UpdateSale, FindSoldLine,
         MarkSold, ImportConcluded, ImportHistorical, alignDatesWithTask, Rehome, At, Idle
<1>2. \A v \in Workers \ {w} : op[v] = Idle
  BY <1>1 DEF SerialInv
<1>3. CASE FindSoldLine(w) /\ ~Done(w)
  <2>1. op[w] \in Operation
    BY DEF TypeOK
  <2>2. op[w].sale \in Sales
    BY <1>3, <2>1, OperationFields DEF FindSoldLine, At, OfOneSale
  <2> DEFINE s == op[w].sale
  <2>3. s \in Kept => /\ sale[s].line \in Lines \cup {None} /\ sale[s].number \in Lines \cup {None}
                      /\ sale[s].partner \in Partners
    BY <2>2, SaleFields
  <2>4. PICK l \in Lines, p \in Partners :
            /\ Sellable(l, p)
            /\ Continue(w, [at |-> "marking", line |-> l, partner |-> p])
    BY <1>3, <2>3 DEF FindSoldLine
  <2>5. [at |-> "marking", line |-> l, partner |-> p] \in Operation
    BY OperationBuilt
  <2>6. /\ op'[w] = [at |-> "marking", line |-> l, partner |-> p]
        /\ \A v \in Workers \ {w} : op'[v] = Idle
    BY <1>2, <2>4, <2>5, Continues
  <2>7. \A v \in Workers \ {w} : StillTrue(op[v])'
    BY <2>6 DEF StillTrue, Idle
  <2>8. StillTrue(op[w])'
    BY <1>3, <2>4, <2>6 DEF StillTrue, Sellable, FindSoldLine
  <2>9. SerialInv'
    BY <2>6, <2>7, <2>8 DEF SerialInv
  <2> QED
    BY <1>1, <1>2, <1>3, <2>9
<1>4. CASE Done(w)
  BY <1>1, <1>2, <1>4, EndsAlone, QuietIsSerial DEF Quiet, SerialInv, StillTrue, Idle
<1>5. CASE ImportHistorical(w) /\ ~Done(w)
  <2>1. op[w] \in Operation
    BY DEF TypeOK
  <2>2. op[w].sale \in Sales /\ op[w].concluded \in BOOLEAN
    BY <1>5, <2>1, OperationFields DEF ImportHistorical, At, OfOneSale
  <2> DEFINE o == [at |-> "aligning", sale |-> op[w].sale, concluded |-> op[w].concluded]
  <2>3. o \in Operation
    BY <2>2, OperationBuilt
  <2>4. Continue(w, o)
    BY <1>5 DEF ImportHistorical
  <2>5. o.at = "aligning"
    OBVIOUS
  <2> HIDE DEF o
  <2>6. op'[w] = o /\ \A v \in Workers \ {w} : op'[v] = Idle
    BY <1>2, <2>3, <2>4, Continues
  <2>7. \A v \in Workers : StillTrue(op[v])'
    BY <2>5, <2>6 DEF StillTrue, Idle
  <2>8. SerialInv'
    BY <2>6, <2>7 DEF SerialInv
  <2> QED
    BY <1>1, <1>2, <2>8
<1>6. ~FindSoldLine(w) /\ ~ImportHistorical(w) => Done(w)
  BY DEF Proceed, RegisterLine, Reserve, Update, Remove, CreateSale, UpdateSale,
         MarkSold, ImportConcluded, alignDatesWithTask, Rehome
<1> QED
  BY <1>1, <1>2, <1>3, <1>4, <1>5, <1>6

LEMMA SerialInit == Init => SerialInv
  BY QuietIsSerial DEF Init, Quiet

\* Requests that do not overlap in a first state never do.
LEMMA SerialNext ==
    ASSUME Safe, "overlap" \notin weather, SerialInv, [Next]_vars
    PROVE  SerialInv'
<1>1. ASSUME NEW w \in Workers, \/ \E l \in Lines : OfLine(w, l)
                                \/ \E s \in Sales : OfSale(w, s)
      PROVE  SerialInv'
  BY <1>1, SerialBegins
<1>2. ASSUME NEW s \in Sales, endSale(s) \/ removeSale(s) \/ reopen(s)
      PROVE  SerialInv'
  BY <1>2 DEF endSale, removeSale, reopen, Turn, SerialInv, StillTrue, Idle
<1>3. ASSUME NEW w \in Workers, Proceed(w)
      PROVE  SerialInv'
  BY <1>3, SerialProceeds
<1>4. ASSUME NEW w \in Workers, Fail(w)
      PROVE  SerialInv'
  BY <1>4, EndsAlone DEF Fail, Safe, Quiet, SerialInv, StillTrue, Idle
<1>5. CASE UNCHANGED vars
  BY <1>5 DEF vars, SerialInv, StillTrue, LinkedTo, Kept, Open
<1> QED
  BY <1>1, <1>2, <1>3, <1>4, <1>5 DEF Next

\* The circumstances are those of the first state.
LEMMA WeatherHolds == [Next]_vars => weather' = weather
  BY DEF Next, OfLine, OfSale, Proceed, registerLine, reserve, update, remove, create, updateSale,
         conclude, importConcluded, importHistorical, importAgain, rehome, endSale, removeSale,
         reopen, RegisterLine, Reserve, Update, Remove, CreateSale, UpdateSale, FindSoldLine,
         MarkSold, ImportConcluded, ImportHistorical, alignDatesWithTask, Rehome, Fail, vars

\* What LinesAreKept says of a step in which requests do not overlap.
KeepsLines == \A l \in InStock : ~Unlinked(l) /\ (Without({"edit", "sheet"}) => ~Seized(l))

LEMMA SameLines == UNCHANGED line => KeepsLines
  BY DEF KeepsLines, Unlinked, Seized, InStock

\* A row that is written may change its owner only if it had none, or if no
\* such row was in stock.
LEMMA WritesLine ==
    ASSUME TypeOK, NEW l \in Lines, NEW row, row # NoLine,
           line' = [line EXCEPT ![l] = row],
           (l \in InStock /\ Without({"edit", "sheet"})) => line[l].owner \in {None, row.owner}
    PROVE  KeepsLines
<1>1. line'[l] = row /\ \A k \in Lines \ {l} : line'[k] = line[k]
  BY DEF TypeOK
<1>2. \A k \in Lines \ {l} : k \in InStock => line'[k] # NoLine /\ ~Seized(k)
  BY <1>1 DEF InStock, Seized
<1>3. l \in InStock /\ Without({"edit", "sheet"}) => ~Seized(l)
  BY <1>1 DEF Seized
<1> QED
  BY <1>1, <1>2, <1>3 DEF KeepsLines, Unlinked, InStock

LEMMA ProceedKeepsLines ==
    ASSUME Safe, SerialInv, NEW w \in Workers, Proceed(w)
    PROVE  KeepsLines
<1> DEFINE l == op[w].line
           p == op[w].partner
<1> USE DEF Safe
<1>0. op[w] \in Operation /\ StillTrue(op[w])
  BY DEF TypeOK, SerialInv
<1>1. CASE RegisterLine(w)
  <2>1. l \in Lines
    BY <1>0, <1>1, OperationFields DEF RegisterLine, At, OfNumber
  <2>2. CASE l \in InStock
    BY <1>1, <2>2, SameLines DEF RegisterLine
  <2>3. CASE l \notin InStock
    <3>1. line' = [line EXCEPT ![l] = [status |-> "AVAILABLE", owner |-> op[w].owner]]
      BY <1>1, <2>3 DEF RegisterLine, Rewrite
    <3>2. [status |-> "AVAILABLE", owner |-> op[w].owner] # NoLine
      BY DEF NoLine
    <3> QED
      BY <2>1, <2>3, <3>1, <3>2, WritesLine
  <2> QED
    BY <2>2, <2>3
<1>2. CASE Reserve(w)
  <2>1. l \in Lines
    BY <1>0, <1>2, OperationFields DEF Reserve, At, OfNumber
  <2>2. CASE ~Reservable(l, p)
    BY <1>2, <2>2, SameLines DEF Reserve
  <2>3. CASE Reservable(l, p)
    <3>1. line' = [line EXCEPT ![l] = [status |-> "RESERVED", owner |-> p]]
      BY <1>2, <2>3 DEF Reserve
    <3>2. [status |-> "RESERVED", owner |-> p] # NoLine
      BY DEF NoLine
    <3> QED
      BY <2>1, <2>3, <3>1, <3>2, WritesLine DEF Reservable
  <2> QED
    BY <2>2, <2>3
<1>3. CASE Update(w)
  <2>1. l \in Lines /\ op[w].status \in LineStatus
    BY <1>0, <1>3, OperationFields DEF Update, At, OfNumber
  <2>2. ~Without({"edit", "sheet"})
    BY <1>0, <1>3 DEF StillTrue, Update, At, Without
  <2>3. CASE l \notin InStock
    BY <1>3, <2>3, SameLines DEF Update
  <2>4. CASE l \in InStock
    <3>1. PICK owner \in {line[l].owner, op[w].owner} :
              line' = [line EXCEPT ![l] = [status |-> op[w].status, owner |-> owner]]
      BY <1>3, <2>4 DEF Update, Rewrite
    <3>2. [status |-> op[w].status, owner |-> owner] # NoLine
      BY <2>1 DEF NoLine, LineStatus
    <3> QED
      BY <2>1, <2>2, <3>1, <3>2, WritesLine
  <2> QED
    BY <2>3, <2>4
<1>4. CASE Remove(w)
  <2>1. l \in Lines /\ LinkedTo(l) = {}
    BY <1>0, <1>4, OperationFields DEF Remove, At, OfNumber, StillTrue
  <2>2. line'[l] = NoLine /\ \A k \in Lines \ {l} : line'[k] = line[k]
    BY <1>4, <2>1 DEF Remove, Rewrite, TypeOK
  <2> QED
    BY <2>1, <2>2 DEF KeepsLines, Unlinked, Seized, InStock, NoLine
<1>5. CASE CreateSale(w) \/ UpdateSale(w) \/ FindSoldLine(w) \/ alignDatesWithTask(w)
  BY <1>5, SameLines DEF CreateSale, UpdateSale, FindSoldLine, alignDatesWithTask
<1>6. CASE MarkSold(w)
  <2>1. l \in Lines /\ line[l].owner \in {None, p}
    BY <1>0, <1>6, OperationFields DEF MarkSold, At, OfNumber, StillTrue
  <2>2. CASE l \notin InStock
    BY <1>6, <2>2, SameLines DEF MarkSold
  <2>3. CASE l \in InStock
    <3>1. line' = [line EXCEPT ![l] = [status |-> "ACTIVATED", owner |-> p]]
      BY <1>6, <2>3 DEF MarkSold, Rewrite
    <3>2. [status |-> "ACTIVATED", owner |-> p] # NoLine
      BY DEF NoLine
    <3> QED
      BY <2>1, <3>1, <3>2, WritesLine
  <2> QED
    BY <2>2, <2>3
<1>7. CASE ImportConcluded(w)
  <2>1. l \in Lines
    BY <1>0, <1>7, OperationFields DEF ImportConcluded, At, OfNumber
  <2>2. ~Without({"edit", "sheet"})
    BY <1>0, <1>7 DEF StillTrue, ImportConcluded, At, Without
  <2>3. \/ UNCHANGED line
        \/ line' = [line EXCEPT ![l] = [status |-> "ACTIVATED", owner |-> p]]
    BY <1>7 DEF ImportConcluded, Rewrite
  <2>4. [status |-> "ACTIVATED", owner |-> p] # NoLine
    BY DEF NoLine
  <2> QED
    BY <2>1, <2>2, <2>3, <2>4, WritesLine, SameLines
<1>8. CASE ImportHistorical(w)
  <2>1. l \in Lines /\ line[l].owner \in {None, p}
    BY <1>0, <1>8, OperationFields DEF ImportHistorical, At, OfNumber, StillTrue
  <2> DEFINE row == [status |-> CopiedStatus(l, op[w].concluded), owner |-> p]
  <2>2. UNCHANGED line \/ line' = [line EXCEPT ![l] = row]
    BY <1>8 DEF ImportHistorical, Rewrite
  <2>3. CopiedStatus(l, op[w].concluded) # "absent"
    BY <2>1, LineFields DEF CopiedStatus, LineStatus
  <2>4. row # NoLine
    BY <2>3 DEF NoLine
  <2>5. row.owner = p
    OBVIOUS
  <2> HIDE DEF row
  <2> QED
    BY <2>1, <2>2, <2>4, <2>5, WritesLine, SameLines
<1>9. CASE Rehome(w)
  <2>1. l \in Lines \cup {None}
    BY <1>0, <1>9, OperationFields DEF Rehome, At
  <2>2. ~Without({"edit", "sheet"})
    BY <1>0, <1>9 DEF StillTrue, Rehome, At, Without
  <2> DEFINE row == [line[l] EXCEPT !.owner = p]
  <2>3. UNCHANGED line \/ (l \in InStock /\ line' = [line EXCEPT ![l] = row])
    BY <1>9, <2>1 DEF Rehome, Rewrite
  <2>4. l \in InStock => l \in Lines /\ row # NoLine
    BY LineFields DEF InStock, NoLine, LineStatus
  <2> HIDE DEF row
  <2> QED
    BY <2>2, <2>3, <2>4, WritesLine, SameLines
<1> QED
  BY <1>1, <1>2, <1>3, <1>4, <1>5, <1>6, <1>7, <1>8, <1>9 DEF Proceed

LEMMA StepKeepsLines ==
    ASSUME Safe, SerialInv, [Next]_vars
    PROVE  KeepsLines
<1>1. ASSUME NEW w \in Workers, Proceed(w)
      PROVE  KeepsLines
  BY <1>1, ProceedKeepsLines
<1>2. CASE ~\E w \in Workers : Proceed(w)
  <2>1. UNCHANGED line
    BY <1>2 DEF Next, OfLine, OfSale, registerLine, reserve, update, remove, create, updateSale,
                conclude, importConcluded, importHistorical, importAgain, rehome, endSale,
                removeSale, reopen, Fail, vars
  <2> QED
    BY <2>1, SameLines
<1> QED
  BY <1>1, <1>2

\* While requests do not overlap, a sale does not lose its line to a removal,
\* and without edits and spreadsheets a line does not pass from one partner
\* to another.
THEOREM LinesKept == Spec => LinesAreKept
<1> DEFINE Inv == Safe /\ ("overlap" \notin weather => SerialInv)
<1>1. Init => Inv
  BY InventoryInit, SerialInit DEF Safe
<1>2. Inv /\ [Next]_vars => Inv'
  BY SafeNext, SerialNext, WeatherHolds
<1>3. Inv /\ [Next]_vars
      => (Without({"overlap"})
          => \A l \in InStock : ~Unlinked(l) /\ (Without({"edit", "sheet"}) => ~Seized(l)))
  BY StepKeepsLines DEF KeepsLines, Without
<1> HIDE DEF Inv
<1>4. Inv /\ [Next]_vars
      => [Without({"overlap"})
          => \A l \in InStock : ~Unlinked(l) /\ (Without({"edit", "sheet"}) => ~Seized(l))]_vars
  BY <1>3
<1> QED
  BY <1>1, <1>2, <1>4, PTL DEF Spec, LinesAreKept

(***************************************************************************)
(* Sold lines                                                              *)
(***************************************************************************)

\* The foreign key of a sale.
References == \A s \in Kept : sale[s].line \in InStock \cup {None}

\* No operation but a removal takes a line from the stock.
LEMMA StockGrows ==
    ASSUME Safe, NEW w \in Workers, Proceed(w), ~Remove(w)
    PROVE  \A k \in InStock : line'[k] # NoLine
<1> DEFINE l == op[w].line
           p == op[w].partner
<1> USE DEF Safe
<1>0. op[w] \in Operation
  BY DEF TypeOK
<1>1. ASSUME NEW k \in Lines, NEW row, row # NoLine, line' = [line EXCEPT ![k] = row]
      PROVE  \A j \in InStock : line'[j] # NoLine
  BY <1>1 DEF TypeOK, InStock
<1>2. UNCHANGED line => \A k \in InStock : line'[k] # NoLine
  BY DEF InStock
<1>3. /\ [status |-> "AVAILABLE", owner |-> op[w].owner] # NoLine
      /\ [status |-> "RESERVED", owner |-> p] # NoLine
      /\ [status |-> "ACTIVATED", owner |-> p] # NoLine
  BY DEF NoLine
<1>4. CASE RegisterLine(w)
  BY <1>0, <1>1, <1>2, <1>3, <1>4, OperationFields DEF RegisterLine, Rewrite, At, OfNumber
<1>5. CASE Reserve(w)
  BY <1>0, <1>1, <1>2, <1>3, <1>5, OperationFields DEF Reserve, At, OfNumber
<1>6. CASE Update(w)
  <2>1. l \in Lines /\ op[w].status \in LineStatus
    BY <1>0, <1>6, OperationFields DEF Update, At, OfNumber
  <2>2. \/ UNCHANGED line
        \/ \E owner \in {line[l].owner, op[w].owner} :
            line' = [line EXCEPT ![l] = [status |-> op[w].status, owner |-> owner]]
    BY <1>6 DEF Update, Rewrite
  <2>3. \A owner : [status |-> op[w].status, owner |-> owner] # NoLine
    BY <2>1 DEF NoLine, LineStatus
  <2> QED
    BY <1>1, <1>2, <2>1, <2>2, <2>3
<1>7. CASE CreateSale(w) \/ UpdateSale(w) \/ FindSoldLine(w) \/ alignDatesWithTask(w)
  BY <1>2, <1>7 DEF CreateSale, UpdateSale, FindSoldLine, alignDatesWithTask
<1>8. CASE MarkSold(w)
  BY <1>0, <1>1, <1>2, <1>3, <1>8, OperationFields DEF MarkSold, Rewrite, At, OfNumber
<1>9. CASE ImportConcluded(w)
  BY <1>0, <1>1, <1>2, <1>3, <1>9, OperationFields DEF ImportConcluded, Rewrite, At, OfNumber
<1>10. CASE ImportHistorical(w)
  <2>1. l \in Lines
    BY <1>0, <1>10, OperationFields DEF ImportHistorical, At, OfNumber
  <2> DEFINE row == [status |-> CopiedStatus(l, op[w].concluded), owner |-> p]
  <2>2. UNCHANGED line \/ line' = [line EXCEPT ![l] = row]
    BY <1>10 DEF ImportHistorical, Rewrite
  <2>3. CopiedStatus(l, op[w].concluded) # "absent"
    BY <2>1, LineFields DEF CopiedStatus, LineStatus
  <2>4. row # NoLine
    BY <2>3 DEF NoLine
  <2> HIDE DEF row
  <2> QED
    BY <1>1, <1>2, <2>1, <2>2, <2>4
<1>11. CASE Rehome(w)
  <2> DEFINE row == [line[l] EXCEPT !.owner = p]
  <2>1. l \in Lines \cup {None}
    BY <1>0, <1>11, OperationFields DEF Rehome, At
  <2>2. UNCHANGED line \/ (l \in InStock /\ line' = [line EXCEPT ![l] = row])
    BY <1>11, <2>1 DEF Rehome, Rewrite
  <2>3. l \in InStock => l \in Lines /\ row # NoLine
    BY LineFields DEF InStock, NoLine, LineStatus
  <2> HIDE DEF row
  <2> QED
    BY <1>1, <1>2, <2>2, <2>3
<1> QED
  BY <1>4, <1>5, <1>6, <1>7, <1>8, <1>9, <1>10, <1>11 DEF Proceed

\* One sale is written, and no line is taken from the stock.
LEMMA RefersToStock ==
    ASSUME TypeOK, References, NEW s \in Sales, NEW row,
           sale' = [sale EXCEPT ![s] = row],
           \/ row \in {NoSale, Removed}
           \/ row.line = None
           \/ row.line \in Lines /\ line'[row.line] # NoLine,
           \A k \in InStock : line'[k] # NoLine
    PROVE  References'
  BY DEF TypeOK, References, Kept, InStock

LEMMA ReferencesProceed ==
    ASSUME Safe, References, NEW w \in Workers, Proceed(w)
    PROVE  References'
<1> DEFINE l == op[w].line
           s == op[w].sale
<1> USE DEF Safe
<1>0. op[w] \in Operation
  BY DEF TypeOK
<1>1. CASE Remove(w)
  <2>1. l \in Lines
    BY <1>0, <1>1, OperationFields DEF Remove, At, OfNumber
  <2>2. line' = [line EXCEPT ![l] = NoLine]
    BY <1>1 DEF Remove, Rewrite
  <2>3. ASSUME NEW r \in Sales, sale'[r] \notin {NoSale, Removed}
        PROVE  sale'[r].line \in InStock' \cup {None}
    <3>1. sale' = [t \in Sales |-> IF t \in LinkedTo(l) THEN [sale[t] EXCEPT !.line = None] ELSE sale[t]]
      BY <1>1 DEF Remove
    <3>2. CASE r \in LinkedTo(l)
      <4>1. sale[r] \in [state : SaleState, partner : Partners,
                         line : Lines \cup {None}, number : Lines \cup {None}]
        BY <3>2, SaleFields DEF LinkedTo
      <4> QED
        BY <3>1, <3>2, <4>1
    <3>3. CASE r \notin LinkedTo(l)
      <4>1. r \in Kept /\ sale'[r] = sale[r] /\ sale[r].line # l
        BY <2>3, <3>1, <3>3 DEF Kept, LinkedTo
      <4> QED
        BY <2>1, <2>2, <4>1 DEF References, InStock, TypeOK
    <3> QED
      BY <3>2, <3>3
  <2> QED
    BY <2>3 DEF References, Kept
<1>2. CASE ~Remove(w)
  <2>0. \A k \in InStock : line'[k] # NoLine
    BY <1>2, StockGrows
  <2>1. CASE UNCHANGED sale
    BY <2>0, <2>1 DEF References, Kept, InStock
  <2>2. CASE CreateSale(w) /\ sale' # sale
    <3>1. s \in Sales /\ l \in InStock \cup {None}
      BY <1>0, <2>2, OperationFields DEF CreateSale, At, OfOneSale
    <3> DEFINE row == [state |-> "open", partner |-> op[w].partner, line |-> l, number |-> op[w].number]
    <3>2. sale' = [sale EXCEPT ![s] = row]
      BY <2>2 DEF CreateSale
    <3>3. row.line = None \/ (row.line \in Lines /\ line'[row.line] # NoLine)
      BY <3>1, <2>0 DEF InStock
    <3> HIDE DEF row
    <3> QED
      BY <2>0, <3>1, <3>2, <3>3, RefersToStock
  <2>3. CASE UpdateSale(w) /\ sale' # sale
    <3>1. s \in Kept /\ s \in Sales /\ l \in InStock \cup {None}
      BY <1>0, <2>3, OperationFields DEF UpdateSale, At, OfOneSale
    <3>2. sale[s] \in [state : SaleState, partner : Partners,
                       line : Lines \cup {None}, number : Lines \cup {None}]
      BY <3>1, SaleFields
    <3> DEFINE row == [sale[s] EXCEPT !.line = l, !.number = op[w].number]
    <3>3. sale' = [sale EXCEPT ![s] = row]
      BY <2>3, <3>2 DEF UpdateSale, TypeOK
    <3>4. row.line = None \/ (row.line \in Lines /\ line'[row.line] # NoLine)
      BY <3>1, <3>2, <2>0 DEF InStock
    <3> HIDE DEF row
    <3> QED
      BY <2>0, <3>1, <3>3, <3>4, RefersToStock
  <2>4. CASE (ImportConcluded(w) \/ ImportHistorical(w)) /\ sale' # sale
    <3>1. s \in Sales /\ l \in Lines
      BY <1>0, <2>4, OperationFields DEF ImportConcluded, ImportHistorical, At, OfOneSale, OfNumber
    <3>2. PICK state \in {"open", "sold"} :
              sale' = [sale EXCEPT ![s] =
                  [state |-> state, partner |-> op[w].partner, line |-> l, number |-> l]]
      BY <2>4 DEF ImportConcluded, ImportHistorical
    <3>3. PICK status \in LineStatus :
              line' = [line EXCEPT ![l] = [status |-> status, owner |-> op[w].partner]]
      BY <2>4, <3>1, LineFields DEF ImportConcluded, ImportHistorical, Rewrite, CopiedStatus, LineStatus
    <3>4. line'[l] # NoLine
      BY <3>1, <3>3 DEF TypeOK, NoLine, LineStatus
    <3> DEFINE row == [state |-> state, partner |-> op[w].partner, line |-> l, number |-> l]
    <3>5. row.line = l
      OBVIOUS
    <3> HIDE DEF row
    <3> QED
      BY <2>0, <3>1, <3>2, <3>4, <3>5, RefersToStock DEF row
  <2>5. CASE Rehome(w) /\ sale' # sale
    <3>1. s \in Kept /\ s \in Sales
      BY <1>0, <2>5, OperationFields DEF Rehome, At, OfOneSale
    <3>2. sale[s] \in [state : SaleState, partner : Partners,
                       line : Lines \cup {None}, number : Lines \cup {None}]
      BY <3>1, SaleFields
    <3> DEFINE row == [sale[s] EXCEPT !.partner = op[w].partner]
    <3>3. sale' = [sale EXCEPT ![s] = row]
      BY <2>5, <3>2 DEF Rehome, TypeOK
    <3>4. row.line = None \/ (row.line \in Lines /\ line'[row.line] # NoLine)
      BY <3>1, <3>2, <2>0 DEF InStock, References
    <3> HIDE DEF row
    <3> QED
      BY <2>0, <3>1, <3>3, <3>4, RefersToStock
  <2>6. CASE alignDatesWithTask(w) /\ sale' # sale
    <3>1. s \in Kept /\ s \in Sales
      BY <1>0, <2>6, OperationFields DEF alignDatesWithTask, At, OfOneSale
    <3>2. sale[s] \in [state : SaleState, partner : Partners,
                       line : Lines \cup {None}, number : Lines \cup {None}]
      BY <3>1, SaleFields
    <3> DEFINE row == [sale[s] EXCEPT !.state = Aligned(s, op[w].concluded)]
    <3>3. sale' = [sale EXCEPT ![s] = row]
      BY <2>6, <3>2 DEF alignDatesWithTask, TypeOK
    <3>4. row.line = None \/ (row.line \in Lines /\ line'[row.line] # NoLine)
      BY <3>1, <3>2, <2>0 DEF InStock, References
    <3> HIDE DEF row
    <3> QED
      BY <2>0, <3>1, <3>3, <3>4, RefersToStock
  <2>7. CASE RegisterLine(w) \/ Reserve(w) \/ Update(w) \/ FindSoldLine(w) \/ MarkSold(w)
    BY <2>1, <2>7 DEF RegisterLine, Reserve, Update, FindSoldLine, MarkSold
  <2> QED
    BY <1>2, <2>1, <2>2, <2>3, <2>4, <2>5, <2>6, <2>7 DEF Proceed
<1> QED
  BY <1>1, <1>2

\* A sale keeps its line when its status changes.
LEMMA ReferencesChange ==
    ASSUME Safe, References, NEW s \in Sales,
           (\E w \in Workers : conclude(w, s)) \/ endSale(s) \/ removeSale(s) \/ reopen(s)
    PROVE  References'
<1> USE DEF Safe
<1>1. s \in Kept /\ UNCHANGED line
  BY DEF conclude, endSale, removeSale, reopen, Open, Activated
<1>2. sale[s] \in [state : SaleState, partner : Partners,
                   line : Lines \cup {None}, number : Lines \cup {None}]
  BY <1>1, SaleFields
<1>3. \/ sale' = [sale EXCEPT ![s] = Removed]
      \/ \E state : sale' = [sale EXCEPT ![s] = [sale[s] EXCEPT !.state = state]]
  BY <1>2 DEF conclude, endSale, removeSale, reopen, TypeOK
<1>4. \A k \in InStock : line'[k] # NoLine
  BY <1>1 DEF InStock
<1>5. CASE sale' = [sale EXCEPT ![s] = Removed]
  BY <1>4, <1>5, RefersToStock
<1>6. ASSUME NEW state, sale' = [sale EXCEPT ![s] = [sale[s] EXCEPT !.state = state]]
      PROVE  References'
  <2> DEFINE row == [sale[s] EXCEPT !.state = state]
  <2>1. row.line = sale[s].line
    BY <1>2
  <2>2. row.line = None \/ (row.line \in Lines /\ line'[row.line] # NoLine)
    BY <1>1, <1>2, <2>1 DEF References, InStock
  <2>3. sale' = [sale EXCEPT ![s] = row]
    BY <1>6
  <2> HIDE DEF row
  <2> QED
    BY <1>4, <2>2, <2>3, RefersToStock
<1> QED
  BY <1>3, <1>5, <1>6

LEMMA ReferencesNext ==
    ASSUME Safe, References, [Next]_vars
    PROVE  References'
<1>1. ASSUME NEW w \in Workers, Proceed(w)
      PROVE  References'
  BY <1>1, ReferencesProceed
<1>2. ASSUME NEW w \in Workers, NEW s \in Sales, conclude(w, s)
      PROVE  References'
  BY <1>2, ReferencesChange
<1>3. ASSUME NEW s \in Sales, endSale(s) \/ removeSale(s) \/ reopen(s)
      PROVE  References'
  BY <1>3, ReferencesChange
<1>4. CASE UNCHANGED <<line, sale>>
  BY <1>4 DEF References, Kept, InStock
<1>5. ASSUME NEW w \in Workers, NEW l \in Lines, OfLine(w, l)
      PROVE  UNCHANGED <<line, sale>>
  BY <1>5 DEF OfLine, registerLine, reserve, update, remove
<1>6. ASSUME NEW w \in Workers, NEW s \in Sales, OfSale(w, s)
      PROVE  conclude(w, s) \/ UNCHANGED <<line, sale>>
  BY <1>6 DEF OfSale, create, updateSale, importConcluded, importHistorical, importAgain, rehome
<1>7. ASSUME NEW w \in Workers, Fail(w)
      PROVE  UNCHANGED <<line, sale>>
  BY <1>7 DEF Fail
<1>8. CASE UNCHANGED vars
  BY <1>4, <1>8 DEF vars
<1> QED
  BY <1>1, <1>2, <1>3, <1>4, <1>5, <1>6, <1>7, <1>8 DEF Next

\* The line of sale s is that of another partner, or its own and sold.
Marked(s) ==
    LET r == line[sale[s].line]
    IN  r.owner # None /\ (r.owner = sale[s].partner => r.status = "ACTIVATED")

\* A request is about to mark it.
Pending(s) ==
    \E w \in Workers :
        \/ op[w].at = "selling" /\ op[w].sale = s
        \/ /\ op[w].at = "marking"
           /\ op[w].line = sale[s].line
           /\ op[w].partner = sale[s].partner

SoldInv == \A s \in Sales : (Sold(s) /\ sale[s].line # None) => Marked(s) \/ Pending(s)

Calm == Without({"overlap", "failure", "edit"})

LEMMA QuietIsNotPending ==
    ASSUME Quiet, NEW s \in Sales
    PROVE  ~Pending(s)
  BY DEF Quiet, Pending, Idle

\* A row that is written, and a sale that was marked and is not written.
LEMMA StillMarked ==
    ASSUME TypeOK, NEW l \in Lines, NEW row, line' = [line EXCEPT ![l] = row],
           row.owner # None,
           \/ row.status = "ACTIVATED"
           \/ line[l].status # "ACTIVATED" /\ line[l].owner \in {None, row.owner},
           NEW s \in Sales, Marked(s), sale'[s] = sale[s], sale[s].line \in Lines
    PROVE  Marked(s)'
<1>1. line'[l] = row /\ \A k \in Lines \ {l} : line'[k] = line[k]
  BY DEF TypeOK
<1>2. CASE sale[s].line # l
  BY <1>1, <1>2 DEF Marked
<1>3. CASE sale[s].line = l
  BY <1>1, <1>3 DEF Marked
<1> QED
  BY <1>2, <1>3

LEMMA SoldProceeds ==
    ASSUME Safe, References, SerialInv, SoldInv, Calm, NEW w \in Workers, Proceed(w),
           NEW r \in Sales, Sold(r)', sale'[r].line # None
    PROVE  Marked(r)' \/ Pending(r)'
<1> DEFINE s == op[w].sale
           l == op[w].line
           p == op[w].partner
<1> USE DEF Safe
<1>0. op[w] \in Operation /\ StillTrue(op[w])
  BY DEF TypeOK, SerialInv
<1>1. op[w] # Idle /\ \A v \in Workers \ {w} : op[v] = Idle
  BY SerialProceeds
<1>2. (op[w].at \notin {"selling", "marking"} /\ Sold(r) /\ sale[r].line # None) => Marked(r)
  BY <1>1 DEF SoldInv, Pending, Idle
<1>3. Sold(r) => sale[r].line \in InStock \cup {None} /\ sale[r].line \in Lines \cup {None}
  BY DEF References, Sold, InStock
<1>4. r \notin Kept => sale[r] \in {NoSale, Removed}
  BY DEF Kept
<1>5. sale'[r] = sale[r] => Sold(r) /\ sale[r].line # None
  BY DEF Sold, Kept
<1>6. (UNCHANGED line /\ sale'[r] = sale[r] /\ Marked(r)) => Marked(r)'
  BY DEF Marked
<1>7. CASE RegisterLine(w)
  <2>1. l \in Lines /\ Marked(r) /\ sale[r].line \in InStock
    BY <1>0, <1>2, <1>3, <1>5, <1>7, OperationFields DEF RegisterLine, At, OfNumber
  <2>2. line'[sale[r].line] = line[sale[r].line]
    BY <1>7, <2>1 DEF RegisterLine, Rewrite, TypeOK, InStock
  <2> QED
    BY <1>7, <2>1, <2>2 DEF RegisterLine, Marked
<1>8. CASE Reserve(w)
  <2>1. /\ l \in Lines /\ p \in Partners /\ Marked(r)
        /\ sale[r].line \in Lines /\ sale'[r] = sale[r]
    BY <1>0, <1>2, <1>3, <1>5, <1>8, OperationFields DEF Reserve, At, OfNumber, OfPartner, InStock
  <2>2. CASE ~Reservable(l, p)
    BY <1>6, <1>8, <2>1, <2>2 DEF Reserve
  <2>3. CASE Reservable(l, p)
    <3> DEFINE row == [status |-> "RESERVED", owner |-> p]
    <3>1. line' = [line EXCEPT ![l] = row]
      BY <1>8, <2>3 DEF Reserve
    <3>2. row.owner # None
      BY <2>1, InventoryAssumption
    <3>3. line[l].status # "ACTIVATED" /\ line[l].owner \in {None, row.owner}
      BY <2>3 DEF Reservable
    <3> HIDE DEF row
    <3> QED
      BY <2>1, <3>1, <3>2, <3>3, StillMarked
  <2> QED
    BY <2>2, <2>3
<1>9. CASE Update(w) \/ Rehome(w)
  BY <1>0, <1>9 DEF Update, Rehome, At, StillTrue, Calm, Without
<1>10. CASE Remove(w)
  <2>1. l \in Lines /\ LinkedTo(l) = {}
    BY <1>0, <1>10, OperationFields DEF Remove, At, OfNumber, StillTrue
  <2>2. sale'[r] = sale[r]
    BY <1>10, <2>1 DEF Remove
  <2>3. Marked(r) /\ sale[r].line \in Lines /\ sale[r].line # l
    BY <1>2, <1>3, <1>5, <1>10, <2>1, <2>2 DEF Remove, At, LinkedTo, Sold, InStock
  <2>4. line'[sale[r].line] = line[sale[r].line]
    BY <1>10, <2>1, <2>3 DEF Remove, Rewrite, TypeOK
  <2> QED
    BY <2>2, <2>3, <2>4 DEF Marked
<1>11. CASE CreateSale(w) \/ UpdateSale(w)
  <2>1. s \in Sales
    BY <1>0, <1>11, OperationFields DEF CreateSale, UpdateSale, At, OfOneSale
  <2>2. CASE sale'[r] = sale[r]
    BY <1>2, <1>5, <1>6, <1>11, <2>2 DEF CreateSale, UpdateSale, At
  <2>3. CASE sale'[r] # sale[r]
    <3>1. r = s
      BY <1>11, <2>1, <2>3 DEF CreateSale, UpdateSale, TypeOK
    <3>2. CASE CreateSale(w)
      BY <2>1, <2>3, <3>1, <3>2 DEF CreateSale, TypeOK, Sold
    <3>3. CASE UpdateSale(w)
      <4>1. Open(s) /\ s \in Kept
        BY <1>0, <3>3 DEF UpdateSale, At, StillTrue, Open
      <4>2. sale[s] \in [state : SaleState, partner : Partners,
                         line : Lines \cup {None}, number : Lines \cup {None}]
        BY <2>1, <4>1, SaleFields
      <4>3. sale'[s].state = "open"
        BY <2>1, <3>3, <4>1, <4>2 DEF UpdateSale, TypeOK, Open
      <4> QED
        BY <3>1, <4>3 DEF Sold
    <3> QED
      BY <1>11, <3>2, <3>3
  <2> QED
    BY <2>2, <2>3
<1>12. CASE FindSoldLine(w)
  <2>1. s \in Sales /\ op[w].at = "selling" /\ UNCHANGED <<line, sale>> /\ Sold(r)
        /\ sale[r].line # None /\ sale[r].line \in InStock /\ sale[r].line \in Lines
    BY <1>0, <1>3, <1>5, <1>12, OperationFields DEF FindSoldLine, At, OfOneSale
  <2>2. CASE Marked(r)
    BY <1>6, <2>1, <2>2
  <2>3. CASE ~Marked(r)
    <3>1. r = s
      BY <1>1, <2>1, <2>3 DEF SoldInv, Pending, Idle
    <3>2. r \in Kept /\ sale[r].partner \in Partners
      BY <2>1, SaleFields DEF Sold
    <3>3. CASE ~Sellable(sale[r].line, sale[r].partner)
      BY <2>1, <2>3, <3>3 DEF Sellable, Marked
    <3>4. CASE Sellable(sale[r].line, sale[r].partner)
      <4>1. Continue(w, [at |-> "marking", line |-> sale[r].line, partner |-> sale[r].partner])
        BY <1>12, <2>1, <3>1, <3>2, <3>4 DEF FindSoldLine
      <4>2. op'[w] = [at |-> "marking", line |-> sale[r].line, partner |-> sale[r].partner]
        BY <2>1, <3>2, <4>1, OperationBuilt, Continues
      <4> QED
        BY <2>1, <4>2 DEF Pending
    <3> QED
      BY <3>3, <3>4
  <2> QED
    BY <2>2, <2>3
<1>13. CASE MarkSold(w)
  <2>1. l \in Lines /\ p \in Partners /\ op[w].at = "marking" /\ UNCHANGED sale
    BY <1>0, <1>13, OperationFields DEF MarkSold, At, OfNumber, OfPartner
  <2>2. Sold(r) /\ sale[r].line \in InStock /\ sale[r].line \in Lines
    BY <1>3, <1>5, <2>1
  <2> DEFINE row == [status |-> "ACTIVATED", owner |-> p]
  <2>3. row.owner = p /\ row.owner # None /\ row.status = "ACTIVATED"
    BY <2>1, InventoryAssumption
  <2>4. IF l \in InStock THEN line' = [line EXCEPT ![l] = row] ELSE UNCHANGED line
    BY <1>13 DEF MarkSold, Rewrite
  <2> HIDE DEF row
  <2>5. CASE Marked(r)
    BY <1>6, <2>1, <2>2, <2>3, <2>4, <2>5, StillMarked
  <2>6. CASE ~Marked(r)
    <3>1. sale[r].line = l
      BY <1>1, <1>5, <2>1, <2>2, <2>6 DEF SoldInv, Pending, Idle
    <3>2. line'[l] = row
      BY <2>1, <2>2, <2>4, <3>1 DEF TypeOK
    <3> QED
      BY <2>1, <2>3, <3>1, <3>2 DEF Marked
  <2> QED
    BY <2>5, <2>6
<1>14. CASE (ImportConcluded(w) \/ ImportHistorical(w)) /\ UNCHANGED sale
  <2>1. s \in Sales /\ l \in Lines /\ p \in Partners /\ op[w].at \notin {"selling", "marking"}
    BY <1>0, <1>14, OperationFields
    DEF ImportConcluded, ImportHistorical, At, OfOneSale, OfNumber, OfPartner
  <2>2. sale[s] # NoSale
    <3>1. SUFFICES ASSUME sale[s] = NoSale PROVE FALSE
      OBVIOUS
    <3>2. PICK state \in {"open", "sold"} :
              sale' = [sale EXCEPT ![s] =
                  [state |-> state, partner |-> p, line |-> l, number |-> l]]
      BY <1>14, <3>1 DEF ImportConcluded, ImportHistorical
    <3>3. sale'[s].state = state
      BY <2>1, <3>2 DEF TypeOK
    <3> QED
      BY <1>14, <3>1, <3>3 DEF NoSale
  <2>3. UNCHANGED line
    BY <1>14, <2>2 DEF ImportConcluded, ImportHistorical
  <2> QED
    BY <1>2, <1>5, <1>6, <1>14, <2>1, <2>3
<1>15. CASE (ImportConcluded(w) \/ ImportHistorical(w)) /\ sale' # sale
  <2>1. s \in Sales /\ l \in Lines /\ p \in Partners /\ op[w].at \notin {"selling", "marking"}
    BY <1>0, <1>15, OperationFields
    DEF ImportConcluded, ImportHistorical, At, OfOneSale, OfNumber, OfPartner
  <2>2. PICK state \in {"open", "sold"}, status \in LineStatus :
            /\ sale' = [sale EXCEPT ![s] =
                    [state |-> state, partner |-> p, line |-> l, number |-> l]]
            /\ line' = [line EXCEPT ![l] = [status |-> status, owner |-> p]]
            /\ \/ status = "ACTIVATED"
               \/ /\ state = "open"
                  /\ line[l].status # "ACTIVATED"
                  /\ line[l].owner \in {None, p}
    <3>1. CASE ImportConcluded(w)
      BY <1>15, <3>1 DEF ImportConcluded, Rewrite, LineStatus
    <3>2. CASE ImportHistorical(w)
      <4>1. line[l].owner \in {None, p}
        BY <1>0, <3>2 DEF ImportHistorical, At, StillTrue
      <4>2. \/ CopiedStatus(l, op[w].concluded) = "ACTIVATED"
            \/ ~op[w].concluded /\ line[l].status # "ACTIVATED"
        BY <2>1, LineFields DEF CopiedStatus, LineStatus
      <4>3. CopiedStatus(l, op[w].concluded) \in LineStatus
        BY <2>1, LineFields DEF CopiedStatus, LineStatus
      <4> QED
        BY <1>15, <3>2, <4>1, <4>2, <4>3 DEF ImportHistorical, Rewrite
    <3> QED
      BY <1>15, <3>1, <3>2
  <2> DEFINE row == [status |-> status, owner |-> p]
  <2>3. row.owner = p /\ row.owner # None /\ row.status = status
    BY <2>1, InventoryAssumption
  <2>4. line' = [line EXCEPT ![l] = row] /\ line'[l] = row
    BY <2>1, <2>2 DEF TypeOK
  <2> HIDE DEF row
  <2>5. CASE r = s
    <3>1. sale'[r] = [state |-> state, partner |-> p, line |-> l, number |-> l]
      BY <2>1, <2>2, <2>5 DEF TypeOK
    <3>2. status = "ACTIVATED"
      BY <2>2, <3>1 DEF Sold
    <3> QED
      BY <2>3, <2>4, <3>1, <3>2 DEF Marked
  <2>6. CASE r # s
    <3>1. sale'[r] = sale[r]
      BY <2>1, <2>2, <2>6 DEF TypeOK
    <3>2. Marked(r) /\ sale[r].line \in Lines
      BY <1>2, <1>3, <1>5, <2>1, <3>1 DEF InStock
    <3>3. \/ row.status = "ACTIVATED"
          \/ line[l].status # "ACTIVATED" /\ line[l].owner \in {None, row.owner}
      BY <2>2, <2>3
    <3> QED
      BY <2>1, <2>3, <2>4, <3>1, <3>2, <3>3, StillMarked
  <2> QED
    BY <2>5, <2>6
<1>16. CASE alignDatesWithTask(w)
  <2>1. s \in Sales /\ op[w].at = "aligning" /\ UNCHANGED line
    BY <1>0, <1>16, OperationFields DEF alignDatesWithTask, At, OfOneSale
  <2>2. CASE sale'[r] = sale[r]
    BY <1>2, <1>5, <1>6, <2>1, <2>2
  <2>3. CASE sale'[r] # sale[r]
    <3>1. r = s /\ s \in Kept
      BY <1>16, <2>1, <2>3 DEF alignDatesWithTask, TypeOK
    <3>2. sale[s] \in [state : SaleState, partner : Partners,
                       line : Lines \cup {None}, number : Lines \cup {None}]
      BY <2>1, <3>1, SaleFields
    <3>3. sale'[s] = [sale[s] EXCEPT !.state = Aligned(s, op[w].concluded)]
      BY <1>16, <2>1, <3>1, <3>2 DEF alignDatesWithTask, TypeOK
    <3>4. /\ sale'[s].state = Aligned(s, op[w].concluded)
          /\ sale'[s].line = sale[s].line /\ sale'[s].partner = sale[s].partner
      BY <3>2, <3>3
    <3>5. Sold(r)
      BY <3>1, <3>4 DEF Sold, Aligned
    <3>6. Marked(r)
      BY <1>2, <2>1, <3>1, <3>4, <3>5
    <3> QED
      BY <2>1, <3>1, <3>4, <3>6 DEF Marked
  <2> QED
    BY <2>2, <2>3
<1> QED
  BY <1>7, <1>8, <1>9, <1>10, <1>11, <1>12, <1>13, <1>14, <1>15, <1>16 DEF Proceed

\* A request begins, or a sale changes, when nothing is pending.
LEMMA SoldBegins ==
    ASSUME Safe, SoldInv, Quiet, NEW r \in Sales, Sold(r)', sale'[r].line # None,
           \/ \E w \in Workers, l \in Lines : OfLine(w, l)
           \/ \E w \in Workers, s \in Sales : OfSale(w, s)
           \/ \E s \in Sales : endSale(s) \/ removeSale(s) \/ reopen(s)
    PROVE  Marked(r)' \/ Pending(r)'
<1> USE DEF Safe
<1>1. CASE sale'[r] = sale[r]
  <2>1. UNCHANGED line
    BY DEF OfLine, OfSale, registerLine, reserve, update, remove, create, updateSale, conclude,
           importConcluded, importHistorical, importAgain, rehome, endSale, removeSale, reopen
  <2>2. Sold(r) /\ sale[r].line # None
    BY <1>1 DEF Sold, Kept
  <2>3. Marked(r)
    BY <2>2, QuietIsNotPending DEF SoldInv
  <2> QED
    BY <1>1, <2>1, <2>3 DEF Marked
<1>2. CASE sale'[r] # sale[r]
  <2>1. ASSUME NEW w \in Workers, NEW s \in Sales, conclude(w, s)
        PROVE  Pending(r)'
    <3>1. r = s
      BY <1>2, <2>1 DEF conclude, TypeOK
    <3>2. op'[w] = [at |-> "selling", sale |-> s]
      BY <2>1, OperationBuilt, Continues DEF conclude
    <3> QED
      BY <3>1, <3>2 DEF Pending
  <2>2. ASSUME NEW s \in Sales, endSale(s) \/ removeSale(s) \/ reopen(s)
        PROVE  FALSE
    <3>1. s \in Kept
      BY <2>2 DEF endSale, removeSale, reopen, Activated
    <3>2. sale[s] \in [state : SaleState, partner : Partners,
                       line : Lines \cup {None}, number : Lines \cup {None}]
      BY <3>1, SaleFields
    <3>3. r = s
      BY <1>2, <2>2 DEF endSale, removeSale, reopen, TypeOK
    <3>4. sale'[s] = Removed \/ sale'[s].state \in {"open", "ended", "cancelled"}
      BY <2>2, <3>2 DEF endSale, removeSale, reopen, TypeOK
    <3> QED
      BY <3>3, <3>4 DEF Sold, Kept
  <2>3. ASSUME NEW w \in Workers, NEW s \in Sales, OfSale(w, s)
        PROVE  conclude(w, s)
    BY <1>2, <2>3 DEF OfSale, create, updateSale, importConcluded, importHistorical, importAgain,
                      rehome
  <2>4. ASSUME NEW w \in Workers, NEW l \in Lines, OfLine(w, l)
        PROVE  FALSE
    BY <1>2, <2>4 DEF OfLine, registerLine, reserve, update, remove
  <2> QED
    BY <2>1, <2>2, <2>3, <2>4
<1> QED
  BY <1>1, <1>2

LEMMA SoldNext ==
    ASSUME Safe, References, SerialInv, SoldInv, Calm, [Next]_vars
    PROVE  SoldInv'
<1> SUFFICES ASSUME NEW r \in Sales, Sold(r)', sale'[r].line # None
             PROVE  Marked(r)' \/ Pending(r)'
  BY DEF SoldInv
<1>1. ASSUME NEW w \in Workers, Proceed(w)
      PROVE  Marked(r)' \/ Pending(r)'
  BY <1>1, SoldProceeds
<1>2. ASSUME NEW w \in Workers, NEW l \in Lines, OfLine(w, l)
      PROVE  Marked(r)' \/ Pending(r)'
  BY <1>2, SerialBegins, SoldBegins DEF Calm, Without
<1>3. ASSUME NEW w \in Workers, NEW s \in Sales, OfSale(w, s)
      PROVE  Marked(r)' \/ Pending(r)'
  BY <1>3, SerialBegins, SoldBegins DEF Calm, Without
<1>4. ASSUME NEW s \in Sales, endSale(s) \/ removeSale(s) \/ reopen(s)
      PROVE  Marked(r)' \/ Pending(r)'
  <2>1. Quiet
    BY <1>4 DEF endSale, removeSale, reopen, Turn, Calm, Without, Quiet
  <2> QED
    BY <1>4, <2>1, SoldBegins
<1>5. ASSUME NEW w \in Workers, Fail(w)
      PROVE  FALSE
  BY <1>5 DEF Fail, Calm, Without
<1>6. CASE UNCHANGED vars
  BY <1>6 DEF vars, SoldInv, Sold, Kept, Marked, Pending
<1> QED
  BY <1>1, <1>2, <1>3, <1>4, <1>5, <1>6 DEF Next

LEMMA SoldInit == Init => References /\ SoldInv
  BY DEF Init, References, SoldInv, Sold, Kept

LEMMA QuietIsMarked ==
    ASSUME Calm => SoldInv
    PROVE  (Calm /\ Quiet)
           => \A s \in Sales :
               (Sold(s) /\ sale[s].line # None /\ line[sale[s].line].owner = sale[s].partner)
               => line[sale[s].line].status = "ACTIVATED"
  BY QuietIsNotPending DEF SoldInv, Marked

\* Without failures, edits and overlapping requests, the line of a sale that was
\* concluded or imported as concluded, if it is of its partner, is sold.  Sales
\* that a later import of their demand activates may be there, and are not meant.
THEOREM SoldMarked == Spec => []SoldIsMarked
<1> DEFINE Inv == /\ Safe
                  /\ References
                  /\ "overlap" \notin weather => SerialInv
                  /\ Calm => SoldInv
<1>1. Init => Inv
  BY InventoryInit, SerialInit, SoldInit DEF Safe
<1>2. Inv /\ [Next]_vars => Inv'
  <2> SUFFICES ASSUME Inv, [Next]_vars PROVE Inv'
    OBVIOUS
  <2>1. weather' = weather
    BY WeatherHolds
  <2>2. Safe' /\ References'
    BY SafeNext, ReferencesNext
  <2>3. "overlap" \notin weather => SerialInv'
    BY SerialNext
  <2>4. Calm => SoldInv'
    BY SoldNext DEF Calm, Without
  <2> QED
    BY <2>1, <2>2, <2>3, <2>4 DEF Calm, Without
<1>3. Inv => SoldIsMarked
  BY QuietIsMarked DEF SoldIsMarked, Calm, Quiet
<1> HIDE DEF Inv
<1> QED
  BY <1>1, <1>2, <1>3, PTL DEF Spec

=============================================================================
