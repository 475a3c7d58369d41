----------------------------- MODULE Inventory -----------------------------
(***************************************************************************)
(* The lines in stock and the sales that refer to them.  A line belongs to *)
(* a partner or to the general stock; it is registered, reserved, edited   *)
(* and removed by requests, sold by the conclusion of a sale, and written  *)
(* by the two imports of sales made before.  A sale refers to a line of    *)
(* the stock, or to a number that may not be in it.                        *)
(*                                                                         *)
(* A request is split between what it reads and what it writes.  A number  *)
(* registered again after its removal counts as the same row, so that a    *)
(* late write may reach it; the one of the code, by id, fails.  SIM cards  *)
(* are left out: they are registered, transferred, linked and removed in   *)
(* the same way, and neither reserved nor sold.                            *)
(***************************************************************************)
EXTENDS Naturals, FiniteSets

CONSTANTS
    Partners,
    Lines,     \* numbers, in stock or not; a row has the name of its number
    Sales,
    Workers,   \* requests handled at once
    None,      \* no partner: the general stock; no line
    Weathers   \* sets of circumstances to consider: a subset of one allows no step more

Circumstances ==
    {"overlap",  \* the API handles several requests at once
     "failure",  \* a query fails or the API stops in the middle of a request
     "edit",     \* lines are edited, and sales given to another partner
     "sheet"}    \* concluded sales are imported from a spreadsheet

ASSUME InventoryAssumption ==
    /\ None \notin Partners \cup Lines
    /\ Weathers \subseteq SUBSET Circumstances

VARIABLES
    weather,  \* the circumstances, chosen once and for all
    line,     \* line[l]: the row with number l, if there is one
    sale,     \* sale[s]: what a sale says of its line
    holders,  \* holders[l]: the partners told that l is reserved to them
    op        \* op[w]: the request of worker w

vars == <<weather, line, sale, holders, op>>

Owners == Partners \cup {None}

\* "BLOCKED" stands for USED and CANCELLED too, which only an edit sets.
LineStatus == {"AVAILABLE", "RESERVED", "ACTIVATED", "BLOCKED"}

NoLine == [status |-> "absent", owner |-> None]

LineRow == {NoLine} \cup [status : LineStatus, owner : Owners]

\* "sold" and "copied" are ACTIVATED: by a conclusion or a first import, and by
\* a later import of the same demand.  "cancelled" was, "ended" never.
SaleState == {"open", "sold", "copied", "ended", "cancelled"}

\* line: lineId; number: newNumber.
NoSale == [state |-> "none"]

Removed == [state |-> "removed"]

SaleRow ==
    {NoSale, Removed}
    \cup [state : SaleState, partner : Partners,
          line : Lines \cup {None}, number : Lines \cup {None}]

Idle == [at |-> "idle"]

Operation ==
    {Idle}
    \cup [at : {"registering"}, line : Lines, owner : Owners]
    \cup [at : {"reserving", "marking"}, line : Lines, partner : Partners]
    \cup [at : {"updating"}, line : Lines, owner : Owners, status : LineStatus]
    \cup [at : {"removing"}, line : Lines]
    \* the line was found in stock or not, and accepted for the sale
    \cup [at : {"creating", "linking"}, sale : Sales, partner : Partners,
          line : Lines \cup {None}, number : Lines \cup {None}]
    \* the sale was concluded; its line is to be looked for
    \cup [at : {"selling"}, sale : Sales]
    \cup [at : {"importing"}, sale : Sales, line : Lines, partner : Partners]
    \cup [at : {"copying"}, sale : Sales, line : Lines, partner : Partners, concluded : BOOLEAN]
    \* the sale of the demand is there; what the Task says of it is copied
    \cup [at : {"aligning"}, sale : Sales, concluded : BOOLEAN]
    \cup [at : {"rehoming"}, sale : Sales, line : Lines \cup {None}, partner : Partners]

At(w, point) == op[w].at = point

Continue(w, operation) == op' = [op EXCEPT ![w] = operation]

Done(w) == Continue(w, Idle)

\* The API may begin a request; worker w may.
Turn == "overlap" \in weather \/ \A v \in Workers : op[v] = Idle

Free(w) == op[w] = Idle /\ Turn

InStock == {l \in Lines : line[l] # NoLine}

Kept == {s \in Sales : sale[s] \notin {NoSale, Removed}}

Open(s) == s \in Kept /\ sale[s].state = "open"

Sold(s) == s \in Kept /\ sale[s].state = "sold"

Activated(s) == s \in Kept /\ sale[s].state \in {"sold", "copied"}

Ended(s) == s \in Kept /\ sale[s].state \in {"ended", "cancelled"}

LinkedTo(l) == {s \in Kept : sale[s].line = l}

\* A write that is no reservation ends what was told of it.
Rewrite(l, row) ==
    /\ line' = [line EXCEPT ![l] = row]
    /\ holders' = [holders EXCEPT ![l] = {}]

TypeOK ==
    /\ weather \in Weathers
    /\ line \in [Lines -> LineRow]
    /\ sale \in [Sales -> SaleRow]
    /\ holders \in [Lines -> SUBSET Partners]
    /\ op \in [Workers -> Operation]

Init ==
    /\ weather \in Weathers
    /\ line = [l \in Lines |-> NoLine]
    /\ sale = [s \in Sales |-> NoSale]
    /\ holders = [l \in Lines |-> {}]
    /\ op = [w \in Workers |-> Idle]

(***************************************************************************)
(* LinesService, and the lines of StockService                             *)
(***************************************************************************)

\* Also LinesService.create.
registerLine(w, l, p) ==
    /\ Free(w)
    /\ l \notin InStock
    /\ Continue(w, [at |-> "registering", line |-> l, owner |-> p])
    /\ UNCHANGED <<weather, line, sale, holders>>

\* The number is unique.
RegisterLine(w) ==
    /\ At(w, "registering")
    /\ IF op[w].line \in InStock
       THEN UNCHANGED <<line, holders>>
       ELSE Rewrite(op[w].line, [status |-> "AVAILABLE", owner |-> op[w].owner])
    /\ Done(w)
    /\ UNCHANGED <<weather, sale>>

\* For a partner, or for the one that Luxus names.
reserve(w, l, p) ==
    /\ Free(w)
    /\ line[l].status = "AVAILABLE"
    /\ Continue(w, [at |-> "reserving", line |-> l, partner |-> p])
    /\ UNCHANGED <<weather, line, sale, holders>>

\* Mutant: what was read is enough.
Reservable_Read(l, p) == l \in InStock

Reservable(l, p) == line[l].status = "AVAILABLE" /\ line[l].owner \in {None, p}

\* A conditional update; the request fails if it finds nothing.
Reserve(w) ==
    /\ At(w, "reserving")
    /\ LET l == op[w].line
           p == op[w].partner
       IN  IF Reservable(l, p)
           THEN /\ line' = [line EXCEPT ![l] = [status |-> "RESERVED", owner |-> p]]
                /\ holders' = [holders EXCEPT ![l] = @ \cup {p}]
           ELSE UNCHANGED <<line, holders>>
    /\ Done(w)
    /\ UNCHANGED <<weather, sale>>

\* Luxus may give the line to another partner, a partner edits its own.
update(w, l) ==
    /\ "edit" \in weather
    /\ Free(w)
    /\ l \in InStock
    /\ \E p \in Owners, status \in LineStatus :
        Continue(w, [at |-> "updating", line |-> l, owner |-> p, status |-> status])
    /\ UNCHANGED <<weather, line, sale, holders>>

\* By id; an owner that was not named stays.
Update(w) ==
    /\ At(w, "updating")
    /\ LET l == op[w].line IN
        IF l \in InStock
        THEN Rewrite(l, [status |-> op[w].status,
                         owner |-> IF op[w].owner = None THEN line[l].owner ELSE op[w].owner])
        ELSE UNCHANGED <<line, holders>>
    /\ Done(w)
    /\ UNCHANGED <<weather, sale>>

Removable(l) == l \in InStock /\ LinkedTo(l) = {}

remove(w, l) ==
    /\ Free(w)
    /\ Removable(l)
    /\ Continue(w, [at |-> "removing", line |-> l])
    /\ UNCHANGED <<weather, line, sale, holders>>

\* The foreign key of a sale linked since then is set to NULL.
Remove(w) ==
    /\ At(w, "removing")
    /\ LET l == op[w].line IN
        /\ Rewrite(l, NoLine)
        /\ sale' = [s \in Sales |-> IF s \in LinkedTo(l) THEN [sale[s] EXCEPT !.line = None] ELSE sale[s]]
    /\ Done(w)
    /\ UNCHANGED weather

(***************************************************************************)
(* The lines of a sale                                                     *)
(***************************************************************************)

\* What resolveSaleInventory finds for a line by id, or else for a number.
Resolved(id, number) ==
    IF id # None THEN id ELSE IF number \in InStock THEN number ELSE None

\* assertInventoryItem: of the partner or of the general stock.
Acceptable(l, p) == l = None \/ (l \in InStock /\ line[l].owner \in {None, p})

create(w, s, p) ==
    /\ Free(w)
    /\ sale[s] = NoSale
    /\ \E id, number \in Lines \cup {None} :
        /\ id = None \/ number = None
        /\ LET l == Resolved(id, number) IN
            /\ Acceptable(l, p)
            /\ Continue(w, [at |-> "creating", sale |-> s, partner |-> p, line |-> l, number |-> number])
    /\ UNCHANGED <<weather, line, sale, holders>>

\* A line removed since then is refused by the foreign key.
CreateSale(w) ==
    /\ At(w, "creating")
    /\ IF sale[op[w].sale] # NoSale \/ op[w].line \notin InStock \cup {None}
       THEN UNCHANGED sale
       ELSE sale' = [sale EXCEPT ![op[w].sale] =
                [state |-> "open", partner |-> op[w].partner,
                 line |-> op[w].line, number |-> op[w].number]]
    /\ Done(w)
    /\ UNCHANGED <<weather, line, holders>>

\* The line, the number or both are changed.
updateSale(w, s) ==
    /\ Free(w)
    /\ Open(s)
    /\ \E id \in {sale[s].line} \cup Lines \cup {None}, number \in {sale[s].number} \cup Lines :
        LET l == Resolved(id, number) IN
            /\ Acceptable(l, sale[s].partner)
            /\ Continue(w, [at |-> "linking", sale |-> s, partner |-> sale[s].partner,
                            line |-> l, number |-> number])
    /\ UNCHANGED <<weather, line, sale, holders>>

UpdateSale(w) ==
    /\ At(w, "linking")
    /\ IF op[w].sale \in Kept /\ op[w].line \in InStock \cup {None}
       THEN sale' = [sale EXCEPT ![op[w].sale].line = op[w].line, ![op[w].sale].number = op[w].number]
       ELSE UNCHANGED sale
    /\ Done(w)
    /\ UNCHANGED <<weather, line, holders>>

\* STATUS_TRANSITIONS: rejected, or cancelled.  The line stays as it is.
endSale(s) ==
    /\ Turn
    /\ s \in Kept /\ ~Ended(s)
    /\ sale' = [sale EXCEPT ![s].state = IF Open(s) THEN "ended" ELSE "cancelled"]
    /\ UNCHANGED <<weather, line, holders, op>>

\* A concluded sale is not removed.  That one sent to the Task is not either is
\* left to SaleReview.
removeSale(s) ==
    /\ Turn
    /\ s \in Kept /\ ~Activated(s)
    /\ sale' = [sale EXCEPT ![s] = Removed]
    /\ UNCHANGED <<weather, line, holders, op>>

\* Also a sale cancelled since then, whose stage says COMPLETED.
reopen(s) ==
    /\ Turn
    /\ Activated(s) \/ (s \in Kept /\ sale[s].state = "cancelled")
    /\ sale' = [sale EXCEPT ![s].state = "open"]
    /\ UNCHANGED <<weather, line, holders, op>>

\* applySaleCallback: the sale is activated first.
conclude(w, s) ==
    /\ Free(w)
    /\ Open(s)
    /\ sale' = [sale EXCEPT ![s].state = "sold"]
    /\ Continue(w, [at |-> "selling", sale |-> s])
    /\ UNCHANGED <<weather, line, holders>>

\* Mutant: lines of the general stock are left there.
Sellable_Owned(l, p) == l \in InStock /\ line[l].owner = p

Sellable(l, p) == l \in InStock /\ line[l].owner \in {None, p}

\* markSaleLineAsSold: the line by id, or else by number.
FindSoldLine(w) ==
    /\ At(w, "selling")
    /\ LET s == op[w].sale
           l == IF s \notin Kept THEN None
                ELSE IF sale[s].line # None THEN sale[s].line ELSE sale[s].number
       IN  IF l # None /\ Sellable(l, sale[s].partner)
           THEN Continue(w, [at |-> "marking", line |-> l, partner |-> sale[s].partner])
           ELSE Done(w)
    /\ UNCHANGED <<weather, line, sale, holders>>

MarkSold(w) ==
    /\ At(w, "marking")
    /\ IF op[w].line \in InStock
       THEN Rewrite(op[w].line, [status |-> "ACTIVATED", owner |-> op[w].partner])
       ELSE UNCHANGED <<line, holders>>
    /\ Done(w)
    /\ UNCHANGED <<weather, sale>>

(***************************************************************************)
(* SalesImportService.createConcluded and HistoricalSalesService           *)
(***************************************************************************)

\* ACTIVE_SALE, with this line or this number.
SaleOn(l) == \E s \in Kept : ~Ended(s) /\ l \in {sale[s].line, sale[s].number}

\* assertLineFree looks for sales of the line and not for its owner.
importConcluded(w, s, l, p) ==
    /\ "sheet" \in weather
    /\ Free(w)
    /\ sale[s] = NoSale
    /\ ~SaleOn(l)
    /\ Continue(w, [at |-> "importing", sale |-> s, line |-> l, partner |-> p])
    /\ UNCHANGED <<weather, line, sale, holders>>

ImportConcluded(w) ==
    /\ At(w, "importing")
    /\ LET s == op[w].sale
           l == op[w].line
           p == op[w].partner
       IN  IF sale[s] # NoSale
           THEN UNCHANGED <<line, sale, holders>>
           ELSE /\ Rewrite(l, [status |-> "ACTIVATED", owner |-> p])
                /\ sale' = [sale EXCEPT ![s] =
                        [state |-> "sold", partner |-> p, line |-> l, number |-> l]]
    /\ Done(w)
    /\ UNCHANGED weather

\* Mutant: the owner of a line in stock is not looked at.
Copyable_Anyone(l, p) == ~SaleOn(l)

\* assertLineAvailable
Copyable(l, p) ==
    /\ line[l].owner \in {None, p}
    /\ \A s \in Kept : ~Ended(s) => sale[s].number # l

importHistorical(w, s, l, p) ==
    /\ Free(w)
    /\ sale[s] = NoSale
    /\ Copyable(l, p)
    /\ \E concluded \in BOOLEAN :
        Continue(w, [at |-> "copying", sale |-> s, line |-> l, partner |-> p, concluded |-> concluded])
    /\ UNCHANGED <<weather, line, sale, holders>>

\* Mutant: a line that is not in stock yet keeps the status it has not.
CopiedStatus_Kept(l, concluded) == IF concluded THEN "ACTIVATED" ELSE line[l].status

\* A sale that is under way leaves the status of a line that is in stock.
CopiedStatus(l, concluded) ==
    IF concluded THEN "ACTIVATED" ELSE IF l \in InStock THEN line[l].status ELSE "RESERVED"

ImportHistorical(w) ==
    /\ At(w, "copying")
    /\ LET s == op[w].sale
           l == op[w].line
           p == op[w].partner
       IN  IF sale[s] # NoSale
           THEN /\ Done(w)
                /\ UNCHANGED <<line, sale, holders>>
           ELSE /\ Rewrite(l, [status |-> CopiedStatus(l, op[w].concluded), owner |-> p])
                /\ sale' = [sale EXCEPT ![s] =
                        [state |-> IF op[w].concluded THEN "sold" ELSE "open",
                         partner |-> p, line |-> l, number |-> l]]
                /\ Continue(w, [at |-> "aligning", sale |-> s, concluded |-> op[w].concluded])
    /\ UNCHANGED weather

\* importOne finds a sale of the demand, whichever way it was made.
importAgain(w, s) ==
    /\ Free(w)
    /\ s \in Kept
    /\ \E concluded \in BOOLEAN : Continue(w, [at |-> "aligning", sale |-> s, concluded |-> concluded])
    /\ UNCHANGED <<weather, line, sale, holders>>

\* A sale that was sold already stays so.
Aligned(s, concluded) ==
    IF ~concluded THEN "open" ELSE IF Sold(s) THEN "sold" ELSE "copied"

\* By id, whatever became of the sale; of the line only dates are written.
alignDatesWithTask(w) ==
    /\ At(w, "aligning")
    /\ LET s == op[w].sale IN
        sale' = IF s \in Kept
                THEN [sale EXCEPT ![s].state = Aligned(s, op[w].concluded)]
                ELSE sale
    /\ Done(w)
    /\ UNCHANGED <<weather, line, holders>>

rehome(w, s, p) ==
    /\ "edit" \in weather
    /\ Free(w)
    /\ s \in Kept
    /\ Continue(w, [at |-> "rehoming", sale |-> s, line |-> sale[s].line, partner |-> p])
    /\ UNCHANGED <<weather, line, sale, holders>>

\* One transaction, which a missing row undoes.
Rehome(w) ==
    /\ At(w, "rehoming")
    /\ LET s == op[w].sale
           l == op[w].line
       IN  IF s \in Kept /\ l \in InStock \cup {None}
           THEN /\ sale' = [sale EXCEPT ![s].partner = op[w].partner]
                /\ IF l = None
                   THEN UNCHANGED <<line, holders>>
                   ELSE Rewrite(l, [line[l] EXCEPT !.owner = op[w].partner])
           ELSE UNCHANGED <<line, sale, holders>>
    /\ Done(w)
    /\ UNCHANGED weather

(***************************************************************************)
(* Specification                                                           *)
(***************************************************************************)

Fail(w) ==
    /\ "failure" \in weather
    /\ op[w] # Idle
    /\ Done(w)
    /\ UNCHANGED <<weather, line, sale, holders>>

OfLine(w, l) ==
    \/ \E p \in Owners : registerLine(w, l, p)
    \/ \E p \in Partners : reserve(w, l, p)
    \/ update(w, l)
    \/ remove(w, l)

OfSale(w, s) ==
    \/ \E p \in Partners : create(w, s, p)
    \/ updateSale(w, s)
    \/ conclude(w, s)
    \/ \E l \in Lines, p \in Partners : importConcluded(w, s, l, p) \/ importHistorical(w, s, l, p)
    \/ importAgain(w, s)
    \/ \E p \in Partners : rehome(w, s, p)

Proceed(w) ==
    \/ RegisterLine(w)
    \/ Reserve(w)
    \/ Update(w)
    \/ Remove(w)
    \/ CreateSale(w)
    \/ UpdateSale(w)
    \/ FindSoldLine(w)
    \/ MarkSold(w)
    \/ ImportConcluded(w)
    \/ ImportHistorical(w)
    \/ alignDatesWithTask(w)
    \/ Rehome(w)

Next ==
    \/ \E w \in Workers, l \in Lines : OfLine(w, l)
    \/ \E w \in Workers, s \in Sales : OfSale(w, s)
    \/ \E s \in Sales : endSale(s) \/ removeSale(s) \/ reopen(s)
    \/ \E w \in Workers : Proceed(w) \/ Fail(w)

Spec == Init /\ [][Next]_vars

(***************************************************************************)
(* Properties                                                              *)
(***************************************************************************)

Without(circumstances) == weather \cap circumstances = {}

\* However many partners reserve a line at once, and whatever fails, one is
\* told that it has it, and until the line is edited, sold, imported or
\* removed it stays reserved to that one.
ReservedToOne ==
    \A l \in Lines : holders[l] # {} => line[l].status = "RESERVED" /\ holders[l] = {line[l].owner}

Seized(l) == line[l].owner # None /\ line'[l].owner \notin {line[l].owner, None}

Unlinked(l) == LinkedTo(l) # {} /\ line'[l] = NoLine

\* While requests do not overlap, no sale loses its line to a removal, and if
\* no one edits lines, that of a partner never passes to another one: not by
\* stock entries, reservations, sales and the import of historical sales.
LinesAreKept ==
    [][Without({"overlap"})
       => \A l \in InStock : ~Unlinked(l) /\ (Without({"edit", "sheet"}) => ~Seized(l))]_vars

\* The same when concluded sales are imported from a spreadsheet.
ImportSeizesNothing == [][Without({"overlap", "edit"}) => \A l \in Lines : ~Seized(l)]_vars

\* Without failures, edits and overlapping requests, the line of a sale that was
\* concluded or imported as concluded, if it is of its partner, is sold whenever
\* no request is under way: nobody finds it available or reserves it again.  It
\* says nothing of a sale that is activated by a later import of its demand.
SoldIsMarked ==
    (Without({"overlap", "failure", "edit"}) /\ \A w \in Workers : op[w] = Idle)
    => \A s \in Sales :
        (Sold(s) /\ sale[s].line # None /\ line[sale[s].line].owner = sale[s].partner)
        => line[sale[s].line].status = "ACTIVATED"

=============================================================================
