# Luxus Parceiros: verification project

Luxus Parceiros is the panel in which partners register mobile sales. This
directory keeps TLA+ models of the part of it that is hard to test: one
PostgreSQL database that requests, callbacks, queues and timers of every API
replica read and write at once, and two remote systems it must keep in step
with, Luxus Task (where sales are worked on) and telefonia-2 (where they are
billed). The code is NestJS over Prisma; almost every operation reads a row,
awaits something, and later writes the row by id, in READ COMMITTED.

Paths below are relative to `apps/api/src/modules` unless they start otherwise.

## 1. Inventory

| Part | State | Operations | Interacts with | What makes it correct |
|---|---|---|---|---|
| Settlement (`sales/sales.service.ts`, `task-integration/task-integration.service.ts`) | `Sale.status`, `contractStage` | callbacks and polls of the Task, `startReview`, `requestCorrection`, `approveForTask`, `sendToTask`, `updateStatus`, `requestDocuments`, `resubmitDocuments`, `reopen`, `createConcluded` | commissions in the same transaction or after it, outbox | ended sales stay ended; an activated sale is completed, unless it was sent to the Task again, and has its commission |
| Commissions (`commissions/`) | `Commission.status` | `createFromSale`, `approve`, `pay`, `cancel`, `cancelSaleCommission` | called by callbacks, import, outbox | paid stays paid, nothing to pay on a sale that is not activated |
| Outbox (`outbox/`) | `OutboxEvent` (status, attempts) | `enqueueOutboxEvent`, `processDue` | re-runs `createFromSale` | no activation is forgotten, no event is tried for ever |
| Luxus Task queue (`sales/sales.service.ts` 964-1266, 1603-1800, 1957-2003) | `reviewStatus`, `taskSyncStatus`, `taskResponsibleId`, `taskHandoff`, `taskDemandId`, timers in memory | `startReview`, `requestCorrection`, `approveForTask`, `sendToTask`, `reopen`, `retryTaskSync`, `update`, `processTaskSyncQueue`, `syncSaleToTask`, `reinforceSaleAttachmentsToTask` | Luxus Task over HTTP, callbacks | an approved sale has its place in the queue and is synced, with all of its documents |
| Documents (`uploads/`) | `Document` rows, files on a volume, `requiredDocuments` | `uploadFile`, `replaceDocument`, `deleteDocument`, attachments of the Task | pushes to and removals from Luxus Task, review, deletion of sales | the Task has the documents the sale has; no row loses its file, no file its row |
| Signed contracts (`uploads/` 109-140, `sales/sales.service.ts` 1611-1637, 1837-1888) | `contractStage`, `signedContractSyncStatus` | uploads, queue, `syncSignedContract`, reports and the contracts attached to them | Luxus Task | what counts as synced was announced, the last contract of the panel too |
| telefonia-2 queue (`telefonia-intake/`) | `telefoniaSyncStatus` | `enqueue`, `runQueue`, `processQueue`, `sendSale`, `markRetry` | conclusion of a sale, telefonia-2, coordination | one run at a time, no sale sent twice, none forgotten |
| Coordination (`apps/api/src/common/coordination`) | lock entries in Redis or in a table | `acquireLock`, `releaseLock`, `withLock`, counters | used by every queue, and by the login throttle | mutual exclusion while its assumptions hold, and no lock held for ever |
| Review (`sales/sales.service.ts` 343-1020, 2251-2349) | `reviewStatus`, `requiredDocuments` | `create`, `update`, `submitForReview`, `startReview`, `requestCorrection`, `reopen`, `discardDraft`, `remove` | documents, lines, chips | no decision is taken back by an older one; nothing submitted is deleted |
| Requests (`requests/`, `applyCallback`) | `Request.status`, `taskSyncState`, comments | `create`, `respond`, `updateStatus`, `remove`, its own queue | Luxus Task, callbacks | the request follows its demand, no demand without request |
| Imports (`sales-import`, `external-sales/`) | sales, lines, commissions | `createForReview`, `createConcluded`, `importOne`, `rehome`, `alignDatesWithTask` | settlement, lines | an imported conclusion has its commission; an import takes no line from another partner |
| Tickets (`tickets/`) | `Ticket.status`, `slaNotifiedAt` | transitions, SLA timer | coordination | one notice per missed deadline |
| Lines, chips, stock (`lines/`, `stock/`) | `Line.status`, owner, `Sale.lineId` and `newNumber` | `registerLine`, `reserve`, `update`, `remove`, `markSaleLineAsSold` | sales, imports | one partner at a time; a concluded sale's line is sold |
| Sessions (`auth/`, `apps/web/src/lib`) | `RefreshToken`, `PasswordResetToken`, the token in the browser | sign-in, `refresh`, sign-out, passwords, deactivation | tabs of the panel | who should be signed in stays so, who should not is not |
| Registers, notifications, dashboard, screens of web and mobile, packages | rows | CRUD, queries, screens | all | out of scope: no protocol between actors, or outputs only |

The hard behaviours, with their lines, are the `hazards` of `PROJECT.json`:
decisions on stale reads, writes by id, effects after a commit, claims and locks
that expire under their owner, crashes between a remote effect and its record,
lost answers, and timers that live in one process.

## 2. Modules

    Settlement --refines--> CommissionLedger        TaskSync        TelefoniaIntake --EXTENDS--> Coordination
        |                                              |                  |
    MCSettlement                                   MCTaskSync        MCTelefoniaIntake
    SettlementProofs                               TaskSyncProofs    TelefoniaProofs

    RequestSync: MCRequestSync, RequestSyncProofs       Sessions: MCSessions, SessionsProofs
    SaleReview: MCSaleReview, SaleReviewProofs          Inventory: MCInventory, InventoryProofs
    SignedContract: MCSignedContract, SignedContractProofs

A *worker* is whatever runs one such operation: a request, a callback, a tick of
a timer, on any replica. `op[w]` records where it stands and what it read; an
operation is split exactly at the awaits between which another worker can change
what it relies on, and a conditional `updateMany` is one step. A crash forgets
`op[w]`, a transaction that was open rolls back.

**Settlement.** `status`, `stage`, `commission`, `event` are the columns of the
same names. `CallbackRead` decides on the row it read (`SaleLocked` is
`saleLocked`, task-integration 529) and `CallbackUpdate` / `CallbackComplete`
write by id, the latter with the outbox event in the same transaction and
`createFromSale` after it. `ReadCommission` and `GrantCommission` are the two
halves of `createFromSale`, on behalf of a callback, an import or the outbox;
`PickEvent`, `HandleEvent`, `SettleEvent`, `EventFails` are `processDue`.
`Decide`, `BeginEnd`, `EndSale` are a status change with its transaction, opened
by the read of the commission; `BeginReopen`, `ReopenSale` the same for `reopen`.
`stage` distinguishes COMPLETED from every other stage, which is what the code
branches on here. `review` (APPROVED or not) and `task` (queued, sent with
`taskHandoff`, linked to a demand) are there for the writes of `approveForTask`
and `sendToTask`: `HandOver` takes the stage back from COMPLETED, because
`sendToTask` does not look whether the sale is activated (`MaySend`). `Rows` are the sales a spreadsheet brings in as concluded.
`Overlap` says whether an operation may begin on a sale (`Ready`) that another
one is in the middle of; without it, operations on different sales still
interleave. A crash ends an operation.

**CommissionLedger** says what may happen to a commission at all: it is approved
from FORECAST and paid from APPROVED, while its sale is active, granted only
where there is nothing to pay, and a payment is overwritten only by an operation
that had read the commission before. `Settlement` implements it with
`active` = activated sales, `stale` = sales whose commission an operation under
way has read.

**TaskSync.** `review` is APPROVED, or AWAITING for any other `reviewStatus` (a
corrected sale is submitted again, and may then be approved); `status` and
`completed` (the stage) are what `reopen`, `update` and `uploadFile` branch on;
`assigned` says that the sale has a responsible and a deadline, `handoff` that
`taskHandoff` is set, `sync` is `taskSyncStatus`, `linked` that `taskDemandId`
is set, `docs`/`gone` are documents in the
database and files that no longer exist, `demand`/`remote` what Luxus Task
holds. A sale is submitted for review at the start, or a row of a
spreadsheet: approved, SYNCED, without a demand. A decision is a check on the row
read and a write by id, so that `startReview` and `requestCorrection` may write
after an approval (`WriteReview`), and `ReopenSale` leaves a sale that is SYNCED
and linked waiting for review. `Claim`, `Refuse` (no responsible: RETRY, to be
tried again in a minute), `EnsureDemand`, `ImportDocument`, `Link`, `SyncFails`
follow `syncSaleToTask`; `Reclaim` is the queue taking back claims older than 5
minutes; `Reinforce` is the timer of 20 seconds, which occupies its worker while
it waits. `Happens` selects the disturbances of an instance.

**Coordination** and **TelefoniaIntake.** `entry[store]` is the lock's row in
Redis and in the table. Every acquisition has a fresh token, but a replica has at
most one token it will still release, so its name stands for it, and LOST for the
tokens nobody will release. `acquireLock` tries Redis and, when that does not
answer, the table; a release reaches one store and removes only its own token.
Without `REDIS_URL` only the table is used: the same lock under the other name.
`weather` is chosen at the start and never changes: the set of faults that may
happen in that behaviour. It lets one run check all 16 combinations and lets a
property say which faults it tolerates.

**RequestSync.** `status`, `sync`, `linked`, `dated` are `Request.status`,
`taskSyncState`, and whether `taskDemandId` and `completedAt` are set; `demand`
and `reports` are Luxus Task and what it has sent to `applyCallback`. An
operation of the panel (`changeStatus`, `changeResolution`, `remove`,
`retryTaskSync`) is a check on the row it read and, later, a write by id
(`WriteResponse`, `WriteUpdate` and then `WriteDate`, `WriteResolution`,
`Delete`, `Rearm`). `Claim`, `EnsureDemand`, `DemandFails`, `saveTaskLink`,
`MarkRetry` follow `processTaskSyncQueue` and `sendToTask`; a run whose row was
deleted between the claim and its read ends (`ClaimedIsGone`), between the read
and the request it creates the demand all the same. `ReceiveReport` and
`ApplyReport` are the two halves of `applyCallback`, which `syncFromTask`
(`syncFromTask`, `ApplyPoll`) calls with the answer of `getDemand`. An update by
id of a row that is gone is an error in Prisma and writes nothing. Fault sets
are as in `TelefoniaIntake`, and without "overlap" operations on one request
follow each other; since each of them only allows more steps, the run
needs the largest only (`SomeWeathers`), here and in the modules below.

**SaleReview.** One sale from draft to conclusion: `sale` has `status`,
`reviewStatus`, whether it was handed to the queue of `TaskSync` (`sent`), and
the flags of `requiredDocuments`; `rows` are its `Document`s, each with the file
its path names, `files` the volume. A transition of the review is a check on the
row read and a write by id (`Write`); `reopen` accepts what the code calls
`isCompleted`, a sale cancelled after its conclusion included (`completed` is the
last stage). Rows a spreadsheet brings in as concluded are left to `Settlement`
and `TaskSync`. An upload, a replacement, a deletion, an
attachment reported by the Task and the deletion of the sale are split between
the file, the row and the list of flags, in the code's order
(`StoreRow`, `ReadList`, `WriteList`, `UpdateRow`, `DropPrevious`, `Deliver`,
`ReplaceFails`, `DeleteRow`, `RemoveStoredFile`, `DeleteSale`,
`removeStoredFiles`).

**SignedContract.** `contracts` counts up, so that the last one has the greatest
number; those that the Task attached to a report (`ReceiveContract`) are
`received`, and not queued; `sync` is `signedContractSyncStatus`, `stage` tells apart the stage that
the queue looks for, the one of a report, and COMPLETED. `processTaskSyncQueue`
first takes back every claim (`ResetClaims`), then lists and claims, reads the
last contract, announces it (`updateSaleStage`) and writes the outcome by id.
Each replica has a queue of its own.

**Sessions.** `token[t]` is a row of `RefreshToken`: `live`, rotated within the
grace (`recent`), rotated before it (`spent`) or `revoked`, and its family;
`stored[b]` what the tabs of browser `b` share; `link` a `PasswordResetToken`.
`refresh` decides on the row it read, then `CountFamily` (the count of 130) or
`Rotate` (the conditional update of 146), then `generateTokens`. The panel's
half is `refreshAccessToken` (one renewal per tab, `refreshPromise`),
`setTokens`, `clearAuth` on 401, `logout`. `ended`, `left`, `resets` are history
for the properties.

**Inventory.** `line[l]` is the row of a number, if any, with its status and
owner (`None`: the general stock); `sale[s]` has the partner, `lineId` (`line`)
and `newNumber` (`number`), and its `state`: open, sold (concluded by the Task, or
first imported as concluded), copied (activated by a later import of its demand),
ended, or cancelled after it was activated. Each request is a read with its checks (lower case:
`reserve`, `updateSale`) and a write (`Reserve`, `UpdateSale`). `conclude`
activates the sale, `FindSoldLine` and `MarkSold` are `markSaleLineAsSold`;
`importConcluded` is the spreadsheet's; `importHistorical` (a sale that the import
creates), `importAgain` (one that it finds), `alignDatesWithTask`, which ends
both, and `rehome` those of `historical-sales`. `holders` is history: who was told that the line is reserved.

Abstractions common to all: time (a retry that is due, a timer, an expiry are
steps that may happen; "older than 5 minutes" holds of a claim whose owner is
gone, or of any claim when operations may be `slow`), payloads, amounts, names,
timeline, audit, notifications. The `take` of a queue is any subset of what it
may take. Luxus Task is assumed to create at most one demand per sale, as the
comment at sales 1673 ff. and `createDemand` rely on.

## 3. Runs

In parentheses: the distinct states of the run.

| Run | Instance | Shows |
|---|---|---|
| `settlement` (372,000 states) | 1 sale, 2 workers, 2 attempts, 2 activations, crashes and failures anywhere | types, `ActivationIsCovered`, `LedgerSpec` for every interleaving; `EventsAreSettled` under `FairSpec` |
| `settlement_serial` (1,560,000) | 2 sales (one a spreadsheet row), 2 workers, `Overlap` FALSE | what holds when operations on a sale do not overlap, on however many sales the workers are, and whatever crashes between their steps: `CommissionMatchesStatus`, `ActivatedIsSettled` (each with the parts it names), `PaidStaysPaid`, `EndedSaleNotRevived` |
| `sync` (142,000) | 1 sale, 1 required document, 2 workers, every disturbance | types, `QueueMatchesSale` in every interleaving, reviews, reopenings and rows of a spreadsheet included; `ApprovedIsSynced` under `FairSpec` |
| `sync_delivery` (778,000) | 1 sale, 2 documents (one required), 3 workers; failures, slow claims, retries, edits, lost files, ends | `DocumentsDelivered`; with reviews and reopenings too by the proof |
| `telefonia` (224,000) | 1 sale, 2 replicas, every set of faults | types, `OneRunAtATime`, `SentOnce`; `ConcludedIsSent` under `FairSpec` |
| `review` (757,000) | 1 sale, 2 document rows of one type, 3 files, 2 workers, four sets of faults | `DocumentHasFile`: no interleaving and no crash leaves a row without its file, or two rows with one; `NoOrphanFile` without faults; `FulfilledHasDocument` and `ApprovalStands` (`ApprovalKept`, `EndKept`, `SentKept`) without overlap |
| `contracts` (76,600) | 2 contracts, of the panel or the Task, 1 request, 2 replicas, three sets of faults | `SyncedWasAnnounced` in every interleaving, `LatestIsAnnounced` without overlap, `ContractIsSent` under `FairSpec` |
| `sessions` (1,490,000) | 2 tabs of 1 browser, 4 refresh tokens, 1 link, four sets of faults | `LinkResetsOnce` in every interleaving, `EndedStaysEnded`, `StoredIsLive` and `StaysSignedIn` when the API handles one request of the user at a time, in the weather each names |
| `inventory` (1,420,000) | 1 number, 2 partners, 2 sales, 2 workers | `ReservedToOne` in every interleaving; `LinesAreKept` and `SoldIsMarked` (of sales concluded, or first imported as concluded) when requests do not overlap |
| `requests` (304,000) | 1 request, 2 workers, 2 reports under way, the largest sets of faults | types, `RequestMatchesTask` in every interleaving; `StatusFollowsTask`, `DatedIsComplete`, `NoOrphanDemand` when operations on the request do not overlap, in the weather each names; `RequestIsSent` under `FairSpec` |

Two runs reproduce a disagreement between the code and what the repository says
of it; each checks one property and stops at its violation (`findings` has the
quotes; section 5 lists the disagreements without a run of their own):

| Run | Violated | In short |
|---|---|---|
| `settlement_revived` | `EndedSaleNotRevived` | a callback that read the sale before it was cancelled or rejected activates it |
| `inventory_seized` | `ImportSeizesNothing` | a concluded sale imported from a spreadsheet takes a line that another partner has in stock |

**Bounds.** Two workers give every race between two operations and, since each
operation has at most one read and one write that matter, every lost update; the
third worker of `sync_delivery` lets a callback-free sync, a stale sync and an
upload meet. One sale is enough where sales do not share state (they share only
the queue, whose order is abstracted); the proofs below remove the bound. Two
attempts distinguish "one is left" from "none is left", two activations allow one
reopening; `Posts = 2` distinguishes once from more than once, and counting
saturates there. Two reports under way are enough to reorder them; the Task moves
a demand to `concluido` and to a status the map does not know: the first is the
one with a date, the second takes the default, and no other case of the map is
told apart by a property. In `review`, three files are one more than the rows can
refer to, so that a file may be left over while both rows change. In `contracts`,
one request at a time uploads or reports beside two queues, which is where claims
are taken from each other. In `sessions`, four tokens are a sign-in, its rotation,
and two renewals of the same token; a tab with no token left to create one waits,
and the second tab stands for another device as far as revocations go, but not
for one with a storage of its own. In `inventory`, one number is enough since
requests about different numbers share nothing but a sale, which may also drop
its line; overlap and the circumstances of the other properties are explored
apart (`SomeWeathers`), edits only where requests do not overlap.

**Deadlock** is checked in the settlement and telefonia runs, in which something
can always happen. A synced sale whose documents are all uploaded, deleted and
ended may be left alone for ever, and so may a request that was deleted: the runs
of `TaskSync` and `RequestSync` switch it off, and so do those of `SaleReview`
(a sale that was deleted), `SignedContract` (nothing left to upload or send),
`Sessions` (no token left) and `Inventory` (every sale removed).

**Symmetry** is used in `settlement_serial`, `sync_delivery`, `review`, `sessions`
and `inventory`, which have no liveness property: of workers and tabs, which hold
nothing but operations, and of documents, files, partners and sales, which are
alike.

**Fairness.** Weak fairness of every operation under way: promises settle, with a
result or an error. Strong fairness of `PickEvent`, `Reclaim`, `ClaimNext`, `Claim`: the
30-second timers of the outbox and of the queue do not wait for requests and look at all that is due,
so a sale or an event that is due again and again is looked at. In
`TelefoniaIntake`, entries expire (`PX`, `expiresAt`), timers keep trying the lock
every 20 s, and what is stale or due again and again comes up in some run: this
excludes the starvation listed as a hazard at telefonia-intake 107, where three
sales that always fail keep a fourth out of `take: 3`. In `SignedContract`, a replica's queue keeps
starting runs (the timer) and finishes them. Crashes and failures are
never fair; the liveness properties are about behaviours in which they stop, and
say so in their premise, `<>[][Step]_vars`: from some point on every step is one
of `Step`, the actions that are not faults.

## 4. Proofs

For every set of sales, workers, documents and replicas and every number of
attempts, from the assumptions named in the modules (`SettlementAssumption`,
`TaskSyncAssumption`, `CoordinationAssumption`, `TelefoniaAssumption`,
`RequestSyncAssumption`, `SessionsAssumption`, `SaleReviewAssumption`,
`SignedContractAssumption`, `InventoryAssumption`):

| Module | Theorem | Argument |
|---|---|---|
| `SettlementProofs` | `TypeCorrect`: `Spec => []TypeOK` | `TypeInv` adds that a pending event has an attempt left (`PendingHasAttempt`), without which an attempt more would leave the type of `attempts` |
| `SettlementProofs` | `ActivationCovered`: `Spec => []ActivationIsCovered` | `CoverInv` follows the worker that may still mark the event as done: before that step it has seen the commission, or the sale not activated, and with at most one activation neither is undone |
| `SettlementProofs` | `LedgerImplemented`: `Spec => LedgerSpec` | initial states map to initial states and, from the types and `ReadRowsExist`, every step maps to a step or a stutter |
| `SettlementProofs` | `SettledWithoutOverlap`, `PaidWithoutOverlap`, `EndedWithoutOverlap`, `ActivationSettled`, each `~Overlap => (Spec => ...)` | `Alone`: without overlap a sale has one operation at most, and a step changes no sale but its own, so that every other operation finds its sale as it left it (`AloneNext`, `Undisturbed`). From this, `SerialInv` says that what an operation read or decided is still so (`StillTrue`), `SettledInv` that a callback which finds the sale activated leaves its stage alone, that only a row of the spreadsheet can be activated without a demand, so that an operation about to hand over an activated sale has such a row, and that an event is marked as done only with the commission there (`StillSettled`) |
| `TaskSyncProofs` | `SyncTypeCorrect`, `QueueConsistent` | `WorkIsAssigned`: who may create a demand saw the responsible, and who may link a sale has made sure that its demand is there; neither is ever taken back, so its outcome may be written whatever overlapped |
| `TaskSyncProofs` | `DocumentsArrive`: `NothingUndone => (Spec => []DocumentsDelivered)` | `EachIsOwed`: while a linked sale is SYNCED, each document missing in Luxus Task is owed by some worker, an upload about to deliver it or a second pass that waits or is under way. `NothingUndone` excludes callbacks, crashes and deletions, with which the property is false |
| `TelefoniaProofs` | `IntakeTypeCorrect`, `QueueIsExclusive`, `NoSecondSend` | `RunHoldsLock`: in steady weather a run in progress is the one named in Redis; `SentIsKnown`: without faults a counted request is in flight or recorded as SYNCED, and no run has the sale before it again |
| `RequestSyncProofs` | `RequestTypeCorrect`, `RequestConsistent`: `Spec => []RequestMatchesTask` | `RowsMatch` adds that only a request that is to be sent has a demand, and only a demand is reported on; `Fits`, that an operation about to link or to apply a report knows of a demand. Both survive every write of the others (`Keeps`), which is why no conditional write is needed here |
| `RequestSyncProofs` | `DatesComplete`, `DemandsKept`, `StatusFollowed` | One operation at a time on each request (`Alone`; `OneMoves`, `Elsewhere`: the steps on one request leave the others as they were). `DatedInv`: a date on a request that is not complete is between the two writes of `update`, which still knows what it read. `OrphanInv`: a demand is linked or about to be, and what is about to be deleted has none. `FollowInv`: the last report on its way tells where the demand is (`LastReport`); when there is none, the status follows or one operation is about to write it, and the panel writes only what is not linked. It needs `DatedInv` for the date of what is reported complete |
| `SessionsProofs` | `SessionsTypeCorrect`, `LinkOnce`, `EndedForGood` | `IssuedInv`: the tokens requests and browsers hold were issued. `LinkInv`: a link that was used, or is being, is no longer open, and one request at most is between the claim and the new password. `SerialInv`: with one request at a time, what was read of a token still holds, so that a renewal under way belongs to a family that nobody has ended |
| `SessionsProofs` | `SignedInStays`, `StoredValid` | with one request at a time: `StaysInv`, until the user leaves, every family has a valid token or the request under way is about to create it, so that nothing is refused; `StoredInv`, a token is in one browser at most, and what a browser has stored is valid or ended, unless its successor is being created or was answered |
| `InventoryProofs` | `InventoryTypeCorrect`, `ReservedAlone`, `LinesKept`, `SoldMarked` | `ReservedToOne` is inductive with the types: every promise is a conditional update. The other two follow the one request under way: `StillTrue` says that what it read holds, `SoldInv` that the line of a sold sale is sold, belongs to another partner, or is about to be marked by that request; `References`, that lines of sales exist |
| `SaleReviewProofs` | `ReviewTypeCorrect`, `RowsKeepFiles`, `ApprovalHeld`, `NothingOrphaned`, `FulfilledIsUploaded` | `FilesInv`: a file about to get its row is referred to by nobody and in no other operation's hands, a file about to be removed by no row but the one that is about to change, which holds in every interleaving. `ApprovalInv`, `MatchInv`, `FulfilledInv` say of the one operation under way what it read, which files it still has to remove, and which type it still has to mark; `Stands`, that an operation about to write the review found the sale as it still is, so that only `reopen` leaves an approval or an end |
| `SignedContractProofs` | `ContractTypeCorrect`, `SentIsAnnounced`, `LatestIsSent` | `AnnouncedInv`: a run about to write SYNCED has announced a contract, and announcements are not taken back, so that this holds in every interleaving. That it was the last one holds without overlap and crashes: `SerialInv` says that no contract of the panel is later than the one being sent (`received` ones may be), and that a sale that shows as sent is covered or has an upload under way that will queue its contract |

Each theorem names a property of a run. The hypotheses are those of the property:
the weather it names, or a constant of the instance (`~Overlap`, `NothingUndone`),
which the run fixes; the sets of actors and data are arbitrary. TLC has checked
the inductive invariants on the instances of the runs.

Only model-checked: the liveness properties (`EventsAreSettled`,
`ApprovedIsSynced`, `ConcludedIsSent`, `RequestIsSent`, `ContractIsSent`), which
need ENABLED and fairness. Every safety invariant and action property of a passing
run has its theorem.

## 5. What the models do not say

**Not modelled.**

- Tickets, registers (partners, branches, clients, plans, operators, campaigns,
  financial records), notifications, audit, dashboard, the HTTP shell, screens:
  rows written by one operation each, queries, outputs (`components` has a reason
  for each).
- SIM cards, movements of stock, operators and plans of a line; what the imports
  create besides sales and lines.
- Sales of a historical import (`importOne`) in `Settlement` and `TaskSync`: the
  import, and each later one of the same demand, writes status and stage by id
  (`alignDatesWithTask`, historical-sales 548), whatever they were. `Inventory`
  has both, as far as lines go.
- Counters of failed sign-ins, access tokens, permissions, the mobile app's copy
  of the renewal.
- The lock of the sales, requests, outbox and tickets queues: the same
  `Coordination`, but approvals and retries walk the sales queue without it
  (sales 1065, 1149, 1186), so `TaskSync` does not rely on it.
- Comments of requests and their queue; attachments of requests.
- The order of the telefonia queue: with three sales that always fail and are due
  again, `take: 3` keeps a sale that was never tried waiting (telefonia-intake 107).

**Limits of what is checked.** `ActivatedIsSettled` excepts, by name, rows of a
spreadsheet: from the last stage once they were sent to the Task, and from the
commission. `QueueMatchesSale` says nothing of a sale that is not approved being
out of the queue: a reopened one is SYNCED, and so is one whose correction was
written over an approval. `SoldIsMarked` leaves out a sale that a later import of
its demand activated. With crashes, a document uploaded during a sync, or
stored just before the crash, may never reach Luxus Task: `sync_delivery` has no
crashes. When operations on a request overlap, its status may be that of an older
report or of the panel, and a demand may lose its request. A report that is lost
is made up for only by `syncFromTask`, on demand. A signed contract that
the Task attached is not queued, and when it is the newest one, it is the one that
the queue announces for one of the panel (sales 1849). When requests about a line
overlap, it may change hands or lose its sale between a check and its write. A
renewal that is about to create its token escapes a sign-out or a new password
that comes in between.

**Differences** between the code and what it says, or might be expected to do,
seen while modelling and without a run of their own:

- Settlement: a cancellation overwrites a payment it did not see
  (commission-lifecycle 26, against its line 8); an operation that read a
  cancelled commission may write over a later payment of it; the outbox marks as
  done an event that was re-armed meanwhile (outbox 53); an import that crashes
  after its transaction has no event to create the commission (sales-import 425);
  `alignDatesWithTask` overwrites status and stage without the commission; a row of
  the spreadsheet is concluded without a demand, a retry leaves it in RETRY (sales
  1661), and `sendToTask`, which does not look at the status (1087), then takes
  its stage back while it stays ACTIVATED, so that the queue of telefonia-2, which
  asks for COMPLETED, passes it over; a reopened sale whose demand is still concluded is concluded by the next poll.
- Sync: a reopened sale awaits its review while it counts as SYNCED (sales 1978), and
  a correction or the start of a review that overlaps an approval takes the review
  back from a sale that the queue sends all the same (971, 995); the approval of a
  reopened sale from a historical import, which has no demand under its id,
  would create a second one; a callback writes SYNCED over RETRY, and the document of the failed pass
  is never sent (task-integration 631); a document deleted after a failed sync
  stays in the Task (uploads 526); the queue sends a sale that was cancelled after
  its approval (sales 1618); an optional document whose file was lost makes the
  second pass fail for ever (sales 1224); a retry from the panel starts a second
  sync beside the first; a delivery that overlaps a deletion attaches the document
  again.
- Documents: an error after the row of a replaced document was updated removes
  the new file, to which the row refers (uploads 460; docs/HISTORICO-DE-VERSOES.md
  279 says that the documents of a sale "não podem se perder").
- Contracts: a report that comes before the queue moves the stage on, and the
  queued contract is never sent (task-integration 638; uploads 135 promises that
  it "será enviado").
- Sessions: between the rotation of a token and the creation of the next one the
  family has none that is valid; a second tab that renews then gets 401 and signs
  the browser out (auth 130), within the 30 seconds of tolerance that README.md 373
  promises to "abas ou requisições que renovam ao mesmo tempo".
- Inventory: an import that finds the sale of its demand concludes it and leaves its
  line for sale, or reopens one that was concluded or ended (historical-sales 556);
  nothing keeps two open sales from referring to one line, nor a line
  of the general stock from being reserved by another partner while a sale refers
  to it (sales 597; README.md 510 (19) asks for "linha/chip livres"); its
  conclusion then leaves the line as it is.
- telefonia-2: a sale whose answer was lost is sent again, and one reopened between
  its claim and the request is sent all the same (telefonia-intake 184, 162).
- Requests: `respond` with a resolution alone clears the date of a request that
  stays COMPLETED (requests 665); comments are stored without a retry date, which
  the comment queue requires (requests 971); the run that `create` starts has no
  catch (requests 312); requests 355 and 475 promise that the panel does not
  change or delete a linked request, which overlaps contradict.

## 6. Plan

1. Abstract specifications the queues implement, with the refinement proved: "an
   item is taken, delivered and recorded, and never recorded undelivered", for
   `TaskSync`, `TelefoniaIntake`, `RequestSync` and `SignedContract`; a lock with
   an owner, for `Coordination`.
2. **RequestSync**, the rest: comments and their queue.
3. **Tickets** and their SLA notice, **counters of Coordination** and the sign-in
   throttle over the same lock.
4. SIM cards in **Inventory**, with their transfers and movements.

The order puts first what several actors write.
