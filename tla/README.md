# Verification of parcel-nest

TLA+ models, model-checking runs and machine-checked proofs for the parcel-nest
API (NestJS, TypeORM, PostgreSQL). Paths below are relative to the repository's
`src/` folder unless they start with `README`; `parcel.service.ts:1543` is line
1543 of `src/parcel/services/parcel.service.ts`.

- [1. The system](#1-the-system)
- [2. The models](#2-the-models)
- [3. The runs](#3-the-runs)
- [4. The proofs](#4-the-proofs)
- [5. What the checks found](#5-what-the-checks-found)
- [6. What is not modelled, and the plan](#6-what-is-not-modelled-and-the-plan)
- [7. Running it](#7-running-it)

## 1. The system

One Node process (or several serverless instances of it) serves HTTP routes.
Handlers run concurrently and interleave at every `await`. All shared state is
in PostgreSQL at READ COMMITTED. The code opens a transaction in few places;
outside them each query commits on its own. TypeORM's `save` of an entity that
was loaded earlier is a `SELECT`, a comparison with the in-memory entity and an
`UPDATE` of the columns that differ: there is no version column and, except in
one place, no explicit row lock. Work that follows a commit (mail, pushes,
notifications, the assistant's index) runs in the background of the process.

| Component | State it keeps | Operations | Talks to |
|---|---|---|---|
| Parcel lifecycle (`parcel/`) | `parcels`, `parcel_status_logs` | book, bulk-book, update status, failed attempt, reschedule, edit, reissue code, assign, unassign, cancel, confirm, prove delivery, block | posts ledger entries in its transaction; announces after it |
| Ledger (`ledger/`) | `ledger_entries`, append-only | post, sum an account, sum a parcel's fees, record a deposit, record a payout | called by parcels and payments inside their transaction |
| Online payment (`payment/`) | `payments` | checkout, success, fail, cancel, ipn | SSLCommerz (session, validation); ledger; marks the parcel paid |
| Pricing (`parcel/utils`) | none | quote, zone, return fee | called by booking and editing |
| Sessions and sign-in (`auth/`, `token/`) | `refresh_tokens` | sign in, refresh, log out, end one session, log out everywhere | the failed sign-in counter of accounts; the access of the account |
| Password reset, e-mail verification (`auth/`) | `password_resets`, `email_verifications` | request, redeem once, expire | mail, sessions, accounts |
| Accounts (`user/`) | `users` | register, edit, approve, block, count wrong passwords, remove, find or create a receiver | parcels name them; ending sessions |
| Announcements (`parcel-notification`, `common/background`, `notification/`) | `notifications`, pending tasks | announce, store, push, mail, mark read, prune, drain at shutdown | mail, sockets, index |
| Realtime gateway (`realtime/`) | rooms of sockets | handshake, join, push, disconnect | accounts, sessions |
| Chat assistant (`rag/`) | vectors of parcels and documents | index, rebuild, prune, upload, delete, answer, stream | model provider, vector index |
| Keep-alive (`keep-alive/`) | none of its own | ping, prune what has expired | sessions, grants, notifications |
| Audit, dashboard, contact, config, schema | append-only or read-only or single rows | | |

### What is hard

- **A request decides with an old row.** `findByTrackingIdOrFail` reads the parcel
  outside any transaction; `persist` saves the entity later
  (parcel.service.ts:1543). Two requests for one parcel may each decide before
  either writes.
- **Money follows status.** Four places compute ledger rows from different
  sources: the row (delivery), the frozen breakdown (return), two fees
  (re-pricing), the ledger itself (cancellation). Along every path they have to
  add up.
- **Three ways to deliver.** Status route, receiver's confirmation, courier's
  proof, each with its own guards, and proof may be attached again later.
- **The gateway is asynchronous.** The success redirect and the ipn report the
  same payment twice; a decline may precede a success; reports repeat; the
  validation call may take 20 seconds or fail.
- **Withdrawals read before they write.** A payout sums an account and then
  inserts a row; bookings charge the same account without taking the lock the
  payout takes.
- **Nothing is retried by the code.** What must happen in the end depends on
  someone asking again.
- **Tokens are presented twice.** Two tabs refresh at once, a rotation races a log-out
  everywhere, a reset link is opened twice, and each of those is several statements
  with no transaction around them.
- **Whole accounts are saved.** Profile, password, approval, blocking and removal each
  load a user, change a field and save the entity: the last save decides every column.
- **What follows a commit is not stored.** Mail, pushes, inbox rows and the assistant's
  index are tasks of the process: they run in any order, fail one by one, and are lost in
  a crash.

### What makes each part correct

- *Parcel*: only moves of `PARCEL_STATUS_TRANSITIONS`; each move logged in the
  same commit; a code usable only while the parcel is out; attempts and wrong
  codes within their limits; delivered parcels stamped; prepaid parcels paid
  before pickup.
- *Ledger of a parcel*: the fee charged is the fee on the row, nothing once
  cancelled; cash on both accounts, once, exactly when delivered; return fees for
  returned parcels only.
- *Ledger of an account*: a withdrawal never takes more than is there; no courier
  is ever owed money; every transaction ends.
- *Payments*: credited once; only what the gateway cleared; a payment is never
  undone; a parcel is paid only because an attempt is; money taken is credited in the
  end.
- *Sessions*: a device holds one token however often it is presented; a device that
  was signed out does not come back; what outlives a password change, a block or a
  removal was recorded by a request already under way.
- *Grants*: a link sets the password once; requests that overlap do not pile up links.
- *Accounts*: an administrator who can sign in is left; a guesser has so many tries; a
  receiver's account is created and invited once; a removed account stays removed.
- *Announcements*: the newest move reaches everyone it concerns on every channel that
  works; the index ends up current; a shutdown waits for all of it, and ends.
- *Assistant*: a document is in the index whole or not at all unless the last change of
  it failed half way, and never mixed with an older one; a stream ends with one event.
- *Pricing*: what it quotes is what the parcel modules assume of a quote.

`PROJECT.json` lists the hazards one by one, each at its line, with the properties
that would catch it.

## 2. The models

| Module | Models | Builds on |
|---|---|---|
| `ParcelOps` | every mutating route of `ParcelService` as a function of the row it read | |
| `ParcelFlow` | one parcel, each request served at once: what the routes promise | `ParcelOps` |
| `ParcelRequests` | the same routes as they run: read, second read, diff, write, interleaved | `ParcelFlow` |
| `Payments` | checkout, the callbacks and the gateway, next to the parcel's routes | `ParcelFlow` |
| `LedgerBook` | accounts moved by parcel events, deposits and payouts, each at once: what the ledger promises | |
| `Ledger` | the same with transactions and row locks | `LedgerBook` |
| `Devices` | the devices an account's owner is shown: what sessions promise | |
| `Sessions` | refresh tokens, reset links, sockets and the access of one account, statement by statement | `Devices` |
| `Accounts` | the users table under whole-entity saves, the lockout, and receivers created by bookings | |
| `Announcements` | the tasks behind a committed move, the inbox, the index and its rebuild, shutdown and crashes | |
| `Assistant` | documents and streamed answers, next to the announcements that feed the index | `Announcements` |
| `Pricing` | the delivery fee, the return fee and the quotes they lead to | |
| `MC...` | rates, payloads, terms, traffics and symmetry sets for TLC | |
| `..._proofs` | theorems, see section 4 | |

There are three abstract specifications. `ParcelFlow` is what a parcel promises:
`ParcelRequests` implements it up to the first overlap of two requests (`ImplementsFlow`),
and `Payments` implements it in every case (`KeepsParcelFlow`). `LedgerBook` is what the
ledger promises, and `Ledger` implements it in every case (`ImplementsBook`). `Devices` is
what the list of sessions promises, and `Sessions` implements it in every case
(`KeepsDevices`). No module declares a recursive operator.

### ParcelOps, ParcelFlow: one parcel

A handler is a set of *changes*, empty when a guard refuses: `updateStatusOut(p,
actor)` is what `updateStatus` may do to the row `p` when asked for
OUT_FOR_DELIVERY. A change holds the whole in-memory entity after the handler's
assignments (`after`), the columns it assigned, the status it passes for the timeline
row (`log`, an argument of its own in every handler), the ledger drafts, who acted, the
code that still has to be verified, and whether it is saved by `persist` or is a
direct column update. `updateStatus` is split into one operator per branch of
its switch; `submitDeliveryProof` into handover, wrong code and proof afterwards.

| Variable | Code |
|---|---|
| `parcel` | the row of `parcels`; "UNBOOKED" stands for no row |
| `books` | the sums of the parcel's `ledger_entries`, per entry type |
| `logged` | the newest row of `parcel_status_logs` |

Data that no property looks at is gone: addresses, windows, tracking ids, notes, photos,
dates (a date column is null or set). A quote is a record of cash, fee, the cash-handling
share and the cost of a return: what the code does with a price does not depend on how it
was computed, as long as a prepaid parcel has no cash-handling share (`QuotesAssumption`).
`Pricing` computes quotes, `parcel_flow` runs on quotes it computed, and
`QuotesAreAssumed` proves the assumption of all of them. Actors are an admin, the sender,
the receiver and the couriers; everybody else is refused everywhere, and an account that
plays two parts is two actors who act on its behalf. An edit that touches no priced field
is a save of the row as it is. Booking a file calls `create` once per row, so it is that
many bookings.

### ParcelRequests: overlapping requests

Each slot of `Requests` runs one handler in the steps the code runs it:
`Receive...` (the read, the guards, the in-memory edit), `AcceptCode` /
`MissCode` / `RefuseCode` (the second read, of the unselected code columns),
`Diff` (the SELECT inside `save`), `ReadFees` (a cancellation's UPDATE and the sum
it refunds), `Write` (UPDATE, log row, ledger rows, commit). The row lock
PostgreSQL takes for an UPDATE is held from there to the commit (`HoldsRow`);
a save whose diff is empty has no UPDATE and waits for nobody. `deliveryCodeHash`
and `deliveryCodeAttempts` are `select: false`, so a save writes them exactly when
the handler assigned them (`Unselected`). `ConfirmPayment` is the payment module's
conditional update landing between any two steps.

### Payments: the gateway

| Variable | Code |
|---|---|
| `payments` | rows of `payments`: status and amount |
| `credits` | how many FEE_PAYMENT rows an attempt has in the ledger |
| `gateway` | what SSLCommerz makes of the transaction (external) |
| `reports` | callbacks sent, which may arrive at any time, any number of times |
| `work` | each request in flight: its stage, and what it read before it waited |
| `toldPaid` | which attempts' payers were sent to status=paid; read by no action |
| `dropped` | attempts whose ipn was answered 200 after its validation call failed; read by no action |

`Checkout` reads the parcel, `OpenAttempt` inserts the row, `SessionOpens` or
`SessionFails` ends it. A callback is received (`ReceivePaid`, `ReceiveConfirm`,
`ReceiveAbandon`), waits for the validation call (`Unreachable`, `Refuse`,
`Flag`, `Accept`) and writes (`Record` is `settleUnpaid`, `Credit` the crediting
transaction). `Stop` ends a request anywhere: a crash, or the platform cutting it
off; nothing but committed rows is left. The gateway takes money on an open
session even after it declined once, holds money as risky, clears it, or stops
standing by it; it answers a validation according to its state at that moment.
Session and validation calls carry the transaction id and the amount, so a
mismatch of either is the same as a refused validation.

### LedgerBook, Ledger: accounts

`balance` is the sum of an account's rows, `parcels` how far each parcel is as
far as money goes. In `LedgerBook` an `Event` posts the rows of a parcel event, a
`Withdraw` takes a deposit or payout not above the balance. `Ledger` gives each
transaction the steps it has: `LockAccount` (SELECT ... FOR UPDATE of the
account's user row), `Check` or `Refuse`, `Share` (the foreign keys of the inserted
row take KEY SHARE on the user rows it names), then the commit. The lock a payout
takes is on `users`, and a booking never asks for it: what makes the booking wait
is that its ledger row references the merchant's user row, and KEY SHARE conflicts
with FOR UPDATE. `LockWeakly` shows that a FOR NO KEY UPDATE would not do.
Deadlocks are found (`Deadlocked`) and one of their transactions is ended
(`Abort`); any transaction may be lost (`Fail`).

Left out: online payments and re-pricings, which post merchant rows in the same way
as a booking; the receiver's user row, which a booking also names and nobody locks
in another order; overlapping events of one parcel, which are `ParcelRequests`'
subject.

### Devices, Sessions: one account's sessions

| Variable | Code |
|---|---|
| `rows` | `refresh_tokens`: the state of each token, and its family |
| `grants` | `password_resets` |
| `sockets` | the sockets in the account's room |
| `access` | `isActive` and `isDeleted` of the account |
| `work` | each request in flight: the statement it is at, and what it read before |
| `era`, `done`, `barred`, `resets` | history, read by no guard but the bound on `era` |

A row is live, lapsed (not revoked, past its expiry), rotated, overdue (rotated longer
ago than `REUSE_GRACE_MS`) or ended. Each request is cut where the code awaits: a
refresh is `Refresh` (the row), `CheckAccount`, `Claim` (the conditional update), then
`RecordTurn`; a token presented too late goes through `Reused` and `revokeFamily`. A
password change, a reset, a block and a removal are a copy of the account, a `Save` that
writes the copy's access as well, `EndSessions`, and `DropSockets` where the code
announces it. `Stop` ends a request anywhere. Anybody who holds a token may present it.
`late` marks a row or a socket that is recorded by a request which sessions were ended
behind: the code has no transaction in which it could notice.

In `Devices` a device is unused, in, turning (between two tokens) or out; out is
final, several devices may go out at once. A family of tokens is a device.

### Accounts: whole entities

| Variable | Code |
|---|---|
| `users` | rows: role, active, deleted, verified, papers, password, failed count, `until`: the lockout it is under, numbered |
| `links` | open `email_verifications` per account |
| `work` | each request in flight, with the entity it loaded and the row its save has read |
| `locks`, `past` | the lockouts of an account so far, and those whose time is over: the clock |
| `tries`, `invites`, `cut` | history |

A request loads (`updateProfile`, `setUserActiveStatus`, ...), waits, and saves the
entity: `Select` reads the row again and `Save` writes the columns in which the entity
differs from it (`Written`), also those that somebody else changed since the entity was
loaded. `recordFailedLogin` and `clearFailedLogins` are updates of their own, computed
from what was read before the password was compared. A lock is over once its minutes have
passed (`LockEnds`), although the row still names it, and a new window begins with that,
or with a slate wiped clean; with nothing else: a save that puts an old count back leaves
the window as it is. `resetPassword` goes on to mark the address as verified, by another
load and save, and wipes the slate if the entity that came with its link was `Stained`.
`findOrCreateReceiver`, `InsertReceiver`, `Book` and `Invite` are the account's side of a
booking; the unique e-mail decides a race. Names, addresses and pictures are gone; a
password is known or not.

### Announcements, Assistant: after the commit

| Variable | Code |
|---|---|
| `log` | per parcel, who made each move, its courier then, and whether e-mails go out for it |
| `begun` | transactions that are open, and what their parcel's newest move was when they began |
| `requests` | moves committed whose request has not announced them yet |
| `pending` | `BackgroundService.pending` |
| `index`, `rebuild` | the parcel vectors, and a rebuild's place in the table |
| `inbox`, `pushed`, `mailed` | notification rows, pushes, e-mails taken by the mail server |
| `phase`, `awaited` | the process, and what its drain waits for |
| `chunks`, `jobs`, `uploads` | documents by chunk position; questions and uploads in flight |
| `failed`, `doubtful`, `mingled`, `torn`, `cut` | history: what failed, raced, or was cut off, and is excused |

`Begin` and `Commit` are the transaction of any route that moves a parcel. The timeline is
sorted by a column that gets the time at which a transaction began, so a commit may be
`late`: its entry is sorted behind that of one which began after it and was quicker
(`Latest`). `Announce` reads it again and starts the index task (`Upsert`) and the
notification task (`Lookup`, `Store`, `Push`, then one `Send` per e-mail). Every call may
fail, and the code goes on where it catches. `reindexAll` walks the ids in pages and
prunes what it has not met, in pages of the index's own (`ListStale`, `DeleteStale`),
until a call fails (`PruneFails`). `Shutdown` stops new requests, those under way still
commit and announce (`Serving`), `StartDrain` begins once they are answered, `drain` loops
until nothing is pending; `Crash` loses what is in memory. `QuietIndexIsCurrent` speaks of
parcels whose last vector write was alone and did not fail: two writers of one vector have
no order, and the code claims none. `Assistant` adds `uploadPDF`, `removePDF` and the
question's stream. A document's chunks are deleted page by page (`ListChunks`,
`DeletePage`), by filter once a call of that has failed (`DeleteByFilter`), and added in
batches (`AddSome`, `AddChunks`); any call may fail for good (`DocumentFails`), which
leaves what is there then, and the document `torn` until its next upload or deletion
succeeds. Of a stream the client may `Leave`, retrieval may fail after the headers, the
model half way.

External, and assumed: `addDocuments` upserts by id, in batches; the index lists in pages of
a size it chooses; a call that fails for good changes nothing afterwards; the ids of one
document are not a prefix of another's.

### Pricing

`calculateDeliveryFee` and `calculateReturnFee` over hundredths and grams, with
`Math.round`, `Math.ceil` and the minimum as the code applies them; `QuotesFor` are the
quotes a set of payloads leads to. Rates are taken not to be negative, which the code
does not check (`RatesAssumption`).

## 3. The runs

| Run | Specification | Checks | Distinct states |
|---|---|---|---|
| `parcel_flow` | `ParcelFlow`, 2 couriers, 2 codes, 4 payloads (one refused), limits 2 | 8 invariants, 3 action properties | 4 841 |
| `parcel_requests` | `ParcelRequests`, 2 requests, 1 overlap; without one, limits 2 and 2 codes | `CashIsPaired`, `MovesAreLogged`, `CancellationRefundsAll`, `ImplementsFlow` | 169 378 |
| `payments` | `Payments`, 1 attempt, 2 requests, 2 quotes at a time | `PaymentsOK`, `CreditedOnce`, `PaidWasCleared`, `PaidIsBacked`, `SettledStays`, `KeepsParcelFlow`, `MoneyIsCredited` | 42 146 |
| `ledger` | `FairLedgerSpec`, 2 transactions, 2 admins, 1 courier, 3 parcels | `LedgerOK`, `CouriersAreNeverOwed`, `ImplementsBook`, `TransactionsEnd` | 312 920 |
| `sessions` | `Sessions`, 3 tokens, 3 links, 2 requests, 2 saves | `OneTokenPerDevice`, `GrantSpentOnce`, `LinksAreBounded`, `OnlyTheOvertakenSurvive`, `KeepsDevices` | 241 794 |
| `accounts` | `Accounts`, 2 accounts, 2 requests, limit 2; guesses in turn | `SomeoneCanUndo`, `TriesAreLimited`, `PlaceholderIsInvited` | 112 357 |
| `announcements` | `AssistantSpec`, 4 ids, 2 requests, 2 clients, 3 uploads | `NewestMoveIsTold`, `QuietIndexIsCurrent`, `NothingLeftBehind`, `DocumentsAreWhole`, `StreamEndsOnce`, `ShutdownEnds` | 220 100 |
| `requests_cash_once`, `payments_told`, `payments_confirmed`, `accounts_removed`, `accounts_guesses` | as above | one statement of a document or comment each, refuted | |

Every property of a passing run is broken by a mutant of the code it is about:
the operators commented "Mutant" are those variants, and `PROJECT.json` says which
definition each replaces.

**Bounds, and why they are enough.** Two couriers and two codes distinguish "the assigned
courier" and "the current code" from any other; limits of 2 reach the limit, and one short
of it; where requests overlap one failed attempt is enough. Three quotes make an edit
change the cash, the fee, both or neither. Two requests are what every race found needs;
`MaxOverlaps` bounds how often something arrives while another request runs, not how often
requests run, and the part of a behaviour before the first overlap is what
`ImplementsFlow` speaks of. One payment attempt with two requests has the whole race of
success, ipn, fail and cancel: attempts share nothing but the parcel's payment status,
which a conditional update guards. In `Payments` only the sender uses the parcel's routes
(`Parties`): of the parcel, payments read the fee, the payment status and whether it is
closed, and booking, editing and cancelling change all three. In `Ledger` one merchant
sends a parcel that earns one unit and another whose booking costs one, so that a payout
of the first races the charge of the second and there is room for only one of two
withdrawals; the other merchant earns one as well, so that two admins can pay each other.
Symmetry is used for slots, handlers, tokens and links in runs without liveness; no
property names one.

Several requests times every kind of request is too much for one state space, so
`MCParcelRequests`, `MCPayments`, `MCSessions`, `MCAccounts` and `MCAnnouncements` choose a
*traffic* in the initial state: which requests come, and how much of it. The traffics are chosen so that
every two operations that touch the same state meet in one of them: in `MCParcelRequests`
requests one by one, with every limit and two codes within reach, and overlapping ones, with
one code and one attempt; in `MCSessions`
sign-ins with refreshes and password changes, with refreshes and administration, with
sockets and administration, with reset links and a block; in `MCAccounts` the
administration of two accounts (one of them the super admin), guesses against one, and a
receiver that bookings, registration and links bring in; in `MCAnnouncements` announcements
against each other with each channel failing, announcements against a rebuild, a crash and
writes by hand, and documents and questions. Three tokens are a sign-in and two rotations,
or two devices and one; two saves are a change that overtakes another; two parcels,
one of them booked while a rebuild runs, are read on one page, on two, or one of them not at
all; three uploads are one that replaces another while a third overlaps. In `MCAnnouncements` a task that is
`quick` runs at once, where a traffic is about the other kind of task.

`CHECK_DEADLOCK FALSE` is set where the system may really stop: in `Payments`, after the
sender cancelled a parcel nobody paid for and no callback is pending; in `Announcements`
after a shutdown; in `Sessions` and `Accounts` when the tokens, saves or links their
bounds allow are used up.

In `MCAccounts` guesses against an account come in turn (one request in flight at a
time) in the run that checks the limit of tries, and together in the run that refutes it:
the limit is a statement about the first and false of the second, whatever the number of
requests. `MaxTries` is above the limit, so that a try too many is a state of the model;
`MaxLocks` lets a second window follow the first. In the traffic of administration roles,
blocks and removals change, and papers and addresses are as they were registered
(`OnlyRolesChange`); `REQUIRE_VERIFIED_EMAIL` is off, its default, and on in no run: it only
narrows one guard. In `MCPayments` fees rise (two prepaid quotes) with one request in flight and
a payer who pays at once, and turn into cash on delivery (a prepaid quote and a cash one)
with two requests and everything a gateway may report.

**Fairness.** Safety needs none. `payments` assumes that requests are not cut off for ever
(`RequestsEnd`) and that the gateway repeats the ipn of money it took until the ipn is
answered 200 (`GatewayInsists`), which is what a gateway does and no more. The handler
answers 200 whatever came of it, also when its validation call failed; the attempt is then
`dropped`: nobody has a reason to ask again, and `MoneyIsCredited` promises nothing about
it. `payments_confirmed` leaves that exception out, assumes in addition that validations are
answered in the end (`GatewayAnswers`), and is refuted: the code neither retries nor polls.
`ledger`
assumes what PostgreSQL gives: a lock waited for is
granted in turn (strong fairness of `Acquire`), a deadlock is noticed (weak fairness
of `Abort`), and a transaction that need not wait goes on. Without `Abort` the run
fails, on two admins paying each other. `announcements` assumes that what has started
goes on (`Progress`, `JobStep`): promises settle. It asks
for it only once a shutdown has begun, which is all `ShutdownEnds` needs; nothing is
assumed of clients, of new moves or of crashes.

## 4. The proofs

The theorems hold for every value of the constants: any couriers, codes, quotes,
limits and flags, any number of requests, users, parcels and transactions, any lengths of
documents and answers. Where a theorem needs a hypothesis of its own it is in its statement.
Assumptions are the named ASSUMEs of the modules, which TLC evaluates in the runs.

| Theorem | States |
|---|---|
| `ParcelFlow_proofs`: `TypeCorrect`, `FeesFollow`, `CashFollows`, `ReturnsFollow`, `CodesFollow`, `PaidBeforePickup`, `ReschedulesFollow`, `TimelineFollows` | the invariants of `parcel_flow` |
| `ParcelFlow_proofs`: `MovesFollow`, `PaidFeesAreFrozen`, `CouriersNeedCodes` | the action properties of `parcel_flow` |
| `ParcelFlow_proofs`: `AttemptsAreLimited`, `StampsFollow`, `ClosedBooksStay` | the attempts limit, the delivery stamp on all three routes, and that nothing is posted about a closed parcel; proved only, no run repeats them |
| `ParcelRequests_proofs`: `CashStaysPaired`, `MovesStayLogged`, `CancellationsRefund` | what holds whatever overlaps (`SlotsAreTyped`: the types it rests on) |
| `ParcelRequests_proofs`: `SerialRequestsImplementFlow`, `SerialCashMovesOnce` | up to the first overlap the handlers implement `ParcelFlow`; without any, the cash of a parcel moves once |
| `Payments_proofs`: `PaymentsCorrect`, `FeeIsCreditedOnce`, `OnlyClearedIsPaid`, `ParcelPaidIsBacked`, `SettledIsFinal` | the safety properties of `payments` |
| `Payments_proofs`: `ToldIsSettled` | whoever was told of a payment has one that is made or held; proved only |
| `Payments_proofs`: `PaymentsKeepParcelFlow` | with real callbacks the parcel still does what `ParcelFlow` says, so the first row's invariants carry over |
| `Sessions_proofs`: `SessionsTypes`, `OneToken`, `GrantsSpent`, `LinksBounded`, `OvertakenSurvive` | the safety properties of `sessions`, and its types |
| `Sessions_proofs`: `DevicesKept` | `Sessions` implements `Devices` |
| `ParcelOps_proofs`: `QuotesAreAssumed`, `HeavierIsNoCheaper`, `ReturnCostsNoMore` | what a quote is, for every rate and payload |
| `Ledger_proofs`: `LedgerCorrect`, `LedgerImplementsBook`, `NoCourierIsOwed` | locks, and the refinement they buy |
| `Accounts_proofs`: `SomebodyCanUndo`, `PlaceholdersAreInvited` | an administrator is left, and a receiver is invited once (`AccountsTypes`: the types they rest on) |
| `Accounts_proofs`: `OneGuesserGetsTheLimit`, `SeriallyRemovedStaysRemoved` | what holds with one request at a time |
| `Announcements_proofs`: `NewestMoveTold`, `IndexIsCurrent`, `DrainLeavesNothing` | the safety properties of `announcements` about moves (`AnnouncementsTypes`: types) |
| `Announcements_proofs`: `WholeDocuments`, `StreamsEndOnce`, `BesideTheAssistant` | documents and answers, and that the assistant beside them leaves the row above true |

**ParcelFlow.** The invariants are not inductive one by one: that the fee charged is
the fee on the row needs types; that a cancellation refunds everything needs that
nothing was refunded before; that the attempts stay within the limit needs that
none failed before the parcel was first out. `IInv` is their conjunction with
`Unbooked` (nothing on the books of a parcel that does not exist) and
`NoAttemptsYet`, in three parts, `Journey`, `Money` and types, so that a handler
that touches no money keeps `Money` by one lemma (`MoneyStays`). There is one lemma
per handler, and one per kind of commit. The action properties need of `IInv` only
`Unbooked` (a first booking overwrites no paid fee); the rest is `Proper`, what any
handler may decide about any row, proved handler by handler without the invariant:
along the table, the paid fee kept, and no delivery for a courier without a code to verify.

**ParcelRequests.** `RInv` says of each slot what its change must still satisfy
(`Carries`): its entries are paired, a direct update names only code columns, a
cancellation will read its refund. It is what makes cash paired and moves logged
whatever the other slots wrote meanwhile.

**Refinement.** `SInv` says that, as long as nothing has overlapped (`OverlapsRemembered`:
the count never falls), at most one request is in flight and the row is still the one it
read (`Alone`). `Diff` and the reads stutter; `Write` is the step of the handler the
change came from.

**Payments.** `PInv` is `ParcelFlow`'s `IInv` and, per attempt, `RowOK` (row, ledger
rows and gateway agree), per request `JobOK` (what it may rely on about its attempt),
`Unshared` (until its session opens an attempt belongs to one checkout, which is why
`SessionFails` may write without a condition), `Sent` and `Booked`. A step of a
request is an instance of one of three shapes: it goes on (`MoveKeeps`), it writes
its row (`RowKeeps`), or the gateway learns something (`GatewayKeeps`). For the
parcel's routes it takes that none unbooks a parcel and none makes it paid
(`ServeFacts`, from `OtherwisePlain` in `ParcelOps_proofs`).

**Ledger.** `LInv` is types, `Locks` (who holds what, and in which stage),
`Covered` (a withdrawal past its check is covered by the balance), `Legal` and
`Busy`, and `Alone` (no two transactions on one parcel). `Covered` is the heart:
it is kept because any commit that could lower the balance names the
account's user, so it shares a row that is locked. `NoCourierIsOwed` is then proved
of `LedgerBook` and carried over by the refinement.

**Sessions.** `SessionsInv` has five parts, and each is kept on its own from the types.
`Families` says that every token belongs to a family that has begun, that a request
knows the family of the token it presents, and that a family is held by one unrevoked
token or by one rotation that claimed and has not recorded; most steps only revoke rows or
look on (`Shrinks`, `Calm`), so that only recording a row and claiming one need an
argument. The refinement follows from it: `DeviceOf` of a family changes as `Devices` says.
`Spending` says that a request on its way to set a password alone holds a link that
is spent and has set none. `Lateness` says that a request about to record a row or a socket
from before the last ended save knows that it was overtaken. `Bounded` counts the open links
and the requests about to issue one together, which is what keeps the first below the
number of requests.

**Pricing.** `Parts` computes the breakdown once; monotonicity is proved part by part,
through the rounding up of kilograms (`KgGrows`) and the minimum. `ReturnCostsNoMore`
assumes a return share of at most 100, the default being 50.

**Accounts.** A request may hold an entity for as long as it likes and then save all of
it, so whatever is to hold of a row has to hold of every copy of it that will be saved.
`CInv` is types, `Copied` (`Fine` of each request: a copy about to be saved was read from a
row, a copy about to be inserted is new, a count is below the limit) and `Standing` (the
super admin's row, and with `Fine` every copy of it, can sign in). The steps fall into a
dozen kinds (`Kind`, by `StepKinds`), and each invariant is kept kind by kind.
`Invited` says that an account without a password was invited, belongs to a booking that was
cut off, or to one that is on its way to invite, and that no two are on their way.

The limit of tries is proved for one request in flight. `Held` says that the entity it
holds agrees with the row in the count and the lock, so that a save puts nothing back;
`Counted` keeps the stored count below the limit; and `Steady` that tries and count are the
same but for the guess in flight, or that the account is locked and nobody is trying. A step
does one of five things to a window (`GuessStep`). With two requests `Held` fails, and the
limit with it.

**Announcements.** `AInv` is types, `Draining` (the drain starts when only tasks are left),
`Indexing` and `Telling`. `Indexing` says of a parcel whose vector is not in doubt that one
writer at most is under way (`Alone`), that either the vector or that writer has the newest
move (`Fresh`), and that a rebuild that is past its id has met it, and does not list it as
stale (`Met`). `Telling` follows
the newest move from request to task to recipients: it is not announced yet, or its task is
pending at a stage that has still to reach whoever is not reached, or everybody is, channel
by channel. That pages go up through a table without skipping an id, whatever the page size,
is a lemma about finite sets of numbers (`PageFacts`).

**Assistant.** `JInv` says of each document whose workers never overlapped that it has one
worker at most, that what is there of it is of one version at every moment (`Same`), that
it is `Whole` when nobody works on it and it is not `torn`, and that its worker knows what
is there: nothing behind the page it is at, and once it adds only its own (`Knows`,
together `Uploading`). Deletion in pages is why `Whole` cannot be kept in between, and a
failed call why it need not come back. Of each stream it says what may have been sent at
its stage: sources before tokens, and nothing after an end (`Streaming`, `Streamed`). The
assistant's steps change no variable of the announcements, which is `BesideTheAssistant`.

**Where the findings end.** Four theorems say of a statement that section 5 refutes, or
qualifies, when it does hold. Cash moves once if deliveries do not overlap
(`SerialCashMovesOnce`, from the refinement and `ClosedBooksStay`); a removed account
stays removed if no other request holds a copy of it (`SeriallyRemovedStaysRemoved`);
whoever is told that a fee is paid has an attempt that is paid, or else held for review
(`ToldIsSettled`); and the limit of tries is exact for one request at a time
(`OneGuesserGetsTheLimit`), of the statement `accounts_guesses` refutes for two.

Only model-checked: liveness (`MoneyIsCredited`, `TransactionsEnd`, `ShutdownEnds`), which
this prover does not do. Every invariant and action property of a passing run is a theorem,
the limit of tries under the hypothesis that one request is in flight, as in its traffic.

## 5. What the checks found

Each run named here checks one statement of the repository and finds it violated.

| Run | Statement | What the code does |
|---|---|---|
| `requests_cash_once` | money moves once (parcel.service.ts:1157) | two deliveries that both read first both post |
| `payments_told` | status=paid after the fee is credited (README:318, payment.types.ts:9) | a reviewed payment is answered paid and never credited |
| `accounts_removed` | a removed account can no longer sign in (user.service.ts:715) | a request that loaded the account before saves it whole, and undoes the removal |
| `payments_confirmed` | the ipn will confirm it once the gateway answers again (payment.service.ts:174) | an ipn whose validation call failed is answered 200, so nobody asks again, and the money is never credited |
| `accounts_guesses` | `MAX_FAILED_LOGINS` tries per window and no more (user.service.ts:580) | guesses in flight together read the same count and write the same sum |

The first is one case of a request that decides with an old row and saves it later
(parcel.service.ts:1543), which also lets a stale save reopen a closed parcel or write
UNPAID over a payment confirmed in between; no run repeats the same cause.

Observations that stand beside properties which hold, and have no run of their own:

- In `CancellationRefundsAll`, a save that finds nothing to update still posts its
  entries, takes no row lock, and so may post between a cancellation's sum and its commit.
  The property names that case instead of forbidding it.
- The amount of a payment is compared with the fee read before the validation call
  (payment.service.ts:233). A sender who re-prices the parcel during that call has it
  count as paid for less than the current fee, which the comment at 230-232 rules out.
  `PaidIsBacked` says that an attempt is paid, not that it is worth the fee.
- A rebuild of the index prunes what it has not met (parcel.service.ts:1829 calls it the
  vectors of "no parcel in this table"). A parcel booked during the rebuild, with an id
  the rebuild is past, is pruned if its own vector was written before the listing. Such a
  parcel is `doubtful`, which `QuietIndexIsCurrent` excuses until its next move.
- The newest entry of the timeline describes every announcement
  (parcel-notification.service.ts:111). Of two moves committed close together both
  announcements may describe the same one. `NewestMoveIsTold` says what is still true: the
  newest is told.

## 6. What is not modelled, and the plan

Not modelled, and why:

- the audit log, the contact form: single rows nothing decides on;
- the dashboard, lists, searches and statistics: reads;
- configuration, wiring, request filters and validators: no state;
- generated migrations and seeds: their constraints enter the models of the tables, and the
  super admin's seed is the initial state of `Accounts`;
- prompts, embeddings and ranking: calls to a model provider; e-mail templates and PDF
  labels: layout; delivery estimates: dates no decision reads;
- token signatures, and the Redis adapter that carries pushes between instances.

Within what is modelled: `Sessions` is one account's and does not count wrong passwords,
which `Accounts` does without its sessions; `Announcements` takes one kind of move and leaves
which moves are possible to `ParcelFlow`; `Payments` and `ParcelRequests` are not composed,
so overlapping parcel requests next to a payment are `ConfirmPayment` alone.

What would come next: the composition of `Payments` with overlapping parcel requests, where
the stale fee above would be a property; an abstract specification of what an account
promises, which `Accounts` would implement while nobody saves a stale copy; runs for the
observations of section 5.

`PROJECT.json` lists the parts, the hazards, the runs and the lines each definition
stands for.

## 7. Running it

    tlc -config MCParcelFlow.cfg MCParcelFlow      # likewise every run of PROJECT.json
    tlapm ParcelFlow_proofs.tla                    # likewise every *_proofs module
