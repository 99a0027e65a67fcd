# UPI offline mesh: verification project

TLA+ modules, TLC configurations and TLAPS proofs for the code of this
repository: the Python demo backend (`src/app`), its dashboard, and the Go
backend and the app of `src/upi-mesh-app`. Paths below are relative to `src/`.

1. [The system](#1-the-system)
2. [Modules and the code they model](#2-modules-and-the-code-they-model)
3. [What is checked](#3-what-is-checked)
4. [What is proved](#4-what-is-proved)
5. [Where code and documentation disagree](#5-where-code-and-documentation-disagree)
6. [What is not modelled](#6-what-is-not-modelled)
7. [Plan](#7-plan)

## 1. The system

A payment is encrypted on the sender's phone, carried from phone to phone,
and uploaded by whichever phone has internet (a *bridge*) to a backend that
decrypts, deduplicates and settles it. Several bridges may deliver the same
packet, at the same time or days apart. The repository holds two backends that
do not share code, and an app.

### Python backend (`app/`), served by Flask with a thread per request

| component | state | operations | interacts with |
|---|---|---|---|
| `bridge_ingestion_service.py` | none of its own | `ingest`: hash, claim, decrypt, freshness, settle, answer, log an event; every exception becomes `INTERNAL_ERROR` | cache, crypto, settlement, event log |
| `idempotency_service.py` | `_seen`: hash -> time of the claim; one lock | `claim`, `evict_expired` (a daemon thread, every minute), `clear` | called by ingestion, by the eviction thread and by reset |
| `settlement_service.py` | account balances, transactions by hash; one lock around `settle` | `settle` (validate, compare, debit, credit, record, ack), `record` (raises on a repeat), `list` | ack service; `/api/accounts` reads without the lock |
| `ack_service.py` | none | encrypts a receipt under the sender's `ackKey` and injects it at the bridge | mesh |
| `mesh_simulator.py` | dictionary of devices, each with its packets and a lock; the dictionary has none | `inject`, `gossip_once`, `collect_bridge_uploads`, `reset_mesh`, `remove_device`, `snapshot_map` | event log |
| `event_log.py` | the newest 10 000 events | stamp and append, `get_events`, `clear` | SSE generator, polling endpoint |
| `routes.py`, `demo_service.py` | none | send, gossip, flush (a pool of threads), reset, kill-bridge, status, stream | everything above |
| `templates/dashboard.html` | cursor, races, connection | SSE handler, polling fallback, reset | the API |
| `crypto_service.py` | a key pair | RSA-OAEP + AES-GCM, SHA-256 of the ciphertext | ingestion |

What is hard here: a thread per upload; a claim in the cache that is made
before, and kept whatever happens after; two clocks (the sender's and the
server's) and a cache that forgets; an operator who resets or removes devices
while rounds and flushes walk over them; exceptions half-way through `settle`;
events that are stamped outside of the lock that orders them; a stream that
breaks and is replaced by polls.

What makes it correct: one admission of a packet to settlement; balances that
are the sum of the recorded transactions; no overdraft; every upload answered;
acks that agree with the ledger; one stable copy of a packet per device, a hop
spent on each hand-over; every event on the dashboard, in order.

### Go backend (`upi-mesh-app/backend/`)

| component | state | operations |
|---|---|---|
| `internal/store/settlement.go` | Redis keys (72 h), tables `accounts`, `transactions`, `settlement_audit` | `Ingest`: SETNX, freshness, two reads, an SQL transaction, an audit row |
| `internal/store/mesh.go` | WebSocket clients, table `mesh_events` | `HandleBridgeIngest`, `FlushBridges`, `GetMeshEvents`, broadcast |
| `internal/api/router.go` | none | HTTP handlers; several return constants |

What is hard here: balances read before the transaction that overwrites them;
row locks taken in the order sender, receiver by payments in both directions;
claims that survive the requests that made them, or are lost before the rows
they stand for; a commit whose reply is lost.

What makes it correct: money moves with the row of its packet, and once; the
answer agrees with the row; nobody is overdrawn and nobody spends more than
they have; every request gets through settlement, whatever waits on whatever.

### App (`upi-mesh-app/frontend/`)

| component | state | operations |
|---|---|---|
| `hooks/useMeshStore.ts` | outbox, network status, gossip interval, neighbours (in memory) | `initialize`, gossip every few seconds, `uploadPendingPackets` (a button and the browser's online event), event stream, `cleanupExpiredPackets` |
| `services/storageService.ts` | IndexedDB: a copy of the outbox; stores that nothing uses yet | `addToOutbox`, `getOutbox` |
| `services/bluetoothService.ts` | devices by id, each with `isConnected`; a scan interval | scan every ten seconds, connect, `gossipPacket` (never throws), `handleDisconnect`, `shutdown` |
| `hooks/useAuthStore.ts` | PIN, biometric switch, settings, history, account, contacts, session | `verifyPin`, `setPin`, `updateSettings`, `addTransaction` (the newest 100 are kept) |
| `pages/SendPage.tsx` | a form in four steps, its PIN | `handlePinSubmit`; `handleConfirm`: encrypt, add to the outbox, add to storage, add to the history |
| `pages/SettingsPage.tsx` | the PIN dialog | `handlePinSubmit` (change, disable), the switches |
| `pages/SplitPage.tsx`, `RequestPage.tsx` | forms | shares and their check, one history entry per participant; a link |
| `App.tsx`, `Layout.tsx` | the route | one page at a time; a page that is left loses its state |

What is hard here: handlers that take a snapshot of the outbox and await at
every packet, so that rounds, uploads, payments, the start-up and the cleanup
overwrite each other's results; answers that are lost; an app that may be
closed at any moment, and a storage whose packets keep their first status; PIN
checks that are awaited with the page in the user's hands; handlers that
outlive their page; scans that overlap, links that break without the service
knowing yet, and reconnection timers that nothing cancels.

What makes it correct: what is shown as settled is settled; a verdict is not
taken back; a stored payment is not lost; a payment called a failure does not
go out; a packet leaves only after the PIN in force was given, and the history
tells what was sent; a PIN becomes what its owner confirmed; the shares of a
bill make up its total; a device that is gone does not stay connected, and one
event stream at most is open.

At this commit the pieces are not yet joined: nothing calls
`storageService.initialize()` or `cryptoService.setServerPublicKey()`, so
reading and writing storage throw and so does encryption. The model has these
outcomes next to those of an app that makes the calls. Nothing sets
`isAuthenticated` either, and neither the onboarding nor the PIN page sets a
PIN or an account, so the pages behind them cannot be reached; AppPages assumes
a user who has got there. Two slips keep the app from compiling
(`SendPage.tsx:237` closes an input with `</p>`, `App.tsx` lacks the import of
React); the model is of what the code says once they are mended.

## 2. Modules and the code they model

```
Payments ----+-- Ledger (abstract) <== refines == BridgeIngestion -- ResetIngestion
             +-- MeshPayments --extends-- MeshSimulator
             +-- GoSettlement
EventStream
PhoneOutbox
PhoneConnections
AuthStore --+-- SendForm ----+
            +-- PinSettings -+-- AppPages
            +-- SplitBill ---+
            +-- RequestForm -+

proofs:  PaymentsProofs --+-- BridgeIngestionProofs (of ResetIngestion, too)
                          +-- MeshPaymentsProofs (of MeshSimulator, too)
         EventStreamProofs   GoSettlementProofs
         PhoneOutboxProofs   PhoneConnectionsProofs   AppPagesProofs
```

**Payments** - what a packet is (its ciphertext: the cache and the
transaction store are both keyed by its SHA-256), what it decrypts to, and
what a transfer does to the balances.

**Ledger** - the abstract specification of settlement. Two actions, `Settle`
and `Reject`, each atomic: a packet gets at most one transaction, a settled
one moves exactly its amount, a rejected one had no funds.

**BridgeIngestion** - `ingest`, the idempotency cache, `settle` and the
transaction store. An upload is a thread; its program counter `pc` names the
point it has reached. One step is what no other thread can see inside:

| action | code |
|---|---|
| `Ingest` (with `Claim`) | `ingest` up to the answer of `claim()`, which is atomic under the cache's lock |
| `CheckFreshness` | decryption and the check of `signedAt` against the clock of that moment |
| `EnterSettle`, `Credit`, `Record`, `Acknowledge` | `settle` under its lock, one step per assignment, because `/api/accounts` reads balances without the lock and because it may raise between any two |
| `EvictExpired` | `evict_expired`, whose clock is read before the lock: it compares with any time up to now |
| `Tick` | time passes, while no thread is stalled for more than `MaxStall` between claim and freshness check |

`Raise` is the way out by an exception: the lock is released (a `with`
statement), the answer is `INTERNAL_ERROR`, nothing is undone.

**ResetIngestion** - the same with `/api/mesh/reset`, which clears the cache
under uploads in progress while transactions stay.

**MeshSimulator** - devices and the calls over them, one step per device
visited. Python raises when a dictionary shrinks under an iteration: `Shrunk`
and `LoopEnds` model this for the flush, the reset and the count that closes a
gossip round; `gossip_once` itself iterates over a copied list. The test
`holds()` and the `hold()` that follows it are two steps (`Offer`, `HandOver`),
with other rounds in between. The dictionary is in the order its devices were
added and only ever shrinks, so a call that walks over it is the set of devices
it found (`route`) and of those to come (`todo`), visited by their `Place`
(`Turn`); what a round has read is a set of hand-overs (`plan`), of which
`NextUp` is the one its three loops come to next.

**MeshPayments** - the composition: sends, gossip, `/api/mesh/flush` with its
uploads in parallel, acks injected at the bridge, the kill-switch and the reset
(devices first, claims after). `answer` has, for each flush, what became of its
uploads one by one. An upload is two steps, the claim and the rest, which the
refinement of Ledger justifies. `/api/demo/send` looks at neither accounts nor
amounts, so the rest has all of its outcomes: `UploadOpaque` (an ack does not
decrypt), `UploadStale` (the clock is left out, so any payment may be too old
from any moment on), `UploadRaises` (`settle` refuses an unknown account or an
amount that is not positive: `INTERNAL_ERROR`, the claim kept, no transaction)
and `UploadSettle`, which may raise in `record()` after a reset.

**EventStream** - from `MeshEventLog` to the dashboard. Stamping an event and
appending it are two steps of a logging thread. So is a read of the log, as
`get_events` takes the list under the lock and walks over it without: `StreamWake`
and `StreamRead` for the SSE generator, `BeginPoll` and `AnswerPoll` for a
poll, with `reads` in between. What is appended meanwhile the walk meets
(`Met`); when `_append` replaces the list by its end, the walk stays with the
old one (`Replaced`); `clear()` empties the list in place, and the walk keeps
its place (`Emptied`), so that events appended below it are passed over
(`skipped`, a history). Only a clear makes a difference of how far a walk has
come, so that is chosen there and not step by step. `StreamYield` moves the
generator's cursor to each event it yields, into a connection of bounded size;
`ConnectionLost` drops what is on the way and starts the polling fallback, with
several requests in flight that may be lost or answered out of order. `Handle`
is `handleMeshEvent`.

**GoSettlement** - `HandleBridgeIngest` and `Ingest`, over a Redis that
forgets claims and a PostgreSQL with read-committed transactions, row locks,
waits on unconfirmed unique keys, deadlock detection, failing reads and
statements, and lost replies; the backend may crash. Before a bridge is
answered, `broadcastEvent` writes to every WebSocket client, without a deadline
and under a read lock that a client waiting to leave takes away from later
broadcasts: `EndBroadcast` is a step that may come, panic, or never come. Amounts are in paise and the code
computes in rupees (`Rupees`, `ToPaise`): `big.Int.SetString` refuses
"12.34", unnoticed, and leaves the digits it has read. What PostgreSQL and
Redis do is modelled from how the code uses them, and marked external in the
map.

**PhoneOutbox** - the app's outbox. A step is what JavaScript runs without an
await: `SyncNow` and `GoOnline` begin an upload and mark its first packet;
`TakeAnswer` and `LoseRequest` end one request and begin the next (both by
`UploadNext`); `StartRound` takes the packets of a gossip round, `Gossiped`
marks one of them, whatever became of it. `ReadStorage` and `LoadOutbox` are
the two halves of `initialize`, between which payments can be made; `bare` is
an app whose storage could not be read. `CloseApp` may come at any time and
finds a write to storage done or not. The backend is one action, `Ingest`: what
GoSettlement and BridgeIngestion tell a phone, who had the claim and whether it
settled. Packets on other phones are not part of it: `setPacketHandler` is never called,
so a phone drops what it receives and only the sender uploads.

**PhoneConnections** - `bluetoothService.ts` and the event stream of
`useMeshStore.ts`. `Scan`, `Choose`, `Connected` and `SetUp` are the pieces of
`connectToDevice` between its awaits, of several attempts at a time, also to one
device; `SetUp` is the point at which the map gets its entry and the device its
listener. `Drop` is the browser's doing: it rejects what is under way on the
link and queues the event that `HandleDisconnect` takes. `GossipPacket` and
`WriteEnds` are the two ends of a write, which refers to the entry it began
with (`fresh`), replaced or not. `Shutdown` stops neither attempts nor timers.
`OpenStream`, `StreamFails` and `Reconnect` are `connectEventStream` and its
`onerror`.

**AuthStore** - the part of `useAuthStore.ts` that pages write to, and its
operations as operators; the pages' modules extend it and share its variables.

**SendForm** - `SendPage.tsx`. `SubmitPin` and `PinChecked` are the two sides of
the await in `handlePinSubmit`; `Confirm`, `Encrypted` and `SendDone` or
`SendFails` the pieces of `handleConfirm`, which keeps the values of the render
it began in; `Cancel`, `GoBack` and the fields are there all the time. `checked`
and `entries` are history: what the form has been through.

**PinSettings** - `SettingsPage.tsx`. `SubmitDialog` begins a call of
`handlePinSubmit` with the fields and the PIN of that moment, which decide what
it will do; `ChangePin` and `DisablePin` are its end, after a digest or two.

**SplitBill** - `SplitPage.tsx`, in paise. `Rounded` is `toFixed(2)`, whose
direction at a half depends on binary digits (`RoundedUp`); `Cleared` is the
NaN of an empty field, which passes the comparison in `AddsUp`.

**RequestForm** - `RequestPage.tsx`, which keeps no record: of its fields the
model has whether they are accepted. It is there, as the switches of
PinSettings are, because a page is part of AppPages with every handler that
could reach the store; that this one does not is what its module says.

**AppPages** - the pages together: one is shown, `Navigate` discards its state,
and its handlers go on (`SendWork`, `SettingsWork`).

Modules named MC give the constants their values for TLC. Operators commented
"Mutant of X" are plausible bugs: putting one in the place of X makes TLC find
the property it is listed for violated.

## 3. What is checked

| run | module, cfg | question |
|---|---|---|
| `ingestion` | MCBridgeIngestion | Do three concurrent uploads of payable, unpayable, undecryptable and malformed packets, with eviction and a moving clock, settle each payment at most once and implement the ledger? |
| `reset_ingestion` | MCResetIngestion | What still holds when claims are forgotten under them, so that packets are settled again and `record()` raises? |
| `replay_after_reset` | MCReplayAfterReset.cfg | Do the balances stay right in that case? **No.** |
| `mesh` | MCMeshSimulator | Do two rounds, a reset and a kill, interleaved device by device, keep one stable copy per device and reach every device in one round? |
| `mesh_payments` | MCMeshPayments | A payment, payable or not, two bridges flushed in parallel, its ack, a kill and a reset at any moment: is it settled once, is the ack there, is the ledger right? |
| `events` | MCEventStream | Does every event reach the dashboard, in the order of the log, through broken streams, lost and overtaking polls and a list that is cut or cleared while it is read? Yes, but for the cases the properties name. |
| `phone` | MCPhoneOutbox | Do the app's verdicts stand, and agree with the backend, and do stored payments come back, under gossip, overlapping uploads, lost answers, restarts and cleanup? |
| `phone_failure` | MCPhoneFailure.cfg | Is a payment that SendPage calls a failure never settled? **No.** |
| `pages` | MCAppPages | With PIN checks, payments and overlapping PIN changes that go on while the user edits, steps back or leaves: did every payment have the PIN, does the history tell it, was a new PIN confirmed, does a split bill add up? |
| `connections` | MCPhoneConnections | With overlapping scans, breaking links, failing writes, a shutdown and reconnections: does the app notice that a device is gone, and keep one stream? |
| `go_settlement` | MCGoSettlement | Do transfers commit once, with their row, under lost claims, crashes, failing reads and statements, lost replies and deadlocks, and does every request get through `Ingest`? |
| `go_double_spend` | MCDoubleSpend.cfg | Can an account spend more than it had? **Yes.** |

### The properties

* `AdmittedOnce`, `ForgottenIsStale`, `DuplicateHasClaimant`
  (BridgeIngestion): the two defences against repeats, the cache and the
  freshness check, leave no gap between them, and nobody is told *duplicate*
  without another upload that was let through.
* `LedgerExplainsBalances`, `NoOverdraft`, `ImplementsLedger`: what is in the
  balances is what is in the transactions, whatever raises half-way; the whole
  is the abstract ledger. The refinement maps the balances to those without
  the transfer in progress (`CommittedBalance`); `Record` is the step at which
  a transfer takes effect.
* `EveryUploadAnswered`: no path, raising or not, keeps the settlement lock.
* `OneVerdict`, `AcksAgreeWithLedger`, `MoneyConserved` (ResetIngestion): what the unique constraint and the order
  of the statements in `settle` preserve although packets are settled twice.
* `OneCopyPerDevice`, `HeldCopyIsStable`, `OneRoundIsEnough`, `RequestsEnd`
  (MeshSimulator).
* `BalancesExplained`, `FlushSettlesEverything`, `VerdictLeavesAck`
  (MeshPayments). The second is about payments that are payable and were not
  found too old: of the others a flush leaves no transaction. The first ends
  with the first reset, as section 5 says.
* `EventsReachDashboard`, `SeenInLogOrder` (EventStream). Their exceptions are
  the code's: an event *displaced* by a full answer of newer ones; one
  *overtaken* by another thread between its stamp and its append, so that a
  cursor has passed it; one cleared; and, for the first, one *skipped*, which
  was appended to a list cleared under a walk that had come further. The second
  speaks of the time before a clear.
* `MoneyMovesWithItsRow`, `AnswerHasRow`, `NoOverdraft`, `IngestEnds`
  (GoSettlement). `IngestEnds` follows a request up to the broadcast: that it
  ends, and so that the bridge is answered, the code does not give. `NoOverdraft` holds though two payments can both spend one
  balance: what is written is computed from the balance that was checked. What
  is lost is a debit, and `SpentWithinFunds` says so.

* `SettledIsSettled`, `VerdictStands`, `KeptInOutbox` (PhoneOutbox). The
  first has no converse: a settled payment may be shown as rejected, when the
  answer to its upload was lost or another upload was answered first. The
  second says when a verdict is safe: as soon as no round or upload that took
  the packet before is still under way. The exception of the third, `unread`,
  is the code's: what is sent while `initialize` reads storage is dropped
  from memory until the next start.
* `AuthorisedByPin`, `HistoryTellsPayments` (SendForm), `PinWasConfirmed`
  (PinSettings), `SharesAddUp` (SplitBill), all checked of AppPages. The first
  says *a form on which the PIN was given*, not *this amount*: see section 5
  for what may be edited in between. Its second half is why a result that
  reopens the confirmation of a complete payment does no harm. The exception
  of the last is a share left empty.
* `BelievedLinksAreUp`, `GoneIsNoticed`, `OneStream` (PhoneConnections). The
  first is a safety property of a service that is told late: what it believes
  is true, or the event that corrects it is queued, also for a device whose
  entry another attempt has replaced.

### Bounds, and why they are enough

* Uploads: three in the Python runs. A race on a claim takes two; the third is
  the one that comes after an eviction or a reset while the others are still
  under way. Two in the Go runs: every conflict there is between two
  transactions. The proofs of section 4 do not depend on the number.
* Time: `MaxAge = Skew = MaxStall = 1`, `Ttl = 3`, the least that the cover
  assumption allows, so that a gap of one tick would show; time runs to 4,
  past the eviction of the earliest claim. A packet is signed 2 ticks ahead of
  the start, so that it is delivered early, in time and late.
* Packets: one that the sender can pay, one that the rest of the funds does
  not cover, one to an unknown account, one that does not decrypt, one without
  a ciphertext; ack keys good, bad and absent.
* Devices: three in `mesh` (a sender, an intermediate that may be killed, a
  bridge), with two hops, so that copies with one and with no hop left meet;
  two in `mesh_payments`, both bridges, so that one flush uploads a packet
  twice in parallel. One payment is sent: one to `nobody`, one that its sender
  cannot afford, or one that is settled; how payments of one account interleave
  is the business of `ingestion`.
  `Senders` and `Doomed` name the devices where packets start and that the
  operator removes.
* Pages: two payments, so that a check left over from one meets the other; two
  PINs; two submissions of the dialog at a time, which overlap; two answers of
  the platform; two visits of pages, so that a handler's page is left and
  another shown; a bill of 1.15 rupees, whose half is rounded, among up to
  three; a history of three entries, which one bill and one payment fill. A
  constraint, `BiometricAlone`, leaves out that biometric unlock is switched
  in a behaviour that pays or splits a bill: nothing but the switch reads it.
* Connections: two devices and two scans, so that attempts to one device overlap
  while another is connected; one call of `gossipPacket`, which writes to both; two
  streams and two timers, so that a timer fires after its source was replaced.
* Events: three; the list and an answer hold two, so that the third displaces
  the first, in the list, in an answer, or from the list that a read goes on
  with; the stream has room for one; two polls in flight; two milliseconds. One
  clear, which is enough for a walk to pass over one event and return the
  next: without its exception `skipped`, `EventsReachDashboard` is violated.
* Phone: a payment of today and one of an earlier session that ages, so that
  start-up both restores and overwrites; two uploads at a time and one round,
  which is what it takes for each to overwrite the other. Opening, closing
  and gossiping are not bounded.
* Go: one crash, one loss of claims, in any state.

`CHECK_DEADLOCK FALSE` where all calls may have been made and answered; the
`events` run does check for deadlock, as its stream or its timer can always go
on, and so does `phone`: the app can always be opened.

### Fairness, and why the code justifies it

* BridgeIngestion: `WF(Proceed(r))` per upload. A thread that can run is
  scheduled by the operating system; the settlement lock is always free or
  held by a thread that can run. No fairness for uploads being made, for the
  clock, or for eviction.
* MeshSimulator: weak fairness for a call under way; none for calls being made.
* EventStream: weak fairness of the generator's loop, of the browser's handler,
  and of the interval timer with the server's answers; strong fairness of
  handling the answer to some poll, whichever, which means that of the requests
  sent every second some are answered. That the
  connection breaks, or holds, is not assumed.
* PhoneConnections: weak fairness of `HandleDisconnect` only: the browser
  dispatches the events it has queued. Nothing is assumed of links, writes,
  scans or the user.
* GoSettlement: weak fairness of each goroutine. Failing statements and
  crashes are not part of it: they may happen and are never needed. Neither is
  the end of a broadcast, which is up to the WebSocket clients.

## 4. What is proved

Theorems hold for every value of the constants that satisfies the named
assumptions: any number of uploads, packets, accounts, devices, rounds and
flushes at a time, events, polls, payments, PINs. The runs of section 3 show the same
properties on small instances; every inductive invariant below was checked by
TLC on those instances before it was proved.

### Python backend: ingestion (`BridgeIngestionProofs`)

| theorem | statement |
|---|---|
| `TypeCorrect` | `Spec => []TypeOK` |
| `AdmittedAtMostOnce` | `Spec => []AdmittedOnce` |
| `NoGapInDefences` | `Spec => []ForgottenIsStale` |
| `DuplicatesAreCarried` | `Spec => []DuplicateHasClaimant` |
| `NeverOverdrawn` | `Spec => []NoOverdraft` |
| `IngestionImplementsLedger` | `Spec => ImplementsLedger` |
| `LedgerExplains` | `Spec => []LedgerExplainsBalances` |
| `AcksAgree` | `ResetSpec => []AcksAgreeWithLedger` |
| `OneVerdictAtMost` | `ResetSpec => []OneVerdict` |
| `NeverOverdrawnWithResets` | `ResetSpec => []NoOverdraft` |
| `DuplicatesAreCarriedWithResets` | `ResetSpec => []DuplicateHasClaimant` |
| `MoneyIsConserved` | `ResetSpec => []MoneyConserved` |

Assumptions: `InstructionAssumption` and `BalanceAssumption` (types),
`AccountsAssumption` (the accounts are finitely many, so that balances have a
sum), `TimingAssumption` (naturals), `NoPacketAssumption`, and the one with
content, `CoverAssumption`: `Ttl >= MaxAge + Skew + MaxStall`. The server runs
with 259 200 >= 86 400 + 300 + MaxStall seconds, so the theorems hold of it as
long as no thread sleeps for 47 hours between its claim and its freshness
check. The mutant `EvictWithoutStall` shows that none of the three summands can
be left out.

The argument is a stack of inductive invariants:

1. `TypeInv` = types, and an upload that is past `Record` has a transaction
   (without which the ack would have no status to report).
2. `AdmissionInv`: no property of admission is inductive alone. A second
   admission must be excluded both while the claim stands (`OneClaimant`) and
   after it is evicted; for that the packet must be too old by then
   (`ForgottenIsStale`), which needs a bound on how late it was signed
   (`SignedInTime`), which holds as the check allowed at most `Skew` beyond a
   clock at most `MaxStall` after the claim (`ClaimStands`). Eviction adds
   up the three: a claim older than `Ttl` means a signature older than
   `MaxAge`.
3. `ClaimInv`: a packet that the cache remembers has an upload that was let
   through. That upload is never turned away afterwards, so it outlives
   evictions and resets.
4. `FundsInv` and `SettleInv`: the lock is held exactly by the upload inside
   `settle` (`LockHeldInside`), only payments get there, the sender of a
   transfer about to be debited has the funds and the balances have the shape
   of the stage the transfer is in (`FundsInPlace`), and every transaction
   belongs to an admitted upload (`TransactionHasUpload`). From the last and
   `AdmittedOnce` follows `RecordIsFirst`: in the absence of resets `record()`
   never raises, the unique constraint is only a second line of defence.
5. Refinement: initial states map to initial states; `Record` maps to
   `Settle` or `Reject`, and every other step leaves `CommittedBalance` and
   `tx` alone, which is one lemma per action. `LedgerExplains` comes on top of
   it: the refined balances are what the settled transactions sum up to
   (`Explained`), step by abstract step, and outside of `settle` they are the
   balances.
6. With resets nothing of 2 survives. What does is ownership (`ResetInv`): only
   the upload whose `record()` succeeded is about to acknowledge, and a
   transaction has one such upload at most (`OneOwner`), because a second
   `record()` raises. `MoneyInv` is `MoneyConserved` inside the lock, too:
   between its debit and its credit a transfer owes its amount, and no way out
   of `settle` by an exception lies between the two.

### Sums (`PaymentsProofs`)

`MapThenSumSet` folds over a set in an order that CHOOSE picks, by a recursive
function over the subsets. The library's induction theorems cannot be
instantiated here, so the proofs go by the least counterexample: the natural
numbers are well-founded, so among the subsets of which a fact fails one has
the fewest elements. That shows that the recursive function exists, that it is
unique and that the order does not matter (`TotalTakeOut`), and from there how a sum
changes with one of its terms: a debit and a credit of the same amount cancel
out, and one more settled packet adds its transfer to `NetOf`.

### The mesh (`MeshPaymentsProofs`)

| theorem | statement |
|---|---|
| `OneCopy` | `MeshSpec => []OneCopyPerDevice` |
| `CopyIsStable` | `MeshSpec => HeldCopyIsStable` |
| `TypeCorrect` | `Spec => []TypeOK` |
| `FlushSettles` | `Spec => []FlushSettlesEverything` |
| `VerdictIsAcked` | `Spec => []VerdictLeavesAck` |
| `LedgerExplains` | `Spec => []BalancesExplained` |

`MeshSpec` is that of MeshSimulator without its fairness, `Spec` that of
MeshPayments. Assumptions: `MeshAssumption` (bridges, senders and doomed
devices are devices; a call is a round, a flush or a reset),
`MessagesAssumption` (an ack is no payment), and those of Payments. No theorem
assumes of the payments that they are payable or fresh; `FlushSettlesEverything`
is about those that are. The module has all ack keys good, as `demo_send` makes
them.

1. What a device holds changes by `hold()` and `clear()` only (`HeldChanges`,
   a lemma per kind of call); `hold()` adds nothing that is there already, and
   puts what it adds at the end. `OneCopyPerDevice` and `HeldCopyIsStable`
   follow, whatever hand-overs are in flight: the check of `holds()` that came
   before is not used.
2. `AnswersFit`: the answers of a flush belong to its uploads, none is claimed
   unless the flush is at work, none is waiting when it is over.
3. `FlushSettlesEverything` speaks of a flush that is over, so it needs to be
   known of one that is not: `ClaimsAttended`, whatever is claimed, or was
   answered, has its transaction or an upload that has claimed it and not yet
   settled it. A duplicate may come before the transaction it is a duplicate
   of, which is why the second alternative is there; a reset that
   forgets a claim takes neither away, and the ways out of an upload that leave
   no transaction are those of payments the property excepts.
4. `VerdictLeavesAck` is inductive together with `AnswersFit`: as long as no
   reset has begun nothing is taken from a device (`HoldsStays`), and the step
   that answers with a verdict has just called `hold()`.
5. `BalancesExplained` needs `OneClaimant`: as long as the claims are
   remembered, a payment has a transaction or a single claimant and never both.
   Then `record()` cannot raise after the balances have moved.

### The event stream (`EventStreamProofs`)

| theorem | statement |
|---|---|
| `TypeCorrect` | `Spec => []TypeOK` |
| `LogOrder` | `Spec => []SeenInLogOrder` |

From `LogAssumption`, in which an answer holds no more events than the log does
(100 and 10000 in the code). That is needed: were the log shorter, an event could
fall out of it before newer ones fill an answer.

1. `TypeInv`: no event is in a list twice, or in one before it was appended
   and so stamped. That bounds the lists, and gives an event a place in the log
   that no step changes.
2. *Due* (`Due`): an event that was logged before another, and may not be missed,
   being neither overtaken nor displaced. A step makes nothing due between events
   that are logged (`NextGrows`): stamps and places stay, and an event that
   may be missed remains so.
3. A list is *complete* if it has, earlier, each event that is due before one of
   its own, but for those of a given set. The order the dashboard met the events
   in is complete; stream and batch, one after the other, and each answer to a
   poll are complete but for what was seen (`Ordered`). Putting complete lists
   together, cutting them, and leaving out what was seen keeps them so
   (`CompleteJoin`, `CompleteSplit`, `CompleteOnly`).
4. Until the log is cleared a read goes through a *stretch* of what was
   appended (`Stretch`, `ReadsInv`): all of it up to some time, or the last
   `MaxEvents` or more. The list of the log is one, and so is the old list that a
   read stays with after a truncation; later appends keep it one
   (`AppendKeepsReads`). So is the view of which the answer is made
   (`ViewIsStretch`).
5. That an answer is complete (`AnswerIsComplete`) has three parts. An event that
   left the log, or that newer ones pushed out of the answer, is displaced
   (`LogIsTail`; `OnlyPicks` counts what `get_events` filters). One older than the
   cursor needs `Cursors`: the cursor is the stamp of an event that was seen, or
   is on the wire, so the older one came after it and was overtaken, or
   was due before it and is there, too.

`Only` is a recursive function over the prefixes of a list: that it exists and
what it keeps are shown by induction on the prefix, itself a consequence of
least counterexamples.

### Go backend (`GoSettlementProofs`)

| theorem | statement |
|---|---|
| `TypeCorrect` | `Spec => []TypeOK` |
| `MovesWithRow` | `Spec => []MoneyMovesWithItsRow` |
| `AnswersAgree` | `Spec => []AnswerHasRow` |
| `NeverOverdrawn` | `Spec => []NoOverdraft` |

From `GoAssumption` and the assumptions of Payments. `RowInv`: an insert that is
not committed is the only one of its hash and no row of that hash is there
(`InsertedIsFirst`, which is what the unique key and the wait on unconfirmed
ones are for), and a request past its commit has its row (`CommittedHasRow`),
though the reply to the commit may be lost. `FundsInv`: what a transaction is
going to write was computed from balances that covered the amount in rupees
(`FundsChecked`), stale or not. Locks are at most one to a row (`OneHolder`),
said without `Cardinality`, as the set of requests may be infinite.

### App

| module | theorem | statement |
|---|---|---|
| `PhoneOutboxProofs` | `TypeCorrect` | `Spec => []TypeOK` |
| | `ShownSettledIsSettled` | `Spec => []SettledIsSettled` |
| | `StoredIsKept` | `Spec => []KeptInOutbox` |
| | `VerdictIsFinal` | `Spec => VerdictStands` |
| `PhoneConnectionsProofs` | `TypeCorrect` | `Spec => []TypeOK` |
| | `BelievedAreUpOrDropped` | `Spec => []BelievedLinksAreUp` |
| | `OneStreamAtMost` | `Spec => []OneStream` |
| `AppPagesProofs` | `TypeCorrect` | `Spec => []TypeOK` |
| | `Authorised` | `Spec => []AuthorisedByPin` |
| | `HistoryTold` | `Spec => []HistoryTellsPayments` |
| | `PinConfirmed` | `Spec => PinWasConfirmed` |

Assumptions are types and bounds (`PhoneAssumption`, `TimersAssumption`,
`StoreAssumption`, `SendAssumption`, `AskingAssumption`, `BillAssumption`,
`VisitsAssumption`).

* PhoneOutbox. `SettledIsSettled` needs `AnswerIsTrue`: an answer on its way
  that says *settled* is about a packet the backend has settled. `KeptInOutbox`
  needs `OutboxInv`: a payment being stored counts as stored, and while the
  start-up sits on what it read from storage, being among that counts as being
  in the outbox; all steps but start-up and end share one lemma (`Keeping`).
  `VerdictStands` is an action property; each action is shown to leave a packet
  alone that no handler has in its snapshot (`Stands`).
* PhoneConnections. `LinkInv`: a device that is believed in has its listener
  (`BelievedIsHeard`), so that the browser queues an event when the link
  breaks; a device whose services are being looked up is up (`SetUpIsUp`), so
  that no entry is made for one that is gone.
* AppPages. `AuthorisedInv` counts: the payments under way or made, the right
  checks not yet used, and a form ready for the tap on *Confirm* make up at most
  the number of submissions of the right PIN; and a form that is ready was
  checked. `HistoryInv` ties every entry to its payment. `PinInv`: a call of
  the dialog that will do something carries what was asked, by someone whose
  PIN was right, and that does not change while the digests are computed.

### Only model-checked

* Liveness (`EveryUploadAnswered`, `OneRoundIsEnough`, `RequestsEnd`,
  `IngestEnds`, `EventsReachDashboard`, `GoneIsNoticed`): fairness and ENABLED are outside of
  what the prover does.
* `SharesAddUp` (SplitBill): rounding, and a sum over a sequence.
* The three properties of section 5 that do not hold.

## 5. Where code and documentation disagree

Each with a run that shows it:

* `replay_after_reset`: `settle()` moves the balances before `record()` raises
  on a repeat, and nothing moves them back, while README.md:205 calls the
  unique constraint defence in depth against settling twice.
* `phone_failure`: `handleConfirm` adds the packet to the outbox before the
  write to storage that may throw; the user is told to try again, and both
  payments go out.
* `go_double_spend`: balances are read outside of the transaction that
  overwrites them.

Seen while modelling, without a run:

* `tests/test_idempotency.py:83` and README.md:274,291 expect `INVALID` for a
  tampered packet; `ingest` answers `DECRYPTION_FAILED`.
* The note at `bridge_ingestion_service.py:15-21` says that a rejected payment
  is reported as SETTLED; the code answers `INSUFFICIENT_BALANCE`.
* `demo_service.py:64` says that `_ackKey` is not sent over the mesh; gossip
  copies the whole dictionary.
* `routes.py:84` computes the hops as 5 minus the TTL, whatever TTL the packet
  was sent with.
* `mesh_simulator.py` counts a transfer, and logs a hop, also when the device
  already had the packet by the time it was handed over.
* `FUTURE_DATED` and `INTERNAL_ERROR` keep the claim: the retry of an early
  packet is a duplicate for 72 hours.
* `mesh_reset` clears the devices first and the claims afterwards; a gossip
  round or a flush under way leaves a settled packet in the mesh with its claim
  forgotten, though the answer says "mesh and idempotency cache cleared".
* `/api/transactions/status` looks for `originalPacketId` in the packets of the
  mesh (`routes.py:184`); acks have it inside their ciphertext only, so the
  "pull fallback for ack loss" of its docstring answers PENDING for ever.
* `get_events` walks over the live list without the lock (`event_log.py:84-87`)
  and `clear` empties it in place (line 92): events that are logged right after
  a reset may reach no reader, though they stay in the log.
* `/api/demo/send` checks neither accounts nor amounts: such a payment travels,
  is uploaded and ends as `INTERNAL_ERROR` with its claim kept.
* The stream repeats the events of its last millisecond at every wake-up
  (`event_log.py:87`), and the race panel counts uploads of a packet by the
  events it gets (`dashboard.html:967-987`): it shows bridges that were not there.
* App: a lost answer or an overlapping upload turns a settled payment into
  *rejected*; a packet without a neighbour in reach stays in status `outbox`
  and is never uploaded, though WalletPage.tsx:121 says "Will settle when a
  bridge comes online"; the history stays *PENDING*, as nothing calls
  `updateTransaction`; an online event during start-up is missed, and *Sync
  Now* stays disabled until the next one.
* SendPage: a PIN check that ends after *Cancel* takes the form to the
  confirmation with an amount that `handleSubmit` has not seen, above the
  balance perhaps; a PIN edited after it was submitted goes into the packet by
  its hash though it was not verified; a second check reopens the confirmation
  of a payment that is complete.
* SettingsPage: overlapping changes take effect in the order their digests end;
  biometric unlock turned off comes back with a late answer of the platform, and
  is saved as on when the platform refuses; `settings.pinEnabled` is read
  by its own switch only; once the PIN is disabled none can be set, as *Set PIN* also wants the
  current one, and payments are impossible from then on; *Clear All Local Data*
  removes expired packets and nothing else.
* SplitPage: *Equal Split* can produce shares that the page's own check refuses
  (100 rupees among seven make 100.03); an empty share passes it.
  RequestPage offers *View History* and adds nothing to it.
* bluetoothService: a device once in the map is never connected to again, as
  `connectToDevice` returns early, so one failed write or broken link drops it
  for good, whatever the comment at line 184 says of a retry; the event of an
  earlier break, handled after the device is back, hides it; `shutdown` leaves
  attempts and reconnection timers to finish.
* `storageService.getFavoriteContacts` asks an index for a boolean, which is no
  key in IndexedDB. Nothing calls it, nor `setServerPublicKey`,
  `setPacketHandler`, `updateTransaction`, `updateAccountBalance`, `addContact`,
  `setPrimaryAccount`, `cleanupOldData`, nor the mesh store's `shutdown`, which alone
  would call the one that PhoneConnections has.
* Go: `PacketHash` slices 64 digits and panics on ciphertexts below 32 bytes,
  such as the one the flush itself makes; a payment to oneself writes the row
  twice and ends with the credit; `broadcastEvent` writes to connections under
  a read lock and without a deadline before the bridge is answered, so that a
  client that does not read keeps requests from ending, and two broadcasts at a
  time may write to one connection, which its library forbids; `GetMeshEvents` returns events after its cursor newest first;
  at this commit the backend does not compile (`mesh.go` lacks an import), and
  `main` never hands the pools to the stores. The model is of what the code
  says once these are mended.

## 6. What is not modelled

* Cryptography: RSA, AES and SHA-256 are libraries. A packet opens or it does
  not, and its hash names it.
* Read-only listings, the journey endpoint (constants), the canvas of the
  dashboard, configuration, build files.
* Counting of transfers and `gossip_hop` events in the mesh: EventStream takes
  events as given.
* `generate_and_inject_ack_from_instruction`: nobody calls it.
* The reset of the event log in MeshPayments: EventStream has it.
* In the app: the inbox and the ack queue, which nothing fills; what the event
  stream brings, as its events never name a packet of this phone (the Go stream
  sends heartbeats only).
* Pages: notes, error messages, searches, and the views that only display
  (wallet, history, mesh, profile). The account, the contacts and the session,
  which no page changes.
* Storage: the stores and operations that nothing calls.
* The dashboard's races, which are counted from the events EventStream delivers.
* Liveness of the app's uploads (a packet handed over gets a verdict once the
  connection holds): it needs PhoneOutbox without its bound on the attempts,
  which is beyond 1.5 million states and what TLC finishes in reasonable time.
* The mesh, ingestion and settlement at full detail in one module, for the same
  reason: MeshPayments takes an upload in two steps, which the refinement of
  Ledger justifies.
* Go's mesh coordinator beyond `HandleBridgeIngest`: its WebSocket clients and
  what they receive, and the flush. Of a broadcast the model has that it may not
  end or may panic.

## 7. Plan

Order of work, most important first; 1 to 8 and 11 are done.

1. Payments, Ledger, BridgeIngestion: settlement of concurrent uploads, with
   the abstract ledger and its refinement, checked and proved.
2. ResetIngestion: the case the unique constraint is for.
3. MeshSimulator, then MeshPayments, which composes the mesh, the uploads and
   the acks.
4. EventStream: from the log to the dashboard.
5. GoSettlement: the second backend.
6. Proofs: types, admission, overdraft, refinement for BridgeIngestion; types
   and `SettledIsSettled` for PhoneOutbox.
7. PhoneOutbox: `useMeshStore.ts` with `SendPage.handleConfirm`, the outbox in
   storage, gossip rounds and uploads.
8. AuthStore, SendForm, PinSettings, SplitBill, RequestForm and AppPages, which
   composes them.
   PhoneConnections: links, writes and the event stream.
9. GoMesh: WebSocket clients, broadcasts, the flush and its cursor.
10. GoLedger: an abstract specification for the Go backend that allows the
    lost update, and GoSettlement shown to implement it; payments to oneself.
11. Proofs of section 4, one module per component, with the sums that balances
    are compared with.
12. Proofs to come: `SharesAddUp`, with a sum over a sequence proved as
    `PaymentsProofs` does; for GoSettlement, that it implements GoLedger.
