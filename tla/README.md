# Verification of the fleet platform

This directory models the vehicle sharing platform: in the back end
(`src/apps/api`), who may drive which car, when, and who pays for it; in the
front end (`src/apps/web/src`), the session of a browser tab, its live feed, and
whether its pages show and offer what the server has. The modules are checked by
TLC on small instances; the trip, approval, booking, ledger, charging, session,
live feed and page models are also proved for every instance with the TLA+ proof
system. `PROJECT.json` is the index: components, runs, the source lines of every
definition, hazards, findings, theorems.

Paths of back end code are under `src/apps/api/internal/`, paths of front end
code, marked web, under `src/apps/web/src/`; a path that starts with `src/` is
whole.

## 1. Inventory

The platform is one Go process (or several: api, iot, ocpp and worker binaries
under `src/apps/api/cmd`) on PostgreSQL, Redis and an MQTT broker, and a React
front end that keeps the server's data in a query cache. The back end's shared
state is in PostgreSQL; isolation is READ COMMITTED everywhere. A handler is a
goroutine, so handlers interleave at every statement that is not protected by a
row lock, a guarded UPDATE or a unique index.

| Component | State | Operations | Hard behaviour | What makes it correct |
|---|---|---|---|---|
| approval | `approvals`, `approval_steps` | Create, Approve (two levels, may assign the vehicle), Reject, Cancel, lazy expiry, marks by the trip module | conflict check outside of the insert; lock on one request only; status written with SQL of four modules | one status machine; steps agree with the status; no vehicle promised twice |
| trip | `trips` | Start, End (console, or device over MQTT), Cancel | transaction on trips and approvals, then the vehicle in a second one; console and device race; process may die between | a request in use has one trip; a vehicle has one; a closed trip stays closed and gives the vehicle back |
| asset/vstatus | `vehicle_status`, `vehicles.status` | SetStatus, ApplyTelemetry | status kept twice; a report's second statement copies an older read | the two follow the trips |
| asset/vehicle | `vehicles` | archive CRUD, manual status | check, then unconditional write | no switch under a trip |
| booking | `bookings` | Create, Update, Transition (depart, complete, cancel) | no lock and no guarded update at all; shares the fleet with approvals and trips | one user per vehicle; final is final; bookings do not clash |
| billing accounts | `accounts`, `account_transactions`, `trips.billing_*` | Recharge, Allocate, Adjust, BillTrip, PriceAndCharge, UpdateAccount | chains of row locks; retries; failed marks after a rollback | balance = book; a trip is paid once; no ring of locks |
| charging | `charge_transactions`, pile and connector status | StartTransaction, MeterValues, StopTransaction, finish, bill, Review, remote start and stop | debit and settlement in separate transactions; races for a connector; review after failure | one session per connector; one debit per session; every ended session is accounted for |
| billing settlement | `settlements`, `settlement_lines` | Generate, Confirm | check, bill, replace the draft in three transactions | a confirmed period does not change |
| billing rules, price engine | `billing_rules` | activate, update, delete; price formulas | default rule changed under an edit | one default rule |
| ocpp | connection registry, pending calls | connect, calls, heartbeats, disconnect | a reconnect races the old connection's clean-up; answers race timeouts | a connected pile is not offline; an answer reaches its caller |
| telemetry | points, events | ingest from MQTT | reports late or repeated | reaches the core through ApplyTelemetry |
| auth | refresh tokens, deny list, permission cache (Redis) | login, refresh, logout, revoke all | consume races revoke; cache filled from an old read | a revoked session is dead |
| ws hub | clients, topics, buffers | subscribe, publish | full buffers, closing clients | no send on a closed channel |
| notify, audit, system administration, devices, cards, piles | rows of their own | CRUD, append-only log | no protocol with other components | the pages know what they accept (below) |
| server wiring, simulator | | start-up, I/O, test tool | | not modelled |
| web session and API client (`api/client.ts`, `store/auth.ts`) | token pair, viewed tenant, the one refresh promise | login, logout, requests, 401 and refresh, switch of tenant | several requests rejected at once; answers lost; a refresh under way at logout | a refresh token is sent once; every request ends |
| web live feed (`hooks/useWebSocket.ts`, `components/NotificationBell.tsx`) | the effect's closure: keys, socket, timer, `everOpened` | run of the effect, open, close, reconnect, the bell's poll | the effect restarts under an open socket; handshakes with an expired token | the feed speaks for the session of now; it comes back |
| web query cache and keys (`api/*.ts`, `hooks/useWebSocket.ts`) | entries of React Query | fetch, invalidate, `setQueryData`, events | events and answers against fetches under way | what is on display is fresh once all is quiet |
| web pages, forms, dialogs (`pages/`) | what is open, calls under way | some 80 buttons on 23 screens | each page lists by hand what its mutations make stale, and offers buttons by a copy of the server's guards; late answers | nothing stale is left; buttons are not refused; an answer closes its own dialog |
| web maps, UI kit, formats, schemas, generated types | | drawing, formatting, field checks | | not modelled, but for the dialogs |

How they interact: `trip` writes `approvals.status` (through
`approval.MarkStatus`) and vehicle state (through `vstatus`), and calls the
billing hook when a trip is completed; `booking` and `asset/vehicle` write the
same vehicle state; `telemetry` and `charging` write it through
`ApplyTelemetry`; `charging` calls `billing.PriceAndCharge`; `ocpp` calls
`charging`; `approval` and `booking` both reserve vehicles, each in a table of
its own. Notifications and WebSocket events leave each handler last and no
handler reads them back; the front end does: an event invalidates queries or is
put into cached data, while the page's own mutations invalidate what they list
and the feed may be down. The front end and the server meet in `ServerApi`: the
permission, the accepted row states, the changes and the events of every
operation a page calls.

The hazards of this code are listed in `PROJECT.json`, each at its line.

## 2. Modules

| Module | Models | Composes |
|---|---|---|
| `VehicleStatus` | asset/vstatus: two tables, `SetStatus` in one transaction, a telemetry report as two statements with the snapshot of the second | |
| `TripLifecycle` | trip Start, End, Cancel; the manual switch of asset/vehicle; the approval transactions that decide whether a trip may start | extends `VehicleStatus`; refines `ApprovalContract` |
| `ApprovalRules` | approval/rules.go NextStatus, the turnaround between two windows | |
| `ApprovalContract` | abstract: a request moves only along NextStatus | extends `ApprovalRules` |
| `ApprovalFlow` | approval Create, Approve, Reject, Cancel, expiry, trip marks, row locks, the conflict query | extends `ApprovalRules`; refines `ApprovalContract` |
| `BookingContract` | abstract: a booking is written free of the others, a vehicle leaves when nobody has it | extends `ApprovalRules` |
| `BookingDesk` | booking Create, Update, Transition, releaseVehicle, and the other users of the fleet | extends `VehicleStatus`, `ApprovalRules`; refines `BookingContract` |
| `LedgerContract` | abstract: money moves in one piece, on books that are all there is | |
| `BillingLedger` | accounts, postings, allocations, BillTrip, with every row lock | refines `LedgerContract` |
| `ChargeContract` | abstract: the life of a session, paid for once, forgotten only where it may be | |
| `ChargeSession` | charging StartTransaction, StopTransaction, finish, bill, Review, and PriceAndCharge's look-up and debit | refines `ChargeContract` |
| `WebSession` | web: client.ts, store/auth.ts, login and logout, with the server's side of the tokens (auth) | |
| `LiveFeed` | web: useWebSocket.ts and the bell's poll, with the handshake of the ws hub | extends `WebSession` |
| `ServerApi` | what the server does for the pages, one record per operation | |
| `QueryKeys` | the query keys of every file of web api/, what events do to them, what a reopened feed loads again | |
| `PageParts` | how a page is put together: queries shown, buttons, forms, kinds of dialog | extends `ServerApi`, `QueryKeys` |
| `FleetPages`, `MoneyPages`, `AssetPages`, `SystemPages` | the pages, one definition per component of pages/ | extend `PageParts` in a row |
| `WebPages` | one query beside one button: cache entry, dialog, call, events, with changes made elsewhere | extends all of them |
| `*_proofs` | theorems about `TripLifecycle`, `ApprovalFlow`, `BookingDesk`, `BillingLedger`, `ChargeSession`, `LiveFeed` (with `WebSession`), `WebPages` | |
| `WebScenes_proofs` | that every button of every page keeps the rules of the pages | extended by `WebPages_proofs` |
| `MC_*` | instances for TLC | |

### How a handler becomes actions

A handler is a *call* of a worker, a record in the variable `calls`. Its `stage`
names the step it does next, its other fields are the local variables a later
step still uses. A stage ends where the code commits, or where it has read
something it will act upon later: everything in one transaction that holds the
lock of what it reads is one action; a read before the transaction is another.
`Workers` bounds the handlers in progress at once. `Abandon`, `Crash`, `Rollback`
and `Fail` stand for a process that dies, a request whose context ends, a
statement that fails.

Rows are functions over a fixed set of identities with the status `"absent"`
before the insert. A guarded `UPDATE ... WHERE status = ...` is a pair of
actions, one for one row affected and one for none. A unique index is a guard of
the insert and an action for the refusal. A lock is a predicate over `calls`
(`Locked`, `HoldsTrip`, `HoldsAccount`): a row is locked while some call is at a
stage that holds it.

### Correspondence and abstractions

* **Trips.** Start reads the request and the vehicle separately; the model reads
  both at once (`StartRead`), because `store.open` locks and re-checks the
  request, and the vehicle of an approved request is fixed
  (`ApprovedVehicleIsFixed`). Start from the console and from a device differ in
  who may drive. Track points, driving events, odometer, sign-on and statistics
  decide nothing. Cancelling a trip gives the request back, as `store.cancel`
  does.
* **Vehicle.** The charging flag of a report takes any value. A report without
  one keeps the stored value, which is one of the two. `TelemetrySnapshot` and
  `TelemetryCopy` separate the read of `vehicle_status` from the write of
  `vehicles`, since a statement that waits for a row lock re-reads that row
  only.
* **Approvals.** Who the approver is, maintenance and permissions may refuse a
  call at any time, that is the call does not happen. Windows are counted in
  turnarounds of 15 minutes. Time passes freely: expiry may come at any point.
  `hasOngoingTrip` is implied by the status in use.
* **Bookings.** The reads of one operation are one step. Trips are calls as well:
  what a start read of the archive (`TripRead`), its commit or the refusal of the
  unique index (`TripOpen`, `TripRefused`) and the vehicle written after it
  (`TripTake`) are steps of their own, and so are the commit that closes a trip and
  the return of the vehicle (`TripClose`, `TripReturn`); each call may be cut short
  in between. A telemetry report is the two statements of `VehicleStatus`. Requests
  and operators are environment actions of one step each. `TripLifecycle` and
  `ApprovalFlow` model them all in full.
* **Ledger.** An account that does not exist yet is one with balance 0 and an
  empty book. A frozen source is a refusal, as is every other error: the
  transaction rolls back. Amounts are integers (cents). Levels never change, so
  `canAllocate` is decided when the call begins. Pricing is any amount.
* **Session.** One browser tab. A token pair is the number of its issue; what the
  server knows of it (access live, expired or denied, refresh token live or used)
  is in `issued`. Requests carry no content. The server deletes a refresh token
  before it issues the next pair. A login is a request of its own (`Enter`), answered
  or refused later, whatever the store holds by then; a logout may never reach the
  server (`LoseLogout`). An answer that is lost is a network error to
  axios, as is a time-out. A second tab, which shares the stored tokens through
  localStorage, is left out: two tabs each have a refresh promise of their own.
* **Feed.** React runs the effects of a render before the browser takes up
  another event; so nothing comes between a change of the effect's keys and
  `RunEffect` while Layout is mounted. The delay of the back-off, pings and what
  events carry are left out; what an event does to the cache is in `WebPages`.
* **Pages.** A *scene* is one query on display beside one button, of the same
  page or of another one. It holds only what the machine needs to know of the two
  (whether the button's `onSuccess` refreshes the query, in which row states it is
  offered and accepted, what events the server publishes for it and for every
  other operation that touches the same data), so that scenes that look alike are
  one: 301 of them stand for every query and button of every page. The data of a
  query is the number of changes it has seen and the state of the button's row.
  What a query shows is what its SQL selects rows by, counts, or puts beside a
  row as a figure or a status (`QueryKeys` names the counts: `members`,
  `roleHolders`, `tenantSize`, `gateways`, `bills`, `meter`, `periods`); a name
  joined in from another table is left out. Also left out: filters and paging (a
  parameter of a key changes nothing an invalidation by prefix sees), validation of
  fields, layout, React Query's retry of failed reads (a failure is one after all
  retries) and the collection of unused entries (a collected entry is loaded anew,
  which is never stale).
  `staleTime` may pass or not, whenever a page is opened.
* **Known gaps of the pages.** `KnownGap` lists every pair of an operation and a
  query it changes that `PageIsSound` does not hold for; a pair not listed is a
  violation. It is a list of defects of the pages, found by listing for each query
  the tables its SQL reads. On the button's own page:
  a new approval on the approval pages and a vehicle whose trip starts on the
  approvals page (`vehicleKeys.status`), which the feed tells of; the status beside
  a vehicle in that page's filter, and in the bookings' when one departs or
  returns, of which nobody tells; the number of members in the department tree
  when the users page creates, moves, imports or deletes a user (web
  pages/system/users/index.tsx:79, system/dept/store.go:20), of which nobody tells
  either. On other pages, where nothing tells: the vehicles on offer to a request or
  a booking, when trips, requests, bookings or the archive change them
  (booking/store.go:244, approval/store.go:392); the holders of a role and the
  users and departments of a tenant; members and departments in the tree of
  accounts; the device of a deleted vehicle; the piles on the charging page; a
  vehicle's count of trips when one starts; trips billed by a settlement. All of
  them wait for the query's `staleTime`. In `QuietMeansFresh` a pair of the list
  whose change no event tells of counts as missed. `PermissionGap` names one button
  that asks for another permission than its route: disabling a tenant needs
  `system:tenant:delete` on the page (web pages/system/tenants/index.tsx:81) and
  `system:tenant:update` on the server (system/tenant/handler.go:24).
* **Charging.** Energy, price, vehicle binding, presets, meter values and pile
  status are left out; a deviation of the meter may always ask for a review. A
  debit is counted per session. A cost of 0, which posts nothing, is left out.
  `FailAt` names the statements that may fail: those of the bill, which send the
  session to the review, and the close and the mark for review themselves, whose
  errors `finish` logs or drops (`FailUnnoticed`, charging/service.go:395, 414).

## 3. Runs

| Run | Instance | Shows |
|---|---|---|
| `TripConcurrent` | 1 vehicle, 2 requests, 2 trips, 2 workers, failures, telemetry | type, `InUseIffOngoing`, `OneOngoingPerVehicle`, `CompletedOnce`, `FinalIsFinal`, `FollowsContract` |
| `TripSerial` | 2 vehicles (one reports), 2 requests, 2 trips, 1 worker, no failures, fair | `VehiclesInSyncWhenQuiet`, `TripUsesApprovedVehicle`, `ClosedTripLeavesVehicle` |
| `ApprovalSerial` | 2 requests, 2 vehicles, 3 windows, 1 worker | type, `NoDoubleHold` |
| `ApprovalConcurrent` | 2 requests, 2 vehicles, 2 windows, 2 workers | `StepsMatchStatus`, `ApprovedVehicleIsFixed`, `FollowsContract` |
| `BookingLossy` | 2 bookings, 1 request, 2 vehicles, 1 trip, 2 windows that touch, 1 worker, calls of bookings and trips cut short, operator, telemetry | type, `NoDoubleBooking`, `TripKeepsVehicle`, `FollowsContract` |
| `LedgerConcurrent` | 3 accounts (one per level), 1 trip, 2 workers, 2 entries per account | type, `BalanceMatchesBook`, `TripBilledOnce`, `NoLockCycle`, `FollowsContract` |
| `ChargeConcurrent` | 2 sessions on 1 connector, 2 pile connections, 1 reviewer, any statement of close, bill and mark fails, any call is cut short | type, `OneSessionPerConnector`, `DebitedOnce`, `SettledForGood`, `FollowsContract` |
| `ForgottenSession` | 1 session, 1 pile connection, fair; bill and mark fail | violation: a session has ended, unbilled and in no queue |
| `DoubleHold` | as ApprovalSerial with 2 workers | violation: two concurrent requests hold one vehicle |
| `WebClient` | 2 requests at a time, 1 tenant besides one's own, 2 pairs, 1 lost answer, 1 switch, 1 dropped socket, fair | type, `RefreshTokenUsedOnce`, `FeedSpeaksForSession`, `CallsComeToAnEnd`, `FeedComesBack` |
| `FeedGap` | the same, without fairness | violation: a feed that is open may have missed events for good |
| `WebPages` | 301 scenes, from every state of the row, 2 changes of the data | type, `PageIsSound`, `QuietMeansFresh`, `RefusedOnlyByRace`, `AnswerClosesOwnDialog` |

### Why these bounds

Every race of this code is between two handlers on one row, or on two rows that
share a vehicle, an account or a connector: two workers, two rows and one
shared resource show each of them, and a second vehicle or account is there
where a call could pick the wrong one. Two trips are one more than a request may
complete, so that a second one would be seen. `MaxEntries` bounds the books: two
postings per account let an update be lost. Three windows (`ApprovalSerial`)
include a pair that overlaps, a pair that leaves less than the turnaround and a pair
that leaves exactly it; the two of `BookingLossy` touch, so that each clashes with
itself and with the other.

In `WebClient` two requests are enough for one to be rejected while the other's
refresh is under way, before it, and after it; two pairs are one login and one
refresh, or two logins; one loss, one switch and one drop let each fault meet
every step of the others. What two pairs leave out is a login answered over a
refresh begun before it, which needs three: the theorems cover it, being about any
number of pairs. In `WebPages` two changes are one that a read or an
event has seen and one it has not: stale answers, patches out of order and lost
marks all need no more.

What holds with one handler at a time and not with two is checked with one, in the
runs named `Serial` and in `BookingLossy`: a reader can see which properties the code keeps by
its locks and guards, and which only by the absence of a race. In particular,
with two workers:

* the vehicle may be left in use by a closed trip, when End runs between the
  commit of `open` and its late `SetStatus` (trip/service.go:340);
* an operator's switch may hit a vehicle that went on a trip since the check
  (asset/vehicle/service.go:134);
* the archive status may differ from the live one at rest, when a SetStatus
  commits between snapshot and write of a report (asset/vstatus/vstatus.go:160);
* a booking may leave with a car that a trip took since the check, an edit may
  change a departed booking, a cancel may overtake a departure whose vehicle then
  stays in use, and a release may free the car of a trip or of another booking
  (booking/service.go:239, booking/store.go:298, booking/service.go:271).

With calls cut short, a vehicle whose booking or trip was written and whose own
row was not is idle to everybody else: the next booking or trip goes out with it.

A reject that read its session before another reviewer approved it takes the billing
off a session that was debited and settled (charging/service.go:783, store.go:592),
so `SettledForGood` is checked with one reviewer.

None of these is claimed by a run; all are hazards of `PROJECT.json`. That no
vehicle is out with two users, and that it is in use exactly while it is out, are
proved for one handler at a time whose calls are not cut short (`OneUserAtATime`,
`InUseExactlyWhileOut`), which is as far as they go: no run checks them. Neither is it claimed
that an approval looks at bookings (it does not, approval/store.go:383), nor that
a rejected session stays without a debit (charging/service.go:453).

In the front end, likewise not claimed:

* a refresh begun before a logout is answered after it and overwrites the pair of
  a login made since (web api/client.ts:121); such a pair is the one the session
  then holds, so the properties of `WebClient` hold of it all the same;
* a drawer or a loose dialog may be closed while its call is under way, and the
  late success closes the next one; `AnswerClosesOwnDialog` is about held ones;
* an event put into the cache while a fetch is under way is overwritten by its
  older answer; `QuietMeansFresh` excuses it by `missed`, together with reads
  that fail and changes nobody told the tab of. It excuses a change made by a button
  of the page itself, whose answer arrived, only if button and query are one of the
  known gaps and no event told of it.

### Fairness

`TripSerial` assumes weak fairness of `Proceed(w)`: a handler that has begun is
carried on, because the server runs its goroutines and no handler waits for
another one. It assumes nothing of users. `ForgottenSession` and the theorem
`EndedSessionsAccountedFor` assume the same of `ChargeSession`; a step may still
fail, and the failure is then carried on too. The theorem is about piles whose
handlers do not die and marks for review that do not fail (`PilesSurvive`,
`MarksSucceed`), while a reviewer's call may be cut short (a client that leaves ends
the context): after a crash between `store.close` and `bill`, or a mark that fails
as the bill did, nothing picks the session up again. `ForgottenSession` shows the
latter. `ChargeConcurrent`, which needs no fairness, has both, and the contract there
knows such a session as forgotten. `WebClient` assumes weak fairness of what the client does with an answer
and of the answers themselves (axios answers, or reports an error after its
time-out), of the effect, the handshake and the timer (React and the browser run
them), and of the bell's poll while the socket is closed (web
components/NotificationBell.tsx:37), without which an idle page whose token has
expired would be refused for ever. React Query pauses a `refetchInterval` in a hidden
tab, so this fairness, and with it `FeedComesBack` and the theorems on it, is about a
tab on display: a hidden one whose token has expired is refused until it is shown. It assumes nothing of users, of tokens
expiring or of the network's faults. `WebPages` has no liveness property.

### Findings

The violation runs each check a sentence of the repository against what the code
does; `PROJECT.json` quotes it. `DoubleHold`: two requests pass a conflict check
that is outside of the transaction. `ForgottenSession`: the mark that sends a session to
the review after its bill failed may fail as well, is not looked at, and the log says
"queued for review" all the same. `FeedGap`: the feed loads again what it may have missed only if
this run of the effect was open before; a refreshed token starts the effect anew,
`everOpened` is false, and what was published between the two sockets is not loaded.

## 4. Proofs

See section 5 for what is left to TLC. A theorem that holds for one handler at a
time says so with an assumption of its own (`OneHandler`, `OneReviewer`,
`PilesSurvive`, `MarksSucceed`, `~MayFail`) or is about `SerialSpec`; a
run that checks the property has the same condition. Constants are arbitrary sets with the
`ASSUME`s of their modules (a null value is not a row, the manual targets are
vehicle states).

**TripLifecycle.** `TripInv` is the inductive invariant: type correctness, the
four safety properties, that rows name vehicles, and `CallFacts`, what each call
in progress may still rely on of what it read. `InUseIffOngoing` alone is not
inductive. `open` writes `in_use` over whatever it finds, which is right only
because the request is re-checked and has no ongoing trip; `close` writes the
request of the trip it closes, which is right only while that trip is the
request's one ongoing trip; and that the vehicle of a trip is the approved one
depends on what Start read before the lock, so the invariant has to say that a
call about to open a request still approved carries the vehicle that request
has. No fact about the vehicle tables is used: the trips and requests are kept
right by two transactions, whatever late vehicle writes do.

From `TripInv` follow `RequestsFollowTrips`, `VehiclesDrivenOnce`,
`RequestsCompletedOnce`, `TripsUseApprovedVehicles`, the action property
`FinalForGood`, and `TripsFollowContract`: every step maps to a step of
`ApprovalContract` or a stutter.

`VehiclesFollowTrips` is about those late writes: with one handler at a time and
none cut short, a vehicle at rest is in use exactly while a trip of it is under
way. Its invariant `SyncInv` adds to `TripInv` that a vehicle row agrees with the
trips (`Held`) unless the running handler still has to write it, and what that
handler's write then finds (`SyncFact`): the trip it marks is still under way, the
vehicle it releases or switches is on none. Telemetry needs no fact: a report
moves the live status only between free states.

`ClosedTripsLeaveVehicles` is liveness on the same invariant: a live row that
names a closed trip does so only while the running handler has yet to write that
vehicle (`LingersInPassing`), nothing changes before that write, and the write
takes the trip out (`LingersUntilWrite`). What it asks of fairness is `CarriesOn`.

**BookingDesk.** Its calls guard nothing by a lock, so that the proofs are about
what survives that. `SerialInv` says what the running call may still rely on of
the booking or the vehicle it read; `WindowInv` adds that a window checked stays
free until it is written (`BookingsApart`), `ReleaseInv` that a live row looked at
for a release names no trip until it is written (`ReleasesSpareTrips`); both with
calls cut short, those of trips included. For calls that are not, `FleetInv` says
that live row, archive row, a report under way and the trips agree on a vehicle
(`Agrees`, `Mirrored`), except for the one whose trip a call has just opened or
closed, and `DeskInv` relates the bookings to them: `OneUserAtATime` and
`InUseExactlyWhileOut`.

`DeskFollowsContract` puts them together: every write of the desk, of the
requests and of the trips is a step of `BookingContract`, which knows
neither calls nor the status of a vehicle. The contract looks at the bookings and
trips themselves before a vehicle leaves; the code looks at the archive status
(`CanDepart`). That this tells the same is `NobodyHasIt`, from `DeskInv`. With
calls cut short it does not: the archive may have a vehicle idle that a booking or
a trip has out, and the contract promises no more than that no second trip starts
on a vehicle (`NobodyHas`, `StartTrip`), which the unique index keeps.
`HoldFact` adds that no request came to hold a vehicle between the check of a
booking and its write.

All theorems but `TypeCorrect` assume one request or report at a time, of bookings
and trips alike (the specification `SerialSpec`); requests and operators act
between them.

**ApprovalFlow.** `ApprovalInv` is `TypeOK`, `StepsMatchStatus` row by row
(`Matches`), that a request is locked by one call only (`LocksExclusive`) and
`AssignFacts`: the outcome an Approve computed when it took the lock is still
the outcome of its request. The last one is why `StepsMatchStatus` alone is not
inductive, since the commit writes that outcome without a look at the row. From
it follow `TypeCorrect`, `StepsFollowStatus`, and through `OneRow` (a step
writes one request, along one edge of the machine) the action property
`ApprovedVehicleStays` and the refinement `WorkflowFollowsContract`.

`NoDoubleHold` is false with two handlers (run `DoubleHold`). The theorem
`OneHandlerHoldsOnce` says how far the checks carry: with one handler at a time
it holds for any requests, vehicles and windows, although expiry, trips and
decisions that change no vehicle go on between the query and the write.
`SerialInv` adds that what the conflict query found is still so when its call
writes (`QueryHolds`); steps that need no query keep it because they only ever
give vehicles back (`KeepsHold`).

**BillingLedger.** `LedgerInv` adds to `TypeOK`, `BalanceMatchesBook` and
`TripBilledOnce` the facts they rest on: `LocksExclusive` (no row is locked by
two transactions), `AllocationShape` (an allocation bills no trip and its target
lies one level below its source) and `Fresh` (what a transaction has read under
a lock it still holds is still so: the balances it saw, the credit it checked,
the trip it found due). The two properties alone are not inductive: a commit
writes a balance computed from one read several steps earlier, and marks a trip
charged that it found due several steps earlier, so the invariant has to say
that nobody wrote these rows in between, which is what the locks are for. The
proof follows that division: a step that only moves one call keeps the tables
(`OneCall`), a commit is right for the rows it holds (`CommitBalances`,
`CommitTrips`) and touches no row another call relies on.

From `LedgerInv` follow `BooksBalance`, `TripsBilledOnce` and
`AllocationsWithinCredit`. They are facets of `LedgerFollowsContract`: on the
books, the credit limits and the trips paid for, every step of `BillingLedger` is
a step of `LedgerContract` or none. The contract has no locks, no transactions and
no stored balance. A commit maps to one movement, the balances it computed from
rows it read steps ago being those the books end with (`Fresh` and
`BalanceMatchesBook`); the steps before it map to nothing, a rollback too. `NoRingOfLocks` needs the order of the locks: who
holds an account somebody wants, and waits itself, waits for an account one
level below; there are three levels, so every account is free if everybody
waits, then every trip is, and nobody waits. All of it holds for any number of
accounts, trips, workers and entries, for amounts that are natural numbers and
for credit limits that are not negative.

**ChargeSession.** `ConnectorInv` (types, one session per connector, a call
names a session that exists) is inductive for any number of reviewers, and gives
`TypeCorrect` and `ConnectorsRunOneSession`: the index alone would not do, a
closed session must never charge again. `ChargeInv` needs one reviewer, stated
as the assumption `OneReviewer` of the theorems that rest on it; with two the
code breaks them, a hazard of `PROJECT.json`. It says that every session being
billed is billed by one call (`BilledByOne`), which finds row and debits as it
left them (`Standing`): a pile's call has closed the session without a review,
so no reviewer finds it, and a reviewer found it pending, so no pile bills it.
That is what makes the look for a debit and the later posting one operation, and
gives `SessionsDebitedOnce` and `SettledStays`, with any statement failing and
any call cut short.

`SessionsFollowContract` is what the handlers come to: the phase of a session
(`Phase`, from its row and the calls that are billing it) and its debits follow
`ChargeContract`, whatever statements fail and calls are cut short. There an ended
session is due or in review; a row that has ended, asks for no review and is billed
by no call maps to `"forgotten"`. The contract goes there only from `"due"`, comes
back from there never, and does not go there at all unless `MayForget`: a mark for
review may fail, or a pile's call may die after `store.close`. `ForgetMoves` has both.
The contract lets a reviewer reject a session that was paid for, as the code does.

`EndedSessionsAccountedFor` is liveness, for any number of reviewers, where nothing
may be forgotten (`PilesSurvive`, `MarksSucceed`): an ended
session without a bill or a review has a pile's call that bills it (`Owned`), which
no other call can take away from it, and each step of that call, also one that
fails, brings it nearer to the two writes that account for the session
(`BillMovesOn`, three stages). `OwnerInv` needs no `OneReviewer`: that a pile's
call owns its session rests on the roles of the calls, not on the number of
reviewers.

**LiveFeed.** `FeedInv` says that a socket was opened with the keys the effect ran
for, and that a socket or a timer exists only for a run with a token
(`FeedFollowsKeys`), and that such a run always has one of the two; a timer or a
socket that outlives its run would break it, which is what the clean-up is for, and
so would a close that arms no timer. `FeedFollowsSession` follows: once React has
run its effects, the socket speaks for the token and tenant of now, and who is
logged in has a socket or a reconnect ahead. `TokenInv` says
that the refresh token of the pair in the store, when no refresh is under way, was
never sent, nor that of a pair just granted (`HeldUnused`): `RefreshTokensUsedOnce`
rests on it, for any number of requests, pairs and lost answers. Its core is that a
401 that comes after a refresh finds either the promise still there or a newer
pair in the store. `NobodyWaitsInVain` is the safety half of `CallsComeToAnEnd`: a
request that waits has a refresh under way, so that the fairness of its answer is
all that liveness needs there.

The second part of `LiveFeed_proofs` has the other half. A request goes through at most seven stages
(sent, denied, waiting while the refresh is sent, granted or refused, sent and
denied once more), never back (`CallGoes`), and out of each by the step it waits
for; `CallsEnd` chains the seven. `FeedOpensAgain` argues from the contrary. Suppose
that from some time on somebody is logged in and no socket is open (`Dark`), and
the network is calm and the session stays (`Calm`). With a token the server takes,
timer and handshake can only end in an open socket (`TakenTokenOpens`). A dead token
stays dead (`DeadStaysDead`), the bell asks with it and is denied, and the denial
can be handled only by starting a refresh; but a refresh cannot be under way, since
it would end in another token or in a logout (`NoRefreshInTheDark`, with
`GotIsNew`: what a refresh gets is never the pair already held). So the request is
stuck, against `CallsEnd` (`DeadTokenAsks`).

**WebPages.** The code keeps no rule for what a page must refresh; `WebPages` states
it. `PageIsSound` is two rules about a button and a query: the button refreshes
what its operation changes (`Refreshes`), and it is offered where the server
accepts it (`Offers`). `PagesAreSound` proves that every button of the 23 screens
keeps both, beside every query of its own page and of the others, with the known
gaps as its only exceptions; the run of TLC enumerates the same scenes. The argument (`WebScenes_proofs`) is the reason a
reviewer of a page would give, and shows which convention each page relies on:

* `Shown` is the opposite of `QueryKeys`: the keys that show each kind of data.
  The lemmas `ApprovalShown`, `BookingShown` and so on say of every query of web
  `api/` that it is there under all that it reads; the polled ones (dashboard, trip
  detail) need not be;
* a kind of data that lives under one prefix, the *home* that a page invalidates
  for it (`Home`, `Homed`), is reached wherever it is shown. The others (vehicles and
  their live state, requests, trips, departments and their members, piles) are shown
  in several files, and have a lemma of their own: `TripsReached`,
  `VehiclesReached`, `StartLiveReached`, `CountsReached` and so on;
* a button attends to its operation (`Attends`) if each kind of data that the
  operation changes is reached (`Reached`): every key that shows it is refreshed or
  put in, or is an event's to tell and not on the page, or is a known gap (`Gaps`).
  `TripDoes`, `BookingDoes` and so on say it of the buttons of one screen, from
  tables of what the operations ask and change (`TripOpFacts`, ...), and
  `TripShows`, `BookingShows` what that screen shows.

`ScenesSound` puts the three together. A new page or button costs one step there,
and its proof fails if its `invalidate` forgets a key that is not a known gap.

From the two rules the rest is proved for any number of changes, under every order
of fetches, cancelled fetches, invalidations, events, answers, closed feeds and
pages left and opened again:

* `QuietPagesAreFresh`: `QuietMeansFresh` from `Refreshes`. The invariant
  (`EntryCovered`) says of the version that the data has, or that an answer under
  way brings: every later change is still to come (`Covered`), because an event
  under way invalidates, or the button's `onSuccess` will, or each change is itself
  under way as an event or answer to put in; or else it was missed. Patches need the
  order of events (`InOrder`) and that no answer is put into the same query
  (`NoEventSkipped`), which is why `Refreshes` has a second part.
* `RefusalsAreRaces`: `RefusedOnlyByRace` from `Offers`.
* `LateAnswersHarmless`: `AnswerClosesOwnDialog`, of any scenes.

## 5. Only model-checked, and out of reach

**ENABLED and fairness.** The prover decides temporal formulas but knows nothing
of ENABLED. The liveness theorems therefore assume what fairness comes to, with the
enabling condition written out: `CarriesOn(w)` says that a call at a stage where it
can go on leaves that stage or takes its step, again and again. Lemmas
(`WeakFairnessCarriesOn` of trips and of sessions, `StrongFairnessServes`,
`FairlyServed`) derive it from the WF and SF formulas and the ENABLED fact in
question, which is a hypothesis there. `FairTabsComeBack` does so for the whole of
`FairSpec`, with `Possible` as the conjunction of these facts. The steps meant have
no guard but the stage they start from, and in the tab that the effect is not due.
In `EndedSessionsAccountedFor` the fairness is boxed, which weak fairness is anyhow:
the call that owns a session is known only at the time it ends, and the prover does
not move a quantifier over `[]`.

**Induction over a bound.** `CallsEnd` needs nothing about bounds: what it assumes
of fairness follows from strong fairness, or from weak fairness once the session's
keys are at rest. `FeedOpensAgain` and `FairTabsComeBack` assume that network and
session calm down (`CalmsDown`); without that the property is false, since a network
may close every socket. In every instance of `LiveFeed` the bounds on pairs, losses,
switches and closed sockets bring it about, but that a bounded counter comes to rest
is an induction over the bound, out of the prover's reach; so the step from
`FairSpec` alone to `FeedComesBack` is left to the run `WebClient`. The same goes for
facts by induction over data (what a recursive function computes for every input):
they need theorems that take operators, which the installed back ends cannot
instantiate. No module uses a RECURSIVE operator, which would cost it its SMT back
end.

### Not modelled

* Maps and track player of the front end: drawing, clustering and replay of
  positions, state no other part reads. UI kit but for its dialogs, formats,
  generated types, validation schemas: presentation and field checks.
* Price formulas: arithmetic over decimals, better tested than model-checked.
* Server wiring, bootstrap, migrations, simulator: start-up code, I/O, a test tool.
* `ocpp`, the transactions of settlement and billing rules, revocation and the
  permission cache of auth, the hub's bounded buffers: within reach, see the plan.

## 6. Plan

In this order, each with its run, its mutants and its hazards:

1. `Settlement`: Generate against Confirm; a confirmed period is final.
2. `PileLink`: registry, reconnects, offline marks, pending calls and timeouts.
3. `AuthTokens`: refresh against revocation, the permission cache.
4. `BillingRules`: the default rule under concurrent edits.
5. `ChargeBinding`: presets of remote starts and `PickVehicle`, the latter as a
   pure operator against a reference definition; the approver chain and night
   windows of approval in the same style.
6. `WsHub`: bounded buffers and closing clients.
7. The vehicle archive: delete against concurrent requests and trips.
8. A second tab beside `WebSession`, with the tokens in shared storage.

Runs that share an instance are merged as this grows; a violation run gives way
to a passing run of a new component before a component goes unchecked.
