# One Tappe: verification of the booking platform

One Tappe sells home-service visits: a customer books a visit for a promised
time and pays for it, workers are reserved and offered the job, the visit takes
place, and money is settled or returned. Everything that decides is in
`apps/api` (a NestJS server and worker processes over one PostgreSQL database)
and `packages/domain` (pure rules); the apps and the API client keep a little
state of their own. This directory holds TLA+ models of that code, the TLC
configurations that check them on small instances, and theorems that TLAPS
proves for every value of the constants.

Each definition says in its comment what it stands for, and `PROJECT.json`
records under `map` the source lines it translates.

* 1 the system, 2 the modules, 3 the runs, 4 the findings, 5 the proofs,
  6 what is not modelled, 7 what is left to do.

## 1. The system

| Component | State it keeps | Operations | Meets the others through |
|---|---|---|---|
| Booking state machine (`packages/domain/src/booking`, trigger `booking_before_update`) | `booking.status` | the transitions, each with the channels that may raise it | every other component applies events to it |
| Capacity and dispatch (`booking/*.service.ts`, `0007_bookings.sql`, `0011…sql`) | `worker_reservation`, `booking_assignment`, payment deadline | create, confirm, accept, reject, offer expiry, withdraw, reassign, hold, reschedule, cancel, expire, redispatch, field events | the exclusion constraint over every booking's reservations |
| Payments (`payments/payment.service.ts`, Razorpay) | `payment`, `payment_event`, the gateway's orders | open a checkout, webhook, status refresh, reconciliation, server capture | confirms, expires or cancels the booking; asks for refunds |
| Refunds (`payments/refund.service.ts`), cancellation policy | `refund`, the gateway's refunds | request, decide, send, retry, look up stuck ones, webhook | cancellation, duplicate payments |
| Job runner (`jobs/job-runner.service.ts`) | `job_lease`, timers of every worker process | start, tick, take the lease, finish, crash, shutdown | runs the periodic half of the others |
| Settlement (`payments/settlement.service.ts`) | invoices and their sequence, earnings | close completed and missed visits | `CLOSE`, payout rules, issuer |
| Phone and start codes (`auth/otp`, `booking/verification-code.service.ts`) | challenges, attempt counters | request, deliver, verify | sign-in; `START_SERVICE` |
| Sessions (`auth/session.service.ts`, `packages/api-client`) | `auth_session`, the app's token store | sign in, refresh, sign out | every request of an app |
| Staff (`auth/staff-auth.service.ts`, `admin/staff-admin.service.ts`) | accounts, roles, credentials, invitations, sign-ins | suspend, grant, revoke, invite, log in, second factor | the administration |
| Legal documents (`legal/`) | versions, consents | publish, list, accept, check, opt in | booking, going online, notifications |
| Worker lifecycle and documents (`worker/`, `storage/`, `admin/admin-people.service.ts`) | worker profile, verifications, stored files and their objects | onboard, check, decide, train, suspend; upload, confirm, scan, show, purge | who may be reserved |
| Customer records (`customer/customer.service.ts`) | addresses | save, replay | creation |
| Catalogue, areas, schedules (`catalog/`, `service-area/`, `configuration/`) | services, zones, hours, shifts | configure, offer slots | creation, pricing |
| Pricing and promotions (`pricing/`, `packages/domain/src/pricing`) | rules, redemptions, quotes | create, end and replace a rule; price; redeem, release | creation, payment, cancellation |
| Notifications (`notifications/`) | `notification`, devices, routes | enqueue, claim, send, mark | every change that tells somebody |
| Safety incidents and support cases (`support/`) | incidents, roster, pages, cases | report, page, acknowledge, command, close | notifications; outbox |
| Integration outbox and Zoho clients (`integrations/`) | `integration_event`, links, pauses, the shared token | enqueue with the change, claim, deliver, retry, dead-letter | Zoho Desk and CRM |
| The apps' screens (`apps/worker`, `apps/customer`, `packages/mobile-kit`) | the booking as loaded, keys, retries | buttons and retries | the API |
| HTTP, audit, database access, admin web application | logs, pages | -- | not modelled |

`PROJECT.json` lists them with their files, what is left out of each, and why.

What is hard here. Operations on different bookings run concurrently and meet
only in database constraints. Gateway, provider and Zoho calls are made between
two transactions, so anything may happen between them. A webhook arrives late,
twice, in another order or never. A process dies holding a lease, or after the
outside service acted. The deadlines of payments, offers, leases and calls race
with the answers. State is read without a lock and used after it changed: by
transactions under READ COMMITTED, from a configuration that staff change meanwhile, by an app that retries, by an operator who
looks at a page. A crew is only partly filled. `PROJECT.json` lists these under
`hazards`, each at its line, with the properties that would catch it going wrong,
or why there is none.

What makes each component correct:

* dispatch: no worker is reserved twice; an offer is a slot really held for the
  promised time; a booking becomes assigned only with the crew its service needs then; time that can still be paid
  for is held, and no worker's time is blocked for nothing; a confirmed booking is not forgotten;
* payments and refunds: a booking is charged once; captured money is used or
  returned; a capture is final; never more is returned than was captured, nothing is
  sent twice, and what was approved is paid;
* jobs: runs within their lease do not overlap, and a crash does not stop a job;
* settlement, prices, promotions: invoice numbers have no gap; the past price can be
  explained; a promotion is not overspent; the lines of a quote add up;
* outbox and notifications: order per record, one ticket, nothing lost, nothing
  needlessly repeated; safety: an SOS is paged until somebody takes it;
* access: codes are guessed a bounded number of times; a session is ended as copied
  only for a reason; somebody can always administer; an authenticator is not replaced;
* people: only scanned files are shown; nobody unvetted is bookable; verdicts stand;
  nobody is let through without having accepted what is in force;
* the users' view: what is offered can be booked, and stays so; one choice is one booking; late
  clients change nothing by mistake; a replay changes nothing.

## 2. Modules

| Module | Models | Checked by | Proved in |
|---|---|---|---|
| `BookingStatus` | the transition table and `resolveBookingTransition` (constant-level) | with `Dispatch`, `Visit` | -- |
| `Dispatch` | bookings, reservations, assignments | `MCDispatch`, `MCJobs` | `DispatchProofs` |
| `Payments` | the checkouts of one booking, the gateway, webhooks, reconciliation | `MCCustomer`, `MCOutside`, itself | `PaymentsProofs` |
| `RefundLedger` | abstract: what the refunds of one payment promise | as a property of `Refunds` | `RefundsProofs` |
| `Refunds` | refund rows, calls, the gateway's refunds, webhooks | `MCBackground`, itself | `RefundsProofs` |
| `JobLease` | one job among the worker processes | `MCJobs` | `BackgroundProofs` |
| `Notifications` | queue, senders, addresses | `MCBackground` | `BackgroundProofs` |
| `Safety` | incidents, roster, paging runs | `MCJobs` | -- |
| `Outbox` | events, dispatchers, Zoho Desk and CRM | `MCOutside`, itself | `BackgroundProofs` |
| `ZohoTokens` | the access token all processes share | `MCOutside` | `BackgroundProofs` |
| `Codes` | SMS codes of one phone, start code of one visit | `MCRecords` | `SumProofs` |
| `Sessions` | one person's sessions, server and app | `MCRecords`, itself | `AccountsProofs` |
| `StaffAccess` | staff accounts, roles and sign-in | `MCRecords` | `AccountsProofs` |
| `Consents` | legal documents and one person's consent | `MCRecords` | `AccountsProofs` |
| `Documents`, `Onboarding` | a worker's files; checks, training, decisions, status (extends `Documents`) | `MCRecords` | `PeopleProofs` |
| `Settlement` | closing bookings, invoices, earnings | `MCRecords` | `BookingProofs` |
| `Offering` | slots shown and slots accepted over a day, by two programs | `MCCustomer` | `BookingProofs` |
| `PriceRules`, `Promotions` | the rows of a rule table; one promotion | `MCRecords` | `BookingProofs` |
| `Quotes` | the arithmetic of a quote | `MCRecords` | `SumProofs` |
| `Visit` | a booking as worker, customer and operations see and move it | `MCRecords` | `BookingProofs` |
| `Checkout` | the service screen, its key and its retries | `MCRecords` | `BookingProofs` |
| `AddressBook` | addresses and replayed requests | `MCAddressBook` | -- |

A transaction that locks its row first is one action, with every trigger and every
call it makes. Where the code reads without a lock, or calls the outside between two
transactions, the operation is as many actions as there are moments for others to
come in between. Each module's header says how it does this and what it takes data
to be.

**Dispatch.** `status` is `booking.status` (`UNBOOKED` before the row exists);
`window` tells where `payment_due_by` stands -- `OPEN`, passed but with a recent
authorization (`GRACE`), passed (`CLOSED`), or `NONE` once the booking has left
`PENDING_PAYMENT`; `reservation` and `assignment` are the unreleased
`worker_reservation` and the latest `booking_assignment` of each crew slot; `tried`
collects those whose assignment ended as rejected, expired or withdrawn; `available`
is what `worker_ineligibility_reason` finds nothing wrong with. `required` is
`service.workers_required`: no booking saves the crew it needs, so creation, dispatch,
acceptance and rescheduling read it as it is then (`Needed`), and `UpdateService`
changes it whenever staff like. What the code guarantees under such changes are facts
about steps, and so the properties are: a booking *becomes* assigned with the crew its
service needs at that moment (`CrewIsComplete`), holds are complete when they are *made*
and stay (`PayableTimeIsHeld`), and time once reserved to a purpose keeps one
(`NoLeakedCapacity`, with one exception that it names: paying turns every hold into an
allocation, also of a slot that is no longer needed because staff have lowered the crew
size since; its worker's time stays blocked for a job they are not offered). The insert trigger
reads the crew size again within a dispatch; a change that commits in between is part
of that action. `allocateAndOffer`
(turn holds into allocations, fill the missing slots, offer) is an operator that
confirmation, rejection, withdrawal, release of a hold, reschedule and redispatch all
use; the trigger `booking_after_write`, which gives capacity back on `CANCELLED`,
`EXPIRED` and `ON_HOLD`, is part of those actions. Two bookings meet in `CanTake`:
the exclusion constraint, the per-worker lock of `worker_reservation_before_insert`
and the takeover of expired holds. A period is the set of instants a reservation
blocks, so overlap is a common instant. Which of several candidates is tried first
(the ranking) is a free choice; a slot stays empty only when everybody was tried.

**Payments.** Opening a checkout is two transactions around the call that creates
the order; `reconcileOrder` is `JobAsks`, `ApplyStatus`, `DecideCapture`, `Capture`
and again `ApplyStatus`, with everything else interleaved. Webhooks are a set: any
may be delivered at any time after it was raised, repeatedly and in any order;
`stored` is the unique key of `payment_event`. `CONFIRMED` stands for every later
status of a booking that was not ended.

**Refunds.** Sending is `Claim` (the row becomes `PROCESSING`), `Find` (by our
reference), `CreateRefund` if there is none, `Record`. A call may fail after the
gateway acted, the process may die at every step, `FindStuck` looks up those that
stay `PROCESSING`, and the webhook may come before all of these or never. `Ledger`
instantiates `RefundLedger`: a refund is `PAID` there when the gateway has paid it,
and `ASKED`, `DUE` or `DENIED` by its row.

**JobLease.** `runOnce` is `TakeLease` (the upsert on `job_lease`), the run, and
`Finish` (the conditional release). `onApplicationShutdown` clears the timer and
deletes the leases of the process without waiting for a run; `outlived` are the runs
that lost their lease to time or to that. `Gone` owns what an exited process left.

**Notifications, Outbox, Safety.** One action each for claiming a batch, for a call
to the provider (which may have taken effect although its answer is lost), for
marking the outcome and for a process that dies. Outbox writes an event with the
change that caused it, orders events by record, and pauses a target that keeps failing;
what staff do with dead events are actions too. A change that finds a pending event of
its record leaves its news to that one, which it does not lock: the change is `writing`
until it `Commits` or `RollsBack`, and the event may be claimed and delivered meanwhile.
A change that inserts an event is one action with it, because nobody sees the event
before the commit, and the record's row is locked until then. Leases end at any time,
under a dead dispatcher or a slow one. Two history variables, read by no action, tell
where the code gives no guarantee: `seized` (an event of the record was taken from a
process still at work) and `overtaken` (the last change committed when the event it was
left to was no longer pending). Safety pages an incident in rounds that widen by level.

**ZohoTokens.** A request uses the stored token; one that was refused takes the row's
lock, looks whether another has replaced the token meanwhile, and only else asks Zoho.

**Codes, Sessions, StaffAccess, Consents.** `Sessions` models the server's rows and
the app's `HttpClient` together: calls take their tokens when they start, are
answered late or never, and share one refresh while it is under way. Suspending or
revoking in `StaffAccess` is a sequence of statements with the row locks it takes
(`assertAnotherSuperAdmin` reads, then locks one by one). `Consents` reads and writes
in separate statements, with documents published in between.

**Documents, Onboarding.** A file's row and its object change in separate steps, and
its upload link works until it expires. A transaction of staff reads a check, the
onboarding state and the next status (`Begins`) and writes when it commits, when the
trigger refuses a move of status the row no longer allows (`Undo`).

**Settlement, PriceRules, Promotions, Offering, Quotes.** Two runs of the settlement
job overlap and abort; the invoice's number is taken under the lock of its sequence.
A price rule is ended or replaced by a request that was checked up to `Lag` minutes
before it commits. A booking is priced under the promotion's row lock. `Offering`
holds two programs side by side, each with its own rules: `Offered` is the query of
`availability.service.ts` (`Slots`, `ShownDuration`, `BlockedSlot`, `SomebodyIsFree`),
`Bookable` is `booking-creation.service.ts` with `booking-schedule.ts`, `capacity.ts`,
`capacity.service.ts` and the triggers (`ValidStart`, `DurationBooked`,
`ServicePeriod`, `ReservationPeriod`, `Candidates`, `ReleasedFor`, `MayInsert`). They share
what they share in the code: the functions `within_operating_hours` and
`worker_ineligibility_reason`, and the resolution of an address. Time runs in units of
which several make a slot, so that the grids, the windows and the buffers of the two can
disagree. `displayed` is what a customer still looks at.

**Visit, Checkout, AddressBook.** The buttons of the screens with their retries
against the transactions of the server: steps of a job that are repeated after a lost
answer, changes of the desk under the version it loaded, a booking sent under one
idempotency key per choice, an address saved twice under one key.

## 3. Runs

| Run | Instance | Shows |
|---|---|---|
| `dispatch_safety` | a booking of a service for one worker and one of a service for one or two, 2 workers, 2 disjoint times | the five safety properties of dispatch |
| `jobs` | `part`: dispatch, lease, safety | a confirmed booking nobody is offered gets an offer while somebody eligible stays free; runs within their lease are alone; a dead process does not block the job; an SOS is paged up to the last level |
| `customer` | `part`: shop, day, payments | what is shown is what can be booked, and it stays so; charged once, money has a purpose, captures are final, nothing captured too late |
| `background` | `part`: refunds, push, chat | refunds are sent once, stay final, implement the ledger, and are paid when approved; no needless copy and every message settles |
| `outside` | `part`: payment, desk, crm, tokens | one ticket and order unless a process at work lost an event; no change lost but one overtaken before its commit; everything delivered; a good token is kept; a capture is recorded |
| `records` | `part`: phone, visit, app, administration, staff, files, checks, office, prices, quotes, promotion, settlement, booking, checkout, legal | the fourteen properties of accounts, people, prices, money and the apps |
| `outbox_coalesced`, `payments_grace`, `payments_lost_webhook`, `refunds_retry`, `sessions_refresh`, `address_replay` | the smallest instance of each | violations: the findings of section 4 |

`MCJobs`, `MCCustomer`, `MCBackground`, `MCOutside` and `MCRecords` put instances that
share no state into one run: a variable `part` is chosen at first and says which of them acts, and the other
components stay as they began. A part therefore says about its own component exactly
what a run of its own would.

Bounds, and why they are enough.

* *Dispatch*: two bookings suffice for every conflict of reservations (the constraint
  is between pairs); the crew of one is between one and two (`CrewLimit`), as staff set
  it, so that partial crews, the withdrawal of one member, the empty slot, and holds for
  too many or too few workers occur; two workers can each be taken by the other
  booking; two times make a reschedule both leave and keep a conflict. In `jobs` there is
  one time, because the job does not look at it.
* *Payments*: two checkouts are what a duplicate needs; one declined attempt lets a
  failure overtake an authorization. `outside` has one, for the lost capture.
* *Refunds*: two refunds of an amount of two, one of which the gateway may fail, let a goodwill refund and a cancellation
  each take part of it.
* *Leases*: one process takes over from the other; restarted, it is a new owner.
* *Notifications*: two senders and two devices, two messages at most in a batch, one
  unknown outcome: who takes over may send the second copy that only this explains. In
  `push` devices come and go, in `chat` consents and the route of one of two channels.
* *Safety*: one incident, two levels, two members, two runs of the paging job, so a
  round can be found by both and the roster can change in between. One member comes and
  goes on both levels, the other is at work and at most on the last one.
* *Outbox*: two or three events, batches of two, two attempts before an event is dead,
  two failures before the target is paused. `desk` follows one case through its creation,
  one pull and outages, by two dispatchers one of which may once outlast its lease; `crm`
  mirrors two records with three events by one dispatcher that dies and fails but keeps
  its leases, and changes of the first record may be left to a pending event and commit
  at any time later. The theorems have none of these limits, and `outbox_coalesced` runs
  `Outbox` itself.
* *Tokens*: two requests and three tokens: one refused, its successor, and another.
* *Codes*: one phone, two apps, two attempts per code, two failures per hour; three
  requests per hour, or per day when the first hour is over, reach every limit. *Sessions*: two calls, one
  sign-in and two generations of tokens: the second call meets each stage of the first.
* *Staff*: three members; two may act on each other while the third stays or not; two
  challenges and two secrets, for a sign-in left open from before an enrolment.
* *Files, checks, office*: one document, two scans where one outlives its lease, one
  confirming request, a purge (without the second scan at the same time); in `checks` one transaction works on a worker whose
  profile is complete and whose file may change; in `office` two transactions decide on
  a clean file. Their operators in `MCRecords` (`Files`, `Checks`, `Office`) say what
  each leaves out, which one of the others has.
* *Shop, day*: five services (with a buffer before and a lead time and
  booking window that end between slots, with a buffer after and an option, on sale or
  not, for two workers, only to be had at once), two zones, two workers, three slots of
  two units, two shifts of which one begins and ends beside the grid, papers that end
  within the day, opening hours that end beside it, and holds that last one unit. What
  is on sale changes in `shop`, which has no visits; in `day` the service is on sale.
* *Prices*: two rules over five minutes with a lag of one. *Quotes*: five base amounts,
  three rates and lists of charges and promotions at which rounding, caps and ceilings
  bite. *Promotion*: three bookings of two customers and limits up to two.
* *Settlement*: two finished bookings, one missed, two series, two overlapping runs.
* *Booking*: two workers, two times, eight versions, two tries per step. `OneVisit` lets
  the first worker be offered the job first, reschedules at most once, shows the start
  code at the door, leaves a visit to its worker once on the way and lets the
  customer rate it when no request is under way. *Checkout*: two prices, two choices, three
  requests. *Legal*: two versions of one document in two languages, two requests,
  one of which only accepts.

`MaxFailedAttempts`, `MaxGatewayFailures`, `MaxDoubts`, `MaxEvents`, `MaxIssued`,
`MaxVersion` and their like are named bounds on counters, each used in a guard and
explained in its module. Workers, times and payments are symmetric in `dispatch_safety`
and `customer`, which only compare them; runs with fairness use no symmetry.

Deadlock is checked in `dispatch_safety`, where somebody can always act. Payments, refunds and the parts of the other runs may really be over
(everything paid, delivered, closed; a bounded counter used up): their cfgs say
`CHECK_DEADLOCK FALSE`.

Every property of a passing run has a mutant: a definition changed the way a bug would
change the code (a dropped deadline comparison, a trigger that keeps the offers, a
retry that does not look first, a row not locked) that makes the property fail.

Fairness, and why the code justifies it.

* `JobRunner.schedule` re-arms its timer after every run, so what a periodic job finds
  is weakly fair (`Fairness` of dispatch, `LeaseFairness`, `SafetyFairness`, the claims
  in `NotificationsFairness` and `OutboxFairness`); time passes, so are deadlines,
  leases, waits and pauses.
* A call retried for ever is answered some time: strong fairness of the steps of
  reconciliation and of sending refunds (`JobFairness`, `RefundsFairness`), and of
  taking a lease, because a crash or failure may come in between; for notifications,
  paging and the outbox it is stated as "not in trouble for ever" (`<>[]` of no more
  deaths and failures).
* Webhooks are fair (`WebhookFairness`) only where the gateway's redelivery is the
  point, and not at all in `payments_lost_webhook` and for refunds.
* Nothing is assumed of customers, workers or staff.

## 4. Findings

1. `payments_grace`: `applyFailed` turns `AUTHORIZED` into `FAILED` for a failure that
   names only the order; one of an earlier attempt, delivered late, lets `expireUnpaid`
   expire a booking whose payment is authorized.
2. `payments_lost_webhook`: the job asks about `AUTHORIZED` and `FAILED` payments only
   while the booking is unpaid; a capture after the booking ended whose webhook is lost
   is never found, and so never returned.
3. `refunds_retry`: `initiate` takes the failed refund it finds under its own reference
   for the answer, so a refund the gateway failed is never sent again.
4. `sessions_refresh`: `withAuth` refreshes with the tokens its call began with; a call
   answered late presents a token another call has replaced, and the server ends the
   session as copied although no answer was lost.
5. `outbox_coalesced`: a change leaves its news to a pending event without locking it;
   delivered before the change commits, that event brings the old state and none is left.
6. `address_replay`: a replay beside the first request clears the default flag that the
   first has just set, and saves nothing.

`PROJECT.json` quotes the lines each of them contradicts.

Three more things the code does are exceptions in a property of section 3, and no run of
their own shows them: a surplus hold is allocated after staff have lowered a crew size
(`NoLeakedCapacity`); the process that takes an event over from one that is still at work
may deliver it out of order or create a second ticket (`seized` in `DeliveredInOrder` and
`OneTicketUnlessSeized`); the job passes over a crew of which one is offered the job or
has accepted it, so the other slot may stay empty (`NobodyIsStranded`).

## 5. Proofs

All theorems hold for arbitrary sets of processes, bookings, workers, documents and so
on, also infinite ones unless an assumption says so. Each is `Spec => []Inv` or
`Spec => [][A]_vars` for the property a run checks, from an inductive invariant whose
parts are named. Every invariant and action property of the passing runs has one.

| Module | Theorems (property) | Inductive invariant, and why the property alone is not enough |
|---|---|---|
| `DispatchProofs` | `NeverDoubleBooked` (`NoDoubleBooking`) | `IInv`: types and the property itself. An operation leaves a table where nothing is reserved that was not before (`NothingNew`), or adds picked workers who can take the time (`ReserveIsDisjoint`); `Picks` and `PicksWith` return only such workers, so whatever `allocateAndOffer` is given is sound (`AllocateIsSound`). |
| | `EveryOfferIsReal` (`OffersAreReal`), `EveryCrewIsComplete` (`CrewIsComplete`), `PayableTimeStaysHeld` (`PayableTimeIsHeld`), `CapacityNeverLeaks` (`NoLeakedCapacity`) | `Orderly` adds one formula per booking, `RowOK`, that ties its status to its window, its promised time, its reservations and its assignments, and mentions no crew size, because staff change that at any time. `EveryOfferIsReal` is a consequence; for the other three, which are about steps, each action keeps in addition what they say of its booking (`CrewKept`, `TimeKept`, `UseKept`, together `GoodStep`), whatever `required` becomes. Other bookings change by expired holds alone (`OthersKept`). |
| `PaymentsProofs` | `NeverChargedTwice` (`ChargedOnce`), `MoneyIsAccountedFor` (`MoneyHasAPurpose`), `CapturesAreFinal` (`CaptureIsFinal`), `TooLateIsNeverCaptured` (`NeverCapturesTooLate`) | An abandoned order must be unknown at the gateway, and what the server was told of an authorization must be something the gateway still holds (`GatewayKnows`); a duplicate is returned on cancellation only because one payment pays (`OnePays`); late authorizations are tied to the calls in flight (`TooLateIsLeft`). |
| `RefundsProofs` | `NoRefundIsSentTwice` (`SentOnce`), `PaidStaysPaid` (`ProcessedIsFinal`), `RefundsKeepTheLedger` (`ImplementsLedger`) | `InOrder`: where the call about a refund stands, what the gateway has and what the row says fit together; a refund is created only while the gateway has none and the call that asked for it still holds the row. From it, every step is a step or a stutter of `RefundLedger`. |
| `AccountsProofs` | `CurrentTokensAreTrusted` (`StoredTokensAreNotReused`) | `SessionsInv`: every generation in flight or in the store was issued, and the store holds the newest one, unless an answer was lost. |
| | `OneAdministratorStays` (`SomebodyAdministers`) | `ChangesInv`: what a change has read is still so as long as it holds the locks, and no row is locked twice (`LocksExclude`). |
| | `EnrolledAuthenticatorStays` (`AuthenticatorIsKept`) | `SecretsInv`: a pending secret never stands beside an enrolled one. |
| | `NobodySlipsThrough` (`LetThroughHasAccepted`) | `ConsentsInv`: what a request has noted was in force since it began, and what it counts as accepted is in the consents. |
| `PeopleProofs` | `OnlyScannedFilesAreShown` (`OnlyScannedIsShown`) | `DocumentsInv`: a clean row, and a scan that passed, have the hash that was scanned. |
| | `NobodyUnvettedIsBookable` (`BookableIsVetted`), `VerdictsStand` (`DecisionsStand`) | `DocumentsInv`, `RequestsInv` and `ChecksInv`: an accepted check names a document that was found clean, and no two transactions hold one check. |
| `BackgroundProofs` | `LeaseTyping`, `LeasesAreKept`, `RunsAreAlone` (`AloneWithinLease`) | `LeaseInv`: a run that has not outlived its lease owns it. |
| | `NobodyIsPestered` (`NoNeedlessCopy`) | `NotesInv`: senders hold disjoint messages, and a message that is not settled was sent no more often than it was in doubt. |
| | `GoodTokensAreKept` (`GoodTokenIsKept`) | `TokensInv`: one request holds the row, and the token it was refused with is dead. |
| | `EventsStayInOrder` (`DeliveredInOrder`) | `HoldInv`: what a dispatcher holds is `PROCESSING` and in no other dispatcher's hands, for every record that was not seized, whether its lease stands or not. |
| | `NoSecondTicket` (`OneTicketUnlessSeized`) | `DeskInv` on top: a case has one creating event, and what its dispatcher has found at the desk is still so, unless the case was seized. |
| | `NoOtherChangeGetsLost` (`OtherChangesAreKept`) | `CrmInv` on top: what a dispatcher has read is the present state, or a later event is waiting, or the record was overtaken or seized. |
| `BookingProofs` | `BookedOnce` (`OneChoiceOneBooking`) | `CheckoutInv`: requests with one key are one request, and a later key is a later choice or a higher price. |
| | `LateClientsDoNoHarm` (`LateClientsAreHarmless`) | `VisitInv`: the last row of the history is the status, and a worker who made it still has the job. |
| | `NumbersAreGapless` (`GaplessNumbers`) | `SettlementInv`: who has taken a number holds the sequence, and an abort gives it back. |
| | `LastRedemptionGoesOnce` (`NotOverspent`) | `PromotionsInv`: one booking is priced at a time, and the room that was found for it can only grow. |
| | `PastStaysFixed` (`PastIsFixed`) | `PricingTypeOK`; a step adds or ends rows at recent times only (`RowsChange`), and rows that are the same at a time select the same rule (`SameIsSelected`). |
| | `OffersCanBeBooked` (`OfferedIsBookable`) | It joins `ProgramsAgree` and `ShownStaysBookable`. `OfferingInv`: types (the row of the service is one that staff may set), and what is displayed was computed for the configuration of now (`ShownIsOffered`). The two windows, grids and durations agree (`AnswersAgree`, `SlotsAreMultiples`), every candidate survives the trigger because what blocks it is among the holds the insert releases (`CandidatesAreReserved`), and no action that leaves `displayed` alone takes a time away (`StaysOffered`). |
| `SumProofs` | `GuessingIsBounded` (`GuessesAreBounded`) | `CodesInv`: a code that can no longer be used weighs its attempts, an open one all it allows; each app has one open code, and together they weigh no more than the bound. A request may add one because the attempts so far are below the limit (`WeightsOverAttempts`). |
| | `QuotesAddUp` (`QuoteAddsUp`) | none: every quote is a calculation, and any calculation adds up (`CalculationAddsUp`), from the caps of the discount, the rounding of a share and the sum of the lines. |

The sums of `SumProofs` are the community modules' folds, which are recursive over
subsets. Its first part proves what the two components need of them (that there is such
a sum, that any element can be split off, that parts and bounds carry over), with the
least counterexample (`WFMin`, in `Counting`) in place of induction.

Assumptions. `CrewAssumption` (a booking is of a service, and staff may set a service's crew to between one and some number of workers),
`TimesAssumption` (a visit takes time), `NoWorkerAssumption`, `OwnerAssumption`,
`SeriesAssumption` and `TeamAssumption` (a value that stands for nobody is nobody's
name), `BoundAssumption`, `AmountAssumption`, `OutboxAssumption`,
`NotificationsAssumption`, `ConsentsAssumption`, `LagIsNat` (bounds and amounts are
numbers), `CodesAssumption` (there are finitely many apps, and the limits are numbers),
`QuotesAssumption` (the inputs of a price have their types; a tax rate is at most 100 %),
`OrdersAssumption` and `CrewsAssumption` (finitely many bookings and workers
are counted; the zones are a list), `DayAssumption` (a slot takes time, durations are
positive, buffers and windows are not negative). TLC evaluates them in the runs.

The theorems about `Outbox` assume nothing of how long a batch takes. A process that
delivers for longer than the 120 s of its lease shares its events with the next one, and
the code has nothing that would then keep order or stop a second ticket; nor has it
anything that would bring a change committed after its event was claimed. The theorems
say that nothing else goes wrong: they hold of every record to which neither has
happened (`seized`, `overtaken`). `outbox_coalesced` shows the second.

Only model-checked:

* liveness -- `NobodyIsStranded`, `JobKeepsRunning`, `ApprovedIsPaid`,
  `CaptureIsRecorded`, `EveryNoteSettles`, `LastLevelIsPaged`, `EventsAreDelivered`:
  the prover does not reason about fairness;
* `ReplayMovesNothing` and the other properties of the findings are violated.

Where a proof needed it, an `EXCEPT` over several fields is written as the whole record,
`Selected` takes one of the rows that come before all others, the lines of a quote are
numbered by their place, and an assumption that was tacit is stated. None of this changes what the modules do.

## 6. What is not modelled, and why

* A serialization failure or deadlock is retried from the start by
  `database/transaction.ts` and leaves nothing; `StaffAccess` models it because there it
  decides who comes first.
* Changes of a service's duration and buffers while its bookings are open: `Dispatch`
  takes the time a booking blocks as it was made, and `Offering` starts a new day's view
  with every change of the service.
* Instant bookings, options other than the service's own one, and the order of candidates
  in `Offering`; two bookings there are one after the other, because the races for a
  worker are those of `Dispatch`.
* When a booking whose crew size was lowered counts as crewed: with one worker accepted
  and the other's rejection, it stays `CONFIRMED` until staff dispatch it again. `Dispatch`
  models this; no document says otherwise, so no property is about it.
* Idempotency keys and optimistic versions in `Dispatch` (`Visit` and `Checkout` have
  them), reasons and audit rows.
* The ranking of candidates, and the filter of `redispatch-unassigned` on bookings that
  have started; schedules and travel are inside `Times` and `available` of `Dispatch`.
* The list of bookings or payments a job works through, its limit of 50 and the failure
  of one entry: each entry is handled alone.
* Amounts in `Payments` and `Settlement`; which rule of the cancellation policy applies.
* Contacts of the desk, which several records share; tickets of safety incidents.
* The limit of codes per client address; finding or creating an account at sign-in;
  staff roles other than SUPER_ADMIN; the step-up before sensitive changes.
* Bank details, skills and zones of workers; the customer's profile; texts, templates,
  languages and settings; time zones and the calendar of several days.
* HTTP, audit, observability, migrations and the admin web application: they keep no
  state of the domain, or only show it. The admin proxy's refresh is in the hazards.

Each component's own omissions are in `PROJECT.json`.

## 7. What is left

1. Composing `Payments` and `Refunds` with `Dispatch` (a confirmation needs a capture, a
   cancellation the refund), as one specification or as assumptions of each other.
2. `Outbox` with the contacts of the desk.
3. The batches of 50 of reconciliation, redispatch and settlement.
4. The refresh of the admin proxy, as a second client of `Sessions`.
