------------------------------ MODULE Dispatch ------------------------------
(***************************************************************************)
(* Bookings, the worker time reserved for them and the offers made to      *)
(* workers.  Every operation locks its booking row first and commits in    *)
(* one PostgreSQL transaction, so each is one action; operations on        *)
(* different bookings meet only in the workers' reservations, where the    *)
(* exclusion constraint worker_reservation_no_overlap decides.             *)
(*                                                                         *)
(* A period is the set of instants a reservation blocks (travel buffer,    *)
(* service, reset buffer).  A deadline is modelled by whether it has       *)
(* passed: `window' for the payment deadline (also the expiry of the       *)
(* booking's HELD reservations), `lapsed' for an offer.  The crew a        *)
(* booking needs is never saved with it: every operation reads             *)
(* service.workers_required as it is then, and administrators change it    *)
(* whenever they like: to at most CrewLimit[s] for service s, a bound of   *)
(* the model (the table allows up to 20 for any service).                  *)
(***************************************************************************)
EXTENDS BookingStatus, Integers, FiniteSets

CONSTANTS Bookings, Services, ServiceOf, Workers, Times, MaxCrew, CrewLimit,
          NoWorker

ASSUME CrewAssumption ==
    /\ MaxCrew \in Nat \ {0}
    /\ ServiceOf \in [Bookings -> Services]
    /\ CrewLimit \in [Services -> 1..MaxCrew]
ASSUME NoWorkerAssumption == NoWorker \notin Workers
ASSUME TimesAssumption == {} \notin Times

VARIABLES
    status,       \* booking.status, UNBOOKED before the row exists
    period,       \* the time the booking is promised for
    window,       \* where the payment deadline stands
    reservation,  \* the unreleased worker_reservation of each crew slot
    assignment,   \* the latest booking_assignment of each crew slot
    tried,        \* workers who rejected, ignored or left the booking
    available,    \* workers who are eligible, on shift and online
    required      \* service.workers_required, as administrators last set it

vars == <<status, period, window, reservation, assignment, tried, available,
          required>>

-----------------------------------------------------------------------------
(* Types. *)

Slots == 1..MaxCrew
CrewSizes == {r \in [Services -> Slots] : \A s \in Services : r[s] <= CrewLimit[s]}

\* The crew slots of booking b, by its service as configured now.
Needed(b) == 1..required[ServiceOf[b]]

Windows == {"NONE", "OPEN", "GRACE", "CLOSED"}

Released == [state |-> "RELEASED", worker |-> NoWorker, period |-> {}]
NoAssignment == [state |-> "NONE", worker |-> NoWorker, lapsed |-> FALSE]

Reservation ==
    [state : {"HELD", "ALLOCATED", "ACCEPTED"}, worker : Workers, period : Times]
        \cup {Released}
Assignment ==
    [state : {"OFFERED", "ACCEPTED", "COMPLETED"}, worker : Workers, lapsed : BOOLEAN]
        \cup {NoAssignment}

Active(r) == r.state # "RELEASED"
Live(a) == a.state \in {"OFFERED", "ACCEPTED"}
Overlap(p, q) == p \cap q # {}

\* Types: only a booking that exists has a time, and every reservation and
\* every assignment on record is of a worker.
TypeOK ==
    /\ status \in [Bookings -> BookingStatuses \cup {"UNBOOKED"}]
    /\ period \in [Bookings -> Times \cup {{}}]
    /\ \A b \in Bookings : status[b] # "UNBOOKED" => period[b] \in Times
    /\ window \in [Bookings -> Windows]
    /\ reservation \in [Bookings -> [Slots -> Reservation]]
    /\ assignment \in [Bookings -> [Slots -> Assignment]]
    /\ tried \in [Bookings -> SUBSET Workers]
    /\ available \in SUBSET Workers
    /\ required \in CrewSizes

-----------------------------------------------------------------------------
(* Capacity. *)

\* Mutant: holds count as expired before their deadline.
MutantHoldsNeverCount(b) == window[b] # "NONE"

\* hold_expires_at <= now(): holds expire with the payment deadline.
DeadlinePassed(b) == window[b] \in {"GRACE", "CLOSED"}

NothingReserved == [c \in Slots |-> Released]
NothingOffered == [c \in Slots |-> NoAssignment]

\* Mutant: any hold may be taken over, expired or not.
MutantTakesLiveHolds(w, b, rb, p) ==
    /\ w \in available
    /\ \A c \in Slots : ~(Active(rb[c]) /\ rb[c].worker = w)
    /\ \A x \in Bookings \ {b}, c \in Slots :
          LET r == reservation[x][c] IN
          Active(r) /\ r.worker = w /\ Overlap(r.period, p) => r.state = "HELD"

\* worker_reservation_before_insert accepts the row and the exclusion
\* constraint finds no overlap: w is eligible, has none of the booking's own
\* reservations rb, and everything else blocking p is an expired hold.
CanTake(w, b, rb, p) ==
    /\ w \in available
    /\ \A c \in Slots : ~(Active(rb[c]) /\ rb[c].worker = w)
    /\ \A x \in Bookings \ {b}, c \in Slots :
          LET r == reservation[x][c] IN
          Active(r) /\ r.worker = w /\ Overlap(r.period, p)
             => r.state = "HELD" /\ DeadlinePassed(x)

\* CapacityService.reserve for the given slots in turn: different workers, and
\* a slot stays empty only when earlier slots used every candidate up.
Picks(slots, candidates) ==
    { f \in [slots -> candidates \cup {NoWorker}] :
        /\ \A c, d \in slots : f[c] = f[d] /\ f[c] # NoWorker => c = d
        /\ \A c \in slots : f[c] = NoWorker =>
              \A w \in candidates : \E d \in slots : d < c /\ f[d] = w }

\* The worker operations chose takes slot 1; the rest are found as usual.
PicksWith(slots, candidates, prefer) ==
    IF prefer # NoWorker /\ 1 \in slots
    THEN { [c \in slots |-> IF c = 1 THEN prefer ELSE g[c]] :
             g \in Picks(slots \ {1}, candidates \ {prefer}) }
    ELSE Picks(slots, candidates)

\* The reservation table once booking b holds rb plus the picked workers: each
\* insert first releases the expired holds that block its worker's time.
Reserve(b, rb, f, state, p) ==
    [x \in Bookings |-> [c \in Slots |->
        IF x = b
        THEN IF c \in DOMAIN f /\ f[c] # NoWorker
             THEN [state |-> state, worker |-> f[c], period |-> p]
             ELSE rb[c]
        ELSE LET r == reservation[x][c] IN
             IF /\ r.state = "HELD" /\ DeadlinePassed(x)
                /\ \E d \in DOMAIN f : f[d] = r.worker
                /\ Overlap(r.period, p)
             THEN Released
             ELSE r]]

-----------------------------------------------------------------------------
(* Dispatch. *)

\* DispatchService.allocateAndOffer on a booking whose row the transaction has
\* left with status st, reservations rb, assignments ob and time p.  The holds
\* become allocations, every needed slot without a live assignment gets a worker
\* if one can be reserved, and each worker reserved is offered the job.  The crew
\* size is read once, but the insert trigger reads it again: when administrators
\* have lowered it meanwhile, slots above `crew' are refused and stay empty.
AllocateAndOffer(b, st, rb, ob, gone, p, prefer) ==
    LET held == [c \in Slots |-> IF rb[c].state = "HELD"
                                 THEN [rb[c] EXCEPT !.state = "ALLOCATED"]
                                 ELSE rb[c]]
        idle == {c \in Needed(b) : ~Live(ob[c])}
        missing == {c \in idle : held[c].state # "ALLOCATED"}
        candidates == {w \in Workers \ gone : CanTake(w, b, held, p)}
    IN IF st # "CONFIRMED"
       THEN /\ reservation' = [reservation EXCEPT ![b] = rb]
            /\ assignment' = [assignment EXCEPT ![b] = ob]
            /\ UNCHANGED required
       ELSE /\ prefer # NoWorker /\ 1 \in missing => CanTake(prefer, b, held, p)
            /\ \E crew \in Needed(b) :
                  /\ required' = [required EXCEPT ![ServiceOf[b]] = crew]
                  /\ \E f \in PicksWith(missing \cap 1..crew, candidates, prefer) :
                        reservation' = Reserve(b, held, f, "ALLOCATED", p)
            /\ assignment' = [assignment EXCEPT ![b] = [c \in Slots |->
                  IF c \in idle /\ reservation'[b][c].state = "ALLOCATED"
                  THEN [state |-> "OFFERED", lapsed |-> FALSE,
                        worker |-> reservation'[b][c].worker]
                  ELSE ob[c]]]

\* BookingTransitionService.apply with the booking_before_update trigger: the
\* payment deadline is cleared when the booking leaves PENDING_PAYMENT.
Apply(b, event, source) ==
    /\ \E to \in Resolve(status[b], event, source) :
          status' = [status EXCEPT ![b] = to]
    /\ window' = IF status[b] = "PENDING_PAYMENT"
                 THEN [window EXCEPT ![b] = "NONE"]
                 ELSE window

\* Workers of the booking who had accepted it: ending their assignment as
\* WITHDRAWN keeps them from being offered this booking again.
AcceptedBy(b) ==
    { assignment[b][c].worker : c \in {d \in Slots : assignment[b][d].state = "ACCEPTED"} }

\* The booking's live assignments ended; a completed one stays on record.
LiveEnded(b) ==
    [c \in Slots |-> IF Live(assignment[b][c]) THEN NoAssignment ELSE assignment[b][c]]

\* Mutant: taking workers off a job forgets their reserved time.
MutantKeepsTime(b) == reservation[b]

\* Only the reservations behind the booking's live assignments released.
LiveReleased(b) ==
    [c \in Slots |->
        IF Live(assignment[b][c]) /\ reservation[b][c].worker = assignment[b][c].worker
        THEN Released ELSE reservation[b][c]]

\* Mutant: the time is given back but the offers stay open.
MutantKeepsOffers(b) ==
    /\ reservation' = [reservation EXCEPT ![b] = NothingReserved]
    /\ UNCHANGED <<tried, assignment>>

\* booking_after_write on CANCELLED, EXPIRED and ON_HOLD.
GiveCapacityBack(b) ==
    /\ tried' = [tried EXCEPT ![b] = @ \cup AcceptedBy(b)]
    /\ assignment' = [assignment EXCEPT ![b] = LiveEnded(b)]
    /\ reservation' = [reservation EXCEPT ![b] = NothingReserved]

-----------------------------------------------------------------------------
(* Booking creation, payment and confirmation. *)

\* BookingCreationService.create: every crew slot is held, or nothing is saved.
Create(b, p) ==
    /\ status[b] = "UNBOOKED"
    /\ \E f \in Picks(Needed(b), {w \in Workers : CanTake(w, b, NothingReserved, p)}) :
          /\ \A c \in Needed(b) : f[c] # NoWorker
          /\ reservation' = Reserve(b, NothingReserved, f, "HELD", p)
    /\ status' = [status EXCEPT ![b] = "PENDING_PAYMENT"]
    /\ period' = [period EXCEPT ![b] = p]
    /\ window' = [window EXCEPT ![b] = "OPEN"]
    /\ UNCHANGED <<assignment, tried, available, required>>

\* confirmPaidInTx (the gateway captured the payment) and
\* confirmWithoutPrepayment (operations approved paying later).
Confirm(b, event, source) ==
    /\ Apply(b, event, source)
    /\ AllocateAndOffer(b, "CONFIRMED", reservation[b], assignment[b],
                        tried[b], period[b], NoWorker)
    /\ UNCHANGED <<period, tried, available>>

ConfirmPaid(b) == Confirm(b, "PAYMENT_CAPTURED", "PAYMENT_GATEWAY")
ConfirmWithoutPrepayment(b) == Confirm(b, "CONFIRM_WITHOUT_PREPAYMENT", "ADMIN")

\* expireUnpaid, for one booking: past the deadline with no recent
\* authorization waiting for its capture.
ExpireUnpaid(b) ==
    /\ window[b] = "CLOSED"
    /\ Apply(b, "HOLD_EXPIRED", "SYSTEM")
    /\ GiveCapacityBack(b)
    /\ UNCHANGED <<period, available, required>>

Cancel(b, source) ==
    /\ Apply(b, "CANCEL", source)
    /\ GiveCapacityBack(b)
    /\ UNCHANGED <<period, available, required>>

\* The release-expired-holds job: one UPDATE over every booking.
ReleaseExpiredHolds ==
    /\ \E x \in Bookings, c \in Slots :
          reservation[x][c].state = "HELD" /\ DeadlinePassed(x)
    /\ reservation' = [x \in Bookings |-> [c \in Slots |->
          IF reservation[x][c].state = "HELD" /\ DeadlinePassed(x)
          THEN Released ELSE reservation[x][c]]]
    /\ UNCHANGED <<status, period, window, assignment, tried, available, required>>

-----------------------------------------------------------------------------
(* Offers and their answers. *)

\* acceptedSlots: it counts accepted assignments, of whatever slot.
AcceptedSlots(a) == Cardinality({c \in Slots : a[c].state = "ACCEPTED"})

\* markAccepted moves the reservation only from ALLOCATED; the booking is
\* ASSIGNED once as many workers have accepted as the service needs by then.
Accept(b, c) ==
    /\ assignment[b][c].state = "OFFERED"
    /\ ~assignment[b][c].lapsed
    /\ assignment' = [assignment EXCEPT ![b][c].state = "ACCEPTED"]
    /\ reservation' =
          IF /\ reservation[b][c].state = "ALLOCATED"
             /\ reservation[b][c].worker = assignment[b][c].worker
          THEN [reservation EXCEPT ![b][c].state = "ACCEPTED"]
          ELSE reservation
    /\ IF /\ status[b] = "CONFIRMED"
          /\ AcceptedSlots(assignment'[b]) >= required[ServiceOf[b]]
       THEN Apply(b, "WORKER_ACCEPTED", "WORKER_APP")
       ELSE UNCHANGED <<status, window>>
    /\ UNCHANGED <<period, tried, available, required>>

\* An offer ends without acceptance and the next eligible worker is offered.
OfferNext(b, c) ==
    LET w == assignment[b][c].worker
        freed == [reservation[b] EXCEPT ![c] =
                    IF @.worker = w THEN Released ELSE @]
        ended == [assignment[b] EXCEPT ![c] = NoAssignment]
    IN /\ tried' = [tried EXCEPT ![b] = @ \cup {w}]
       /\ AllocateAndOffer(b, status[b], freed, ended, tried'[b], period[b], NoWorker)
       /\ UNCHANGED <<status, period, window, available>>

Reject(b, c) ==
    /\ assignment[b][c].state = "OFFERED"
    /\ OfferNext(b, c)

ExpireOverdueOffer(b, c) ==
    /\ assignment[b][c].state = "OFFERED"
    /\ assignment[b][c].lapsed
    /\ OfferNext(b, c)

\* Mutant: a booking whose workers are not yet travelling keeps its status.
MutantStaysAssigned(b, source, prefer) ==
    /\ status[b] \in {"CONFIRMED", "ASSIGNED", "EN_ROUTE"}
    /\ IF status[b] # "EN_ROUTE"
       THEN UNCHANGED <<status, window>>
       ELSE Apply(b, "WORKER_UNASSIGNED", source)
    /\ tried' = [tried EXCEPT ![b] = @ \cup AcceptedBy(b)]
    /\ AllocateAndOffer(b, "CONFIRMED", LiveReleased(b), LiveEnded(b),
                        tried'[b], period[b], prefer)
    /\ UNCHANGED <<period, available>>

\* DispatchService.unassign ends every live assignment of the booking, whole
\* crew included, and offers the job again.
Unassign(b, source, prefer) ==
    /\ status[b] \in {"CONFIRMED", "ASSIGNED", "EN_ROUTE"}
    /\ IF status[b] = "CONFIRMED"
       THEN UNCHANGED <<status, window>>
       ELSE Apply(b, "WORKER_UNASSIGNED", source)
    /\ tried' = [tried EXCEPT ![b] = @ \cup AcceptedBy(b)]
    /\ AllocateAndOffer(b, "CONFIRMED", LiveReleased(b), LiveEnded(b),
                        tried'[b], period[b], prefer)
    /\ UNCHANGED <<period, available>>

\* WORKER_WITHDREW, from the app of a worker who had accepted the job.
WorkerWithdraws(b) ==
    /\ AcceptedBy(b) # {}
    /\ Unassign(b, "WORKER_APP", NoWorker)

\* WORKER_NO_SHOW, and REASSIGNED without a chosen worker.
TakeOffJob(b) == Unassign(b, "ADMIN", NoWorker)

\* REASSIGNED to the worker operations chose.
AssignTo(b, w) == Unassign(b, "ADMIN", w)

\* AdminBookingService.redispatch: whoever is eligible now, any open slot.
Redispatch(b) ==
    /\ status[b] = "CONFIRMED"
    /\ AllocateAndOffer(b, "CONFIRMED", reservation[b], assignment[b],
                        tried[b], period[b], NoWorker)
    /\ UNCHANGED <<status, period, window, tried, available>>

\* Mutant: the job looks only at bookings that were never offered.
MutantRetriesUntriedOnly(b) ==
    /\ \A c \in Slots : ~Live(assignment[b][c])
    /\ tried[b] = {}
    /\ Redispatch(b)

\* The redispatch-unassigned job looks only at bookings nobody is offered.
RedispatchUnassigned(b) ==
    /\ \A c \in Slots : ~Live(assignment[b][c])
    /\ Redispatch(b)

-----------------------------------------------------------------------------
(* Operations hold and rescheduling. *)

PlaceOnHold(b) ==
    /\ Apply(b, "PLACE_ON_HOLD", "ADMIN")
    /\ GiveCapacityBack(b)
    /\ UNCHANGED <<period, available, required>>

ReleaseHold(b) ==
    /\ Apply(b, "RELEASE_HOLD", "ADMIN")
    /\ AllocateAndOffer(b, "CONFIRMED", reservation[b], assignment[b],
                        tried[b], period[b], NoWorker)
    /\ UNCHANGED <<period, tried, available>>

\* Holds taken again for a booking still to be paid.
ReserveAgain(b, p) ==
    /\ window[b] = "OPEN"
    /\ \E f \in Picks(Needed(b), {w \in Workers : CanTake(w, b, NothingReserved, p)}) :
          /\ \A c \in Needed(b) : f[c] # NoWorker
          /\ reservation' = Reserve(b, NothingReserved, f, "HELD", p)
    /\ assignment' = [assignment EXCEPT ![b] = LiveEnded(b)]
    /\ UNCHANGED required

\* BookingLifecycleService.reschedule: live assignments end as CANCELLED (their
\* workers stay eligible), the old time is released, the booking moves and
\* capacity is taken at the new time, or nothing changes.
Reschedule(b, p) ==
    /\ status[b] \in Reschedulable
    /\ IF status[b] = "ASSIGNED"
       THEN Apply(b, "WORKER_UNASSIGNED", "SYSTEM")
       ELSE UNCHANGED <<status, window>>
    /\ period' = [period EXCEPT ![b] = p]
    /\ IF status[b] = "PENDING_PAYMENT"
       THEN ReserveAgain(b, p)
       ELSE /\ AllocateAndOffer(b, status'[b], NothingReserved, LiveEnded(b),
                                tried[b], p, NoWorker)
            /\ status'[b] = "CONFIRMED" =>
                  \A c \in Needed(b) : Live(assignment'[b][c])
    /\ UNCHANGED <<tried, available>>

-----------------------------------------------------------------------------
(* The visit. *)

\* recordFieldEvent and startService: operations may record any of them, a
\* worker only with an accepted assignment of the booking.
FieldEvent(b, event) ==
    /\ \E source \in {"WORKER_APP", "ADMIN"} :
          /\ source = "WORKER_APP" => AcceptedBy(b) # {}
          /\ Apply(b, event, source)
    /\ assignment' = IF event = "COMPLETE_SERVICE"
                     THEN [assignment EXCEPT ![b] = [c \in Slots |->
                              IF @[c].state = "ACCEPTED"
                              THEN [@[c] EXCEPT !.state = "COMPLETED"] ELSE @[c]]]
                     ELSE assignment
    /\ UNCHANGED <<period, reservation, tried, available, required>>

FieldEvents ==
    {"START_TRAVEL", "MARK_ARRIVED", "START_SERVICE", "CUSTOMER_NO_SHOW",
     "COMPLETE_SERVICE"}

\* Settlement closes the booking; its reservations stay as they are.
Close(b) ==
    /\ Apply(b, "CLOSE", "SYSTEM")
    /\ UNCHANGED <<period, reservation, assignment, tried, available, required>>

-----------------------------------------------------------------------------
(* Time and the workforce. *)

\* The payment deadline passes, with or without an authorization that the
\* reconciliation job may still capture; the grace period for it runs out.
PaymentDeadlinePasses(b) ==
    /\ window[b] = "OPEN"
    /\ \E to \in {"GRACE", "CLOSED"} : window' = [window EXCEPT ![b] = to]
    /\ UNCHANGED <<status, period, reservation, assignment, tried, available, required>>

GraceEnds(b) ==
    /\ window[b] = "GRACE"
    /\ window' = [window EXCEPT ![b] = "CLOSED"]
    /\ UNCHANGED <<status, period, reservation, assignment, tried, available, required>>

OfferLapses(b, c) ==
    /\ assignment[b][c].state = "OFFERED"
    /\ ~assignment[b][c].lapsed
    /\ assignment' = [assignment EXCEPT ![b][c].lapsed = TRUE]
    /\ UNCHANGED <<status, period, window, reservation, tried, available, required>>

\* Suspended, restricted, off shift or offline -- or back.  Reservations the
\* worker already has stay as they are.
AvailabilityChanges(w) ==
    /\ available' = (available \ {w}) \cup ({w} \ available)
    /\ UNCHANGED <<status, period, window, reservation, assignment, tried, required>>

\* CatalogConfigController.updateService: bookings made before are not looked at.
UpdateService(s) ==
    /\ \E crew \in (1..CrewLimit[s]) \ {required[s]} :
          required' = [required EXCEPT ![s] = crew]
    /\ UNCHANGED <<status, period, window, reservation, assignment, tried, available>>

-----------------------------------------------------------------------------
Init ==
    /\ status = [b \in Bookings |-> "UNBOOKED"]
    /\ period = [b \in Bookings |-> {}]
    /\ window = [b \in Bookings |-> "NONE"]
    /\ reservation = [b \in Bookings |-> NothingReserved]
    /\ assignment = [b \in Bookings |-> NothingOffered]
    /\ tried = [b \in Bookings |-> {}]
    /\ available = Workers
    /\ required \in CrewSizes

BookingStep(b) ==
    \/ \E p \in Times : Create(b, p) \/ Reschedule(b, p)
    \/ ConfirmPaid(b) \/ ConfirmWithoutPrepayment(b) \/ ExpireUnpaid(b)
    \/ \E source \in Sources : Cancel(b, source)
    \/ \E c \in Slots : Accept(b, c) \/ Reject(b, c) \/ ExpireOverdueOffer(b, c)
    \/ WorkerWithdraws(b) \/ TakeOffJob(b) \/ \E w \in Workers : AssignTo(b, w)
    \/ Redispatch(b) \/ RedispatchUnassigned(b)
    \/ PlaceOnHold(b) \/ ReleaseHold(b)
    \/ \E event \in FieldEvents : FieldEvent(b, event)
    \/ Close(b)

Next ==
    \/ \E b \in Bookings : BookingStep(b)
    \/ ReleaseExpiredHolds
    \/ \E b \in Bookings : PaymentDeadlinePasses(b) \/ GraceEnds(b)
    \/ \E b \in Bookings, c \in Slots : OfferLapses(b, c)
    \/ \E w \in Workers : AvailabilityChanges(w)
    \/ \E s \in Services : UpdateService(s)

Spec == Init /\ [][Next]_vars

-----------------------------------------------------------------------------
(* Safety. *)

\* Two customers racing for one worker: whatever the order of creations,
\* reschedules, expired holds and reassignments, no worker's time is blocked by
\* two overlapping reservations, of one booking or of two.
NoDoubleBooking ==
    \A x, y \in Bookings : \A c, d \in Slots :
        LET r == reservation[x][c]  q == reservation[y][d] IN
        Active(r) /\ Active(q) /\ r.worker = q.worker /\ Overlap(r.period, q.period)
            => x = y /\ c = d

\* "An offer is a real, conflict-free slot": behind every live assignment stands
\* a reservation of the same worker, for the time the booking is promised for
\* now, ALLOCATED until the worker accepts and ACCEPTED afterwards.
OffersAreReal ==
    \A b \in Bookings : \A c \in Slots :
        Live(assignment[b][c]) =>
            /\ reservation[b][c].worker = assignment[b][c].worker
            /\ reservation[b][c].period = period[b]
            /\ reservation[b][c].state =
                  IF assignment[b][c].state = "OFFERED" THEN "ALLOCATED" ELSE "ACCEPTED"

\* A booking looks crewed only when as many workers had accepted as its service
\* needed at that moment; and until the visit is over no rejection, withdrawal,
\* reassignment, reschedule or change of the service takes an accepted worker
\* away and leaves it looking crewed.
Crewed(s) == s \in {"ASSIGNED", "EN_ROUTE", "ARRIVED", "IN_PROGRESS"}

CrewIsComplete ==
    [][\A b \in Bookings : Crewed(status'[b]) =>
          IF Crewed(status[b])
          THEN \A c \in Slots : assignment[b][c].state = "ACCEPTED"
                                   => assignment'[b][c] = assignment[b][c]
          ELSE AcceptedSlots(assignment'[b]) >= required[ServiceOf[b]]]_vars

\* Crew slot c of booking b is held for the promised time.
HeldFor(b, c) ==
    reservation[b][c].state = "HELD" /\ reservation[b][c].period = period[b]

\* While the customer may still pay, another booking never takes a worker held
\* for this one: a step leaves the booking's time and holds as they are, or it
\* is the booking's own creation or reschedule, after which every slot its
\* service needs by then is held for the new time.
PayableTimeIsHeld ==
    [][\A b \in Bookings : window'[b] = "OPEN" =>
          \/ /\ window[b] = "OPEN"
             /\ period'[b] = period[b] /\ reservation'[b] = reservation[b]
          \/ \A c \in Needed(b) : HeldFor(b, c)']_vars

\* A reservation serves a purpose: it is an unpaid hold, the time of a worker
\* offered or assigned the job, or that of a visit that took place.
Purposeful(b, c) ==
    Active(reservation[b][c]) =>
        \/ reservation[b][c].state = "HELD" /\ status[b] = "PENDING_PAYMENT"
        \/ Live(assignment[b][c])
        \/ status[b] \in {"COMPLETED", "NO_SHOW", "CLOSED"}

\* No step leaves a worker's time blocked for nothing, but one: a hold becomes an
\* allocation although its slot is above the crew the service needs by then.
NoLeakedCapacity ==
    [][\A b \in Bookings, c \in Slots :
          Purposeful(b, c) =>
              \/ Purposeful(b, c)'
              \/ reservation[b][c].state = "HELD" /\ c \notin Needed(b)]_vars

-----------------------------------------------------------------------------
(* Liveness, under the fairness of the periodic jobs: each is scheduled again *)
(* after every run, so a row that stays in the state a job looks for is       *)
(* handled.  Time passes.  Nothing is assumed of customers, workers or        *)
(* operations.                                                                *)

Fairness ==
    /\ \A b \in Bookings :
          /\ WF_vars(PaymentDeadlinePasses(b))
          /\ WF_vars(GraceEnds(b))
          /\ WF_vars(ExpireUnpaid(b))
          /\ WF_vars(RedispatchUnassigned(b))
          /\ \A c \in Slots : WF_vars(OfferLapses(b, c)) /\ WF_vars(ExpireOverdueOffer(b, c))

\* Somebody not yet tried could take slot c of the booking as it stands.
Fillable(b, c) ==
    /\ status[b] = "CONFIRMED"
    /\ ~Live(assignment[b][c])
    /\ \E w \in Workers \ tried[b] : CanTake(w, b, reservation[b], period[b])

\* A confirmed booking nobody is offered, with an eligible worker free for it,
\* does not stay that way.  (The job passes over a crew of which one is offered
\* the job or has accepted it: its other slot may stay empty.)
NobodyIsStranded ==
    \A b \in Bookings :
        []<>~( /\ \A c \in Slots : ~Live(assignment[b][c])
               /\ Fillable(b, 1) )
=============================================================================
