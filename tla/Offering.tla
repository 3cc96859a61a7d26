------------------------------ MODULE Offering ------------------------------
(***************************************************************************)
(* One service as staff configure it, the zones around one address, and    *)
(* the two programs that say when it can be had: the times that the app    *)
(* shows (availability.service.ts, a query of its own) and the times at    *)
(* which a booking is accepted (booking-schedule.ts, capacity.service.ts   *)
(* and the triggers of the database).  Each has its own rules here too;    *)
(* they share what they share in the code, the functions of the database.  *)
(*                                                                         *)
(* One day, in units of time of which Granularity make a slot.             *)
(***************************************************************************)
EXTENDS Integers, Sequences, FiniteSets

CONSTANTS
    Near,        \* the zones that reach the address, the nearest first
    Crew,        \* workers
    Granularity, \* SLOT_GRANULARITY_MINUTES
    LastSlot,    \* bound: the day has LastSlot slots
    Services,    \* what staff may set of the service and of its option
    MaxHours,    \* bound: rows of operating_hours
    MaxShifts    \* bound: shifts and reservations each

VARIABLES
    service,     \* service, with its service_option
    offered,     \* zones with an active service_zone
    inactive,    \* parts of the service area that are switched off
    rule,        \* kinds of rules of which one is current
    hours,       \* operating_hours
    shifts,      \* worker_shift
    fit,         \* until when worker_ineligibility_reason finds nothing wrong
    visits,      \* worker_reservation, not released
    moment,      \* now
    displayed    \* the times a customer looks at, with the option they were asked for

configured == <<service, offered, inactive, rule, hours>>
offering == <<configured, shifts, fit, visits, moment, displayed>>

-----------------------------------------------------------------------------
Zones == {Near[k] : k \in DOMAIN Near}
ASSUME CrewsAssumption == IsFiniteSet(Crew) /\ Near \in Seq(Zones)
ASSUME DayAssumption ==
    /\ Granularity \in Nat \ {0} /\ LastSlot \in Nat
    /\ \A s \in Services :
          /\ {s.option, s.before, s.after, s.lead, s.ahead, s.hold} \subseteq Nat
          /\ {s.duration, s.workers} \subseteq Nat \ {0}
Areas == {"city", "pincode"} \cup Zones   \* a zone stands for its locality too
DayEnd == Granularity * LastSlot
DayTimes == 0 .. DayEnd
Moments == 0 .. DayEnd - 1
Open == DayEnd + 1                        \* valid_to is null
NoZone == "none"
NoOption == 0                             \* the option is named by its duration
Nothing == [times |-> {}, option |-> NoOption]

RuleKinds == {"price_rule", "payout_rule"}

Overlap(p, q) == p.from < q.to /\ q.from < p.to
Covers(p, q) == p.from <= q.from /\ q.to <= p.to

-----------------------------------------------------------------------------
(* Staff configure what is sold where, and who may do it.  What a customer   *)
(* looks at is out of date when they are done.                               *)

\* assertReadyToOffer, when the service is switched on.
UpdateService(s) ==
    /\ s # service
    /\ s.active /\ ~service.active => rule = RuleKinds
    /\ service' = s /\ displayed' = Nothing
    /\ UNCHANGED <<offered, inactive, rule, hours, shifts, fit, visits, moment>>

\* A rule becomes current, or ends, also while the service is offered.
RuleChanges(kind) ==
    /\ rule' = IF kind \in rule THEN rule \ {kind} ELSE rule \cup {kind}
    /\ displayed' = Nothing
    /\ UNCHANGED <<service, offered, inactive, hours, shifts, fit, visits, moment>>

SetServiceZone(z) ==
    /\ offered' = IF z \in offered THEN offered \ {z} ELSE offered \cup {z}
    /\ displayed' = Nothing
    /\ UNCHANGED <<service, inactive, rule, hours, shifts, fit, visits, moment>>

SwitchArea(a) ==
    /\ inactive' = IF a \in inactive THEN inactive \ {a} ELSE inactive \cup {a}
    /\ displayed' = Nothing
    /\ UNCHANGED <<service, offered, rule, hours, shifts, fit, visits, moment>>

AddHours(z, own, open, close) ==
    /\ Len(hours) < MaxHours /\ open < close
    /\ hours' = Append(hours, [zone |-> z, own |-> own, open |-> open, close |-> close,
                               from |-> moment, to |-> Open])
    /\ displayed' = Nothing
    /\ UNCHANGED <<service, offered, inactive, rule, shifts, fit, visits, moment>>

EndHours(k) ==
    /\ k \in DOMAIN hours /\ hours[k].from < moment /\ moment <= hours[k].to
    /\ hours' = [hours EXCEPT ![k].to = moment]
    /\ displayed' = Nothing
    /\ UNCHANGED <<service, offered, inactive, rule, shifts, fit, visits, moment>>

\* A longer day of a worker takes nothing from anybody.
AddShift(w, z, from, to) ==
    LET shift == [worker |-> w, zone |-> z, from |-> from, to |-> to] IN
    /\ Cardinality(shifts) < MaxShifts /\ from < to
    /\ \A s \in shifts : s.worker = w => ~Overlap(s, shift)
    /\ shifts' = shifts \cup {shift}
    /\ UNCHANGED <<configured, fit, visits, moment, displayed>>

\* Permissions, restrictions, verifications and trainings of a worker (Onboarding).
FitnessChanges(w, until) ==
    /\ until # fit[w]
    /\ fit' = [fit EXCEPT ![w] = until] /\ displayed' = Nothing
    /\ UNCHANGED <<configured, shifts, visits, moment>>

-----------------------------------------------------------------------------
(* What both programs ask of the database or of the same service.            *)

\* serviceability.resolve: the nearest zone that is served and, when the question
\* is about the service, offers it.
Served(z) == {"city", "pincode", z} \cap inactive = {}
Qualifies(z, ofService) == Served(z) /\ (ofService => z \in offered /\ service.active)
ResolveService(ofService) ==
    LET found == {k \in DOMAIN Near : Qualifies(Near[k], ofService)} IN
    IF found = {} THEN NoZone ELSE Near[CHOOSE k \in found : \A j \in found : k <= j]

\* within_operating_hours: the service's own rows replace the zone's.
Applying(z, t, own) ==
    {k \in DOMAIN hours : /\ hours[k].zone = z /\ hours[k].own = own
                          /\ hours[k].from <= t /\ t < hours[k].to}
WithinHours(z, from, to) ==
    LET rows == IF Applying(z, from, TRUE) # {} THEN Applying(z, from, TRUE)
                                                ELSE Applying(z, from, FALSE)
    IN rows # {} => \E k \in rows : hours[k].open <= from /\ to <= hours[k].close

\* worker_ineligibility_reason is null.
IsFit(w, period) == period.to <= fit[w]

-----------------------------------------------------------------------------
(* availability.service.ts: the times that the app shows.                    *)

\* generate_series, from the midnight of the city.
Slots == {Granularity * k : k \in 0 .. LastSlot - 1}

\* An option is joined by its id, switched off or not.
ShownDuration(option) == IF option # NoOption THEN option ELSE service.duration

\* Mutant: what is kept free around a visit is forgotten.
MutantBlockedSlot(t, option) == [from |-> t, to |-> t + ShownDuration(option)]

BlockedSlot(t, option) ==
    [from |-> t - service.before, to |-> t + (ShownDuration(option) + service.after)]

SomebodyIsFree(z, blocked) ==
    \E w \in Crew :
       /\ \E s \in shifts : s.worker = w /\ s.zone = z /\ Covers(s, blocked)
       /\ IsFit(w, blocked)
       /\ ~ \E v \in visits :
              /\ v.worker = w /\ Overlap(v, blocked)
              /\ ~(v.status = "HELD" /\ v.expires <= moment)

\* slots: of the nearest zone, whether or not that one offers the service.
Offered(t, option) ==
    LET z == ResolveService(FALSE) IN
    /\ z # NoZone
    /\ service.active /\ service.scheduled
    /\ t \in Slots /\ moment + service.lead <= t /\ t <= moment + service.ahead
    /\ WithinHours(z, t, t + ShownDuration(option))
    /\ SomebodyIsFree(z, BlockedSlot(t, option))

ShowSlots(option) ==
    /\ displayed' = [times |-> {t \in Moments : Offered(t, option)}, option |-> option]
    /\ UNCHANGED <<configured, shifts, fit, visits, moment>>

-----------------------------------------------------------------------------
(* booking-creation.service.ts: the times at which a booking is accepted.    *)

\* loadOption: the option asked for must be active, and an active option of the
\* service (its default) is taken when none is asked for.
OptionAccepted(option) == option # NoOption => service.choosable
DurationBooked(option) ==
    IF service.option # NoOption /\ service.choosable THEN service.option ELSE service.duration

\* validateScheduledStart.
ValidStart(t) ==
    /\ service.scheduled
    /\ t % Granularity = 0
    /\ ~(t < moment + service.lead) /\ ~(t > moment + service.ahead)

\* servicePeriod and reservationPeriod.
ServicePeriod(t, option) == [from |-> t, to |-> t + DurationBooked(option)]
ReservationPeriod(t, option) ==
    LET promise == ServicePeriod(t, option) IN
    [from |-> promise.from - service.before, to |-> promise.to + service.after]

\* findCandidates: a shortlist.
Candidates(z, period) ==
    {w \in Crew :
       /\ \E s \in shifts : s.worker = w /\ s.zone = z /\ Covers(s, period)
       /\ IsFit(w, period)
       /\ {v \in visits : v.worker = w /\ Overlap(v, period)
                           /\ ~(v.status = "HELD" /\ v.expires <= moment)} = {}}

\* Mutant: the trigger leaves expired holds to the job that ends unpaid bookings.
MutantReleasedFor(w, period) == {}

\* worker_reservation_before_insert: what the insert of a row releases first.
ReleasedFor(w, period) ==
    {v \in visits : v.worker = w /\ v.status = "HELD" /\ v.expires <= moment /\ Overlap(v, period)}

\* The rest of that trigger, and the exclusion constraint.
MayInsert(w, z, t, option) ==
    LET period == ReservationPeriod(t, option) IN
    /\ Covers(period, ServicePeriod(t, option)) /\ IsFit(w, period)
    /\ \E s \in shifts : s.worker = w /\ s.zone = z /\ Covers(s, period)
    /\ \A v \in visits \ ReleasedFor(w, period) : v.worker = w => ~Overlap(v, period)

\* reserve goes on to the next candidate when the database refuses one.
Reservable(z, t, option) ==
    {w \in Candidates(z, ReservationPeriod(t, option)) : MayInsert(w, z, t, option)}

\* One worker for each place in the crew, or nothing is saved.
Bookable(t, option) ==
    LET z == ResolveService(TRUE) IN
    /\ service.active /\ OptionAccepted(option)
    /\ z # NoZone /\ ValidStart(t)
    /\ "price_rule" \in rule
    /\ LET promise == ServicePeriod(t, option) IN WithinHours(z, promise.from, promise.to)
    /\ Cardinality(Reservable(z, t, option)) >= service.workers

\* The customer who books, or another one who is faster.
Book(t, option) ==
    LET z == ResolveService(TRUE)
        period == ReservationPeriod(t, option)
    IN
    /\ Bookable(t, option) /\ Cardinality(visits) + service.workers <= MaxShifts
    /\ \E crew \in SUBSET Reservable(z, t, option) :
           /\ Cardinality(crew) = service.workers
           /\ visits' = (visits \ UNION {ReleasedFor(w, period) : w \in crew})
                 \cup {[worker |-> w, from |-> period.from, to |-> period.to, status |-> "HELD",
                        expires |-> moment + service.hold] : w \in crew}
    /\ displayed' = Nothing
    /\ UNCHANGED <<configured, shifts, fit, moment>>

-----------------------------------------------------------------------------
(* What becomes of a reservation. *)

\* allocateHeld: the booking is paid, in time or, by a payment that was authorised
\* in time, after the hold has expired.
AllocateHeld(v) ==
    /\ v.status = "HELD"
    /\ visits' = (visits \ {v}) \cup {[v EXCEPT !.status = "ALLOCATED", !.expires = 0]}
    /\ displayed' = IF v.expires <= moment THEN Nothing ELSE displayed
    /\ UNCHANGED <<configured, shifts, fit, moment>>

\* The booking is cancelled, moved or not paid.
Release(v) ==
    /\ visits' = visits \ {v}
    /\ UNCHANGED <<configured, shifts, fit, moment, displayed>>

DayGoesOn ==
    /\ moment < DayEnd - 1
    /\ moment' = moment + 1
    /\ UNCHANGED <<configured, shifts, fit, visits, displayed>>

-----------------------------------------------------------------------------
\* A new service is switched off, and nothing about it is configured.
OfferingInit ==
    /\ service \in {s \in Services : ~s.active}
    /\ offered = {} /\ inactive = {} /\ rule = {}
    /\ hours = <<>> /\ shifts = {} /\ visits = {}
    /\ fit = [w \in Crew |-> 0]
    /\ moment = 0 /\ displayed = Nothing

OfferingNext ==
    \/ \E s \in Services : UpdateService(s)
    \/ \E kind \in RuleKinds : RuleChanges(kind)
    \/ \E z \in Zones : \/ SetServiceZone(z)
                        \/ \E own \in BOOLEAN, open, close \in DayTimes : AddHours(z, own, open, close)
                        \/ \E w \in Crew, from, to \in DayTimes : AddShift(w, z, from, to)
    \/ \E a \in Areas : SwitchArea(a)
    \/ \E k \in 1 .. MaxHours : EndHours(k)
    \/ \E w \in Crew, until \in DayTimes : FitnessChanges(w, until)
    \/ \E option \in {NoOption, service.option} :
          \/ ShowSlots(option)
          \/ \E t \in Moments : Book(t, option)
    \/ \E v \in visits : AllocateHeld(v) \/ Release(v)
    \/ DayGoesOn

OfferingSpec == OfferingInit /\ [][OfferingNext]_offering

-----------------------------------------------------------------------------
\* Where both programs are asked the same question: the app names the option when
\* there is one to choose, and the nearest zone offers the service.
SameQuestion(option) ==
    /\ option = (IF service.choosable THEN service.option ELSE NoOption)
    /\ ResolveService(FALSE) \in offered

\* The app shows every time at which a booking would be accepted, and no time at
\* which it would not, up to what the query does not look at: a price, and a second
\* worker.  The two programs have their own window, grid, buffers, expired holds
\* and shifts; the database lets a candidate be reserved.
ProgramsAgree ==
    \A option \in {NoOption, service.option} : SameQuestion(option) =>
        \A t \in Moments :
            /\ Bookable(t, option) => Offered(t, option)
            /\ Offered(t, option) /\ "price_rule" \in rule /\ service.workers = 1
                  => Bookable(t, option)

\* A time that a customer was shown can still be booked later, for as long as it is
\* not too close: until staff change something, somebody books, or a late payment
\* keeps a worker whose hold had expired.  Time alone, a hold that expires, a
\* payment in time, a cancellation and a new shift take nothing away.
ShownStaysBookable ==
    \A t \in displayed.times :
        /\ SameQuestion(displayed.option) /\ moment + service.lead <= t
        /\ "price_rule" \in rule /\ service.workers = 1
        => Bookable(t, displayed.option)

\* What the app offers can be booked: the two programs agree at any moment, and
\* they go on agreeing with what a customer was shown before.
OfferedIsBookable == ProgramsAgree /\ ShownStaysBookable
=============================================================================
