------------------------------- MODULE Visit -------------------------------
(***************************************************************************)
(* One booking as the people around it see and move it: the worker's app   *)
(* (a step per button, retried after a lost answer), the customer's app    *)
(* and the operations desk, whose changes name the version they saw.  The  *)
(* row, its history and the assignments are what the booking services and  *)
(* the triggers of migration 0007 leave.  The service needs one worker;    *)
(* who is free to be offered the job is the subject of Dispatch.           *)
(***************************************************************************)
EXTENDS BookingStatus, Naturals

CONSTANTS
    Team,           \* workers
    StartTimes,
    MaxVersion,     \* bound on the changes of the booking
    MaxSteps,       \* bound on the requests of worker apps under way
    MaxTries        \* attempts of a retried request

ASSUME TeamAssumption == Team \cap {"nobody", "desk", "customer"} = {} /\ StartTimes \subseteq Nat

VARIABLES
    record,     \* the booking row
    latest,     \* the last row of booking_status_history
    assignment, \* the assignment of each worker
    steps,      \* the requests for job steps that are under way
    job,        \* each worker's job screen
    desk,       \* the booking as an operator loaded it
    customer    \* has the start code been shown; was the visit rated

onSite == <<steps, job>>
visitVars == <<record, latest, assignment, onSite, desk, customer>>

FinalJob == {"COMPLETED", "CLOSED", "CANCELLED", "NO_SHOW"}
AssignmentStatuses == {"NONE", "OFFERED", "ACCEPTED", "EXPIRED", "CANCELLED", "WITHDRAWN", "COMPLETED"}
StepEvents == {"START_TRAVEL", "MARK_ARRIVED", "START_SERVICE", "COMPLETE_SERVICE", "CUSTOMER_NO_SHOW"}

Blank == "NONE"     \* nothing shown, nothing on its way
Nobody == "nobody"

-----------------------------------------------------------------------------
(* The booking row and what follows it. *)

WithTheJob == {w \in Team : assignment[w] \in {"OFFERED", "ACCEPTED"}}

\* The assignments when the booking needs no worker any more.
GivenBack ==
    [w \in Team |-> CASE assignment[w] = "OFFERED" -> "CANCELLED"
                      [] assignment[w] = "ACCEPTED" -> "WITHDRAWN"
                      [] OTHER -> assignment[w]]

\* BookingTransitionService.apply, the trigger before the update (version) and
\* the one after it (history, capacity).  "kept": the assignments if the new
\* status still needs the worker.
Apply(event, source, actor, kept) ==
    /\ record.version < MaxVersion
    /\ \E to \in Resolve(record.status, event, source) :
          /\ record' = [record EXCEPT !.status = to, !.version = @ + 1]
          /\ latest' = [event |-> event, to |-> to, actor |-> actor]
          /\ assignment' = IF to \in {"CANCELLED", "EXPIRED", "ON_HOLD"} THEN GivenBack ELSE kept

\* Mutant: a new time leaves the version as it is.
MutantMovedTo(t) == [record EXCEPT !.start = t, !.reschedules = @ + 1]

\* booking_before_update when only the promised time changes.
MovedTo(t) == [status |-> record.status, version |-> record.version + 1, start |-> t,
               original |-> record.original, reschedules |-> record.reschedules + 1]

\* Everybody who has the job or its offer loses it; a preferred worker, or
\* somebody who has not had it, is offered it.
Reoffer(ended, next) ==
    [w \in Team |-> IF w \in next THEN "OFFERED"
                    ELSE IF assignment[w] \notin {"OFFERED", "ACCEPTED"} THEN assignment[w]
                    ELSE IF assignment[w] = "OFFERED" THEN "CANCELLED" ELSE ended]

\* Nobody, or one worker who has not yet let the offer or the job go.
NextInLine == {{}} \cup {{w} : w \in {v \in Team : assignment[v] \in {"NONE", "CANCELLED"}}}

\* DispatchService.unassign: from ASSIGNED and EN_ROUTE back to CONFIRMED.
Unassigned(source, actor, next) ==
    IF record.status = "CONFIRMED"
    THEN assignment' = Reoffer("WITHDRAWN", next) /\ UNCHANGED <<record, latest>>
    ELSE Apply("WORKER_UNASSIGNED", source, actor, Reoffer("WITHDRAWN", next))

-----------------------------------------------------------------------------
(* The server's side of what happens without a screen. *)

Paid == Apply("PAYMENT_CAPTURED", "PAYMENT_GATEWAY", Nobody, assignment) /\ UNCHANGED <<onSite, desk, customer>>
HoldExpires == Apply("HOLD_EXPIRED", "SYSTEM", Nobody, assignment) /\ UNCHANGED <<onSite, desk, customer>>
Close == Apply("CLOSE", "SYSTEM", Nobody, assignment) /\ UNCHANGED <<onSite, desk, customer>>

OfferJob(w) ==
    /\ record.status = "CONFIRMED" /\ WithTheJob = {} /\ assignment[w] \in {"NONE", "CANCELLED"}
    /\ assignment' = [assignment EXCEPT ![w] = "OFFERED"]
    /\ UNCHANGED <<record, latest, onSite, desk, customer>>

OfferExpires(w) ==
    /\ assignment[w] = "OFFERED"
    /\ assignment' = [assignment EXCEPT ![w] = "EXPIRED"]
    /\ UNCHANGED <<record, latest, onSite, desk, customer>>

-----------------------------------------------------------------------------
(* The worker's app. *)

\* WorkerService.job: only who has or had the job may look at it.
MaySee(w) == assignment[w] \in {"ACCEPTED", "COMPLETED"}

\* OfferCard: the answer to an accepted offer opens the job; accepting again
\* after a lost answer changes nothing.
AcceptOffer(w) ==
    /\ assignment[w] = "OFFERED"
    /\ Apply("WORKER_ACCEPTED", "WORKER_APP", w, [assignment EXCEPT ![w] = "ACCEPTED"])
    /\ UNCHANGED <<onSite, desk, customer>>

Withdraw(w) ==
    /\ assignment[w] = "ACCEPTED"
    /\ record.status = "ASSIGNED"
    /\ \E next \in NextInLine : Unassigned("WORKER_APP", w, next)
    /\ UNCHANGED <<onSite, desk, customer>>

\* useLoad: a read of the job, whose answer is shown when it arrives, also when
\* a later answer is shown already.
LoadJob(w) ==
    /\ MaySee(w)
    /\ job[w].loading = Blank
    /\ job[w].shown \notin FinalJob
    /\ job' = [job EXCEPT ![w].loading = record.status]
    /\ UNCHANGED <<record, latest, assignment, steps, desk, customer>>

JobLoaded(w) ==
    /\ job[w].loading # Blank
    /\ job' = [job EXCEPT ![w].shown = job[w].loading, ![w].loading = Blank]
    /\ UNCHANGED <<record, latest, assignment, steps, desk, customer>>

\* The buttons of the job screen.
ButtonsOf(shown) ==
    CASE shown = "ASSIGNED"    -> {"START_TRAVEL"}
      [] shown = "EN_ROUTE"    -> {"MARK_ARRIVED"}
      [] shown = "ARRIVED"     -> {"START_SERVICE", "CUSTOMER_NO_SHOW"}
      [] shown = "IN_PROGRESS" -> {"COMPLETE_SERVICE"}
      [] OTHER                 -> {}

StepRequest(w, event) == [worker |-> w, event |-> event, at |-> "sent"]
NoStep == [worker |-> Nobody, event |-> Blank, at |-> Blank]

\* The screen waits no longer: only a request not yet taken stays under way.
LeftBehind(w) ==
    IF job[w].step # 0 /\ steps[job[w].step].at # "sent"
    THEN [steps EXCEPT ![job[w].step] = NoStep] ELSE steps

Send(w, event, tries) ==
    \E i \in 1..MaxSteps :
        /\ LeftBehind(w)[i] = NoStep /\ \A k \in 1..(i - 1) : LeftBehind(w)[k] # NoStep
        /\ steps' = [LeftBehind(w) EXCEPT ![i] = StepRequest(w, event)]
        /\ job' = [job EXCEPT ![w].step = i, ![w].tries = tries]

\* A button; the screen is busy until the step is answered or given up.
Tap(w, event) ==
    /\ event \in ButtonsOf(job[w].shown)
    /\ job[w].step = 0
    /\ Send(w, event, 1)
    /\ UNCHANGED <<record, latest, assignment, desk, customer>>

\* No answer in time, or none that arrived: sent again, except a no-show report.
TryAgain(w) ==
    /\ job[w].step # 0
    /\ job[w].tries < MaxTries
    /\ steps[job[w].step].event # "CUSTOMER_NO_SHOW"
    /\ Send(w, steps[job[w].step].event, job[w].tries + 1)
    /\ UNCHANGED <<record, latest, assignment, desk, customer>>

GiveUp(w) ==
    /\ job[w].step # 0
    /\ steps' = LeftBehind(w)
    /\ job' = [job EXCEPT ![w].step = 0, ![w].tries = 0]
    /\ UNCHANGED <<record, latest, assignment, desk, customer>>

\* Mutant: whose step it was is not asked.
MutantAlreadyApplied(w, event) == latest.event = event /\ latest.to = record.status

\* alreadyApplied: this very step by this worker is the booking's latest.
AlreadyApplied(w, event) ==
    latest = [event |-> event, to |-> record.status, actor |-> w]

\* recordFieldEvent, or startService with the code the customer reads out.
StepAllowed(w, event) ==
    /\ assignment[w] = "ACCEPTED"
    /\ Resolve(record.status, event, "WORKER_APP") # {}
    /\ event = "START_SERVICE" => customer.code

\* The step of a request that has reached the server, now or much later.
TakeStep(i) ==
    LET w == steps[i].worker  event == steps[i].event
        Now(at) == steps' = IF job[w].step = i THEN [steps EXCEPT ![i].at = at]
                            ELSE [steps EXCEPT ![i] = NoStep] IN
    /\ steps[i].at = "sent"
    /\ \/ /\ AlreadyApplied(w, event)
          /\ Now("stepped")
          /\ UNCHANGED <<record, latest, assignment>>
       \/ /\ ~AlreadyApplied(w, event) /\ StepAllowed(w, event)
          /\ Apply(event, "WORKER_APP", w,
                   IF event = "COMPLETE_SERVICE" THEN [assignment EXCEPT ![w] = "COMPLETED"]
                   ELSE assignment)
          /\ Now("stepped")
       \/ /\ ~AlreadyApplied(w, event) /\ ~StepAllowed(w, event)
          /\ Now("refused")
          /\ UNCHANGED <<record, latest, assignment>>
    /\ UNCHANGED <<job, desk, customer>>

\* The controller then reads the job, in a transaction of its own.
AnswerStep(i) ==
    /\ steps[i].at = "stepped"
    /\ steps' = [steps EXCEPT ![i].at = IF MaySee(steps[i].worker) THEN record.status ELSE "refused"]
    /\ UNCHANGED <<record, latest, assignment, job, desk, customer>>

\* The answer the screen waits for; after a refusal it loads the job again.
StepAnswered(w) ==
    /\ job[w].step # 0
    /\ LET at == steps[job[w].step].at IN
          /\ at \notin {"sent", "stepped"}
          /\ job' = [job EXCEPT ![w].step = 0, ![w].tries = 0,
                                ![w].shown = IF at = "refused" THEN @ ELSE at,
                                ![w].loading = IF at = "refused" /\ @ = Blank /\ MaySee(w)
                                               THEN record.status ELSE @]
    /\ steps' = LeftBehind(w)
    /\ UNCHANGED <<record, latest, assignment, desk, customer>>

-----------------------------------------------------------------------------
(* The customer's app.  Its screen may be old: the server decides. *)

ShowStartCode ==
    /\ record.status \in {"ASSIGNED", "EN_ROUTE", "ARRIVED"}
    /\ customer' = [customer EXCEPT !.code = TRUE]
    /\ UNCHANGED <<record, latest, assignment, onSite, desk>>

CustomerCancels ==
    /\ Apply("CANCEL", "CUSTOMER_APP", "customer", assignment)
    /\ UNCHANGED <<onSite, desk, customer>>

Rate ==
    /\ record.status \in {"COMPLETED", "CLOSED"}
    /\ customer' = [customer EXCEPT !.rated = TRUE]
    /\ UNCHANGED <<record, latest, assignment, onSite, desk>>

\* BookingLifecycle.reschedule, for the customer or the desk: an accepted worker
\* is let go first and stays in line for the new time.
Reschedule(t, actor) ==
    LET released == Reoffer("CANCELLED", {}) IN
    /\ record.status \in Reschedulable
    /\ t # record.start
    /\ record.version < MaxVersion - 1
    /\ IF record.status = "ASSIGNED"
       THEN /\ record' = [MovedTo(t) EXCEPT !.status = "CONFIRMED", !.version = @ + 1]
            /\ latest' = [event |-> "WORKER_UNASSIGNED", to |-> "CONFIRMED", actor |-> actor]
       ELSE record' = MovedTo(t) /\ UNCHANGED latest
    /\ assignment' = released

CustomerReschedules(t) == Reschedule(t, "customer") /\ UNCHANGED <<onSite, desk, customer>>

-----------------------------------------------------------------------------
(* The operations desk. *)

Summary == [version |-> record.version, status |-> record.status, start |-> record.start]

LoadBooking ==
    /\ desk' = Summary
    /\ UNCHANGED <<record, latest, assignment, onSite, customer>>

\* acting, checkExpectedVersion: a change is made to what the operator saw.
NotStale == desk.version = record.version

DeskEvent(event) ==
    /\ NotStale
    /\ Apply(event, "ADMIN", "desk",
             IF event = "COMPLETE_SERVICE" THEN [w \in Team |-> IF assignment[w] = "ACCEPTED" THEN "COMPLETED" ELSE assignment[w]]
             ELSE assignment)
    /\ desk' = [version |-> record'.version, status |-> record'.status, start |-> record'.start]
    /\ UNCHANGED <<onSite, customer>>

\* The events an operator raises through the admin API.
DeskEvents == {"CONFIRM_WITHOUT_PREPAYMENT", "PLACE_ON_HOLD", "RELEASE_HOLD", "CANCEL",
               "START_SERVICE", "CUSTOMER_NO_SHOW"}

\* Another worker, the same one, or after a no-show whoever is next.
DeskReassigns(next) ==
    /\ NotStale
    /\ record.status \in {"CONFIRMED", "ASSIGNED", "EN_ROUTE"}
    /\ Unassigned("ADMIN", "desk", next)
    /\ desk' = [version |-> record'.version, status |-> record'.status, start |-> record'.start]
    /\ UNCHANGED <<onSite, customer>>

DeskReschedules(t) ==
    /\ NotStale
    /\ Reschedule(t, "desk")
    /\ desk' = [version |-> record'.version, status |-> record'.status, start |-> record'.start]
    /\ UNCHANGED <<onSite, customer>>

-----------------------------------------------------------------------------
VisitInit ==
    /\ \E t \in StartTimes :
          /\ \A u \in StartTimes : t <= u
          /\ record = [status |-> "PENDING_PAYMENT", version |-> 1, start |-> t, original |-> t,
                       reschedules |-> 0]
    /\ latest = [event |-> "CREATED", to |-> "PENDING_PAYMENT", actor |-> "customer"]
    /\ assignment = [w \in Team |-> "NONE"]
    /\ steps = [i \in 1..MaxSteps |-> NoStep]
    /\ job = [w \in Team |-> [shown |-> Blank, loading |-> Blank, step |-> 0, tries |-> 0]]
    /\ desk = [version |-> 1, status |-> record.status, start |-> record.start]
    /\ customer = [code |-> FALSE, rated |-> FALSE]

WorkerSide(w) ==
    \/ OfferJob(w) \/ OfferExpires(w) \/ AcceptOffer(w) \/ Withdraw(w)
    \/ LoadJob(w) \/ JobLoaded(w) \/ TryAgain(w) \/ GiveUp(w) \/ StepAnswered(w)
    \/ \E event \in StepEvents : Tap(w, event)

DeskSide ==
    \/ LoadBooking
    \/ \E event \in DeskEvents : DeskEvent(event)
    \/ \E next \in NextInLine \cup {{w} : w \in Team} : DeskReassigns(next)
    \/ \E t \in StartTimes : DeskReschedules(t)

VisitNext ==
    \/ Paid \/ HoldExpires \/ Close
    \/ \E w \in Team : WorkerSide(w)
    \/ \E i \in 1..MaxSteps : TakeStep(i) \/ AnswerStep(i)
    \/ ShowStartCode \/ CustomerCancels \/ Rate
    \/ \E t \in StartTimes : CustomerReschedules(t)
    \/ DeskSide

VisitSpec == VisitInit /\ [][VisitNext]_visitVars

-----------------------------------------------------------------------------
RepeatIsFromTheCrew ==
    \A w \in Team : \A event \in StepEvents : AlreadyApplied(w, event) => MaySee(w)

VersionIsWhatTheDeskSaw ==
    NotStale => desk.status = record.status /\ desk.start = record.start

(* Who acts on what was seen some time ago changes nothing by mistake.  A step   *)
(* repeated late is answered as done only to a worker who still has the job:      *)
(* alreadyApplied is asked before the assignment is.  And a change of the desk    *)
(* that passes the version check is to the status and the promised time on its    *)
(* screen, whoever moved the booking meanwhile.                                   *)
LateClientsAreHarmless == RepeatIsFromTheCrew /\ VersionIsWhatTheDeskSaw
=============================================================================
