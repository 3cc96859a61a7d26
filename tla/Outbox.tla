------------------------------- MODULE Outbox -------------------------------
(***************************************************************************)
(* The outbox that tells Zoho about our records.  A change adds its event  *)
(* in its own transaction, or leaves it to one that is pending already;    *)
(* dispatchers claim due events under a lease, call Zoho outside any       *)
(* transaction and write down how it went.                                 *)
(*                                                                         *)
(* Support cases get one ticket at Zoho Desk (DESK_CASE_CREATE) and then   *)
(* follow its status (DESK_CASE_PULL); customers and bookings are mirrored *)
(* in Zoho CRM (CRM_*_SYNC).  Both kinds of copying read the current state *)
(* of one side when they are delivered and write it to the other.          *)
(*                                                                         *)
(* A process may die anywhere and a call may fail before or after it took  *)
(* effect.  Waits (next_attempt_at) are over at any time, and a lease      *)
(* expires at any time, under a dead dispatcher or a slow one: twenty      *)
(* deliveries of several calls of 10 s each may take longer than its 120 s. *)
(***************************************************************************)
EXTENDS Naturals, Sequences, FiniteSets, FiniteSetsExt

CONSTANTS
    Cases,          \* support cases, followed at Zoho Desk
    Mirrored,       \* customers and bookings, mirrored in Zoho CRM
    States,         \* the states of a mirrored record
    Dispatchers,    \* worker processes
    MaxEvents,      \* bound on the events ever enqueued
    MaxAttempts, Threshold, BatchSize   \* INTEGRATION_POLICY

ASSUME OutboxAssumption ==
    /\ MaxEvents \in Nat /\ {MaxAttempts, Threshold, BatchSize} \subseteq Nat \ {0}
    /\ Cases \cap Mirrored = {} /\ "NONE" \notin States

VARIABLES
    case,       \* support_case.status
    tickets,    \* how many tickets Zoho Desk has for a case
    ticket,     \* the status of that ticket
    linked,     \* cases with an external_link
    source,     \* our state of a mirrored record, as committed
    writing,    \* the state that a transaction without an event of its own is
                \* about to commit, or "NONE"
    copy,       \* what Zoho CRM has of it
    events,     \* integration_event, by id (attempts only while they count)
    leased,     \* events whose locked_until is in the future
    failures,   \* consecutive_failures of a target (no further than Threshold)
    paused,     \* targets with paused_until in the future
    dispatcher, \* what each process is doing
    seized,     \* history: records of whose events one was claimed again while
                \* the process that had it was alive
    overtaken   \* history: records whose last change left its event to one that
                \* was no longer pending when the change was committed

outbox == <<case, tickets, ticket, linked, source, writing, copy, events, leased,
            failures, paused, dispatcher, seized, overtaken>>
history == <<seized, overtaken>>
records == <<case, tickets, ticket, linked, source, writing, copy>>

-----------------------------------------------------------------------------
Targets == {"DESK", "CRM"}
Target(r) == IF r \in Cases THEN "DESK" ELSE "CRM"
Ids == 1..Len(events)

\* IN_PROGRESS and WAITING_ON_CUSTOMER count as OPEN.
CaseStatuses == {"OPEN", "RESOLVED", "CLOSED"}
TicketStatuses == {"OPEN", "RESOLVED"}

Types == {"CREATE", "PULL", "SYNC"}
Coalescible(type) == type \in {"PULL", "SYNC"}

Event == [record : Cases \cup Mirrored, type : Types, attempts : 0..MaxAttempts,
          status : {"PENDING", "PROCESSING", "SUCCEEDED", "DEAD", "DISCARDED"}]

\* CALL: about to read what the delivery needs; CREATE, LINK, WRITE: about to
\* create the ticket, save the link, write the copy; DONE: about to record the
\* success; the others: about to record a failure of that kind.  PAUSING stands
\* for RATE_LIMITED, CREDENTIALS and CONFIGURATION.
Failures == {"RETRYABLE", "PAUSING", "PERMANENT"}
DeliverySteps == {"IDLE", "CALL", "CREATE", "LINK", "WRITE", "DONE"} \cup Failures

Idle == [step |-> "IDLE", batch |-> <<>>, read |-> "NONE"]

PendingTwin(r, type) ==
    \E f \in Ids : /\ events[f].record = r /\ events[f].type = type
                   /\ events[f].status = "PENDING"

\* Mutant: an event already claimed can stand for a new one.
MutantEnqueue(r, type) ==
    IF /\ Coalescible(type)
       /\ \E f \in Ids : /\ events[f].record = r /\ events[f].type = type
                         /\ events[f].status \in {"PENDING", "PROCESSING"}
    THEN UNCHANGED events
    ELSE /\ Len(events) < MaxEvents
         /\ events' = Append(events, [record |-> r, type |-> type, attempts |-> 0,
                                      status |-> "PENDING"])

\* IntegrationOutbox.enqueue: nothing is added while one that can stand for it
\* is pending, and that one is not locked.
Enqueue(r, type) ==
    IF Coalescible(type) /\ PendingTwin(r, type)
    THEN UNCHANGED events
    ELSE /\ Len(events) < MaxEvents
         /\ events' = Append(events, [record |-> r, type |-> type, attempts |-> 0,
                                      status |-> "PENDING"])

-----------------------------------------------------------------------------
(* The business side and Zoho's side. *)

\* SupportService.open.
OpenCase(c) ==
    /\ case[c] = "NONE"
    /\ case' = [case EXCEPT ![c] = "OPEN"]
    /\ Enqueue(c, "CREATE")
    /\ UNCHANGED <<tickets, ticket, linked, source, writing, copy, leased, failures,
                   paused, dispatcher, history>>

\* SupportService.act: staff change the status here until the case is worked on
\* at the desk.
ActOnCase(c) ==
    /\ case[c] \in CaseStatuses \ {"CLOSED"}
    /\ c \notin linked
    /\ \E status \in CaseStatuses \ {case[c]} : case' = [case EXCEPT ![c] = status]
    /\ UNCHANGED <<tickets, ticket, linked, source, writing, copy, events, leased,
                   failures, paused, dispatcher, history>>

\* A support agent changes the ticket.
TicketChanges(c) ==
    /\ tickets[c] > 0
    /\ \E status \in TicketStatuses \ {ticket[c]} : ticket' = [ticket EXCEPT ![c] = status]
    /\ UNCHANGED <<case, tickets, linked, source, writing, copy, events, leased,
                   failures, paused, dispatcher, history>>

\* Zoho Desk's webhook says of which tickets it tells, nothing else of it is used.
DeskWebhook(c) ==
    /\ c \in linked
    /\ Enqueue(c, "PULL")
    /\ UNCHANGED <<records, leased, failures, paused, dispatcher, history>>

\* schedulePulls, in case a webhook was lost: for open cases, and for a week for
\* resolved ones.
SchedulePull(c) ==
    /\ c \in linked /\ case[c] # "CLOSED"
    /\ Enqueue(c, "PULL")
    /\ UNCHANGED <<records, leased, failures, paused, dispatcher, history>>

\* A customer or booking changes, in a transaction that keeps the record locked.
\* A new event appears with the change when that is committed; the change that
\* leaves its event to a pending one is committed later.
RecordChanges(r) ==
    /\ writing[r] = "NONE"
    /\ Enqueue(r, "SYNC")
    /\ \E state \in States \ {source[r]} :
          IF PendingTwin(r, "SYNC")
          THEN /\ writing' = [writing EXCEPT ![r] = state]
               /\ UNCHANGED <<source, overtaken>>
          ELSE /\ source' = [source EXCEPT ![r] = state]
               /\ overtaken' = overtaken \ {r}
               /\ UNCHANGED writing
    /\ UNCHANGED <<case, tickets, ticket, linked, copy, leased, failures, paused,
                   dispatcher, seized>>

Commits(r) ==
    /\ writing[r] # "NONE"
    /\ source' = [source EXCEPT ![r] = writing[r]]
    /\ writing' = [writing EXCEPT ![r] = "NONE"]
    /\ overtaken' = IF PendingTwin(r, "SYNC") THEN overtaken \ {r}
                    ELSE overtaken \cup {r}
    /\ UNCHANGED <<case, tickets, ticket, linked, copy, events, leased, failures,
                   paused, dispatcher, seized>>

RollsBack(r) ==
    /\ writing[r] # "NONE"
    /\ writing' = [writing EXCEPT ![r] = "NONE"]
    /\ UNCHANGED <<case, tickets, ticket, linked, source, copy, events, leased,
                   failures, paused, dispatcher, history>>

-----------------------------------------------------------------------------
(* Claiming. *)

\* Mutant: a DEAD event does not hold up the later ones.
MutantFirst(e) ==
    \A f \in 1..(e - 1) :
        events[f].record = events[e].record
            => events[f].status \notin {"PENDING", "PROCESSING"}

\* An event waits for the earlier ones of its record.
First(e) ==
    \A f \in 1..(e - 1) :
        events[f].record = events[e].record
            => events[f].status \notin {"PENDING", "PROCESSING", "DEAD"}

\* Mutant: an event whose process died is not claimed again.
MutantDue(t) ==
    {e \in Ids : Target(events[e].record) = t /\ events[e].status = "PENDING" /\ First(e)}

Due(t) ==
    {e \in Ids : /\ Target(events[e].record) = t
                 /\ \/ events[e].status = "PENDING"
                    \/ events[e].status = "PROCESSING" /\ e \notin leased
                 /\ First(e)}

\* Attempts are only compared with MaxAttempts, so they are counted that far:
\* an attempt whose process dies is counted too, but never makes an event DEAD.
Counted(n) == IF n > MaxAttempts THEN MaxAttempts ELSE n

Claim(d, t) ==
    LET due == Due(t)
        batch == {e \in due : Cardinality({f \in due : f < e}) < BatchSize}
    IN  /\ dispatcher[d].step = "IDLE"
        /\ t \notin paused
        /\ batch # {}
        /\ events' = [e \in Ids |-> IF e \in batch
                        THEN [events[e] EXCEPT !.status = "PROCESSING",
                                               !.attempts = Counted(@ + 1)]
                        ELSE events[e]]
        /\ leased' = leased \cup batch
        /\ dispatcher' = [dispatcher EXCEPT ![d] =
                            [step |-> "CALL", read |-> "NONE",
                             batch |-> [e \in batch |-> Counted(events[e].attempts + 1)]]]
        /\ seized' = seized \cup {events[e].record :
                        e \in batch \cap UNION {DOMAIN dispatcher[c].batch : c \in Dispatchers}}
        /\ UNCHANGED <<records, failures, paused, overtaken>>

\* locked_until passes.
LeaseExpires(e) ==
    /\ e \in leased
    /\ leased' = leased \ {e}
    /\ UNCHANGED <<records, events, failures, paused, dispatcher, history>>

\* The process dies, or loses the database, wherever it is.
Dies(d) ==
    /\ dispatcher[d].step # "IDLE"
    /\ dispatcher' = [dispatcher EXCEPT ![d] = Idle]
    /\ UNCHANGED <<records, events, leased, failures, paused, history>>

-----------------------------------------------------------------------------
(* Delivering the first event of the batch. *)

Current(d) == Min(DOMAIN dispatcher[d].batch)
Delivers(d, type) == events[Current(d)].type = type
RecordOf(d) == events[Current(d)].record

At(d, step) == dispatcher[d].step = step
Goes(d, step, read) ==
    dispatcher' = [dispatcher EXCEPT ![d] = [step |-> step, batch |-> @.batch, read |-> read]]

\* Mutant: a retry does not look for the ticket of the first attempt.
MutantLooksForLinkOnly(d) ==
    /\ At(d, "CALL") /\ Delivers(d, "CREATE")
    /\ Goes(d, IF RecordOf(d) \in linked THEN "DONE" ELSE "CREATE", "NONE")
    /\ UNCHANGED <<records, events, leased, failures, paused, history>>

\* createCaseTicket looks for the link, then for a ticket an earlier attempt
\* may have left.
LookForTicket(d) ==
    /\ At(d, "CALL") /\ Delivers(d, "CREATE")
    /\ Goes(d, IF RecordOf(d) \in linked THEN "DONE"
               ELSE IF tickets[RecordOf(d)] > 0 THEN "LINK" ELSE "CREATE", "NONE")
    /\ UNCHANGED <<records, events, leased, failures, paused, history>>

\* The answer may be lost although the ticket exists.
CreateTicket(d, answered) ==
    /\ At(d, "CREATE")
    /\ tickets' = [tickets EXCEPT ![RecordOf(d)] = @ + 1]
    /\ ticket' = [ticket EXCEPT ![RecordOf(d)] = "OPEN"]
    /\ Goes(d, IF answered THEN "LINK" ELSE "RETRYABLE", "NONE")
    /\ UNCHANGED <<case, linked, source, writing, copy, events, leased, failures, paused,
                   history>>

SaveLink(d) ==
    /\ At(d, "LINK")
    /\ linked' = linked \cup {RecordOf(d)}
    /\ Goes(d, "DONE", "NONE")
    /\ UNCHANGED <<case, tickets, ticket, source, writing, copy, events, leased, failures,
                   paused, history>>

\* pullCaseTicket, syncCustomer and syncBooking read the current state.
ReadState(d) ==
    /\ At(d, "CALL") /\ ~Delivers(d, "CREATE")
    /\ IF Delivers(d, "SYNC") THEN Goes(d, "WRITE", source[RecordOf(d)])
       ELSE IF RecordOf(d) \in linked THEN Goes(d, "WRITE", ticket[RecordOf(d)])
       ELSE Goes(d, "DONE", "NONE")
    /\ UNCHANGED <<records, events, leased, failures, paused, history>>

\* The upsert in Zoho CRM; its answer may be lost too.
Upsert(d, answered) ==
    /\ At(d, "WRITE") /\ Delivers(d, "SYNC")
    /\ copy' = [copy EXCEPT ![RecordOf(d)] = dispatcher[d].read]
    /\ Goes(d, IF answered THEN "DONE" ELSE "RETRYABLE", "NONE")
    /\ UNCHANGED <<case, tickets, ticket, linked, source, writing, events, leased,
                   failures, paused, history>>

\* applyExternalStatus: closed cases are left alone.
ApplyExternalStatus(d) ==
    /\ At(d, "WRITE") /\ Delivers(d, "PULL")
    /\ case' = IF case[RecordOf(d)] = "CLOSED" THEN case
               ELSE [case EXCEPT ![RecordOf(d)] = dispatcher[d].read]
    /\ Goes(d, "DONE", "NONE")
    /\ UNCHANGED <<tickets, ticket, linked, source, writing, copy, events, leased,
                   failures, paused, history>>

\* A call fails without effect; saving the link or the case's status can only
\* fail in the database, which counts as RETRYABLE.
DeskFails(d, kind) ==
    /\ dispatcher[d].step \in {"CALL", "CREATE", "LINK", "WRITE"}
    /\ At(d, "LINK") \/ (At(d, "WRITE") /\ Delivers(d, "PULL")) => kind = "RETRYABLE"
    /\ Goes(d, kind, "NONE")
    /\ UNCHANGED <<records, events, leased, failures, paused, history>>

-----------------------------------------------------------------------------
(* Recording the outcome.  Every update is by id alone: a process that lost  *)
(* its lease writes over what the next one did.                              *)

\* On to the next event of the batch.
GoesOn(d) ==
    LET rest == DOMAIN dispatcher[d].batch \ {Current(d)}
    IN  dispatcher' = [dispatcher EXCEPT ![d] =
            IF rest = {} THEN Idle
            ELSE [step |-> "CALL", read |-> "NONE",
                  batch |-> [e \in rest |-> dispatcher[d].batch[e]]]]

Stops(d) == dispatcher' = [dispatcher EXCEPT ![d] = Idle]

\* finish and recordSuccess.
Succeed(d) ==
    /\ At(d, "DONE")
    /\ events' = [events EXCEPT ![Current(d)].status = "SUCCEEDED", ![Current(d)].attempts = 0]
    /\ leased' = leased \ {Current(d)}
    /\ failures' = [failures EXCEPT ![Target(RecordOf(d))] = 0]
    /\ GoesOn(d)
    /\ UNCHANGED <<records, paused, history>>

\* integration_event_coalesce_uq: putting an event back fails when another of
\* its kind has become pending meanwhile.
Collides(e) ==
    /\ Coalescible(events[e].type)
    /\ \E f \in Ids \ {e} : /\ events[f].record = events[e].record
                            /\ events[f].type = events[e].type
                            /\ events[f].status = "PENDING"

\* release: the rest of the batch goes back, in one statement or not at all.
Rest(d) == {e \in DOMAIN dispatcher[d].batch :
                e > Current(d) /\ events[e].status = "PROCESSING"}
Released(d) == IF \E e \in Rest(d) : Collides(e) THEN {} ELSE Rest(d)

PutBack(e) == [e EXCEPT !.status = "PENDING", !.attempts = IF @ = 0 THEN 0 ELSE @ - 1]

\* A failure that is not the event's fault: the attempt is not counted and the
\* target is paused -- unless putting the event back fails, which ends the run
\* of the job there.
RecordPause(d) ==
    /\ At(d, "PAUSING")
    /\ IF Collides(Current(d))
       THEN UNCHANGED <<events, leased, paused>>
       ELSE LET back == Released(d) \cup {Current(d)}
            IN  /\ events' = [e \in Ids |-> IF e \in back THEN PutBack(events[e])
                                            ELSE events[e]]
                /\ leased' = leased \ back
                /\ paused' = paused \cup {Target(RecordOf(d))}
    /\ Stops(d)
    /\ UNCHANGED <<records, failures, history>>

\* A failure that counts: DEAD after the last attempt, else once more; too many
\* in a row pause the target.
RecordFailure(d) ==
    LET e == Current(d)
        t == Target(RecordOf(d))
        dead == At(d, "PERMANENT") \/ dispatcher[d].batch[e] >= MaxAttempts
        failed == IF dead THEN [events EXCEPT ![e].status = "DEAD", ![e].attempts = 0]
                  ELSE [events EXCEPT ![e].status = "PENDING"]
    IN  /\ dispatcher[d].step \in {"RETRYABLE", "PERMANENT"}
        /\ IF ~dead /\ Collides(e)
           THEN Stops(d) /\ UNCHANGED <<events, leased, failures, paused>>
           ELSE IF failures[t] + 1 < Threshold
           THEN /\ events' = failed
                /\ leased' = leased \ {e}
                /\ failures' = [failures EXCEPT ![t] = @ + 1]
                /\ GoesOn(d)
                /\ UNCHANGED paused
           ELSE /\ events' = [f \in Ids |-> IF f \in Released(d) THEN PutBack(events[f])
                                            ELSE failed[f]]
                /\ leased' = leased \ (Released(d) \cup {e})
                /\ failures' = [failures EXCEPT ![t] = Threshold]
                /\ paused' = paused \cup {t}
                /\ Stops(d)
        /\ UNCHANGED <<records, history>>

-----------------------------------------------------------------------------
(* IntegrationMonitor, and the end of a pause. *)

\* Staff send a DEAD event again; the same unique index may refuse it.
RetryDead(e) ==
    /\ events[e].status = "DEAD"
    /\ ~Collides(e)
    /\ events' = [events EXCEPT ![e].status = "PENDING"]
    /\ UNCHANGED <<records, leased, failures, paused, dispatcher, history>>

DiscardDead(e) ==
    /\ events[e].status = "DEAD"
    /\ events' = [events EXCEPT ![e].status = "DISCARDED"]
    /\ UNCHANGED <<records, leased, failures, paused, dispatcher, history>>

PauseEnds(t) ==
    /\ t \in paused
    /\ paused' = paused \ {t}
    /\ UNCHANGED <<records, events, leased, failures, dispatcher, history>>

\* Staff lift a pause early.
ResumeTarget(t) ==
    /\ t \in paused
    /\ paused' = paused \ {t}
    /\ failures' = [failures EXCEPT ![t] = 0]
    /\ UNCHANGED <<records, events, leased, dispatcher, history>>

-----------------------------------------------------------------------------
OutboxInit ==
    /\ case = [c \in Cases |-> "NONE"]
    /\ tickets = [c \in Cases |-> 0]
    /\ ticket = [c \in Cases |-> "NONE"]
    /\ linked = {}
    /\ source \in [Mirrored -> States]
    /\ copy = source
    /\ writing = [r \in Mirrored |-> "NONE"]
    /\ events = <<>>
    /\ leased = {}
    /\ failures = [t \in Targets |-> 0]
    /\ paused = {}
    /\ dispatcher = [d \in Dispatchers |-> Idle]
    /\ seized = {} /\ overtaken = {}

GetsOn(d) ==
    \/ \E t \in Targets : Claim(d, t)
    \/ LookForTicket(d) \/ CreateTicket(d, TRUE) \/ SaveLink(d)
    \/ ReadState(d) \/ Upsert(d, TRUE) \/ ApplyExternalStatus(d)
    \/ Succeed(d) \/ RecordPause(d) \/ RecordFailure(d)

Fails(d) ==
    \/ Dies(d) \/ CreateTicket(d, FALSE) \/ Upsert(d, FALSE)
    \/ \E kind \in Failures : DeskFails(d, kind)

OutboxNext ==
    \/ \E c \in Cases : \/ OpenCase(c) \/ ActOnCase(c) \/ TicketChanges(c)
                       \/ DeskWebhook(c) \/ SchedulePull(c)
    \/ \E r \in Mirrored : RecordChanges(r) \/ Commits(r) \/ RollsBack(r)
    \/ \E d \in Dispatchers : GetsOn(d) \/ Fails(d)
    \/ \E e \in Ids : LeaseExpires(e) \/ RetryDead(e) \/ DiscardDead(e)
    \/ \E t \in Targets : PauseEnds(t) \/ ResumeTarget(t)

OutboxSpec == OutboxInit /\ [][OutboxNext]_outbox

-----------------------------------------------------------------------------
(* Safety. *)

Unfinished(e) == events[e].status \in {"PENDING", "PROCESSING", "DEAD"}

\* "Create the Zoho Desk ticket for a new support case (exactly once)": through
\* lost answers, failures, crashes and retries a case gets one ticket, unless one of
\* its events was taken from a process that was still at work: both may find that
\* there is none.
OneTicketUnlessSeized == \A c \in Cases \ seized : tickets[c] <= 1

\* "Events for one record are delivered in order": while one is unfinished, none
\* after it has been touched, unless one was taken from a process at work.
DeliveredInOrder ==
    \A e, f \in Ids :
        /\ e < f
        /\ events[e].record = events[f].record /\ events[e].record \notin seized
        /\ Unfinished(e)
        => events[f].status = "PENDING"

\* The record is as Zoho CRM has it, or has an event that will bring it, or staff
\* gave one up.
Mirrors(r) ==
    copy[r] # source[r]
        => \E e \in Ids : /\ events[e].record = r
                          /\ Unfinished(e) \/ events[e].status = "DISCARDED"

\* "While one is still pending, further changes to X need no new event (it will
\* read the latest state anyway)": no change is lost by that.  One that is not
\* committed when the pending event is delivered breaks it.
NoChangeIsLost == \A r \in Mirrored : Mirrors(r)

\* A change is lost in no other way: not by crashes, failures, retries, events
\* coalesced or put back, only if it was committed after the event it was left
\* to had been claimed, or if a process at work lost an event of the record.
OtherChangesAreKept == \A r \in Mirrored \ (overtaken \cup seized) : Mirrors(r)

-----------------------------------------------------------------------------
(* Liveness.  The job runs again and again, leases and pauses end, and Zoho  *)
(* and our processes are not in trouble for ever.                            *)

Trouble ==
    \E d \in Dispatchers :
        \/ dispatcher[d].step \notin Failures /\ dispatcher'[d].step \in Failures
        \/ Dies(d)

OutboxFairness ==
    /\ \A e \in 1..MaxEvents : WF_outbox(e \in Ids /\ LeaseExpires(e))
    /\ \A t \in Targets : WF_outbox(PauseEnds(t))
    /\ \A d \in Dispatchers : WF_outbox(GetsOn(d))
    /\ <>[][~Trouble]_outbox

\* Every event is delivered in the end, unless it or an earlier event of its
\* record is DEAD and waits for staff.
Settled(e) ==
    /\ e \in Ids
    /\ \/ events[e].status \in {"SUCCEEDED", "DISCARDED"}
       \/ \E f \in 1..e : events[f].record = events[e].record /\ events[f].status = "DEAD"

EventsAreDelivered == []<>(\A e \in Ids : Settled(e))
=============================================================================
