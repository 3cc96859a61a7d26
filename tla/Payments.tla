------------------------------ MODULE Payments ------------------------------
(***************************************************************************)
(* Paying for one booking.  The customer may open several checkouts, the   *)
(* gateway raises webhooks that arrive late, repeatedly, out of order or   *)
(* never, and the reconciliation job asks the gateway directly and         *)
(* captures what is only authorized.  A gateway call is made outside the   *)
(* database transactions around it, so other operations come between.      *)
(*                                                                         *)
(* Amounts are left out: a gateway payment has the amount of its order,    *)
(* and Refunds models what a refund amounts to.  CONFIRMED stands for      *)
(* every later status of a booking that was not cancelled.  One call to    *)
(* the gateway is in flight per payment, one attempt of a checkout may     *)
(* fail, and MaxFailedAttempts checkouts may have one that does.           *)
(***************************************************************************)
EXTENDS Naturals, FiniteSets

CONSTANTS Payments, MaxFailedAttempts

ASSUME BoundAssumption == MaxFailedAttempts \in Nat

VARIABLES
    booking,   \* the booking's status
    due,       \* payment_due_by has passed
    payment,   \* the payment rows
    opening,   \* payments whose gateway order is being created
    recent,    \* payments whose authorized_at is within AUTHORIZATION_GRACE
    gateway,   \* what the gateway knows of each order
    webhooks,  \* the webhooks the gateway has raised
    stored,    \* payment_event: the ids of the events processed
    call,      \* where the reconciliation of each order stands
    tooLate    \* payments first authorized after the booking had ended

vars == <<booking, due, payment, opening, recent, gateway, webhooks, stored, call, tooLate>>
server == <<booking, due, payment, opening, recent, stored>>

-----------------------------------------------------------------------------
NoPayment == [status |-> "NONE", order |-> FALSE, duplicate |-> FALSE, refund |-> "NONE"]

\* `order': provider_order_id and checkout are saved.  `refund': what was
\* requested when the payment had to be returned -- all of it, or whatever the
\* cancellation policy says of a booking cancelled after it was paid.
Payment ==
    [status : {"NONE", "CREATED", "AUTHORIZED", "CAPTURED", "FAILED"},
     order : BOOLEAN, duplicate : BOOLEAN, refund : {"NONE", "POLICY", "FULL"}]

Outcomes == {"FAILED", "AUTHORIZED", "CAPTURED"}
EventIds == {"webhook", "status"} \X Payments \X Outcomes

TypeOK ==
    /\ booking \in {"PENDING_PAYMENT", "CONFIRMED", "CANCELLED", "EXPIRED"}
    /\ due \in BOOLEAN
    /\ payment \in [Payments -> Payment]
    /\ opening \in SUBSET Payments
    /\ recent \in SUBSET Payments
    /\ gateway \in [Payments -> {"NONE", "OPEN"} \cup Outcomes]
    /\ webhooks \in SUBSET (Payments \X Outcomes)
    /\ stored \in SUBSET EventIds
    /\ call \in [Payments -> {"NONE", "DECIDE", "CAPTURE"} \cup Outcomes]
    /\ tooLate \in SUBSET Payments

Ended == booking \in {"CANCELLED", "EXPIRED"}
PaysForBooking(p) == payment[p].status = "CAPTURED" /\ ~payment[p].duplicate

-----------------------------------------------------------------------------
(* Opening a checkout. *)

\* PaymentService.initiate, first transaction: an open order is reused, so a
\* second one is opened only when none is; an order still being created after a
\* minute is abandoned.
Initiate(p) ==
    /\ booking = "PENDING_PAYMENT" /\ ~due
    /\ payment[p].status = "NONE"
    /\ ~\E q \in Payments : payment[q].status = "CREATED" /\ payment[q].order
    /\ payment' = [q \in Payments |->
          IF q = p THEN [NoPayment EXCEPT !.status = "CREATED"]
          ELSE IF payment[q].status = "CREATED" THEN [payment[q] EXCEPT !.status = "FAILED"]
          ELSE payment[q]]
    /\ opening' = opening \cup {p}
    /\ UNCHANGED <<booking, due, recent, gateway, webhooks, stored, call, tooLate>>

\* The gateway created the order and the second transaction saved it, whatever
\* became of the payment or the booking meanwhile.
OrderCreated(p) ==
    /\ p \in opening
    /\ opening' = opening \ {p}
    /\ gateway' = [gateway EXCEPT ![p] = "OPEN"]
    /\ payment' = [payment EXCEPT ![p].order = TRUE]
    /\ UNCHANGED <<booking, due, recent, webhooks, stored, call, tooLate>>

OrderNotCreated(p) ==
    /\ p \in opening
    /\ opening' = opening \ {p}
    /\ payment' = [payment EXCEPT ![p].status = "FAILED"]
    /\ UNCHANGED <<booking, due, recent, gateway, webhooks, stored, call, tooLate>>

\* The process dies between the two transactions.
OpeningLost(p) ==
    /\ p \in opening
    /\ opening' = opening \ {p}
    /\ UNCHANGED <<booking, due, payment, recent, gateway, webhooks, stored, call, tooLate>>

-----------------------------------------------------------------------------
(* The gateway and the customer at its checkout (external). *)

GatewaySays(p, outcome) ==
    /\ gateway' = [gateway EXCEPT ![p] = outcome]
    /\ webhooks' = webhooks \cup {<<p, outcome>>}

AttemptFails(p) ==
    /\ gateway[p] = "OPEN"
    /\ Cardinality({q \in Payments : <<q, "FAILED">> \in webhooks}) < MaxFailedAttempts
    /\ GatewaySays(p, "FAILED")
    /\ UNCHANGED <<server, call, tooLate>>

Authorize(p) ==
    /\ gateway[p] \in {"OPEN", "FAILED"}
    /\ GatewaySays(p, "AUTHORIZED")
    /\ tooLate' = IF Ended THEN tooLate \cup {p} ELSE tooLate
    /\ UNCHANGED <<server, call>>

\* Automatic capture, when the gateway account has it turned on.
AutoCapture(p) ==
    /\ gateway[p] = "AUTHORIZED"
    /\ GatewaySays(p, "CAPTURED")
    /\ UNCHANGED <<server, call, tooLate>>

-----------------------------------------------------------------------------
(* Gateway events. *)

\* applyAuthorized: the booking is neither locked nor looked at.
ApplyAuthorized(p) ==
    /\ IF payment[p].status \in {"CREATED", "FAILED"}
       THEN /\ payment' = [payment EXCEPT ![p].status = "AUTHORIZED"]
            /\ recent' = recent \cup {p}
       ELSE UNCHANGED <<payment, recent>>
    /\ UNCHANGED booking

\* Mutant: a payment given up as FAILED is not taken back.
MutantNeedsOpenPayment(p) ==
    /\ IF payment[p].status \in {"CAPTURED", "FAILED"}
       THEN UNCHANGED <<payment, booking>>
       ELSE LET duplicate == \E q \in Payments : PaysForBooking(q) IN
            /\ payment' = [payment EXCEPT ![p] =
                  [@ EXCEPT !.status = "CAPTURED", !.duplicate = duplicate,
                            !.refund = IF duplicate \/ Ended THEN "FULL" ELSE "NONE"]]
            /\ booking' = IF ~duplicate /\ booking = "PENDING_PAYMENT"
                          THEN "CONFIRMED" ELSE booking
    /\ UNCHANGED recent

\* Mutant: the other payments of the booking are not looked at.
MutantChargesTwice(p) ==
    /\ IF payment[p].status = "CAPTURED"
       THEN UNCHANGED <<payment, booking>>
       ELSE /\ payment' = [payment EXCEPT ![p] =
                  [@ EXCEPT !.status = "CAPTURED", !.duplicate = FALSE,
                            !.refund = IF Ended THEN "FULL" ELSE "NONE"]]
            /\ booking' = IF booking = "PENDING_PAYMENT" THEN "CONFIRMED" ELSE booking
    /\ UNCHANGED recent

\* applyCaptured: the first captured payment confirms the booking; a second
\* one, or one that comes after the booking ended, is returned in full.
ApplyCaptured(p) ==
    /\ IF payment[p].status = "CAPTURED"
       THEN UNCHANGED <<payment, booking>>
       ELSE LET duplicate == \E q \in Payments : PaysForBooking(q) IN
            /\ payment' = [payment EXCEPT ![p] =
                  [@ EXCEPT !.status = "CAPTURED", !.duplicate = duplicate,
                            !.refund = IF duplicate \/ Ended THEN "FULL" ELSE "NONE"]]
            /\ booking' = IF ~duplicate /\ booking = "PENDING_PAYMENT"
                          THEN "CONFIRMED" ELSE booking
    /\ UNCHANGED recent

\* Mutant: a failure is applied whatever the payment has become.
MutantFailsCaptured(p) ==
    /\ payment' = [payment EXCEPT ![p].status = "FAILED"]
    /\ UNCHANGED <<booking, recent>>

\* applyFailed: the event names the order, not the attempt that failed.
ApplyFailed(p) ==
    /\ payment' = IF payment[p].status \in {"CREATED", "AUTHORIZED"}
                  THEN [payment EXCEPT ![p].status = "FAILED"]
                  ELSE payment
    /\ UNCHANGED <<booking, recent>>

\* processEvent: the first event with this id is applied, a repeated one is a
\* DUPLICATE.  Both are one transaction.
ProcessEvent(from, p, outcome) ==
    /\ IF <<from, p, outcome>> \in stored
       THEN UNCHANGED <<booking, payment, recent, stored>>
       ELSE /\ stored' = stored \cup {<<from, p, outcome>>}
            /\ CASE outcome = "AUTHORIZED" -> ApplyAuthorized(p)
                 [] outcome = "CAPTURED" -> ApplyCaptured(p)
                 [] outcome = "FAILED" -> ApplyFailed(p)
    /\ UNCHANGED <<due, opening>>

\* handleWebhook: any webhook raised so far, in any order, any number of times.
DeliverWebhook(p, outcome) ==
    /\ <<p, outcome>> \in webhooks
    /\ ProcessEvent("webhook", p, outcome)
    /\ UNCHANGED <<gateway, webhooks, call, tooLate>>

-----------------------------------------------------------------------------
(* Asking the gateway: reconcileOrder. *)

\* The gateway answers fetchOrderStatus; PENDING ends the reconciliation.
FetchStatus(p) ==
    /\ call[p] = "NONE"
    /\ payment[p].order
    /\ gateway[p] \in Outcomes
    /\ call' = [call EXCEPT ![p] = gateway[p]]
    /\ UNCHANGED <<server, gateway, webhooks, tooLate>>

\* reconcileOpenPayments, the job: the payments it considers open.
JobAsks(p) ==
    /\ \/ payment[p].status = "CREATED"
       \/ payment[p].status \in {"AUTHORIZED", "FAILED"} /\ booking = "PENDING_PAYMENT"
    /\ FetchStatus(p)

\* refreshFromGateway: "I have paid", from the app.
CustomerAsks(p) ==
    /\ payment[p].status \in {"CREATED", "AUTHORIZED"}
    /\ FetchStatus(p)

\* The answer is applied like a webhook, under an id of the same outcome.
ApplyStatus(p) ==
    /\ call[p] \in Outcomes
    /\ ProcessEvent("status", p, call[p])
    /\ call' = [call EXCEPT ![p] = IF @ = "AUTHORIZED" THEN "DECIDE" ELSE "NONE"]
    /\ UNCHANGED <<gateway, webhooks, tooLate>>

\* Mutant: whether the booking can still be paid is not checked.
MutantCapturesAnyway(p) ==
    /\ call[p] = "DECIDE"
    /\ call' = [call EXCEPT ![p] =
          IF payment[p].status = "AUTHORIZED" THEN "CAPTURE" ELSE "NONE"]
    /\ UNCHANGED <<server, gateway, webhooks, tooLate>>

\* Read without a lock, and acted on in the next step.
DecideCapture(p) ==
    /\ call[p] = "DECIDE"
    /\ call' = [call EXCEPT ![p] =
          IF payment[p].status = "AUTHORIZED" /\ booking = "PENDING_PAYMENT"
          THEN "CAPTURE" ELSE "NONE"]
    /\ UNCHANGED <<server, gateway, webhooks, tooLate>>

\* capturePayment: an already captured payment is as good as one captured now.
Capture(p) ==
    /\ call[p] = "CAPTURE"
    /\ gateway[p] \in {"AUTHORIZED", "CAPTURED"}
    /\ GatewaySays(p, "CAPTURED")
    /\ call' = [call EXCEPT ![p] = "CAPTURED"]
    /\ UNCHANGED <<server, tooLate>>

\* A call times out, the gateway refuses, or the process dies, before or after
\* the gateway did what it was asked: the next run of the job starts over.
CallFails(p) ==
    /\ call[p] # "NONE"
    /\ call' = [call EXCEPT ![p] = "NONE"]
    /\ \/ call[p] = "CAPTURE" /\ gateway[p] = "AUTHORIZED" /\ GatewaySays(p, "CAPTURED")
       \/ UNCHANGED <<gateway, webhooks>>
    /\ UNCHANGED <<server, tooLate>>

-----------------------------------------------------------------------------
(* The booking. *)

DeadlinePasses ==
    /\ ~due
    /\ due' = TRUE
    /\ UNCHANGED <<booking, payment, opening, recent, gateway, webhooks, stored, call, tooLate>>

\* AUTHORIZATION_GRACE after the authorization was recorded.
GraceEnds(p) ==
    /\ p \in recent
    /\ recent' = recent \ {p}
    /\ UNCHANGED <<booking, due, payment, opening, gateway, webhooks, stored, call, tooLate>>

ExpireUnpaid ==
    /\ booking = "PENDING_PAYMENT" /\ due
    /\ ~\E p \in recent : payment[p].status = "AUTHORIZED"
    /\ booking' = "EXPIRED"
    /\ UNCHANGED <<due, payment, opening, recent, gateway, webhooks, stored, call, tooLate>>

\* Operations accept payment after the service.
ConfirmWithoutPrepayment ==
    /\ booking = "PENDING_PAYMENT"
    /\ booking' = "CONFIRMED"
    /\ UNCHANGED <<due, payment, opening, recent, gateway, webhooks, stored, call, tooLate>>

\* Mutant: the cancellation forgets the money.
MutantCancelsOnly ==
    /\ booking \in {"PENDING_PAYMENT", "CONFIRMED"}
    /\ booking' = "CANCELLED"
    /\ UNCHANGED <<due, payment, opening, recent, gateway, webhooks, stored, call, tooLate>>

\* BookingCancellationService.cancel: the payment that pays for the booking is
\* refunded by policy in the same transaction.
Cancel ==
    /\ booking \in {"PENDING_PAYMENT", "CONFIRMED"}
    /\ booking' = "CANCELLED"
    /\ payment' = [p \in Payments |->
          IF PaysForBooking(p) THEN [payment[p] EXCEPT !.refund = "POLICY"] ELSE payment[p]]
    /\ UNCHANGED <<due, opening, recent, gateway, webhooks, stored, call, tooLate>>

-----------------------------------------------------------------------------
Init ==
    /\ booking = "PENDING_PAYMENT"
    /\ due = FALSE
    /\ payment = [p \in Payments |-> NoPayment]
    /\ opening = {}
    /\ recent = {}
    /\ gateway = [p \in Payments |-> "NONE"]
    /\ webhooks = {}
    /\ stored = {}
    /\ call = [p \in Payments |-> "NONE"]
    /\ tooLate = {}

PaymentStep(p) ==
    \/ Initiate(p) \/ OrderCreated(p) \/ OrderNotCreated(p) \/ OpeningLost(p)
    \/ AttemptFails(p) \/ Authorize(p) \/ AutoCapture(p)
    \/ \E outcome \in Outcomes : DeliverWebhook(p, outcome)
    \/ JobAsks(p) \/ CustomerAsks(p) \/ ApplyStatus(p) \/ DecideCapture(p)
    \/ Capture(p) \/ CallFails(p)
    \/ GraceEnds(p)

Next ==
    \/ \E p \in Payments : PaymentStep(p)
    \/ DeadlinePasses \/ ExpireUnpaid \/ ConfirmWithoutPrepayment \/ Cancel

Spec == Init /\ [][Next]_vars

-----------------------------------------------------------------------------
(* Safety. *)

\* "A booking can never have two captured payments", other than one that is
\* being returned: however many checkouts are paid, at most one pays.
ChargedOnce ==
    \A p, q \in Payments :
        payment[p].status = "CAPTURED" /\ payment[q].status = "CAPTURED" /\ p # q
            => \/ payment[p].duplicate /\ payment[p].refund = "FULL"
               \/ payment[q].duplicate /\ payment[q].refund = "FULL"

\* Captured money is never kept for nothing: it pays for a booking that goes
\* ahead, or it is returned -- in full if it came after the booking ended, by
\* policy if the booking was cancelled after it was paid.
MoneyHasAPurpose ==
    \A p \in Payments :
        payment[p].status = "CAPTURED" /\ payment[p].refund # "FULL"
            => \/ booking = "CONFIRMED"
               \/ booking = "CANCELLED" /\ payment[p].refund = "POLICY"

\* A failure, an authorization or a status answer that arrives after a capture
\* does not undo it.
CaptureIsFinal ==
    [][ \A p \in Payments :
          payment[p].status = "CAPTURED" => payment'[p].status = "CAPTURED" ]_vars

\* "An authorization after expiry is never captured" by the server, although it
\* reads the booking without a lock before it calls the gateway.
NeverCapturesTooLate ==
    [][ \A p \in tooLate : ~Capture(p) ]_vars

\* docs/05-architecture.md: "A booking whose payment is authorized is not
\* expired during a 30-minute grace period."
AuthorizedIsNotExpired ==
    [][ ExpireUnpaid => ~\E p \in recent : gateway[p] = "AUTHORIZED" ]_vars

-----------------------------------------------------------------------------
(* Liveness.  The job runs every minute and a call that is retried for ever   *)
(* is answered some time.                                                     *)

JobFairness ==
    \A p \in Payments :
        /\ SF_vars(JobAsks(p))
        /\ SF_vars(ApplyStatus(p))
        /\ SF_vars(DecideCapture(p))
        /\ SF_vars(Capture(p))

\* The gateway redelivers a webhook until it is answered.
WebhookFairness ==
    \A p \in Payments, outcome \in Outcomes : WF_vars(DeliverWebhook(p, outcome))

FairSpec == Spec /\ JobFairness /\ WebhookFairness
LostWebhookSpec == Spec /\ JobFairness

\* Money the gateway took is known here in the end.
CaptureIsRecorded ==
    \A p \in Payments :
        gateway[p] = "CAPTURED" ~> payment[p].status = "CAPTURED"

\* The same when every webhook is lost: docs/07-operations-and-recovery.md says
\* the reconcile-payments job "asks Razorpay about every open payment".
CaptureIsRecordedByJob == CaptureIsRecorded
=============================================================================
