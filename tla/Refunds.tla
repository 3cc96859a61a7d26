------------------------------ MODULE Refunds ------------------------------
(***************************************************************************)
(* The refunds of one captured payment, from the request to the gateway    *)
(* and back.  Sending one takes several calls and transactions: the row is *)
(* claimed as PROCESSING, the gateway is asked whether it already has this *)
(* refund, one is created if not, and the answer is recorded.  A call may  *)
(* time out after the gateway acted, the process may die anywhere, and the *)
(* webhook may come first, late or never.                                  *)
(*                                                                         *)
(* A call is over (15 s each) long before a stuck refund is looked at      *)
(* (10 min) or a failed one retried (15 min), so one call is in flight per *)
(* refund.  The gateway fails at most MaxGatewayFailures refunds.          *)
(***************************************************************************)
EXTENDS Naturals, FiniteSets, Functions

CONSTANTS Refunds, Captured, MaxGatewayFailures

ASSUME AmountAssumption == Captured \in Nat \ {0} /\ MaxGatewayFailures \in Nat

VARIABLES
    cancelled,  \* the booking was cancelled
    refund,     \* the refund rows
    call,       \* where the call to the gateway about each refund stands
    gateway,    \* the gateway's refund under our reference
    created,    \* how often a refund was created at the gateway
    webhooks,   \* outcomes the gateway has announced
    stored      \* announcements that were processed (payment_event)

refundVars == <<cancelled, refund, call, gateway, created, webhooks, stored>>

-----------------------------------------------------------------------------
Statuses ==
    {"NONE", "REQUESTED", "APPROVED", "REJECTED", "PROCESSING", "PROCESSED", "FAILED"}
Known == {"PROCESSING", "PROCESSED", "FAILED"}

\* Nothing under way; about to look the refund up; about to create it; with the
\* gateway's answer to record; with its answer about a stuck refund to record.
Steps == {"NONE", "FIND", "CREATE", "SENT", "STUCK"}

CallGoes(r, step, known) == call' = [call EXCEPT ![r] = [step |-> step, known |-> known]]
Status(r, status) == refund' = [refund EXCEPT ![r].status = status]

\* Mutant: failed refunds do not count against the captured amount.
MutantRemaining ==
    Captured - SumFunction([r \in Refunds |->
        IF refund[r].status \in {"NONE", "REJECTED", "FAILED"} THEN 0 ELSE refund[r].amount])

\* Captured and not yet promised back; refund_guard checks it again under a
\* lock on the payment row.
Remaining ==
    Captured - SumFunction([r \in Refunds |->
        IF refund[r].status \in {"NONE", "REJECTED"} THEN 0 ELSE refund[r].amount])

-----------------------------------------------------------------------------
(* Requests and decisions. *)

\* requestInTx: an amount above what remains is refused.
Request(r, amount, status) ==
    /\ refund[r].status = "NONE"
    /\ amount \in 1..Remaining
    /\ refund' = [refund EXCEPT ![r] = [status |-> status, amount |-> amount]]

\* Staff request a refund; it waits for a second person.
RequestRefund(r, amount) ==
    /\ Request(r, amount, "REQUESTED")
    /\ UNCHANGED <<cancelled, call, gateway, created, webhooks, stored>>

\* Cancellation by the customer: the policy's share of the captured amount is
\* refunded, approved by the policy -- and the whole cancellation fails when
\* that share is more than what remains.
CancelByCustomer(r, share) ==
    /\ ~cancelled
    /\ cancelled' = TRUE
    /\ IF share = 0 THEN UNCHANGED refund ELSE Request(r, share, "APPROVED")
    /\ UNCHANGED <<call, gateway, created, webhooks, stored>>

\* Cancellation by the company: whatever remains.
CancelByCompany(r) ==
    /\ ~cancelled
    /\ cancelled' = TRUE
    /\ IF Remaining = 0 THEN UNCHANGED refund ELSE Request(r, Remaining, "APPROVED")
    /\ UNCHANGED <<call, gateway, created, webhooks, stored>>

\* approve and reject.
Decide(r) ==
    /\ refund[r].status = "REQUESTED"
    /\ \E decision \in {"APPROVED", "REJECTED"} : Status(r, decision)
    /\ UNCHANGED <<cancelled, call, gateway, created, webhooks, stored>>

-----------------------------------------------------------------------------
(* Sending a refund: initiate. *)

\* The row is claimed under its lock, by the request that approved it or by the
\* job (a FAILED one after 15 minutes).
Claim(r) ==
    /\ refund[r].status \in {"APPROVED", "FAILED"}
    /\ call[r].step = "NONE"
    /\ Status(r, "PROCESSING")
    /\ CallGoes(r, "FIND", "NONE")
    /\ UNCHANGED <<cancelled, gateway, created, webhooks, stored>>

\* Mutant: a retry creates the refund without looking for it.
MutantNeverLooks(r) ==
    /\ call[r].step = "FIND"
    /\ CallGoes(r, "CREATE", "NONE")
    /\ UNCHANGED <<cancelled, refund, gateway, created, webhooks, stored>>

\* findRefund by our reference, whatever became of it.
Find(r) ==
    /\ call[r].step = "FIND"
    /\ CallGoes(r, IF gateway[r] = "NONE" THEN "CREATE" ELSE "SENT", gateway[r])
    /\ UNCHANGED <<cancelled, refund, gateway, created, webhooks, stored>>

\* The gateway creates a refund and may pay it at once (external).
CreatedAtGateway(r) ==
    /\ created' = [created EXCEPT ![r] = @ + 1]
    /\ \/ /\ gateway' = [gateway EXCEPT ![r] = "PROCESSING"]
          /\ UNCHANGED webhooks
       \/ /\ gateway' = [gateway EXCEPT ![r] = "PROCESSED"]
          /\ webhooks' = webhooks \cup {<<r, "PROCESSED">>}

CreateRefund(r) ==
    /\ call[r].step = "CREATE"
    /\ CreatedAtGateway(r)
    /\ CallGoes(r, "SENT", gateway'[r])
    /\ UNCHANGED <<cancelled, refund, stored>>

\* settle: only a refund still PROCESSING takes the outcome.
Settled(r, outcome) ==
    IF refund[r].status = "PROCESSING" THEN Status(r, outcome) ELSE UNCHANGED refund

\* The gateway's answer is recorded.
Record(r) ==
    /\ call[r].step = "SENT"
    /\ IF call[r].known = "PROCESSING" THEN UNCHANGED refund ELSE Settled(r, call[r].known)
    /\ CallGoes(r, "NONE", "NONE")
    /\ UNCHANGED <<cancelled, gateway, created, webhooks, stored>>

\* A call or the transaction after it fails: the refund is FAILED unless it is
\* no longer PROCESSING.  A request that timed out may have been carried out.
SendingFails(r) ==
    /\ call[r].step \in {"FIND", "CREATE", "SENT"}
    /\ \/ call[r].step = "CREATE" /\ CreatedAtGateway(r)
       \/ UNCHANGED <<gateway, created, webhooks>>
    /\ Settled(r, "FAILED")
    /\ CallGoes(r, "NONE", "NONE")
    /\ UNCHANGED <<cancelled, stored>>

\* The process dies; the refund stays as it is.
Crash(r) ==
    /\ call[r].step # "NONE"
    /\ \/ call[r].step = "CREATE" /\ CreatedAtGateway(r)
       \/ UNCHANGED <<gateway, created, webhooks>>
    /\ CallGoes(r, "NONE", "NONE")
    /\ UNCHANGED <<cancelled, refund, stored>>

-----------------------------------------------------------------------------
(* Refunds sent but never confirmed: the second half of processPending. *)

FindStuck(r) ==
    /\ refund[r].status = "PROCESSING"
    /\ call[r].step = "NONE"
    /\ CallGoes(r, "STUCK", gateway[r])
    /\ UNCHANGED <<cancelled, refund, gateway, created, webhooks, stored>>

\* Mutant: a refund the gateway does not know is left alone.
MutantLeavesUnknown(r) ==
    /\ call[r].step = "STUCK"
    /\ IF call[r].known \in {"NONE", "PROCESSING"}
       THEN UNCHANGED refund
       ELSE Settled(r, call[r].known)
    /\ CallGoes(r, "NONE", "NONE")
    /\ UNCHANGED <<cancelled, gateway, created, webhooks, stored>>

\* One the gateway does not know becomes FAILED, to be sent again; the
\* refund_guard trigger refuses that to one that is PROCESSED by now.
RecordStuck(r) ==
    /\ call[r].step = "STUCK"
    /\ CASE call[r].known = "NONE" -> Settled(r, "FAILED")
         [] call[r].known = "PROCESSING" -> UNCHANGED refund
         [] OTHER -> Settled(r, call[r].known)
    /\ CallGoes(r, "NONE", "NONE")
    /\ UNCHANGED <<cancelled, gateway, created, webhooks, stored>>

-----------------------------------------------------------------------------
(* The gateway (external) and its webhooks. *)

GatewayDecides(r, outcome) ==
    /\ gateway[r] = "PROCESSING"
    /\ outcome = "FAILED" =>
          Cardinality({q \in Refunds : gateway[q] = "FAILED"}) < MaxGatewayFailures
    /\ gateway' = [gateway EXCEPT ![r] = outcome]
    /\ webhooks' = webhooks \cup {<<r, outcome>>}
    /\ UNCHANGED <<cancelled, refund, call, created, stored>>

\* Mutant: a failure is recorded even after the refund was processed.
MutantReopens(r, outcome) ==
    /\ <<r, outcome>> \in webhooks \ stored
    /\ stored' = stored \cup {<<r, outcome>>}
    /\ Status(r, IF refund[r].status = "PROCESSED" THEN "FAILED" ELSE outcome)
    /\ UNCHANGED <<cancelled, call, gateway, created, webhooks>>

\* applyGatewayOutcome: a refund marked FAILED is first aligned to PROCESSING.
DeliverWebhook(r, outcome) ==
    /\ <<r, outcome>> \in webhooks \ stored
    /\ stored' = stored \cup {<<r, outcome>>}
    /\ IF refund[r].status \in {"PROCESSING", "FAILED"}
       THEN Status(r, outcome)
       ELSE UNCHANGED refund
    /\ UNCHANGED <<cancelled, call, gateway, created, webhooks>>

-----------------------------------------------------------------------------
RefundsInit ==
    /\ cancelled = FALSE
    /\ refund = [r \in Refunds |-> [status |-> "NONE", amount |-> 0]]
    /\ call = [r \in Refunds |-> [step |-> "NONE", known |-> "NONE"]]
    /\ gateway = [r \in Refunds |-> "NONE"]
    /\ created = [r \in Refunds |-> 0]
    /\ webhooks = {}
    /\ stored = {}

RefundStep(r) ==
    \/ \E amount \in 1..Captured : RequestRefund(r, amount)
    \/ \E share \in 0..Captured : CancelByCustomer(r, share)
    \/ CancelByCompany(r) \/ Decide(r)
    \/ Claim(r) \/ Find(r) \/ CreateRefund(r) \/ Record(r) \/ SendingFails(r) \/ Crash(r)
    \/ FindStuck(r) \/ RecordStuck(r)
    \/ \E outcome \in {"PROCESSED", "FAILED"} :
          GatewayDecides(r, outcome) \/ DeliverWebhook(r, outcome)

RefundsNext == \E r \in Refunds : RefundStep(r)

RefundsSpec == RefundsInit /\ [][RefundsNext]_refundVars

-----------------------------------------------------------------------------
(* Safety. *)

\* "A refund is sent to the gateway once, looked up before any retry": timeouts
\* after the gateway acted, crashes and retries never create a second one.
SentOnce == \A r \in Refunds : created[r] <= 1

\* What the customer is told was paid was paid, and stays so: late answers and
\* stuck-refund checks never take a PROCESSED refund back.
ProcessedIsFinal ==
    [][ \A r \in Refunds :
          refund[r].status = "PROCESSED" =>
              refund'[r].status = "PROCESSED" /\ gateway'[r] = "PROCESSED" ]_refundVars

\* The refunds keep the promises of RefundLedger: only an approved refund is
\* paid out, once, and the ledger never exceeds what was captured.
Ledger ==
    INSTANCE RefundLedger WITH
        entry <- [r \in Refunds |->
            [amount |-> refund[r].amount,
             state |-> IF gateway[r] = "PROCESSED" THEN "PAID"
                       ELSE CASE refund[r].status = "NONE" -> "NONE"
                              [] refund[r].status = "REQUESTED" -> "ASKED"
                              [] refund[r].status = "REJECTED" -> "DENIED"
                              [] OTHER -> "DUE"]]

ImplementsLedger == Ledger!Spec

-----------------------------------------------------------------------------
(* Liveness.  The job runs every minute; a call that is retried for ever      *)
(* succeeds some time; the gateway decides.  Webhooks may all be lost.        *)

RefundsFairness ==
    \A r \in Refunds :
        /\ WF_refundVars(Claim(r))
        /\ SF_refundVars(Find(r)) /\ SF_refundVars(CreateRefund(r)) /\ SF_refundVars(Record(r))
        /\ WF_refundVars(FindStuck(r)) /\ SF_refundVars(RecordStuck(r))
        /\ WF_refundVars(GatewayDecides(r, "PROCESSED"))

FairRefundsSpec == RefundsSpec /\ RefundsFairness

\* An approved refund reaches the customer, unless the gateway fails it.
ApprovedIsPaid ==
    \A r \in Refunds :
        refund[r].status = "APPROVED"
            ~> refund[r].status = "PROCESSED" \/ gateway[r] = "FAILED"

\* refund.service.ts on the refund lifecycle: "PROCESSED / FAILED (retried)".
\* With MaxGatewayFailures bounding what the gateway fails, a retry succeeds.
FailedIsRetried ==
    \A r \in Refunds :
        refund[r].status = "APPROVED" ~> refund[r].status = "PROCESSED"
=============================================================================
