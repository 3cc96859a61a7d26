---------------------------- MODULE RefundsProofs ----------------------------
(***************************************************************************)
(* Proofs about Refunds, for any refunds of one payment.                   *)
(*                                                                         *)
(* Sending a refund is several steps, and whoever takes the next one knows *)
(* only what it was told.  What makes that safe is that an answer of the   *)
(* gateway stays true: a refund it knows is never unknown again, and its   *)
(* outcome is final.  A call that is about to create a refund is the only  *)
(* one in flight for it, and was told that the gateway does not know it.   *)
(***************************************************************************)
EXTENDS Refunds, TLAPS

Rows == [status : Statuses, amount : Nat]
CallStates == [step : Steps, known : Known \cup {"NONE"}]

TypeOK ==
    /\ cancelled \in BOOLEAN
    /\ refund \in [Refunds -> Rows]
    /\ call \in [Refunds -> CallStates]
    /\ gateway \in [Refunds -> Known \cup {"NONE"}]
    /\ created \in [Refunds -> Nat]
    /\ webhooks \subseteq Refunds \X {"PROCESSED", "FAILED"}

\* The gateway knows r exactly when r was created there, which was once.
CreatedOnce(r) ==
    /\ gateway[r] = "NONE" => created[r] = 0
    /\ created[r] <= 1

\* Only a refund that was approved is on its way or at the gateway.
ApprovedFirst(r) ==
    call[r].step # "NONE" \/ gateway[r] # "NONE" => refund[r].status \in Known

\* A call about to create a refund was rightly told that there is none.
NotFound(r) == call[r].step = "CREATE" => gateway[r] = "NONE"

\* An answer that is being recorded is an answer about a refund that exists.
AnsweredIsKnown(r) == call[r].step = "SENT" => call[r].known # "NONE"

\* Outcomes that were announced, returned or recorded as paid are the gateway's.
OutcomesAreTrue(r) ==
    /\ \A o \in {"PROCESSED", "FAILED"} :
          <<r, o>> \in webhooks \/ call[r].known = o => gateway[r] = o
    /\ refund[r].status = "PROCESSED" => gateway[r] = "PROCESSED"

InOrder(r) ==
    /\ CreatedOnce(r) /\ ApprovedFirst(r) /\ NotFound(r)
    /\ AnsweredIsKnown(r) /\ OutcomesAreTrue(r)

IInv == TypeOK /\ \A r \in Refunds : InOrder(r)

-----------------------------------------------------------------------------
(* Steps. *)

\* Every step is about one refund.
OneRefund(r) ==
    \A q \in Refunds \ {r} :
        /\ refund'[q] = refund[q] /\ call'[q] = call[q]
        /\ gateway'[q] = gateway[q] /\ created'[q] = created[q]
        /\ \A o \in {"PROCESSED", "FAILED"} : <<q, o>> \in webhooks' <=> <<q, o>> \in webhooks

\* What a step of r preserves when it leaves r in order.
LEMMA OneStep ==
  ASSUME IInv, NEW r \in Refunds, TypeOK', OneRefund(r), InOrder(r)'
  PROVE  IInv'
<1> SUFFICES ASSUME NEW q \in Refunds, q # r
             PROVE  InOrder(q)'
  BY DEF IInv
<1>1. InOrder(q)
  BY DEF IInv
<1> QED
  BY <1>1 DEF InOrder, CreatedOnce, ApprovedFirst, NotFound, AnsweredIsKnown, OutcomesAreTrue, OneRefund

\* A step that changes nothing but the row of r.
RowOnly(r) ==
    /\ refund' \in [Refunds -> Rows]
    /\ \A q \in Refunds \ {r} : refund'[q] = refund[q]
    /\ UNCHANGED <<call, gateway, created, webhooks>>

\* Requests and decisions happen before anything is sent.
LEMMA RequestHolds ==
  ASSUME IInv, NEW r \in Refunds, RowOnly(r), cancelled' \in BOOLEAN,
         refund[r].status \in {"NONE", "REQUESTED"},
         refund'[r].status # "PROCESSED"
  PROVE  IInv'
<1>1. TypeOK /\ InOrder(r)
  BY DEF IInv
<1>2. TypeOK'
  BY <1>1 DEF TypeOK, RowOnly
<1>3. OneRefund(r)
  BY <1>1 DEF OneRefund, RowOnly, TypeOK
<1>4. call[r].step = "NONE" /\ gateway[r] = "NONE"
  BY <1>1 DEF InOrder, ApprovedFirst, Known
<1>5. InOrder(r)'
  BY <1>1, <1>4 DEF InOrder, CreatedOnce, ApprovedFirst, NotFound, AnsweredIsKnown,
                    OutcomesAreTrue, RowOnly
<1> QED
  BY <1>2, <1>3, <1>5, OneStep

\* The row of r with another status, and of r only.
LEMMA StatusMoves ==
  ASSUME TypeOK, NEW r \in Refunds, NEW s \in Statuses, Status(r, s)
  PROVE  /\ refund' \in [Refunds -> Rows]
         /\ refund'[r] = [status |-> s, amount |-> refund[r].amount]
         /\ refund'[r].status = s
         /\ \A q \in Refunds \ {r} : refund'[q] = refund[q]
<1>1. refund[r] = [status |-> refund[r].status, amount |-> refund[r].amount]
  BY DEF TypeOK, Rows
<1>2. refund'[r] = [status |-> s, amount |-> refund[r].amount]
  BY <1>1 DEF Status, TypeOK
<1> QED
  BY <1>2 DEF Status, TypeOK, Rows

\* The call about r at another step, and no other call.
LEMMA CallMoves ==
  ASSUME TypeOK, NEW r \in Refunds, NEW step \in Steps, NEW known \in Known \cup {"NONE"},
         CallGoes(r, step, known)
  PROVE  /\ call' \in [Refunds -> CallStates]
         /\ call'[r] = [step |-> step, known |-> known]
         /\ \A q \in Refunds \ {r} : call'[q] = call[q]
  BY DEF CallGoes, TypeOK, CallStates

\* Recording an outcome touches only a refund that is PROCESSING.
LEMMA SettledMoves ==
  ASSUME TypeOK, NEW r \in Refunds, NEW o \in {"PROCESSED", "FAILED"}, Settled(r, o)
  PROVE  /\ refund' \in [Refunds -> Rows]
         /\ refund'[r] = IF refund[r].status = "PROCESSING"
                         THEN [status |-> o, amount |-> refund[r].amount] ELSE refund[r]
         /\ refund'[r] = refund[r] \/ refund'[r].status = o
         /\ \A q \in Refunds \ {r} : refund'[q] = refund[q]
  BY StatusMoves DEF Settled, TypeOK, Statuses

\* What the gateway does when it creates r.
LEMMA CreationMoves ==
  ASSUME TypeOK, NEW r \in Refunds, CreatedAtGateway(r)
  PROVE  /\ created' \in [Refunds -> Nat] /\ created'[r] = created[r] + 1
         /\ gateway' \in [Refunds -> Known \cup {"NONE"}]
         /\ gateway'[r] \in {"PROCESSING", "PROCESSED"}
         /\ webhooks' \subseteq Refunds \X {"PROCESSED", "FAILED"}
         /\ webhooks' = IF gateway'[r] = "PROCESSED" THEN webhooks \cup {<<r, "PROCESSED">>}
                        ELSE webhooks
         /\ \A q \in Refunds \ {r} : gateway'[q] = gateway[q] /\ created'[q] = created[q]
  BY DEF CreatedAtGateway, TypeOK, Known

-----------------------------------------------------------------------------
(* Every action preserves the invariant. *)

LEMMA RequestMoves ==
  ASSUME TypeOK, NEW r \in Refunds, NEW amount, NEW s \in {"REQUESTED", "APPROVED"},
         Request(r, amount, s)
  PROVE  /\ refund[r].status = "NONE" /\ amount \in 1..Remaining
         /\ refund' \in [Refunds -> Rows]
         /\ refund'[r] = [status |-> s, amount |-> amount]
         /\ refund'[r].status = s
         /\ \A q \in Refunds \ {r} : refund'[q] = refund[q]
<1>1. refund' = [refund EXCEPT ![r] = [status |-> s, amount |-> amount]]
      /\ refund[r].status = "NONE" /\ amount \in 1..Remaining
  BY DEF Request
<1>2. amount \in Nat
  BY <1>1
<1>3. [status |-> s, amount |-> amount] \in Rows
  BY <1>2 DEF Rows, Statuses
<1> QED
  BY <1>1, <1>3 DEF TypeOK

LEMMA RequestsHold ==
  ASSUME IInv, NEW r \in Refunds,
         \/ \E amount \in 1..Captured : RequestRefund(r, amount)
         \/ \E share \in 0..Captured : CancelByCustomer(r, share)
         \/ CancelByCompany(r)
  PROVE  IInv'
<1>1. TypeOK /\ UNCHANGED <<call, gateway, created, webhooks>> /\ cancelled' \in BOOLEAN
  BY DEF IInv, TypeOK, RequestRefund, CancelByCustomer, CancelByCompany
<1>2. CASE UNCHANGED refund
  BY <1>1, <1>2 DEF IInv, TypeOK, InOrder, CreatedOnce, ApprovedFirst, NotFound,
                    AnsweredIsKnown, OutcomesAreTrue
<1>3. ASSUME NEW amount, NEW s \in {"REQUESTED", "APPROVED"}, Request(r, amount, s)
      PROVE  IInv'
  <2>1. /\ refund[r].status = "NONE" /\ refund' \in [Refunds -> Rows]
        /\ refund'[r].status = s
        /\ \A q \in Refunds \ {r} : refund'[q] = refund[q]
    BY <1>1, <1>3, RequestMoves
  <2>2. RowOnly(r)
    BY <1>1, <2>1 DEF RowOnly
  <2> QED
    BY <1>1, <2>1, <2>2, RequestHolds
<1>4. CASE \E amount \in 1..Captured : RequestRefund(r, amount)
  BY <1>3, <1>4 DEF RequestRefund
<1>5. CASE \E share \in 0..Captured : CancelByCustomer(r, share)
  BY <1>2, <1>3, <1>5 DEF CancelByCustomer
<1>6. CASE CancelByCompany(r)
  BY <1>2, <1>3, <1>6 DEF CancelByCompany
<1> QED
  BY <1>4, <1>5, <1>6

LEMMA DecideHolds ==
  ASSUME IInv, NEW r \in Refunds, Decide(r)
  PROVE  IInv'
<1>1. TypeOK /\ cancelled' \in BOOLEAN
  BY DEF IInv, TypeOK, Decide
<1>2. PICK s \in {"APPROVED", "REJECTED"} : Status(r, s)
  BY DEF Decide
<1>3. s \in Statuses
  BY DEF Statuses
<1>4. /\ refund' \in [Refunds -> Rows] /\ refund'[r].status = s
      /\ \A q \in Refunds \ {r} : refund'[q] = refund[q]
  BY <1>1, <1>2, <1>3, StatusMoves
<1> QED
  BY <1>1, <1>4, RequestHolds DEF Decide, RowOnly

LEMMA ClaimHolds ==
  ASSUME IInv, NEW r \in Refunds, Claim(r)
  PROVE  IInv'
<1>1. TypeOK /\ InOrder(r)
  BY DEF IInv
<1>2. /\ refund' \in [Refunds -> Rows] /\ refund'[r].status = "PROCESSING"
      /\ \A q \in Refunds \ {r} : refund'[q] = refund[q]
  <2>1. Status(r, "PROCESSING") /\ "PROCESSING" \in Statuses
    BY DEF Claim, Statuses
  <2> QED
    BY <1>1, <2>1, StatusMoves
<1>3. /\ call' \in [Refunds -> CallStates] /\ call'[r] = [step |-> "FIND", known |-> "NONE"]
      /\ \A q \in Refunds \ {r} : call'[q] = call[q]
  BY <1>1, CallMoves DEF Claim, Steps
<1>4. TypeOK' /\ OneRefund(r)
  BY <1>1, <1>2, <1>3 DEF Claim, TypeOK, OneRefund
<1>5. InOrder(r)'
  BY <1>1, <1>2, <1>3
     DEF Claim, InOrder, CreatedOnce, ApprovedFirst, NotFound, AnsweredIsKnown, OutcomesAreTrue, Known
<1> QED
  BY <1>4, <1>5, OneStep

\* A call asks the gateway, is answered or is lost; the row stays.
LEMMA AskingHolds ==
  ASSUME IInv, NEW r \in Refunds, NEW step \in Steps, NEW known \in Known \cup {"NONE"},
         CallGoes(r, step, known), UNCHANGED <<cancelled, refund, gateway, created, webhooks>>,
         step # "NONE" => refund[r].status \in Known,
         step = "CREATE" => gateway[r] = "NONE",
         step = "SENT" => known # "NONE",
         known \in {"NONE", gateway[r]}
  PROVE  IInv'
<1>1. TypeOK /\ InOrder(r)
  BY DEF IInv
<1>2. /\ call' \in [Refunds -> CallStates] /\ call'[r] = [step |-> step, known |-> known]
      /\ \A q \in Refunds \ {r} : call'[q] = call[q]
  BY <1>1, CallMoves
<1>3. TypeOK' /\ OneRefund(r)
  BY <1>1, <1>2 DEF TypeOK, OneRefund
<1>4. InOrder(r)'
  BY <1>1, <1>2 DEF InOrder, CreatedOnce, ApprovedFirst, NotFound, AnsweredIsKnown, OutcomesAreTrue
<1> QED
  BY <1>3, <1>4, OneStep

\* The gateway creates the refund, whether its answer is had or not.
LEMMA CreationHolds ==
  ASSUME IInv, NEW r \in Refunds, call[r].step = "CREATE", CreatedAtGateway(r),
         NEW step \in {"NONE", "SENT"}, NEW known \in {"NONE", gateway'[r]},
         step = "SENT" => known # "NONE",
         CallGoes(r, step, known), UNCHANGED cancelled,
         UNCHANGED refund \/ Settled(r, "FAILED")
  PROVE  IInv'
<1>1. TypeOK /\ InOrder(r)
  BY DEF IInv
<1>2. /\ created' \in [Refunds -> Nat] /\ created'[r] = created[r] + 1
      /\ gateway' \in [Refunds -> Known \cup {"NONE"}]
      /\ gateway'[r] \in {"PROCESSING", "PROCESSED"}
      /\ webhooks' \subseteq Refunds \X {"PROCESSED", "FAILED"}
      /\ webhooks' = IF gateway'[r] = "PROCESSED" THEN webhooks \cup {<<r, "PROCESSED">>}
                     ELSE webhooks
      /\ \A q \in Refunds \ {r} : gateway'[q] = gateway[q] /\ created'[q] = created[q]
  BY <1>1, CreationMoves
<1>3. /\ call' \in [Refunds -> CallStates] /\ call'[r] = [step |-> step, known |-> known]
      /\ \A q \in Refunds \ {r} : call'[q] = call[q]
  BY <1>1, <1>2, CallMoves DEF Steps, Known
<1>4. /\ refund' \in [Refunds -> Rows]
      /\ \A q \in Refunds \ {r} : refund'[q] = refund[q]
      /\ refund'[r] = refund[r] \/ refund'[r].status = "FAILED"
  <2>1. CASE UNCHANGED refund
    BY <1>1, <2>1 DEF TypeOK
  <2>2. CASE Settled(r, "FAILED")
    BY <1>1, <2>2, SettledMoves
  <2> QED
    BY <2>1, <2>2
<1>5. gateway[r] = "NONE" /\ created[r] = 0 /\ refund[r].status \in Known
      /\ refund[r].status # "PROCESSED"
  BY <1>1 DEF InOrder, NotFound, CreatedOnce, ApprovedFirst, OutcomesAreTrue
<1>6. TypeOK' /\ OneRefund(r)
  BY <1>1, <1>2, <1>3, <1>4 DEF TypeOK, OneRefund
<1>7. CreatedOnce(r)' /\ NotFound(r)' /\ AnsweredIsKnown(r)'
  BY <1>2, <1>3, <1>5 DEF CreatedOnce, NotFound, AnsweredIsKnown
<1>8. ApprovedFirst(r)'
  BY <1>4, <1>5 DEF ApprovedFirst, Known
<1>9. OutcomesAreTrue(r)'
  <2>1. \A o \in {"PROCESSED", "FAILED"} : <<r, o>> \notin webhooks
    BY <1>1, <1>5 DEF InOrder, OutcomesAreTrue
  <2>2. refund'[r].status # "PROCESSED"
    BY <1>4, <1>5
  <2> QED
    BY <1>2, <1>3, <2>1, <2>2 DEF OutcomesAreTrue
<1> QED
  BY <1>6, <1>7, <1>8, <1>9, OneStep DEF InOrder

\* A call ends with the refund as it is, failed, or with the gateway's outcome.
LEMMA RecordingHolds ==
  ASSUME IInv, NEW r \in Refunds, call[r].step # "NONE", CallGoes(r, "NONE", "NONE"),
         UNCHANGED <<cancelled, gateway, created, webhooks>>,
         \/ UNCHANGED refund
         \/ \E o \in {"PROCESSED", "FAILED"} :
               Settled(r, o) /\ (o = "PROCESSED" => gateway[r] = "PROCESSED")
  PROVE  IInv'
<1>1. TypeOK /\ InOrder(r)
  BY DEF IInv
<1>2. /\ call' \in [Refunds -> CallStates] /\ call'[r] = [step |-> "NONE", known |-> "NONE"]
      /\ \A q \in Refunds \ {r} : call'[q] = call[q]
  BY <1>1, CallMoves DEF Steps
<1>3. /\ refund' \in [Refunds -> Rows]
      /\ \A q \in Refunds \ {r} : refund'[q] = refund[q]
      /\ \/ refund'[r] = refund[r] \/ refund'[r].status = "FAILED"
         \/ refund'[r].status = "PROCESSED" /\ gateway[r] = "PROCESSED"
  <2>1. CASE UNCHANGED refund
    BY <1>1, <2>1 DEF TypeOK
  <2>2. ASSUME NEW o \in {"PROCESSED", "FAILED"}, Settled(r, o),
               o = "PROCESSED" => gateway[r] = "PROCESSED"
        PROVE  /\ refund' \in [Refunds -> Rows]
               /\ \A q \in Refunds \ {r} : refund'[q] = refund[q]
               /\ \/ refund'[r] = refund[r] \/ refund'[r].status = "FAILED"
                  \/ refund'[r].status = "PROCESSED" /\ gateway[r] = "PROCESSED"
    BY <1>1, <2>2, SettledMoves
  <2> QED
    BY <2>1, <2>2
<1>4. TypeOK' /\ OneRefund(r)
  BY <1>1, <1>2, <1>3 DEF TypeOK, OneRefund
<1>5. refund[r].status \in Known
  BY <1>1 DEF InOrder, ApprovedFirst
<1>6. InOrder(r)'
  BY <1>1, <1>2, <1>3, <1>5
     DEF InOrder, CreatedOnce, ApprovedFirst, NotFound, AnsweredIsKnown, OutcomesAreTrue, Known
<1> QED
  BY <1>4, <1>6, OneStep

LEMMA FindsHold ==
  ASSUME IInv, NEW r \in Refunds, Find(r) \/ FindStuck(r)
  PROVE  IInv'
<1>1. TypeOK /\ InOrder(r)
  BY DEF IInv
<1>2. gateway[r] \in Known \cup {"NONE"}
  BY <1>1 DEF TypeOK
<1>3. CASE Find(r)
  <2>1. PICK step \in {"CREATE", "SENT"} :
          CallGoes(r, step, gateway[r]) /\ (step = "CREATE" <=> gateway[r] = "NONE")
    BY <1>3 DEF Find
  <2>2. refund[r].status \in Known
    BY <1>1, <1>3 DEF Find, InOrder, ApprovedFirst
  <2>3. step \in Steps /\ UNCHANGED <<cancelled, refund, gateway, created, webhooks>>
    BY <1>3 DEF Find, Steps
  <2> QED
    BY <1>2, <2>1, <2>2, <2>3, AskingHolds
<1>4. CASE FindStuck(r)
  <2>1. /\ CallGoes(r, "STUCK", gateway[r]) /\ refund[r].status \in Known
        /\ UNCHANGED <<cancelled, refund, gateway, created, webhooks>> /\ "STUCK" \in Steps
    BY <1>4 DEF FindStuck, Known, Steps
  <2> QED
    BY <1>2, <2>1, AskingHolds
<1> QED
  BY <1>3, <1>4

LEMMA RecordsHold ==
  ASSUME IInv, NEW r \in Refunds, Record(r) \/ RecordStuck(r)
  PROVE  IInv'
<1>1. TypeOK /\ InOrder(r)
  BY DEF IInv
<1>2. call[r].known \in Known \cup {"NONE"}
  BY <1>1 DEF TypeOK, CallStates
<1>3. \A o \in {"PROCESSED", "FAILED"} : call[r].known = o => gateway[r] = o
  BY <1>1 DEF InOrder, OutcomesAreTrue
<1>4. /\ call[r].step # "NONE" /\ CallGoes(r, "NONE", "NONE")
      /\ UNCHANGED <<cancelled, gateway, created, webhooks>>
  BY DEF Record, RecordStuck
<1>5. call[r].step = "SENT" => call[r].known # "NONE"
  BY <1>1 DEF InOrder, AnsweredIsKnown
<1>6. \/ UNCHANGED refund
      \/ Settled(r, "FAILED")
      \/ call[r].known = "PROCESSED" /\ Settled(r, "PROCESSED")
  BY <1>2, <1>5 DEF Record, RecordStuck, Known
<1> QED
  BY <1>3, <1>4, <1>6, RecordingHolds

LEMMA CreatesHold ==
  ASSUME IInv, NEW r \in Refunds, CreateRefund(r)
  PROVE  IInv'
<1>1. CreatedAtGateway(r) /\ gateway'[r] # "NONE"
  BY CreationMoves DEF CreateRefund, IInv
<1>2. /\ call[r].step = "CREATE" /\ CallGoes(r, "SENT", gateway'[r])
      /\ UNCHANGED cancelled /\ UNCHANGED refund
  BY DEF CreateRefund
<1> QED
  BY <1>1, <1>2, CreationHolds

\* A failure or the death of the process, before or after the gateway acted.
LEMMA EndingsHold ==
  ASSUME IInv, NEW r \in Refunds, SendingFails(r) \/ Crash(r)
  PROVE  IInv'
<1>1. /\ call[r].step # "NONE" /\ CallGoes(r, "NONE", "NONE") /\ UNCHANGED cancelled
      /\ UNCHANGED refund \/ Settled(r, "FAILED")
  BY DEF SendingFails, Crash
<1>2. CASE UNCHANGED <<gateway, created, webhooks>>
  BY <1>1, <1>2, RecordingHolds
<1>3. CASE call[r].step = "CREATE" /\ CreatedAtGateway(r)
  BY <1>1, <1>3, CreationHolds
<1> QED
  BY <1>2, <1>3 DEF SendingFails, Crash

LEMMA GatewayDecidesHolds ==
  ASSUME IInv, NEW r \in Refunds, NEW outcome \in {"PROCESSED", "FAILED"},
         GatewayDecides(r, outcome)
  PROVE  IInv'
<1>1. TypeOK /\ InOrder(r)
  BY DEF IInv
<1>2. /\ gateway[r] = "PROCESSING" /\ gateway' = [gateway EXCEPT ![r] = outcome]
      /\ webhooks' = webhooks \cup {<<r, outcome>>}
      /\ UNCHANGED <<cancelled, refund, call, created>>
  BY DEF GatewayDecides
<1>3. TypeOK' /\ OneRefund(r) /\ gateway'[r] = outcome
  BY <1>1, <1>2 DEF TypeOK, Known, OneRefund
<1>4. InOrder(r)'
  BY <1>1, <1>2, <1>3 DEF InOrder, CreatedOnce, ApprovedFirst, NotFound, AnsweredIsKnown, OutcomesAreTrue
<1> QED
  BY <1>3, <1>4, OneStep

LEMMA DeliverWebhookHolds ==
  ASSUME IInv, NEW r \in Refunds, NEW outcome \in {"PROCESSED", "FAILED"},
         DeliverWebhook(r, outcome)
  PROVE  IInv'
<1>1. TypeOK /\ InOrder(r)
  BY DEF IInv
<1>2. gateway[r] = outcome /\ outcome \in Statuses
  BY <1>1 DEF DeliverWebhook, InOrder, OutcomesAreTrue, Statuses
<1>3. /\ refund' \in [Refunds -> Rows]
      /\ \A q \in Refunds \ {r} : refund'[q] = refund[q]
      /\ refund'[r] = refund[r] \/ refund'[r].status = outcome
  <2>1. CASE UNCHANGED refund
    BY <1>1, <2>1 DEF TypeOK
  <2>2. CASE Status(r, outcome)
    BY <1>1, <1>2, <2>2, StatusMoves
  <2> QED
    BY <2>1, <2>2 DEF DeliverWebhook
<1>4. UNCHANGED <<cancelled, call, gateway, created, webhooks>>
  BY DEF DeliverWebhook
<1>5. TypeOK' /\ OneRefund(r)
  BY <1>1, <1>3, <1>4 DEF TypeOK, OneRefund
<1>6. InOrder(r)'
  BY <1>1, <1>2, <1>3, <1>4
     DEF InOrder, CreatedOnce, ApprovedFirst, NotFound, AnsweredIsKnown, OutcomesAreTrue, Known
<1> QED
  BY <1>5, <1>6, OneStep

LEMMA InitHolds == RefundsInit => IInv
<1> SUFFICES ASSUME RefundsInit PROVE IInv
  OBVIOUS
<1>1. TypeOK
  BY DEF RefundsInit, TypeOK, Rows, CallStates, Statuses, Steps
<1>2. ASSUME NEW r \in Refunds PROVE InOrder(r)
  BY DEF RefundsInit, InOrder, CreatedOnce, ApprovedFirst, NotFound, AnsweredIsKnown, OutcomesAreTrue
<1> QED
  BY <1>1, <1>2 DEF IInv

LEMMA StepHolds == IInv /\ [RefundsNext]_refundVars => IInv'
<1> SUFFICES ASSUME IInv, [RefundsNext]_refundVars PROVE IInv'
  OBVIOUS
<1>1. CASE UNCHANGED refundVars
  <2>1. UNCHANGED <<cancelled, refund, call, gateway, created, webhooks>>
    BY <1>1 DEF refundVars
  <2>2. TypeOK'
    BY <2>1 DEF IInv, TypeOK
  <2>3. ASSUME NEW r \in Refunds PROVE InOrder(r)'
    BY <2>1 DEF IInv, InOrder, CreatedOnce, ApprovedFirst, NotFound, AnsweredIsKnown,
                OutcomesAreTrue
  <2> QED
    BY <2>2, <2>3 DEF IInv
<1>2. ASSUME NEW r \in Refunds, RefundStep(r) PROVE IInv'
  <2>1. CASE \/ \E amount \in 1..Captured : RequestRefund(r, amount)
             \/ \E share \in 0..Captured : CancelByCustomer(r, share)
             \/ CancelByCompany(r)
    BY <2>1, RequestsHold
  <2>2. CASE Decide(r)
    BY <2>2, DecideHolds
  <2>3. CASE Claim(r)
    BY <2>3, ClaimHolds
  <2>4. CASE Find(r) \/ FindStuck(r)
    BY <2>4, FindsHold
  <2>5. CASE CreateRefund(r)
    BY <2>5, CreatesHold
  <2>6. CASE Record(r) \/ RecordStuck(r)
    BY <2>6, RecordsHold
  <2>7. CASE SendingFails(r) \/ Crash(r)
    BY <2>7, EndingsHold
  <2>8. ASSUME NEW outcome \in {"PROCESSED", "FAILED"},
               GatewayDecides(r, outcome) \/ DeliverWebhook(r, outcome)
        PROVE  IInv'
    BY <2>8, GatewayDecidesHolds, DeliverWebhookHolds
  <2> QED
    BY <1>2, <2>1, <2>2, <2>3, <2>4, <2>5, <2>6, <2>7, <2>8 DEF RefundStep
<1> QED
  BY <1>1, <1>2 DEF RefundsNext

LEMMA Invariant == RefundsSpec => []IInv
<1>1. RefundsInit => IInv
  BY InitHolds
<1>2. IInv /\ [RefundsNext]_refundVars => IInv'
  BY StepHolds
<1> QED
  BY <1>1, <1>2, PTL DEF RefundsSpec

-----------------------------------------------------------------------------
(* What it means for the customer and for the company. *)

\* However calls time out, processes die and refunds are retried, the gateway
\* is never made to create the same refund twice.
THEOREM NoRefundIsSentTwice == RefundsSpec => []SentOnce
<1>1. IInv => SentOnce
  BY DEF IInv, InOrder, CreatedOnce, SentOnce
<1> QED
  BY <1>1, Invariant, PTL

\* A row is overwritten only while it is not PROCESSED.
LEMMA ProcessedStays ==
  ASSUME IInv, NEW q \in Refunds, refund[q].status = "PROCESSED",
         [RefundsNext]_refundVars
  PROVE  refund'[q].status = "PROCESSED"
<1>1. CASE UNCHANGED refund
  BY <1>1
<1>2. ASSUME NEW r \in Refunds, RefundStep(r), ~ UNCHANGED refund
      PROVE  refund'[q].status = "PROCESSED"
  <2>1. TypeOK
    BY DEF IInv
  <2>2. ASSUME NEW s \in Statuses, Status(r, s), refund[r].status # "PROCESSED"
        PROVE  refund'[q].status = "PROCESSED"
    <3>1. q # r
      BY <2>2
    <3>2. \A p \in Refunds \ {r} : refund'[p] = refund[p]
      BY <2>1, <2>2, StatusMoves
    <3> QED
      BY <3>1, <3>2
  <2>3. ASSUME NEW o \in Statuses, Settled(r, o)
        PROVE  refund'[q].status = "PROCESSED"
    BY <1>2, <2>2, <2>3 DEF Settled
  <2>4. ASSUME NEW amount, NEW s \in {"REQUESTED", "APPROVED"}, Request(r, amount, s)
        PROVE  refund'[q].status = "PROCESSED"
    <3>1. refund[r].status = "NONE" /\ \A p \in Refunds \ {r} : refund'[p] = refund[p]
      BY <2>1, <2>4, RequestMoves
    <3> QED
      BY <3>1
  <2>5. CASE \E amount \in 1..Captured : RequestRefund(r, amount)
    BY <2>4, <2>5 DEF RequestRefund
  <2>6. CASE \E share \in 0..Captured : CancelByCustomer(r, share)
    BY <1>2, <2>4, <2>6 DEF CancelByCustomer
  <2>7. CASE CancelByCompany(r)
    BY <1>2, <2>4, <2>7 DEF CancelByCompany
  <2>8. CASE Decide(r) \/ Claim(r)
    BY <2>2, <2>8 DEF Decide, Claim, Statuses
  <2>9. CASE Record(r) \/ RecordStuck(r) \/ SendingFails(r)
    <3>1. call[r].known \in Known \cup {"NONE"}
      BY <2>1 DEF TypeOK, CallStates
    <3>2. \E o \in Statuses \cup {"NONE"} : Settled(r, o)
      BY <1>2, <2>9, <3>1 DEF Record, RecordStuck, SendingFails, Known, Statuses
    <3> QED
      BY <2>3, <3>2 DEF Statuses
  <2>10. ASSUME NEW o \in {"PROCESSED", "FAILED"}, DeliverWebhook(r, o)
         PROVE  refund'[q].status = "PROCESSED"
    <3>1. Status(r, o) /\ refund[r].status # "PROCESSED" /\ o \in Statuses
      BY <1>2, <2>10 DEF DeliverWebhook, Statuses
    <3> QED
      BY <2>2, <3>1
  <2> QED
    BY <1>2, <2>5, <2>6, <2>7, <2>8, <2>9, <2>10
       DEF RefundStep, Find, CreateRefund, Crash, FindStuck, GatewayDecides
<1> QED
  BY <1>1, <1>2 DEF RefundsNext, refundVars

\* A refund that is PROCESSED was paid by the gateway, and is never anything
\* else again: not after a late failure, a stuck check or a second webhook.
THEOREM PaidStaysPaid == RefundsSpec => ProcessedIsFinal
<1>1. ASSUME IInv, IInv', [RefundsNext]_refundVars, NEW r \in Refunds,
             refund[r].status = "PROCESSED"
      PROVE  refund'[r].status = "PROCESSED" /\ gateway'[r] = "PROCESSED"
  <2>1. refund'[r].status = "PROCESSED"
    BY <1>1, ProcessedStays
  <2> QED
    BY <1>1, <2>1 DEF IInv, InOrder, OutcomesAreTrue
<1>2. IInv /\ IInv' /\ [RefundsNext]_refundVars =>
        [ \A r \in Refunds :
            refund[r].status = "PROCESSED" =>
                refund'[r].status = "PROCESSED" /\ gateway'[r] = "PROCESSED" ]_refundVars
  BY <1>1
<1> QED
  BY <1>2, Invariant, PTL DEF RefundsSpec, ProcessedIsFinal

-----------------------------------------------------------------------------
(* The refunds implement RefundLedger. *)

Due == {"APPROVED"} \cup Known

\* Where a refund stands in the ledger.
Standing(r) ==
    IF gateway[r] = "PROCESSED" THEN "PAID"
    ELSE CASE refund[r].status = "NONE" -> "NONE"
           [] refund[r].status = "REQUESTED" -> "ASKED"
           [] refund[r].status = "REJECTED" -> "DENIED"
           [] OTHER -> "DUE"

Entries == [r \in Refunds |-> [amount |-> refund[r].amount, state |-> Standing(r)]]

LEMMA StandingIs ==
  ASSUME IInv, NEW r \in Refunds
  PROVE  /\ refund[r].status = "NONE" <=> Standing(r) = "NONE"
         /\ refund[r].status = "REQUESTED" <=> Standing(r) = "ASKED"
         /\ refund[r].status = "REJECTED" <=> Standing(r) = "DENIED"
         /\ refund[r].status \in Due <=> Standing(r) \in {"DUE", "PAID"}
         /\ Standing(r) = "PAID" <=> gateway[r] = "PROCESSED"
<1>1. refund[r].status \in Statuses
  BY DEF IInv, TypeOK, Rows
<1>2. gateway[r] = "PROCESSED" => refund[r].status \in Known
  BY DEF IInv, InOrder, ApprovedFirst
<1> QED
  BY <1>1, <1>2 DEF Standing, Statuses, Due, Known

\* The module of the ledger sums as this one does.
LEMMA SameSum ==
  ASSUME NEW owed
  PROVE  Ledger!SumFunction(owed) = SumFunction(owed)
BY DEF Ledger!SumFunction, Ledger!SumFunctionOnSet, Ledger!FoldFunctionOnSet,
       Ledger!MapThenFoldSet, SumFunction, SumFunctionOnSet, FoldFunctionOnSet, MapThenFoldSet

\* The ledger and the code count the same refunds as promised.
LEMMA SamePromises ==
  ASSUME IInv
  PROVE  Ledger!Unpromised = Remaining
<1> DEFINE owed == [r \in Refunds |->
                      IF Entries[r].state \in {"NONE", "DENIED"} THEN 0 ELSE Entries[r].amount]
           due == [r \in Refunds |->
                     IF refund[r].status \in {"NONE", "REJECTED"} THEN 0 ELSE refund[r].amount]
<1>1. ASSUME NEW r \in Refunds
      PROVE  (IF Entries[r].state \in {"NONE", "DENIED"} THEN 0 ELSE Entries[r].amount)
           = (IF refund[r].status \in {"NONE", "REJECTED"} THEN 0 ELSE refund[r].amount)
  <2>1. Entries[r].state = Standing(r) /\ Entries[r].amount = refund[r].amount
    BY DEF Entries
  <2> QED
    BY <2>1, StandingIs
<1>2. owed = due
  BY <1>1
<1>3. Ledger!Unpromised = Captured - Ledger!SumFunction(owed)
  BY DEF Ledger!Unpromised, Ledger!Promised, Entries, Standing
<1>4. Remaining = Captured - SumFunction(due)
  BY DEF Remaining
<1> QED
  BY <1>2, <1>3, <1>4, SameSum

\* Between its approval and its end, a refund only ever becomes paid.
LEMMA SendingMoves ==
  ASSUME IInv, NEW r \in Refunds,
         \/ Claim(r) \/ Find(r) \/ CreateRefund(r) \/ Record(r) \/ SendingFails(r)
         \/ Crash(r) \/ FindStuck(r) \/ RecordStuck(r)
         \/ \E outcome \in {"PROCESSED", "FAILED"} :
               GatewayDecides(r, outcome) \/ DeliverWebhook(r, outcome)
  PROVE  /\ refund'[r].amount = refund[r].amount
         /\ \A q \in Refunds \ {r} : refund'[q] = refund[q] /\ gateway'[q] = gateway[q]
         /\ \/ refund'[r].status = refund[r].status /\ gateway'[r] = gateway[r]
            \/ /\ refund[r].status \in Due /\ refund'[r].status \in Due
               /\ gateway[r] = "PROCESSED" => gateway'[r] = "PROCESSED"
<1>1. TypeOK /\ InOrder(r)
  BY DEF IInv
<1>2. /\ \A q \in Refunds \ {r} : gateway'[q] = gateway[q]
      /\ \/ gateway'[r] = gateway[r]
         \/ gateway[r] # "PROCESSED" /\ refund[r].status \in Known
  <2>1. CASE UNCHANGED gateway
    BY <2>1
  <2>2. CASE call[r].step = "CREATE" /\ CreatedAtGateway(r)
    BY <1>1, <2>2, CreationMoves DEF InOrder, NotFound, ApprovedFirst
  <2>3. ASSUME NEW outcome \in {"PROCESSED", "FAILED"}, GatewayDecides(r, outcome)
        PROVE  /\ \A q \in Refunds \ {r} : gateway'[q] = gateway[q]
               /\ gateway[r] # "PROCESSED" /\ refund[r].status \in Known
    BY <1>1, <2>3 DEF GatewayDecides, TypeOK, InOrder, ApprovedFirst
  <2> QED
    BY <2>1, <2>2, <2>3
       DEF Claim, Find, CreateRefund, Record, SendingFails, Crash, FindStuck, RecordStuck,
           DeliverWebhook
<1>3. /\ refund'[r].amount = refund[r].amount
      /\ \A q \in Refunds \ {r} : refund'[q] = refund[q]
      /\ \/ refund'[r].status = refund[r].status
         \/ refund[r].status \in Due /\ refund'[r].status \in Due
  <2>1. CASE UNCHANGED refund
    BY <2>1
  <2>2. ASSUME NEW s \in Known, Status(r, s), refund[r].status \in Due
        PROVE  /\ refund'[r].amount = refund[r].amount
               /\ \A q \in Refunds \ {r} : refund'[q] = refund[q]
               /\ refund'[r].status \in Due
    <3>1. s \in Statuses /\ s \in Due
      BY <2>2 DEF Known, Statuses, Due
    <3>2. refund'[r] = [status |-> s, amount |-> refund[r].amount]
      BY <1>1, <2>2, <3>1, StatusMoves
    <3> QED
      BY <1>1, <2>2, <3>1, <3>2, StatusMoves
  <2>3. \/ UNCHANGED refund
        \/ \E s \in Known : Status(r, s) /\ refund[r].status \in Due
    <3>1. CASE Claim(r)
      BY <3>1 DEF Claim, Known, Due
    <3>2. CASE Record(r) \/ RecordStuck(r) \/ SendingFails(r)
      <4>1. call[r].known \in Known \cup {"NONE"}
        BY <1>1 DEF TypeOK, CallStates
      <4>2. call[r].step = "SENT" => call[r].known # "NONE"
        BY <1>1 DEF InOrder, AnsweredIsKnown
      <4>3. \/ UNCHANGED refund
            \/ \E s \in Known : Settled(r, s)
        BY <3>2, <4>1, <4>2 DEF Record, RecordStuck, SendingFails, Known
      <4> QED
        BY <4>3 DEF Settled, Due, Known
    <3>3. CASE \E outcome \in {"PROCESSED", "FAILED"} : DeliverWebhook(r, outcome)
      BY <3>3 DEF DeliverWebhook, Due, Known
    <3> QED
      BY <3>1, <3>2, <3>3 DEF Find, CreateRefund, Crash, FindStuck, GatewayDecides
  <2> QED
    BY <2>1, <2>2, <2>3
<1> QED
  BY <1>2, <1>3 DEF Due

\* Steps of the ledger, in terms of the entries.
LEMMA Asks ==
  ASSUME NEW r \in Refunds, NEW amount \in 1..Ledger!Unpromised,
         NEW state \in {"ASKED", "DUE"}, Entries[r].state = "NONE",
         Entries' = [Entries EXCEPT ![r] = [state |-> state, amount |-> amount]]
  PROVE  Ledger!Next
<1>1. Ledger!Ask(r, amount, state)
  BY DEF Ledger!Ask, Entries, Standing
<1> QED
  BY <1>1 DEF Ledger!Next

LEMMA Decides ==
  ASSUME NEW r \in Refunds, NEW state \in {"DENIED", "DUE"}, Entries[r].state = "ASKED",
         Entries' = [Entries EXCEPT ![r].state = state]
  PROVE  Ledger!Next
<1>1. Ledger!Decide(r, state)
  BY DEF Ledger!Decide, Entries, Standing
<1> QED
  BY <1>1 DEF Ledger!Next

LEMMA Pays ==
  ASSUME NEW r \in Refunds, Entries[r].state = "DUE",
         Entries' = [Entries EXCEPT ![r].state = "PAID"]
  PROVE  Ledger!Next
<1>1. Ledger!Pay(r)
  BY DEF Ledger!Pay, Entries, Standing
<1> QED
  BY <1>1 DEF Ledger!Next

\* A step about r changes the entry of r at most.
LEMMA OneEntry ==
  ASSUME NEW r \in Refunds,
         \A q \in Refunds \ {r} : refund'[q] = refund[q] /\ gateway'[q] = gateway[q]
  PROVE  /\ Entries' = [Entries EXCEPT ![r] = [amount |-> refund'[r].amount,
                                               state |-> Standing(r)']]
         /\ Entries[r] = [amount |-> refund[r].amount, state |-> Standing(r)]
<1>1. \A q \in Refunds \ {r} : Standing(q)' = Standing(q)
  BY DEF Standing
<1> QED
  BY <1>1 DEF Entries

\* Writing the whole entry with its old amount is writing its state.
LEMMA StateOnly ==
  ASSUME NEW r \in Refunds, NEW state,
         Entries' = [Entries EXCEPT ![r] = [amount |-> refund[r].amount, state |-> state]]
  PROVE  Entries' = [Entries EXCEPT ![r].state = state]
<1>1. Entries[r] = [amount |-> refund[r].amount, state |-> Standing(r)]
  BY DEF Entries
<1>2. [Entries[r] EXCEPT !.state = state] = [amount |-> refund[r].amount, state |-> state]
  BY <1>1
<1> QED
  BY <1>2

LEMMA RequestMaps ==
  ASSUME IInv, IInv', NEW r \in Refunds, NEW amount, NEW s \in {"REQUESTED", "APPROVED"},
         Request(r, amount, s), UNCHANGED gateway
  PROVE  Ledger!Next
<1>1. /\ refund[r].status = "NONE" /\ amount \in 1..Remaining
      /\ refund'[r] = [status |-> s, amount |-> amount] /\ refund'[r].status = s
      /\ \A q \in Refunds \ {r} : refund'[q] = refund[q] /\ gateway'[q] = gateway[q]
  BY RequestMoves DEF IInv
<1>2. PICK state \in {"ASKED", "DUE"} : Standing(r)' = state
  BY <1>1, StandingIs DEF Due, Standing, IInv, InOrder, ApprovedFirst, Known
<1>3. Standing(r) = "NONE"
  BY <1>1, StandingIs
<1>4. refund'[r].amount = amount
  BY <1>1
<1>5. /\ Entries' = [Entries EXCEPT ![r] = [amount |-> amount, state |-> state]]
      /\ Entries[r] = [amount |-> refund[r].amount, state |-> "NONE"]
  BY <1>1, <1>2, <1>3, <1>4, OneEntry
<1>6. Entries[r].state = "NONE"
  BY <1>5
<1>7. [amount |-> amount, state |-> state] = [state |-> state, amount |-> amount]
  OBVIOUS
<1> QED
  BY <1>1, <1>5, <1>6, <1>7, SamePromises, Asks

LEMMA DecideMaps ==
  ASSUME IInv, NEW r \in Refunds, Decide(r)
  PROVE  Ledger!Next
<1>1. PICK s \in {"APPROVED", "REJECTED"} : Status(r, s)
  BY DEF Decide
<1>2. s \in Statuses /\ TypeOK
  BY DEF Statuses, IInv
<1>3. /\ refund'[r] = [status |-> s, amount |-> refund[r].amount] /\ refund'[r].status = s
      /\ \A q \in Refunds \ {r} : refund'[q] = refund[q] /\ gateway'[q] = gateway[q]
  BY <1>1, <1>2, StatusMoves DEF Decide
<1>4. Standing(r) = "ASKED" /\ gateway'[r] # "PROCESSED"
  BY StandingIs DEF Decide
<1>5. PICK state \in {"DENIED", "DUE"} : Standing(r)' = state
  BY <1>3, <1>4 DEF Standing
<1>6. /\ Entries' = [Entries EXCEPT ![r] = [amount |-> refund[r].amount, state |-> state]]
      /\ Entries[r] = [amount |-> refund[r].amount, state |-> "ASKED"]
  <2>1. refund'[r].amount = refund[r].amount
    BY <1>3
  <2> QED
    BY <1>3, <1>4, <1>5, <2>1, OneEntry
<1>7. Entries[r].state = "ASKED"
  BY <1>6
<1> QED
  BY <1>6, <1>7, StateOnly, Decides

LEMMA SendingMaps ==
  ASSUME IInv, IInv', NEW r \in Refunds,
         \/ Claim(r) \/ Find(r) \/ CreateRefund(r) \/ Record(r) \/ SendingFails(r)
         \/ Crash(r) \/ FindStuck(r) \/ RecordStuck(r)
         \/ \E outcome \in {"PROCESSED", "FAILED"} :
               GatewayDecides(r, outcome) \/ DeliverWebhook(r, outcome)
  PROVE  Ledger!Next \/ UNCHANGED Entries
<1>1. /\ refund'[r].amount = refund[r].amount
      /\ \A q \in Refunds \ {r} : refund'[q] = refund[q] /\ gateway'[q] = gateway[q]
      /\ \/ refund'[r].status = refund[r].status /\ gateway'[r] = gateway[r]
         \/ /\ refund[r].status \in Due /\ refund'[r].status \in Due
            /\ gateway[r] = "PROCESSED" => gateway'[r] = "PROCESSED"
  BY SendingMoves
<1>2. /\ Entries' = [Entries EXCEPT ![r] = [amount |-> refund[r].amount,
                                            state |-> Standing(r)']]
      /\ Entries[r] = [amount |-> refund[r].amount, state |-> Standing(r)]
  BY <1>1, OneEntry
<1>3. \/ Standing(r)' = Standing(r)
      \/ Standing(r) = "DUE" /\ Standing(r)' = "PAID"
  <2>1. refund[r].status \in Due <=> Standing(r) \in {"DUE", "PAID"}
    BY StandingIs
  <2>2. Standing(r) = "PAID" <=> gateway[r] = "PROCESSED"
    BY StandingIs
  <2>3. refund'[r].status \in Due => Standing(r)' \in {"DUE", "PAID"}
    BY DEF Due, Known, Standing
  <2>4. Standing(r)' = "PAID" <=> gateway'[r] = "PROCESSED"
    BY DEF Standing
  <2>5. refund'[r].status = refund[r].status /\ gateway'[r] = gateway[r]
          => Standing(r)' = Standing(r)
    BY DEF Standing
  <2> QED
    BY <1>1, <2>1, <2>2, <2>3, <2>4, <2>5
<1>4. CASE Standing(r)' = Standing(r)
  BY <1>2, <1>4 DEF Entries
<1>5. CASE Standing(r) = "DUE" /\ Standing(r)' = "PAID"
  <2>1. Entries' = [Entries EXCEPT ![r].state = "PAID"]
    BY <1>2, <1>5, StateOnly
  <2>2. Entries[r].state = "DUE"
    BY <1>2, <1>5
  <2> QED
    BY <2>1, <2>2, Pays
<1> QED
  BY <1>3, <1>4, <1>5

LEMMA StepMaps ==
  ASSUME IInv, IInv', [RefundsNext]_refundVars
  PROVE  Ledger!Next \/ UNCHANGED Entries
<1>1. CASE UNCHANGED refundVars
  BY <1>1 DEF refundVars, Entries, Standing
<1>2. ASSUME NEW r \in Refunds, RefundStep(r)
      PROVE  Ledger!Next \/ UNCHANGED Entries
  <2>1. CASE UNCHANGED refund /\ UNCHANGED gateway
    BY <2>1 DEF Entries, Standing
  <2>2. CASE \E amount \in 1..Captured : RequestRefund(r, amount)
    BY <2>2, RequestMaps DEF RequestRefund
  <2>3. CASE \E share \in 0..Captured : CancelByCustomer(r, share)
    BY <2>1, <2>3, RequestMaps DEF CancelByCustomer
  <2>4. CASE CancelByCompany(r)
    BY <2>1, <2>4, RequestMaps DEF CancelByCompany
  <2>5. CASE Decide(r)
    BY <2>5, DecideMaps
  <2> QED
    BY <1>2, <2>2, <2>3, <2>4, <2>5, SendingMaps DEF RefundStep
<1> QED
  BY <1>1, <1>2 DEF RefundsNext

LEMMA InitMaps == RefundsInit => Ledger!Init
<1> SUFFICES ASSUME RefundsInit PROVE Ledger!Init
  OBVIOUS
<1>1. Entries = [r \in Refunds |-> [state |-> "NONE", amount |-> 0]]
  <2>1. \A r \in Refunds : Standing(r) = "NONE" /\ refund[r].amount = 0
    BY DEF RefundsInit, Standing
  <2> QED
    BY <2>1 DEF Entries
<1> QED
  BY <1>1 DEF Ledger!Init, Entries, Standing

\* Whatever happens between us and the gateway, the customer and the company
\* see a simple ledger: what is promised never exceeds what was captured, and
\* only an approved refund is paid, once.
THEOREM RefundsKeepTheLedger == RefundsSpec => ImplementsLedger
<1>1. RefundsInit => Ledger!Init
  BY InitMaps
<1>2. IInv /\ IInv' /\ [RefundsNext]_refundVars => Ledger!Next \/ UNCHANGED Entries
  BY StepMaps
<1>3. IInv /\ IInv' /\ [RefundsNext]_refundVars
        => [Ledger!Next]_([r \in Refunds |->
            [amount |-> refund[r].amount,
             state |-> IF gateway[r] = "PROCESSED" THEN "PAID"
                       ELSE CASE refund[r].status = "NONE" -> "NONE"
                              [] refund[r].status = "REQUESTED" -> "ASKED"
                              [] refund[r].status = "REJECTED" -> "DENIED"
                              [] OTHER -> "DUE"]])
  BY <1>2 DEF Entries, Standing
<1> QED
  BY <1>1, <1>3, Invariant, PTL DEF RefundsSpec, ImplementsLedger, Ledger!Spec
=============================================================================
