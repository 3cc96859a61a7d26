--------------------------- MODULE PaymentsProofs ---------------------------
(***************************************************************************)
(* For any number of checkouts: a booking is charged once, captured money  *)
(* always pays for something or is returned, a capture is final, and the   *)
(* server never captures what was authorized too late.                     *)
(***************************************************************************)
EXTENDS Payments, TLAPS

\* What the server was told of an order is something the gateway did: no order
\* that is still being created has been paid, and an answer or a webhook about
\* an authorization means that the gateway holds the money or has taken it.
GatewayKnows ==
    \A p \in Payments :
        /\ p \in opening => payment[p].status \in {"CREATED", "FAILED"}
        /\ p \in opening \/ payment[p].status = "NONE" => gateway[p] = "NONE"
        /\ payment[p].order => gateway[p] # "NONE"
        /\ call[p] # "NONE" => gateway[p] \in Outcomes
        /\ \A outcome \in Outcomes :
              <<p, outcome>> \in webhooks => gateway[p] \in Outcomes
        /\ \/ <<p, "AUTHORIZED">> \in webhooks
           \/ call[p] \in {"AUTHORIZED", "DECIDE", "CAPTURE"}
           \/ payment[p].status = "AUTHORIZED"
           => gateway[p] \in {"AUTHORIZED", "CAPTURED"}

\* One captured payment pays for the booking and the others are returned.
OnePays ==
    /\ \A p, q \in Payments : PaysForBooking(p) /\ PaysForBooking(q) => p = q
    /\ \A p \in Payments : payment[p].duplicate => payment[p].refund = "FULL"

\* What was authorized too late is not about to be captured.
TooLateIsLeft ==
    \A p \in tooLate : Ended /\ call[p] # "CAPTURE"

IInv == TypeOK /\ GatewayKnows /\ OnePays /\ MoneyHasAPurpose /\ TooLateIsLeft

-----------------------------------------------------------------------------
(* Records and events. *)

LEMMA PaymentRecords ==
  /\ NoPayment \in Payment
  /\ \A r \in Payment :
        /\ \A s \in {"NONE", "CREATED", "AUTHORIZED", "CAPTURED", "FAILED"} :
              [r EXCEPT !.status = s] \in Payment
        /\ [r EXCEPT !.order = TRUE] \in Payment
        /\ [r EXCEPT !.refund = "POLICY"] \in Payment
        /\ \A d \in BOOLEAN, refund \in {"NONE", "POLICY", "FULL"} :
              [r EXCEPT !.status = "CAPTURED", !.duplicate = d, !.refund = refund] \in Payment
  BY DEF NoPayment, Payment

LEMMA OneChanges ==
  ASSUME TypeOK, NEW p \in Payments, NEW r \in Payment,
         payment' = [payment EXCEPT ![p] = r]
  PROVE  /\ payment' \in [Payments -> Payment]
         /\ payment'[p] = r
         /\ \A q \in Payments \ {p} : payment'[q] = payment[q]
  BY DEF TypeOK

-----------------------------------------------------------------------------
LEMMA InitHolds == Init => IInv
<1> SUFFICES ASSUME Init PROVE IInv
  OBVIOUS
<1>1. TypeOK
  BY PaymentRecords DEF Init, TypeOK
<1>2. ASSUME NEW p \in Payments
      PROVE  /\ payment[p].status = "NONE" /\ payment[p].order = FALSE
             /\ payment[p].duplicate = FALSE
  <2>1. payment[p] = [status |-> "NONE", order |-> FALSE, duplicate |-> FALSE,
                      refund |-> "NONE"]
    BY DEF Init, NoPayment
  <2> QED
    BY <2>1
<1>3. GatewayKnows /\ OnePays /\ MoneyHasAPurpose /\ TooLateIsLeft
  BY <1>2 DEF Init, GatewayKnows, OnePays, MoneyHasAPurpose, TooLateIsLeft, PaysForBooking
<1> QED
  BY <1>1, <1>3 DEF IInv

-----------------------------------------------------------------------------
(* Opening a checkout. *)

LEMMA InitiateHolds ==
  ASSUME IInv, NEW p \in Payments, Initiate(p)
  PROVE  IInv'
<1>1. TypeOK /\ payment[p].status = "NONE"
  BY DEF IInv, Initiate
<1>2. ASSUME NEW q \in Payments
      PROVE  /\ payment'[q] \in Payment
             /\ \/ payment'[q] = payment[q] /\ q # p
                \/ /\ payment[q].status \in {"NONE", "CREATED"}
                   /\ payment'[q].status \in {"CREATED", "FAILED"}
                   /\ payment'[q].duplicate => payment[q].duplicate /\ q # p
                   /\ payment'[q].order => payment[q].order
                   /\ q # p => payment'[q].refund = payment[q].refund
  <2>1. payment[q] \in Payment
    BY <1>1 DEF TypeOK
  <2>2. CASE q = p
    <3>1. payment'[q] = [status |-> "CREATED", order |-> FALSE,
                         duplicate |-> FALSE, refund |-> "NONE"]
      BY <2>2 DEF Initiate, NoPayment
    <3> QED
      BY <1>1, <2>2, <3>1 DEF Payment
  <2>3. CASE q # p /\ payment[q].status = "CREATED"
    <3>1. payment'[q] = [payment[q] EXCEPT !.status = "FAILED"]
      BY <2>3 DEF Initiate
    <3>2. payment'[q] \in Payment
      BY <2>1, <3>1, PaymentRecords
    <3>3. /\ payment'[q].status = "FAILED"
          /\ payment'[q].duplicate = payment[q].duplicate
          /\ payment'[q].order = payment[q].order
          /\ payment'[q].refund = payment[q].refund
      BY <2>1, <3>1 DEF Payment
    <3> QED
      BY <2>3, <3>2, <3>3
  <2>4. CASE q # p /\ payment[q].status # "CREATED"
    BY <2>1, <2>4 DEF Initiate
  <2> QED
    BY <2>2, <2>3, <2>4
<1>3. payment' = [q \in Payments |-> payment'[q]]
  BY DEF Initiate
<1>4. TypeOK'
  BY <1>1, <1>2, <1>3 DEF Initiate, TypeOK
<1>5. GatewayKnows'
  <2>1. gateway[p] = "NONE" /\ GatewayKnows
    BY <1>1 DEF IInv, GatewayKnows
  <2>2. opening' = opening \cup {p} /\ UNCHANGED <<gateway, webhooks, call>>
    BY DEF Initiate
  <2>3. ASSUME NEW q \in Payments, q # p
        PROVE  /\ q \in opening' => payment'[q].status \in {"CREATED", "FAILED"}
               /\ payment'[q].order => payment[q].order
               /\ payment'[q].status \in {"NONE", "AUTHORIZED"} =>
                     payment[q].status = payment'[q].status
    BY <1>2, <2>1, <2>2, <2>3 DEF GatewayKnows
  <2> QED
    BY <1>1, <1>2, <2>1, <2>2, <2>3 DEF GatewayKnows
<1>6. OnePays'
  <2>1. OnePays
    BY DEF IInv
  <2>2. ASSUME NEW q \in Payments, payment'[q].duplicate
        PROVE  payment'[q].refund = "FULL"
    BY <1>2, <2>1, <2>2 DEF OnePays
  <2>3. ASSUME NEW q \in Payments, PaysForBooking(q)'
        PROVE  PaysForBooking(q)
    BY <1>2, <2>3 DEF PaysForBooking
  <2> QED
    BY <2>1, <2>2, <2>3 DEF OnePays
<1>7. MoneyHasAPurpose' /\ TooLateIsLeft'
  BY <1>1, <1>2 DEF Initiate, IInv, MoneyHasAPurpose, TooLateIsLeft, Ended
<1> QED
  BY <1>4, <1>5, <1>6, <1>7 DEF IInv

LEMMA OrderCreatedHolds ==
  ASSUME IInv, NEW p \in Payments, OrderCreated(p)
  PROVE  IInv'
<1>1. TypeOK /\ payment[p] \in Payment
  BY DEF IInv, TypeOK
<1>2. payment' \in [Payments -> Payment]
  BY <1>1, PaymentRecords, OneChanges DEF OrderCreated
<1>3. TypeOK'
  BY <1>1, <1>2 DEF OrderCreated, TypeOK
<1>4. GatewayKnows'
  BY <1>1 DEF OrderCreated, IInv, TypeOK, Payment, GatewayKnows, Outcomes
<1>5. OnePays'
  BY <1>1 DEF OrderCreated, IInv, TypeOK, Payment, OnePays, PaysForBooking
<1>6. MoneyHasAPurpose' /\ TooLateIsLeft'
  BY <1>1 DEF OrderCreated, IInv, TypeOK, Payment, MoneyHasAPurpose, TooLateIsLeft, Ended
<1> QED
  BY <1>3, <1>4, <1>5, <1>6 DEF IInv

LEMMA OrderNotCreatedHolds ==
  ASSUME IInv, NEW p \in Payments, OrderNotCreated(p)
  PROVE  IInv'
<1>1. TypeOK /\ payment[p] \in Payment
  BY DEF IInv, TypeOK
<1>2. payment' \in [Payments -> Payment]
  BY <1>1, PaymentRecords, OneChanges DEF OrderNotCreated
<1>3. TypeOK'
  BY <1>1, <1>2 DEF OrderNotCreated, TypeOK
<1>4. GatewayKnows'
  BY <1>1 DEF OrderNotCreated, IInv, TypeOK, Payment, GatewayKnows
<1>5. OnePays'
  BY <1>1 DEF OrderNotCreated, IInv, TypeOK, Payment, OnePays, PaysForBooking
<1>6. MoneyHasAPurpose' /\ TooLateIsLeft'
  BY <1>1 DEF OrderNotCreated, IInv, TypeOK, Payment, MoneyHasAPurpose, TooLateIsLeft, Ended
<1> QED
  BY <1>3, <1>4, <1>5, <1>6 DEF IInv

LEMMA OpeningLostHolds ==
  ASSUME IInv, NEW p \in Payments, OpeningLost(p)
  PROVE  IInv'
  BY DEF OpeningLost, IInv, TypeOK, GatewayKnows, OnePays, PaysForBooking,
         MoneyHasAPurpose, TooLateIsLeft, Ended

-----------------------------------------------------------------------------
(* The gateway and the calls to it: neither payments nor booking change. *)

LEMMA ServerUnchanged ==
  ASSUME IInv, UNCHANGED <<booking, payment>>
  PROVE  OnePays' /\ MoneyHasAPurpose'
  BY DEF IInv, OnePays, PaysForBooking, MoneyHasAPurpose

LEMMA GatewayHolds ==
  ASSUME IInv, NEW p \in Payments, AttemptFails(p) \/ Authorize(p) \/ AutoCapture(p)
  PROVE  IInv'
<1>1. PICK outcome \in Outcomes :
        /\ GatewaySays(p, outcome)
        /\ outcome = "FAILED" => gateway[p] = "OPEN"
        /\ gateway[p] \in {"OPEN", "FAILED", "AUTHORIZED"}
  BY DEF AttemptFails, Authorize, AutoCapture, Outcomes
<1>2. /\ UNCHANGED <<server, call>>
      /\ tooLate' = tooLate \/ (tooLate' = tooLate \cup {p} /\ Ended
                                 /\ gateway[p] \in {"OPEN", "FAILED"})
  BY DEF AttemptFails, Authorize, AutoCapture
<1>3. TypeOK'
  <2>1. gateway' \in [Payments -> {"NONE", "OPEN"} \cup Outcomes]
    BY <1>1 DEF IInv, TypeOK, GatewaySays
  <2>2. webhooks' \in SUBSET (Payments \X Outcomes)
    BY <1>1 DEF IInv, TypeOK, GatewaySays
  <2> QED
    BY <1>2, <2>1, <2>2 DEF IInv, TypeOK, server
<1>4. GatewayKnows'
  BY <1>1, <1>2 DEF IInv, TypeOK, GatewayKnows, GatewaySays, Outcomes, server
<1>5. OnePays' /\ MoneyHasAPurpose'
  BY <1>2, ServerUnchanged DEF server
<1>6. TooLateIsLeft'
  BY <1>2 DEF IInv, TypeOK, GatewayKnows, TooLateIsLeft, Ended, server
<1> QED
  BY <1>3, <1>4, <1>5, <1>6 DEF IInv

LEMMA FetchHolds ==
  ASSUME IInv, NEW p \in Payments, FetchStatus(p) \/ DecideCapture(p)
  PROVE  IInv'
<1>1. TypeOK'
  BY DEF FetchStatus, DecideCapture, IInv, TypeOK, server
<1>2. GatewayKnows'
  BY DEF FetchStatus, DecideCapture, IInv, TypeOK, GatewayKnows, Outcomes, server
<1>3. OnePays' /\ MoneyHasAPurpose'
  BY ServerUnchanged DEF FetchStatus, DecideCapture, server
<1>4. TooLateIsLeft'
  BY DEF FetchStatus, DecideCapture, IInv, TypeOK, TooLateIsLeft, Ended, Outcomes, server
<1> QED
  BY <1>1, <1>2, <1>3, <1>4 DEF IInv

LEMMA CaptureHolds ==
  ASSUME IInv, NEW p \in Payments, Capture(p) \/ CallFails(p)
  PROVE  IInv'
<1>1. /\ UNCHANGED <<server, tooLate>>
      /\ call' = [call EXCEPT ![p] = "CAPTURED"] \/ call' = [call EXCEPT ![p] = "NONE"]
      /\ \/ GatewaySays(p, "CAPTURED") /\ gateway[p] \in {"AUTHORIZED", "CAPTURED"}
         \/ UNCHANGED <<gateway, webhooks>> /\ call'[p] = "NONE"
  BY DEF Capture, CallFails, IInv, TypeOK
<1>2. TypeOK'
  <2>1. call' \in [Payments -> {"NONE", "DECIDE", "CAPTURE"} \cup Outcomes]
    BY <1>1 DEF IInv, TypeOK, Outcomes
  <2>2. gateway' \in [Payments -> {"NONE", "OPEN"} \cup Outcomes]
    BY <1>1 DEF IInv, TypeOK, GatewaySays, Outcomes
  <2>3. webhooks' \in SUBSET (Payments \X Outcomes)
    BY <1>1 DEF IInv, TypeOK, GatewaySays, Outcomes
  <2> QED
    BY <1>1, <2>1, <2>2, <2>3 DEF IInv, TypeOK, server
<1>3. GatewayKnows'
  <2>1. call'[p] \in {"NONE", "CAPTURED"} /\ \A q \in Payments \ {p} : call'[q] = call[q]
    BY <1>1 DEF IInv, TypeOK
  <2>2. CASE GatewaySays(p, "CAPTURED") /\ gateway[p] \in {"AUTHORIZED", "CAPTURED"}
    BY <1>1, <2>1, <2>2 DEF IInv, TypeOK, GatewayKnows, GatewaySays, Outcomes, server
  <2>3. CASE UNCHANGED <<gateway, webhooks>> /\ call'[p] = "NONE"
    BY <1>1, <2>1, <2>3 DEF IInv, TypeOK, GatewayKnows, server
  <2> QED
    BY <1>1, <2>2, <2>3
<1>4. OnePays' /\ MoneyHasAPurpose'
  BY <1>1, ServerUnchanged DEF server
<1>5. TooLateIsLeft'
  BY <1>1 DEF IInv, TypeOK, TooLateIsLeft, Ended, server
<1> QED
  BY <1>2, <1>3, <1>4, <1>5 DEF IInv

-----------------------------------------------------------------------------
(* Gateway events. *)

\* An event about an order the gateway has, applied once.  Only this payment
\* changes: it becomes AUTHORIZED or FAILED when it was not captured yet, or it
\* is captured -- and then pays for the booking or is returned.
LEMMA EventEffect ==
  ASSUME TypeOK, NEW p \in Payments, NEW outcome \in Outcomes, NEW from \in {"webhook", "status"},
         ProcessEvent(from, p, outcome)
  PROVE  /\ payment' \in [Payments -> Payment]
         /\ recent' \in SUBSET Payments /\ stored' \in SUBSET EventIds
         /\ UNCHANGED <<due, opening>>
         /\ \A q \in Payments \ {p} : payment'[q] = payment[q]
         /\ payment'[p].order = payment[p].order
         /\ \/ payment'[p] = payment[p] /\ booking' = booking
            \/ /\ payment[p].status # "CAPTURED"
               /\ \/ payment'[p].status = "AUTHORIZED" /\ outcome = "AUTHORIZED"
                  \/ payment'[p].status = "FAILED"
               /\ payment'[p].duplicate = payment[p].duplicate
               /\ payment'[p].refund = payment[p].refund
               /\ booking' = booking
            \/ /\ payment[p].status # "CAPTURED" /\ payment'[p].status = "CAPTURED"
               /\ payment'[p].duplicate = (\E q \in Payments : PaysForBooking(q))
               /\ payment'[p].refund =
                     IF payment'[p].duplicate \/ Ended THEN "FULL" ELSE "NONE"
               /\ booking' = IF ~payment'[p].duplicate /\ booking = "PENDING_PAYMENT"
                             THEN "CONFIRMED" ELSE booking
<1>1. payment[p] \in Payment
  BY DEF TypeOK
<1>2. CASE <<from, p, outcome>> \in stored
  BY <1>2 DEF ProcessEvent, TypeOK
<1>3. CASE <<from, p, outcome>> \notin stored
  <2>1. stored' \in SUBSET EventIds /\ UNCHANGED <<due, opening>>
    BY <1>3 DEF ProcessEvent, TypeOK, EventIds
  <2>2. CASE outcome = "AUTHORIZED" /\ ApplyAuthorized(p)
    <3>1. CASE payment' = [payment EXCEPT ![p].status = "AUTHORIZED"]
      <4>1. payment' \in [Payments -> Payment]
        BY <1>1, <3>1, PaymentRecords, OneChanges
      <4> QED
        BY <1>1, <2>1, <2>2, <3>1, <4>1 DEF ApplyAuthorized, TypeOK, Payment
    <3>2. CASE UNCHANGED <<payment, recent>>
      BY <2>1, <2>2, <3>2 DEF ApplyAuthorized, TypeOK
    <3> QED
      BY <2>2, <3>1, <3>2 DEF ApplyAuthorized
  <2>3. CASE outcome = "FAILED" /\ ApplyFailed(p)
    <3>1. CASE payment' = [payment EXCEPT ![p].status = "FAILED"]
      <4>1. payment' \in [Payments -> Payment]
        BY <1>1, <3>1, PaymentRecords, OneChanges
      <4>2. /\ payment'[p] = [payment[p] EXCEPT !.status = "FAILED"]
            /\ \A q \in Payments \ {p} : payment'[q] = payment[q]
        BY <3>1 DEF TypeOK
      <4>3. /\ payment'[p].status = "FAILED" /\ payment'[p].order = payment[p].order
            /\ payment'[p].duplicate = payment[p].duplicate
            /\ payment'[p].refund = payment[p].refund
        BY <1>1, <4>2 DEF Payment
      <4> QED
        BY <2>1, <2>3, <4>1, <4>2, <4>3 DEF ApplyFailed, TypeOK
    <3>2. CASE payment' = payment
      BY <2>1, <2>3, <3>2 DEF ApplyFailed, TypeOK
    <3> QED
      BY <2>3, <3>1, <3>2 DEF ApplyFailed
  <2>4. CASE outcome = "CAPTURED" /\ ApplyCaptured(p)
    <3>1. CASE payment[p].status = "CAPTURED"
      BY <2>1, <2>4, <3>1 DEF ApplyCaptured, TypeOK
    <3>2. CASE payment[p].status # "CAPTURED"
      <4> DEFINE duplicate == \E q \in Payments : PaysForBooking(q)
                 refund == IF duplicate \/ Ended THEN "FULL" ELSE "NONE"
                 r == [payment[p] EXCEPT !.status = "CAPTURED", !.duplicate = duplicate,
                                         !.refund = refund]
      <4>1. /\ payment' = [payment EXCEPT ![p] = r]
            /\ booking' = IF ~duplicate /\ booking = "PENDING_PAYMENT"
                          THEN "CONFIRMED" ELSE booking
            /\ recent' = recent
        BY <2>4, <3>2 DEF ApplyCaptured
      <4>2. duplicate \in BOOLEAN /\ refund \in {"NONE", "POLICY", "FULL"}
        OBVIOUS
      <4> HIDE DEF duplicate
      <4>3. r \in Payment
        <5> HIDE DEF refund
        <5> QED
          BY <1>1, <4>2, PaymentRecords
      <4>4. /\ r.status = "CAPTURED" /\ r.order = payment[p].order
            /\ r.duplicate = duplicate /\ r.refund = refund
        BY <1>1 DEF Payment
      <4> HIDE DEF r, refund
      <4>5. /\ payment' \in [Payments -> Payment] /\ payment'[p] = r
            /\ \A q \in Payments \ {p} : payment'[q] = payment[q]
        BY <4>1, <4>3, OneChanges
      <4> QED
        BY <2>1, <3>2, <4>1, <4>4, <4>5 DEF TypeOK, duplicate, refund
    <3> QED
      BY <3>1, <3>2
  <2> QED
    BY <1>3, <2>2, <2>3, <2>4 DEF ProcessEvent, Outcomes
<1> QED
  BY <1>2, <1>3

LEMMA EventHolds ==
  ASSUME IInv, NEW p \in Payments, NEW outcome \in Outcomes, NEW from \in {"webhook", "status"},
         ProcessEvent(from, p, outcome), UNCHANGED <<gateway, webhooks, tooLate>>,
         gateway[p] \in Outcomes,
         outcome = "AUTHORIZED" => gateway[p] \in {"AUTHORIZED", "CAPTURED"},
         \/ call' = call
         \/ call' = [call EXCEPT ![p] = "NONE"]
         \/ call' = [call EXCEPT ![p] = "DECIDE"] /\ outcome = "AUTHORIZED"
  PROVE  IInv'
<1>1. TypeOK /\ GatewayKnows /\ OnePays /\ MoneyHasAPurpose /\ TooLateIsLeft
  BY DEF IInv
<1>2. /\ payment' \in [Payments -> Payment]
      /\ recent' \in SUBSET Payments /\ stored' \in SUBSET EventIds
      /\ UNCHANGED <<due, opening>>
      /\ \A q \in Payments \ {p} : payment'[q] = payment[q]
      /\ payment'[p].order = payment[p].order
  BY <1>1, EventEffect
<1>3. \/ payment'[p] = payment[p] /\ booking' = booking
      \/ /\ payment[p].status # "CAPTURED"
         /\ \/ payment'[p].status = "AUTHORIZED" /\ outcome = "AUTHORIZED"
            \/ payment'[p].status = "FAILED"
         /\ payment'[p].duplicate = payment[p].duplicate
         /\ payment'[p].refund = payment[p].refund
         /\ booking' = booking
      \/ /\ payment[p].status # "CAPTURED" /\ payment'[p].status = "CAPTURED"
         /\ payment'[p].duplicate = (\E q \in Payments : PaysForBooking(q))
         /\ payment'[p].refund = IF payment'[p].duplicate \/ Ended THEN "FULL" ELSE "NONE"
         /\ booking' = IF ~payment'[p].duplicate /\ booking = "PENDING_PAYMENT"
                       THEN "CONFIRMED" ELSE booking
  BY <1>1, EventEffect
<1>4. TypeOK'
  <2>1. call' \in [Payments -> {"NONE", "DECIDE", "CAPTURE"} \cup Outcomes]
    BY <1>1 DEF TypeOK
  <2>2. booking' \in {"PENDING_PAYMENT", "CONFIRMED", "CANCELLED", "EXPIRED"}
    BY <1>1, <1>3 DEF TypeOK
  <2> QED
    BY <1>1, <1>2, <2>1, <2>2 DEF TypeOK
<1>5. GatewayKnows'
  <2>1. ASSUME NEW q \in Payments
        PROVE  \/ call'[q] = call[q]
               \/ q = p /\ call'[q] = "NONE"
               \/ q = p /\ call'[q] = "DECIDE" /\ outcome = "AUTHORIZED"
    <3>1. call \in [Payments -> {"NONE", "DECIDE", "CAPTURE"} \cup Outcomes]
      BY <1>1 DEF TypeOK
    <3> QED
      BY <3>1
  <2>2. p \notin opening /\ payment[p].status # "NONE"
    BY <1>1 DEF GatewayKnows, Outcomes
  <2>3. payment'[p].status # "NONE"
    BY <1>3, <2>2
  <2>4. payment'[p].status = "AUTHORIZED" =>
          payment[p].status = "AUTHORIZED" \/ outcome = "AUTHORIZED"
    BY <1>3
  <2> QED
    BY <1>1, <1>2, <2>1, <2>2, <2>3, <2>4 DEF GatewayKnows, Outcomes
<1>6. OnePays'
  <2>1. ASSUME NEW q \in Payments, payment'[q].duplicate
        PROVE  payment'[q].refund = "FULL"
    BY <1>1, <1>2, <1>3, <2>1 DEF OnePays
  <2>2. CASE payment'[p] = payment[p]
    BY <1>1, <1>2, <2>1, <2>2 DEF OnePays, PaysForBooking
  <2>3. CASE payment'[p].status \in {"AUTHORIZED", "FAILED"}
    BY <1>1, <1>2, <2>1, <2>3 DEF OnePays, PaysForBooking
  <2>4. CASE /\ payment[p].status # "CAPTURED"
             /\ payment'[p].duplicate = (\E q \in Payments : PaysForBooking(q))
    BY <1>1, <1>2, <2>1, <2>4 DEF OnePays, PaysForBooking
  <2> QED
    BY <1>3, <2>2, <2>3, <2>4
<1>7. MoneyHasAPurpose'
  <2>1. ASSUME NEW q \in Payments, payment'[q].status = "CAPTURED", payment'[q].refund # "FULL"
        PROVE  \/ booking' = "CONFIRMED"
               \/ booking' = "CANCELLED" /\ payment'[q].refund = "POLICY"
    <3>1. CASE payment'[q] = payment[q]
      <4>1. \/ booking = "CONFIRMED"
            \/ booking = "CANCELLED" /\ payment[q].refund = "POLICY"
        BY <1>1, <2>1, <3>1 DEF MoneyHasAPurpose
      <4> QED
        BY <1>3, <3>1, <4>1
    <3>2. CASE payment'[q] # payment[q]
      <4>1. q = p
        BY <1>2, <3>2
      <4> QED
        BY <1>1, <1>3, <2>1, <3>2, <4>1 DEF TypeOK, Ended
    <3> QED
      BY <3>1, <3>2
  <2> QED
    BY <2>1 DEF MoneyHasAPurpose
<1>8. TooLateIsLeft'
  <2>1. Ended => Ended'
    BY <1>3 DEF Ended
  <2>2. \A q \in Payments : call'[q] = "CAPTURE" => call[q] = "CAPTURE"
    BY <1>1 DEF TypeOK
  <2> QED
    BY <1>1, <2>1, <2>2 DEF TypeOK, TooLateIsLeft
<1> QED
  BY <1>4, <1>5, <1>6, <1>7, <1>8 DEF IInv

LEMMA DeliverWebhookHolds ==
  ASSUME IInv, NEW p \in Payments, NEW outcome \in Outcomes, DeliverWebhook(p, outcome)
  PROVE  IInv'
<1>1. /\ gateway[p] \in Outcomes
      /\ outcome = "AUTHORIZED" => gateway[p] \in {"AUTHORIZED", "CAPTURED"}
  BY DEF DeliverWebhook, IInv, GatewayKnows
<1> QED
  BY <1>1, EventHolds DEF DeliverWebhook

LEMMA ApplyStatusHolds ==
  ASSUME IInv, NEW p \in Payments, ApplyStatus(p)
  PROVE  IInv'
<1>1. call[p] \in Outcomes /\ ProcessEvent("status", p, call[p])
  BY DEF ApplyStatus
<1>2. gateway[p] \in Outcomes
  BY <1>1 DEF IInv, GatewayKnows, Outcomes
<1>3. call[p] = "AUTHORIZED" => gateway[p] \in {"AUTHORIZED", "CAPTURED"}
  BY DEF IInv, GatewayKnows
<1>4. \/ call' = [call EXCEPT ![p] = "NONE"]
      \/ call' = [call EXCEPT ![p] = "DECIDE"] /\ call[p] = "AUTHORIZED"
  BY DEF ApplyStatus, IInv, TypeOK
<1> QED
  BY <1>1, <1>2, <1>3, <1>4, EventHolds DEF ApplyStatus

-----------------------------------------------------------------------------
(* The booking. *)

\* The payments do not change, and a booking that goes ahead is not ended.
LEMMA BookingHolds ==
  ASSUME IInv,
         \/ DeadlinePasses \/ ExpireUnpaid \/ ConfirmWithoutPrepayment
         \/ \E p \in Payments : GraceEnds(p)
  PROVE  IInv'
<1>1. /\ UNCHANGED <<payment, opening, gateway, webhooks, stored, call, tooLate>>
      /\ \/ booking' = booking
         \/ booking = "PENDING_PAYMENT" /\ booking' \in {"EXPIRED", "CONFIRMED"}
  BY DEF DeadlinePasses, ExpireUnpaid, ConfirmWithoutPrepayment, GraceEnds
<1>2. TypeOK'
  BY <1>1 DEF DeadlinePasses, ExpireUnpaid, ConfirmWithoutPrepayment, GraceEnds, IInv, TypeOK
<1>3. GatewayKnows' /\ OnePays'
  BY <1>1 DEF IInv, GatewayKnows, OnePays, PaysForBooking
<1>4. MoneyHasAPurpose' /\ TooLateIsLeft'
  BY <1>1 DEF IInv, TypeOK, MoneyHasAPurpose, TooLateIsLeft, Ended
<1> QED
  BY <1>2, <1>3, <1>4 DEF IInv

LEMMA CancelHolds ==
  ASSUME IInv, Cancel
  PROVE  IInv'
<1>1. TypeOK
  BY DEF IInv
<1>2. ASSUME NEW p \in Payments
      PROVE  /\ payment'[p] \in Payment
             /\ payment'[p].status = payment[p].status
             /\ payment'[p].order = payment[p].order
             /\ payment'[p].duplicate = payment[p].duplicate
             /\ payment'[p].refund = IF PaysForBooking(p) THEN "POLICY" ELSE payment[p].refund
  <2>1. payment[p] \in Payment
    BY <1>1 DEF TypeOK
  <2>2. CASE PaysForBooking(p)
    <3>1. payment'[p] = [payment[p] EXCEPT !.refund = "POLICY"]
      BY <2>2 DEF Cancel
    <3>2. payment'[p] \in Payment
      BY <2>1, <3>1, PaymentRecords
    <3> QED
      BY <2>1, <2>2, <3>1, <3>2 DEF Payment
  <2>3. CASE ~PaysForBooking(p)
    BY <2>1, <2>3 DEF Cancel
  <2> QED
    BY <2>2, <2>3
<1>3. TypeOK'
  <2>1. payment' \in [Payments -> Payment]
    BY <1>2 DEF Cancel
  <2> QED
    BY <1>1, <2>1 DEF Cancel, TypeOK
<1>4. GatewayKnows'
  BY <1>2 DEF Cancel, IInv, GatewayKnows
<1>5. OnePays'
  <2>1. \A p \in Payments : payment'[p].duplicate => payment'[p].refund = "FULL"
    BY <1>2 DEF IInv, OnePays, PaysForBooking
  <2>2. \A p \in Payments : PaysForBooking(p)' => PaysForBooking(p)
    BY <1>2 DEF PaysForBooking
  <2> QED
    BY <2>1, <2>2 DEF IInv, OnePays
<1>6. MoneyHasAPurpose'
  <2>1. ASSUME NEW p \in Payments, payment[p].status = "CAPTURED", payment'[p].refund # "FULL"
        PROVE  payment'[p].refund = "POLICY"
    BY <1>2, <2>1 DEF IInv, OnePays, PaysForBooking
  <2> QED
    BY <1>2, <2>1 DEF Cancel, MoneyHasAPurpose
<1>7. TooLateIsLeft'
  BY DEF Cancel, IInv, TooLateIsLeft, Ended
<1> QED
  BY <1>3, <1>4, <1>5, <1>6, <1>7 DEF IInv

-----------------------------------------------------------------------------
LEMMA StepHolds == IInv /\ [Next]_vars => IInv'
<1> SUFFICES ASSUME IInv, [Next]_vars
             PROVE  IInv'
  OBVIOUS
<1>1. ASSUME NEW p \in Payments, PaymentStep(p)
      PROVE  IInv'
  <2>1. CASE Initiate(p)
    BY <2>1, InitiateHolds
  <2>2. CASE OrderCreated(p) \/ OrderNotCreated(p) \/ OpeningLost(p)
    BY <2>2, OrderCreatedHolds, OrderNotCreatedHolds, OpeningLostHolds
  <2>3. CASE AttemptFails(p) \/ Authorize(p) \/ AutoCapture(p)
    BY <2>3, GatewayHolds
  <2>4. CASE \E outcome \in Outcomes : DeliverWebhook(p, outcome)
    BY <2>4, DeliverWebhookHolds
  <2>5. CASE JobAsks(p) \/ CustomerAsks(p) \/ DecideCapture(p)
    BY <2>5, FetchHolds DEF JobAsks, CustomerAsks
  <2>6. CASE ApplyStatus(p)
    BY <2>6, ApplyStatusHolds
  <2>7. CASE Capture(p) \/ CallFails(p)
    BY <2>7, CaptureHolds
  <2>8. CASE GraceEnds(p)
    BY <2>8, BookingHolds
  <2> QED
    BY <1>1, <2>1, <2>2, <2>3, <2>4, <2>5, <2>6, <2>7, <2>8 DEF PaymentStep
<1>2. CASE DeadlinePasses \/ ExpireUnpaid \/ ConfirmWithoutPrepayment
  BY <1>2, BookingHolds
<1>3. CASE Cancel
  BY <1>3, CancelHolds
<1>4. CASE UNCHANGED vars
  BY <1>4 DEF vars, IInv, TypeOK, GatewayKnows, OnePays, PaysForBooking,
     MoneyHasAPurpose, TooLateIsLeft, Ended
<1> QED
  BY <1>1, <1>2, <1>3, <1>4 DEF Next

\* The inductive invariant holds in every reachable state.
THEOREM Invariant == Spec => []IInv
  BY InitHolds, StepHolds, PTL DEF Spec

\* Types, for any number of checkouts.
THEOREM Typing == Spec => []TypeOK
<1>1. IInv => TypeOK
  BY DEF IInv
<1> QED
  BY <1>1, Invariant, PTL

\* However many checkouts of a booking are paid, and in whatever order their
\* webhooks and status answers are applied, at most one is not returned.
THEOREM NeverChargedTwice == Spec => []ChargedOnce
<1>1. IInv => ChargedOnce
  BY DEF IInv, OnePays, PaysForBooking, ChargedOnce
<1> QED
  BY <1>1, Invariant, PTL

\* Captured money pays for a booking that goes ahead, or is returned.
THEOREM MoneyIsAccountedFor == Spec => []MoneyHasAPurpose
<1>1. IInv => MoneyHasAPurpose
  BY DEF IInv
<1> QED
  BY <1>1, Invariant, PTL

\* No late failure, authorization or abandoned order undoes a capture.
LEMMA CaptureStays ==
  ASSUME IInv, [Next]_vars, NEW p \in Payments, payment[p].status = "CAPTURED"
  PROVE  payment'[p].status = "CAPTURED"
<1>1. TypeOK /\ payment[p] \in Payment
  BY DEF IInv, TypeOK
<1>2. ASSUME NEW q \in Payments, Initiate(q)
      PROVE  payment'[p] = payment[p]
  BY <1>2 DEF Initiate
<1>3. ASSUME NEW q \in Payments, OrderCreated(q) \/ OrderNotCreated(q)
      PROVE  payment'[p].status = "CAPTURED"
  <2>1. q \in opening => payment[q].status # "CAPTURED"
    BY DEF IInv, GatewayKnows
  <2> QED
    BY <1>1, <1>3, <2>1 DEF OrderCreated, OrderNotCreated, TypeOK, Payment
<1>4. ASSUME NEW q \in Payments, NEW outcome \in Outcomes, NEW from \in {"webhook", "status"},
             ProcessEvent(from, q, outcome)
      PROVE  payment'[p].status = "CAPTURED"
  <2>1. CASE p # q
    BY <1>1, <1>4, <2>1, EventEffect
  <2>2. CASE p = q
    BY <1>1, <1>4, <2>2, EventEffect
  <2> QED
    BY <2>1, <2>2
<1>5. CASE Cancel
  <2>1. CASE PaysForBooking(p)
    BY <1>1, <1>5, <2>1 DEF Cancel, Payment
  <2>2. CASE ~PaysForBooking(p)
    BY <1>5, <2>2 DEF Cancel
  <2> QED
    BY <2>1, <2>2
<1>6. CASE payment' = payment
  BY <1>6
<1>7. ASSUME NEW q \in Payments, PaymentStep(q)
      PROVE  payment'[p].status = "CAPTURED"
  <2>1. CASE Initiate(q) \/ OrderCreated(q) \/ OrderNotCreated(q)
    BY <1>2, <1>3, <2>1
  <2>2. CASE \E outcome \in Outcomes : DeliverWebhook(q, outcome)
    BY <1>4, <2>2 DEF DeliverWebhook
  <2>3. CASE ApplyStatus(q)
    BY <1>4, <2>3 DEF ApplyStatus
  <2>4. CASE OpeningLost(q) \/ AttemptFails(q) \/ Authorize(q) \/ AutoCapture(q)
    BY <1>6, <2>4 DEF OpeningLost, AttemptFails, Authorize, AutoCapture, server
  <2>5. CASE JobAsks(q) \/ CustomerAsks(q) \/ DecideCapture(q) \/ Capture(q) \/ CallFails(q)
             \/ GraceEnds(q)
    BY <1>6, <2>5 DEF JobAsks, CustomerAsks, FetchStatus, DecideCapture, Capture, CallFails,
       GraceEnds, server
  <2> QED
    BY <1>7, <2>1, <2>2, <2>3, <2>4, <2>5 DEF PaymentStep
<1>8. CASE DeadlinePasses \/ ExpireUnpaid \/ ConfirmWithoutPrepayment \/ UNCHANGED vars
  BY <1>6, <1>8 DEF DeadlinePasses, ExpireUnpaid, ConfirmWithoutPrepayment, vars
<1> QED
  BY <1>5, <1>7, <1>8 DEF Next

\* A capture is final, for any number of checkouts.
THEOREM CapturesAreFinal == Spec => CaptureIsFinal
<1>1. IInv /\ [Next]_vars =>
        [\A p \in Payments :
            payment[p].status = "CAPTURED" => payment'[p].status = "CAPTURED"]_vars
  BY CaptureStays
<1> QED
  BY <1>1, Invariant, PTL DEF Spec, CaptureIsFinal

\* The server never captures money that was authorized after the booking ended.
THEOREM TooLateIsNeverCaptured == Spec => NeverCapturesTooLate
<1>1. IInv /\ [Next]_vars => [\A p \in tooLate : ~Capture(p)]_vars
  BY DEF IInv, TooLateIsLeft, Capture
<1> QED
  BY <1>1, Invariant, PTL DEF Spec, NeverCapturesTooLate
=============================================================================
