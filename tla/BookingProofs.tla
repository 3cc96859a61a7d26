--------------------------- MODULE BookingProofs ---------------------------
(***************************************************************************)
(* A booking from the times and prices the app shows to its invoice, for   *)
(* any zones, workers, rules, prices, requests, invoice series and runs of *)
(* the jobs: what the app offers can be booked, a rule that applied in the *)
(* past stays as it was, a promotion is not overspent, a choice is booked  *)
(* once at one price, who acts on what was seen some time ago changes      *)
(* nothing by mistake, and the invoices are numbered without a gap.        *)
(***************************************************************************)
EXTENDS Checkout, Visit, Settlement, Offering, PriceRules, Promotions,
        FiniteSetTheorems, WellFoundedInduction, TLAPS

(* Checkout. *)

Ats == {"sent", "new", "priced"} \cup Results
AttemptType == [key : Nat, choice : Nat, total : Nat \ {0}, at : Ats]
ScreenType == [choice : Nat, total : Nat, key : Nat, waiting : Nat, sends : Nat]

CheckoutTypeOK ==
    /\ price \in Nat \ {0}
    /\ screen \in ScreenType /\ screen.waiting \in {0} \cup Attempts /\ screen.total <= price
    /\ attempts \in Seq(AttemptType)
    /\ bookings \subseteq [key : Nat, choice : Nat, total : Nat \ {0}]

\* Requests with one key are one request; a later key is a later choice, or the
\* same one at a higher price.
Ordered(x, y) ==
    /\ x.key = y.key => x.choice = y.choice /\ x.total = y.total
    /\ x.key < y.key => x.choice < y.choice \/ (x.choice = y.choice /\ x.total < y.total)

KeysAreChoices == \A i, j \in Attempts : Ordered(attempts[i], attempts[j])

\* The screen's key is that of the requests for what it shows; those of the
\* same choice under another key were cheaper than any price from now on.
ScreenIsNewest ==
    \A i \in Attempts :
        /\ attempts[i].key <= screen.key
        /\ attempts[i].key = screen.key =>
              attempts[i].choice = screen.choice /\ attempts[i].total = screen.total
        /\ attempts[i].key < screen.key =>
              \/ attempts[i].choice < screen.choice
              \/ /\ attempts[i].choice = screen.choice
                 /\ attempts[i].total < price
                 /\ screen.total = 0 \/ attempts[i].total < screen.total

\* While the screen waits, nothing is sent under a later key.
WaitsForNewest ==
    screen.waiting # 0 =>
        \A i \in Attempts : attempts[i].key <= attempts[screen.waiting].key

\* The price a request was refused for has been left for good.
PriceIsLeft ==
    \A i \in Attempts :
        /\ attempts[i].total <= price
        /\ attempts[i].at = "PRICE_CHANGED" => attempts[i].total < price

\* A booking is that of a request, the only one of its key.
BookingsAreRequests ==
    /\ \A b \in bookings : \E i \in Attempts :
          b.key = attempts[i].key /\ b.choice = attempts[i].choice /\ b.total = attempts[i].total
    /\ \A b, c \in bookings : b.key = c.key => b = c

CheckoutInv ==
    /\ CheckoutTypeOK /\ KeysAreChoices /\ ScreenIsNewest /\ WaitsForNewest
    /\ PriceIsLeft /\ BookingsAreRequests

LEMMA CheckoutInitHolds == CheckoutInit => CheckoutInv
  BY DEF CheckoutInit, Fresh, CheckoutInv, CheckoutTypeOK, ScreenType, AttemptType, KeysAreChoices,
         ScreenIsNewest, WaitsForNewest, PriceIsLeft, BookingsAreRequests, Attempts

\* The types, where they are needed.
LEMMA CheckoutTypes ==
  ASSUME CheckoutInv
  PROVE  /\ price \in Nat \ {0} /\ screen \in ScreenType /\ attempts \in Seq(AttemptType)
         /\ Len(attempts) \in Nat
         /\ screen.choice \in Nat /\ screen.total \in Nat /\ screen.key \in Nat
         /\ screen.waiting \in Nat /\ screen.sends \in Nat
         /\ \A i \in Attempts : /\ attempts[i] \in AttemptType
                                /\ attempts[i].key \in Nat /\ attempts[i].choice \in Nat
                                /\ attempts[i].total \in Nat \ {0}
<1>1. attempts \in Seq(AttemptType) /\ price \in Nat \ {0} /\ screen \in ScreenType
  BY DEF CheckoutInv, CheckoutTypeOK
<1>2. Len(attempts) \in Nat /\ \A i \in Attempts : attempts[i] \in AttemptType
  BY <1>1 DEF Attempts
<1> QED
  BY <1>1, <1>2 DEF ScreenType, AttemptType

\* The price moves on: what was cheaper stays cheaper.
LEMMA PriceMovesHolds ==
  ASSUME CheckoutInv, PriceMoves
  PROVE  CheckoutInv'
<1>1. /\ price' = price + 1 /\ UNCHANGED <<screen, attempts, bookings>>
  BY DEF PriceMoves
<1>2. CheckoutTypeOK'
  BY <1>1 DEF CheckoutInv, CheckoutTypeOK, Attempts, ScreenType
<1>3. ScreenIsNewest' /\ PriceIsLeft'
  BY <1>1, CheckoutTypes DEF CheckoutInv, ScreenIsNewest, PriceIsLeft, Attempts
<1>4. KeysAreChoices' /\ WaitsForNewest' /\ BookingsAreRequests'
  BY <1>1 DEF CheckoutInv, KeysAreChoices, Ordered, WaitsForNewest, BookingsAreRequests, Attempts
<1> QED
  BY <1>2, <1>3, <1>4 DEF CheckoutInv

\* The screen changes alone: it goes on to a later key, or stays with its own.
LEMMA ScreenHolds ==
  ASSUME CheckoutInv, UNCHANGED <<price, attempts, bookings>>,
         screen' \in ScreenType, screen'.total <= price,
         screen'.waiting \in {0, screen.waiting},
         ScreenIsNewest'
  PROVE  CheckoutInv'
<1>1. Attempts' = Attempts
  BY DEF Attempts
<1>2. CheckoutTypeOK'
  BY <1>1 DEF CheckoutInv, CheckoutTypeOK
<1>3. WaitsForNewest'
  BY <1>1 DEF CheckoutInv, WaitsForNewest
<1>4. KeysAreChoices' /\ PriceIsLeft' /\ BookingsAreRequests'
  BY <1>1 DEF CheckoutInv, KeysAreChoices, Ordered, PriceIsLeft, BookingsAreRequests
<1> QED
  BY <1>2, <1>3, <1>4 DEF CheckoutInv

\* A request joins the others: one of the screen's, or one that was sent before.
LEMMA SentHolds ==
  ASSUME CheckoutInv, UNCHANGED <<price, bookings>>,
         NEW r \in AttemptType, r.at = "sent",
         attempts' = Append(attempts, r),
         screen' \in ScreenType, screen'.waiting = Len(attempts) + 1,
         screen'.choice = screen.choice, screen'.total = screen.total, screen'.key = screen.key,
         \/ r.key = screen.key /\ r.choice = screen.choice /\ r.total = screen.total
         \/ \E i \in Attempts : /\ r.key = attempts[i].key /\ r.choice = attempts[i].choice
                                /\ r.total = attempts[i].total
                                /\ \A j \in Attempts : attempts[j].key <= attempts[i].key
  PROVE  CheckoutInv'
<1> DEFINE n == Len(attempts)
<1>t. /\ n \in Nat /\ attempts \in Seq(AttemptType)
      /\ r.key \in Nat /\ r.choice \in Nat /\ r.total \in Nat \ {0}
  BY CheckoutTypes DEF AttemptType
<1>1. /\ Len(attempts') = n + 1 /\ attempts' \in Seq(AttemptType)
      /\ \A i \in 1..n : attempts'[i] = attempts[i]
      /\ attempts'[n + 1] = r
  BY <1>t
<1>2. /\ Attempts' = 1 .. (n + 1) /\ Attempts = 1..n
      /\ \A i \in Attempts' : i \in Attempts \/ i = n + 1
      /\ \A i \in Attempts : i \in Attempts' /\ i # n + 1 /\ attempts'[i] = attempts[i]
      /\ n + 1 \in Attempts'
  BY <1>t, <1>1 DEF Attempts
<1> HIDE DEF n
<1>3. CheckoutTypeOK'
  BY <1>1, <1>2 DEF CheckoutInv, CheckoutTypeOK, n
<1>4. \A i \in Attempts : attempts[i].key <= r.key /\ Ordered(attempts[i], r) /\ Ordered(r, attempts[i])
  <2> SUFFICES ASSUME NEW i \in Attempts
               PROVE  attempts[i].key <= r.key /\ Ordered(attempts[i], r)
    BY <1>t, CheckoutTypes DEF Ordered
  <2>1. CASE r.key = screen.key /\ r.choice = screen.choice /\ r.total = screen.total
    BY <2>1, <1>t DEF CheckoutInv, ScreenIsNewest, Ordered
  <2>2. ASSUME NEW k \in Attempts, r.key = attempts[k].key, r.choice = attempts[k].choice,
               r.total = attempts[k].total, \A l \in Attempts : attempts[l].key <= attempts[k].key
        PROVE  attempts[i].key <= r.key /\ Ordered(attempts[i], r)
    <3>1. Ordered(attempts[i], attempts[k])
      BY DEF CheckoutInv, KeysAreChoices
    <3> QED
      BY <2>2, <3>1 DEF Ordered
  <2> QED
    BY <2>1, <2>2
<1>5. /\ r.key <= screen.key /\ r.total <= price
      /\ r.key = screen.key => r.choice = screen.choice /\ r.total = screen.total
      /\ r.key < screen.key =>
           \/ r.choice < screen.choice
           \/ /\ r.choice = screen.choice /\ r.total < price
              /\ screen.total = 0 \/ r.total < screen.total
  BY <1>t, CheckoutTypes DEF CheckoutInv, ScreenIsNewest, PriceIsLeft, CheckoutTypeOK
<1>6. KeysAreChoices'
  <2> SUFFICES ASSUME NEW i \in Attempts', NEW j \in Attempts'
               PROVE  Ordered(attempts'[i], attempts'[j])
    BY DEF KeysAreChoices, Ordered
  <2>1. CASE i \in Attempts /\ j \in Attempts
    BY <2>1, <1>2 DEF CheckoutInv, KeysAreChoices
  <2>2. CASE i \in Attempts /\ j = n + 1
    BY <2>2, <1>1, <1>2, <1>4
  <2>3. CASE i = n + 1 /\ j \in Attempts
    BY <2>3, <1>1, <1>2, <1>4
  <2>4. CASE i = n + 1 /\ j = n + 1
    BY <2>4, <1>1, <1>t DEF Ordered
  <2> QED
    BY <2>1, <2>2, <2>3, <2>4, <1>2
<1>7. ScreenIsNewest' /\ PriceIsLeft'
  BY <1>1, <1>2, <1>5 DEF CheckoutInv, ScreenIsNewest, PriceIsLeft, n
<1>8. WaitsForNewest'
  BY <1>1, <1>2, <1>4, <1>t DEF WaitsForNewest, n
<1>9. BookingsAreRequests'
  <2>1. ASSUME NEW b \in bookings
        PROVE  \E i \in Attempts' : /\ b.key = attempts'[i].key /\ b.choice = attempts'[i].choice
                                     /\ b.total = attempts'[i].total
    <3>1. PICK i \in Attempts :
             b.key = attempts[i].key /\ b.choice = attempts[i].choice /\ b.total = attempts[i].total
      BY DEF CheckoutInv, BookingsAreRequests
    <3> QED
      BY <3>1, <1>2
  <2> QED
    BY <2>1 DEF CheckoutInv, BookingsAreRequests
<1> QED
  BY <1>3, <1>6, <1>7, <1>8, <1>9 DEF CheckoutInv

\* A request becomes something else for the server: nobody else sees it.
LEMMA BecomesHolds ==
  ASSUME CheckoutInv, NEW i \in Attempts, NEW from, NEW to \in Ats, Become(i, from, to),
         UNCHANGED <<price, screen>>,
         to = "PRICE_CHANGED" => attempts[i].total < price,
         \/ bookings' = bookings
         \/ /\ ~Saved(attempts[i].key)
            /\ bookings' = bookings \cup {[key |-> attempts[i].key, choice |-> attempts[i].choice,
                                           total |-> attempts[i].total]}
  PROVE  CheckoutInv'
<1>1. /\ attempts' = [attempts EXCEPT ![i] = [attempts[i] EXCEPT !.at = to]]
      /\ attempts[i] \in AttemptType /\ attempts \in Seq(AttemptType)
  BY CheckoutTypes DEF Become
<1>2. /\ attempts' \in Seq(AttemptType) /\ Len(attempts') = Len(attempts)
      /\ \A j \in Attempts : j # i => attempts'[j] = attempts[j]
      /\ attempts'[i] = [attempts[i] EXCEPT !.at = to]
  <2>1. [attempts[i] EXCEPT !.at = to] \in AttemptType
    BY <1>1 DEF AttemptType
  <2> QED
    BY <1>1, <2>1 DEF Attempts
<1>3. /\ Attempts' = Attempts
      /\ \A j \in Attempts : /\ attempts'[j].key = attempts[j].key
                             /\ attempts'[j].choice = attempts[j].choice
                             /\ attempts'[j].total = attempts[j].total
                             /\ attempts'[j].at = (IF j = i THEN to ELSE attempts[j].at)
  BY <1>1, <1>2 DEF Attempts, AttemptType
<1>4. CheckoutTypeOK'
  BY <1>2, <1>3, CheckoutTypes DEF CheckoutInv, CheckoutTypeOK
<1>5. KeysAreChoices' /\ ScreenIsNewest' /\ WaitsForNewest' /\ PriceIsLeft'
  <2>1. KeysAreChoices'
    BY <1>3 DEF CheckoutInv, KeysAreChoices, Ordered
  <2>2. ScreenIsNewest'
    BY <1>3 DEF CheckoutInv, ScreenIsNewest
  <2>3. WaitsForNewest'
    BY <1>3 DEF CheckoutInv, CheckoutTypeOK, WaitsForNewest
  <2>4. PriceIsLeft'
    BY <1>3 DEF CheckoutInv, PriceIsLeft
  <2> QED
    BY <2>1, <2>2, <2>3, <2>4
<1>6. BookingsAreRequests'
  <2>1. CASE bookings' = bookings
    BY <2>1, <1>3 DEF CheckoutInv, BookingsAreRequests
  <2>2. CASE /\ ~Saved(attempts[i].key)
             /\ bookings' = bookings \cup {[key |-> attempts[i].key, choice |-> attempts[i].choice,
                                            total |-> attempts[i].total]}
    BY <2>2, <1>3 DEF CheckoutInv, BookingsAreRequests, Saved
  <2> QED
    BY <2>1, <2>2
<1> QED
  BY <1>4, <1>5, <1>6 DEF CheckoutInv

\* The screen: a new choice, a quote, a tap, a repetition, giving up, an answer.
LEMMA ScreenStepHolds ==
  ASSUME CheckoutInv, Choose \/ Quoted \/ BookService \/ Resend \/ GiveUpBooking \/ BookingAnswered
  PROVE  CheckoutInv'
<1>1. CASE Choose
  <2>1. PICK total \in {0, screen.total} :
           screen' = [screen EXCEPT !.choice = screen.choice + 1, !.total = total,
                                    !.key = screen.key + 1]
    BY <1>1 DEF Choose
  <2>2. /\ screen' \in ScreenType /\ screen'.choice = screen.choice + 1 /\ screen'.total = total
        /\ screen'.key = screen.key + 1 /\ screen'.waiting = screen.waiting
    <3>1. screen' = [choice |-> screen.choice + 1, total |-> total, key |-> screen.key + 1,
                     waiting |-> screen.waiting, sends |-> screen.sends]
      BY <2>1, CheckoutTypes DEF ScreenType
    <3> QED
      BY <3>1, CheckoutTypes DEF ScreenType
  <2>3. UNCHANGED <<price, attempts, bookings>> /\ Attempts' = Attempts
    BY <1>1 DEF Choose, Attempts
  <2>4. ScreenIsNewest'
    <3>1. ASSUME NEW i \in Attempts
          PROVE  attempts[i].key < screen'.key /\ attempts[i].choice < screen'.choice
      BY <2>2, CheckoutTypes DEF CheckoutInv, ScreenIsNewest
    <3>2. screen'.key \in Nat /\ \A i \in Attempts : attempts[i].key \in Nat
      BY <2>2, CheckoutTypes
    <3> QED
      BY <2>3, <3>1, <3>2 DEF ScreenIsNewest
  <2>5. screen'.total <= price
    BY <2>2, CheckoutTypes DEF CheckoutInv, CheckoutTypeOK
  <2> QED
    BY <2>2, <2>3, <2>4, <2>5, ScreenHolds
<1>2. CASE Quoted
  <2>1. /\ screen' \in ScreenType /\ screen'.choice = screen.choice /\ screen'.total = price
        /\ screen'.key = screen.key /\ screen'.waiting = screen.waiting /\ screen.total = 0
    BY <1>2, CheckoutTypes DEF Quoted, ScreenType
  <2>2. UNCHANGED <<price, attempts, bookings>> /\ Attempts' = Attempts
    BY <1>2 DEF Quoted, Attempts
  <2>3. ScreenIsNewest'
    BY <2>1, <2>2, CheckoutTypes DEF CheckoutInv, ScreenIsNewest
  <2> QED
    BY <2>1, <2>2, <2>3, CheckoutTypes, ScreenHolds
<1>3. CASE BookService
  <2> DEFINE r == [key |-> screen.key, choice |-> screen.choice, total |-> screen.total, at |-> "sent"]
  <2>1. /\ screen.total # 0 /\ attempts' = Append(attempts, r) /\ UNCHANGED <<price, bookings>>
        /\ screen' = [screen EXCEPT !.key = screen.key, !.waiting = Len(attempts) + 1, !.sends = 1]
    BY <1>3 DEF BookService, Post
  <2>2. /\ screen' \in ScreenType /\ screen'.choice = screen.choice /\ screen'.total = screen.total
        /\ screen'.key = screen.key /\ screen'.waiting = Len(attempts) + 1
    <3>1. screen' = [choice |-> screen.choice, total |-> screen.total, key |-> screen.key,
                     waiting |-> Len(attempts) + 1, sends |-> 1]
      BY <2>1, CheckoutTypes DEF ScreenType
    <3> QED
      BY <3>1, CheckoutTypes DEF ScreenType
  <2>3. /\ r \in AttemptType /\ r.at = "sent" /\ r.key = screen.key /\ r.choice = screen.choice
        /\ r.total = screen.total
    BY <2>1, CheckoutTypes DEF AttemptType, Ats
  <2> HIDE DEF r
  <2> QED
    BY <2>1, <2>2, <2>3, SentHolds
<1>4. CASE Resend
  <2> DEFINE w == screen.waiting
             r == [attempts[w] EXCEPT !.at = "sent"]
  <2>1. /\ w # 0 /\ attempts' = Append(attempts, r) /\ UNCHANGED <<price, bookings>>
        /\ screen' = [screen EXCEPT !.waiting = Len(attempts) + 1, !.sends = screen.sends + 1]
    BY <1>4 DEF Resend
  <2>2. /\ screen' \in ScreenType /\ screen'.choice = screen.choice /\ screen'.total = screen.total
        /\ screen'.key = screen.key /\ screen'.waiting = Len(attempts) + 1
    <3>1. screen' = [choice |-> screen.choice, total |-> screen.total, key |-> screen.key,
                     waiting |-> Len(attempts) + 1, sends |-> screen.sends + 1]
      BY <2>1, CheckoutTypes DEF ScreenType
    <3> QED
      BY <3>1, CheckoutTypes DEF ScreenType
  <2>3. w \in Attempts /\ \A j \in Attempts : attempts[j].key <= attempts[w].key
    BY <2>1 DEF CheckoutInv, CheckoutTypeOK, WaitsForNewest
  <2>4. /\ r \in AttemptType /\ r.at = "sent" /\ r.key = attempts[w].key
        /\ r.choice = attempts[w].choice /\ r.total = attempts[w].total
    BY <2>3, CheckoutTypes DEF AttemptType, Ats
  <2> HIDE DEF r, w
  <2> QED
    BY <2>1, <2>2, <2>3, <2>4, SentHolds
<1>5. CASE GiveUpBooking
  <2>1. /\ screen' \in ScreenType /\ screen'.choice = screen.choice /\ screen'.total = screen.total
        /\ screen'.key = screen.key /\ screen'.waiting = 0
    BY <1>5, CheckoutTypes DEF GiveUpBooking, ScreenType
  <2>2. UNCHANGED <<price, attempts, bookings>> /\ Attempts' = Attempts
    BY <1>5 DEF GiveUpBooking, Attempts
  <2>3. ScreenIsNewest'
    BY <2>1, <2>2 DEF CheckoutInv, ScreenIsNewest
  <2> QED
    BY <2>1, <2>2, <2>3, ScreenHolds DEF CheckoutInv, CheckoutTypeOK
<1>6. CASE BookingAnswered
  <2>1. UNCHANGED <<price, attempts, bookings>> /\ Attempts' = Attempts
    BY <1>6 DEF BookingAnswered, Attempts
  <2>2. PICK c \in {screen.choice, screen.choice + 1} :
           /\ screen' = [choice |-> c, total |-> 0, key |-> screen.key + 1, waiting |-> 0, sends |-> 0]
           /\ c = screen.choice => attempts[screen.waiting].at = "PRICE_CHANGED" /\ screen.waiting # 0
    BY <1>6, CheckoutTypes DEF BookingAnswered, Fresh
  <2>3. /\ screen' \in ScreenType /\ screen'.choice = c /\ screen'.total = 0
        /\ screen'.key = screen.key + 1 /\ screen'.waiting = 0
    BY <2>2, CheckoutTypes DEF ScreenType
  <2>4. ASSUME c = screen.choice, NEW i \in Attempts, attempts[i].key = screen.key
        PROVE  attempts[i].total < price
    <3>1. screen.waiting \in Attempts /\ attempts[i].key <= attempts[screen.waiting].key
      BY <2>2, <2>4 DEF CheckoutInv, CheckoutTypeOK, WaitsForNewest
    <3>2. attempts[screen.waiting].key = attempts[i].key
      BY <3>1, <2>4, CheckoutTypes DEF CheckoutInv, ScreenIsNewest
    <3>3. attempts[screen.waiting].total = attempts[i].total
      BY <3>1, <3>2 DEF CheckoutInv, KeysAreChoices, Ordered
    <3> QED
      BY <3>1, <3>3, <2>2, <2>4 DEF CheckoutInv, PriceIsLeft
  <2>5. ASSUME NEW i \in Attempts
        PROVE  /\ attempts[i].key < screen'.key
               /\ \/ attempts[i].choice < screen'.choice
                  \/ attempts[i].choice = screen'.choice /\ attempts[i].total < price
    <3>1. /\ attempts[i].key <= screen.key
          /\ attempts[i].key = screen.key => attempts[i].choice = screen.choice
          /\ attempts[i].key < screen.key =>
               \/ attempts[i].choice < screen.choice
               \/ attempts[i].choice = screen.choice /\ attempts[i].total < price
      BY DEF CheckoutInv, ScreenIsNewest
    <3> QED
      BY <2>2, <2>3, <2>4, <3>1, CheckoutTypes
  <2>6. ScreenIsNewest'
    BY <2>1, <2>3, <2>5, CheckoutTypes DEF ScreenIsNewest
  <2> QED
    BY <2>1, <2>3, <2>6, CheckoutTypes, ScreenHolds
<1> QED
  BY <1>1, <1>2, <1>3, <1>4, <1>5, <1>6

\* The server: a booking is saved under a key nobody has saved yet.
LEMMA ServerStepHolds ==
  ASSUME CheckoutInv, NEW i \in Attempts,
         LookUpKey(i) \/ CheckPrice(i) \/ SaveBooking(i) \/ FindNobody(i)
  PROVE  CheckoutInv'
<1>1. CASE LookUpKey(i)
  <2>1. PICK to \in {"booked", "new"} : Become(i, "sent", to)
    BY <1>1 DEF LookUpKey
  <2> QED
    BY <1>1, <2>1, BecomesHolds DEF LookUpKey, Ats, Results
<1>2. CASE CheckPrice(i)
  <2>1. PICK to \in {"priced", "PRICE_CHANGED"} :
           Become(i, "new", to) /\ (to = "PRICE_CHANGED" => price # attempts[i].total)
    BY <1>2 DEF CheckPrice
  <2>2. to = "PRICE_CHANGED" => attempts[i].total < price
    BY <2>1, CheckoutTypes DEF CheckoutInv, PriceIsLeft
  <2> QED
    BY <1>2, <2>1, <2>2, BecomesHolds DEF CheckPrice, Ats, Results
<1>3. CASE SaveBooking(i)
  BY <1>3, BecomesHolds DEF SaveBooking, Ats, Results
<1>4. CASE FindNobody(i)
  BY <1>4, BecomesHolds DEF FindNobody, Ats, Results
<1> QED
  BY <1>1, <1>2, <1>3, <1>4

LEMMA CheckoutStepHolds == CheckoutInv /\ [CheckoutNext]_checkout => CheckoutInv'
<1> SUFFICES ASSUME CheckoutInv, [CheckoutNext]_checkout
             PROVE  CheckoutInv'
  OBVIOUS
<1>1. CASE UNCHANGED checkout
  BY <1>1 DEF checkout, CheckoutInv, CheckoutTypeOK, KeysAreChoices, ScreenIsNewest, WaitsForNewest,
              PriceIsLeft, BookingsAreRequests, Attempts
<1>2. CASE CheckoutNext
  BY <1>2, PriceMovesHolds, ScreenStepHolds, ServerStepHolds DEF CheckoutNext
<1> QED
  BY <1>1, <1>2

\* The inductive invariant holds in every reachable state.
THEOREM CheckoutInvariant == CheckoutSpec => []CheckoutInv
  BY CheckoutInitHolds, CheckoutStepHolds, PTL DEF CheckoutSpec

\* However often a choice is sent, it is booked once at one price: two bookings
\* of it at one price were requested under one key, and a key is saved once.
THEOREM BookedOnce == CheckoutSpec => []OneChoiceOneBooking
<1>1. ASSUME CheckoutInv, NEW a \in bookings, NEW b \in bookings, a.choice = b.choice, a.total = b.total
      PROVE  a = b
  <2>1. PICK i \in Attempts :
           a.key = attempts[i].key /\ a.choice = attempts[i].choice /\ a.total = attempts[i].total
    BY <1>1 DEF CheckoutInv, BookingsAreRequests
  <2>2. PICK j \in Attempts :
           b.key = attempts[j].key /\ b.choice = attempts[j].choice /\ b.total = attempts[j].total
    BY <1>1 DEF CheckoutInv, BookingsAreRequests
  <2>3. Ordered(attempts[i], attempts[j]) /\ Ordered(attempts[j], attempts[i])
    BY <1>1 DEF CheckoutInv, KeysAreChoices
  <2>4. /\ attempts[i].key \in Nat /\ attempts[j].key \in Nat
        /\ attempts[i].choice \in Nat /\ attempts[i].total \in Nat
    BY <1>1, CheckoutTypes
  <2>5. attempts[i].key = attempts[j].key
    <3>1. attempts[i].choice = attempts[j].choice /\ attempts[i].total = attempts[j].total
      BY <1>1, <2>1, <2>2
    <3>2. ~(attempts[i].key < attempts[j].key) /\ ~(attempts[j].key < attempts[i].key)
      BY <2>3, <2>4, <3>1 DEF Ordered
    <3> QED
      BY <2>4, <3>2
  <2> QED
    BY <1>1, <2>1, <2>2, <2>5 DEF CheckoutInv, BookingsAreRequests
<1>2. CheckoutInv => OneChoiceOneBooking
  BY <1>1 DEF OneChoiceOneBooking
<1> QED
  BY <1>2, CheckoutInvariant, PTL
-----------------------------------------------------------------------------
(* The visit. *)

\* Where the steps of the job lead.
StepStatuses == {"EN_ROUTE", "ARRIVED", "IN_PROGRESS", "COMPLETED", "NO_SHOW"}

RecordType == [status : BookingStatuses, version : Nat, start : Nat, original : Nat,
               reschedules : Nat]

\* The version grows with every change, and the last step of the job was done by
\* somebody who still has it.
VisitInv ==
    /\ record \in RecordType /\ DOMAIN assignment = Team
    /\ desk.version \in Nat /\ desk.version <= record.version
    /\ VersionIsWhatTheDeskSaw
    /\ latest.to = record.status
    /\ latest.event \in StepEvents => latest.to \in StepStatuses
    /\ latest.event \in StepEvents /\ latest.actor \in Team => MaySee(latest.actor)

LEMMA VisitInitHolds == VisitInit => VisitInv
BY TeamAssumption DEF VisitInit, VisitInv, RecordType, BookingStatuses, VersionIsWhatTheDeskSaw,
   NotStale, StepEvents

LEMMA ResolveIs ==
  ASSUME NEW from, NEW event, NEW source, NEW to \in Resolve(from, event, source)
  PROVE  to \in BookingStatuses /\ (event \in StepEvents => to \in StepStatuses)
<1>1. PICK t \in BookingTransitions : t.event = event /\ t.to = to
  BY DEF Resolve
<1>2. t.to \in BookingStatuses /\ (t.event \in StepEvents => t.to \in StepStatuses)
  BY DEF BookingTransitions, T, BookingStatuses, StepEvents, StepStatuses
<1> QED
  BY <1>1, <1>2

LEMMA RecordIs ==
  ASSUME NEW b \in RecordType
  PROVE  b = [status |-> b.status, version |-> b.version, start |-> b.start,
              original |-> b.original, reschedules |-> b.reschedules]
BY DEF RecordType

\* What the desk sees is what it saw, or what the booking has become.
DeskFollows ==
    \/ desk' = desk
    \/ desk' = [version |-> record'.version, status |-> record'.status, start |-> record'.start]

\* The booking moves on; a step leaves its worker with the job.
LEMMA ApplyHolds ==
  ASSUME VisitInv, NEW event, NEW source, NEW actor, NEW kept, Apply(event, source, actor, kept),
         DOMAIN kept = Team, DeskFollows,
         event \in StepEvents /\ actor \in Team => kept[actor] \in {"ACCEPTED", "COMPLETED"}
  PROVE  VisitInv'
<1>1. PICK to \in Resolve(record.status, event, source) :
          /\ record' = [record EXCEPT !.status = to, !.version = @ + 1]
          /\ latest' = [event |-> event, to |-> to, actor |-> actor]
          /\ assignment' = IF to \in {"CANCELLED", "EXPIRED", "ON_HOLD"} THEN GivenBack ELSE kept
  BY DEF Apply
<1>2. record \in RecordType
  BY DEF VisitInv
<1>3. to \in BookingStatuses /\ (event \in StepEvents => to \in StepStatuses)
  BY ResolveIs
<1>4. record' = [status |-> to, version |-> record.version + 1, start |-> record.start,
                 original |-> record.original, reschedules |-> record.reschedules]
  <2>1. PICK v : v = record.version + 1
    OBVIOUS
  <2>2. record' = [record EXCEPT !.status = to, !.version = v]
    BY <1>1, <2>1
  <2>3. record = [status |-> record.status, version |-> record.version, start |-> record.start,
                  original |-> record.original, reschedules |-> record.reschedules]
    BY <1>2, RecordIs
  <2>4. record' = [status |-> to, version |-> v, start |-> record.start,
                   original |-> record.original, reschedules |-> record.reschedules]
    BY <2>2, <2>3
  <2> QED
    BY <2>1, <2>4
<1>5. record' \in RecordType /\ record'.status = to /\ record'.version = record.version + 1
  BY <1>2, <1>3, <1>4 DEF RecordType
<1>6. DOMAIN assignment' = Team
  BY <1>1 DEF GivenBack
<1>7. event \in StepEvents /\ actor \in Team => MaySee(actor)'
  BY <1>1, <1>3 DEF MaySee, StepStatuses
<1>8. record.version \in Nat /\ desk.version \in Nat /\ desk.version <= record.version
  BY <1>2 DEF VisitInv, RecordType
<1>9. /\ desk'.version \in Nat /\ desk'.version <= record'.version
      /\ VersionIsWhatTheDeskSaw'
  BY <1>5, <1>8 DEF DeskFollows, VersionIsWhatTheDeskSaw, NotStale
<1> QED
  BY <1>1, <1>3, <1>5, <1>6, <1>7, <1>9 DEF VisitInv

\* Before the job is done anybody may be let go.
LEMMA LetGoHolds ==
  ASSUME VisitInv, DOMAIN assignment' = Team, UNCHANGED record, UNCHANGED latest, DeskFollows,
         record.status \notin StepStatuses
  PROVE  VisitInv'
BY DEF VisitInv, DeskFollows, VersionIsWhatTheDeskSaw, NotStale, RecordType

\* Who has the job keeps it.
LEMMA KeptHolds ==
  ASSUME VisitInv, DOMAIN assignment' = Team, UNCHANGED record, UNCHANGED latest, DeskFollows,
         \A w \in Team : MaySee(w) => MaySee(w)'
  PROVE  VisitInv'
BY DEF VisitInv, DeskFollows, VersionIsWhatTheDeskSaw, NotStale, RecordType

LEMMA UnassignedHolds ==
  ASSUME VisitInv, NEW source, NEW actor, NEW next, Unassigned(source, actor, next), DeskFollows
  PROVE  VisitInv'
<1>1. DOMAIN Reoffer("WITHDRAWN", next) = Team
  BY DEF Reoffer
<1>2. CASE record.status = "CONFIRMED"
  BY <1>1, <1>2, LetGoHolds DEF Unassigned, StepStatuses
<1>3. CASE record.status # "CONFIRMED"
  BY <1>1, <1>3, ApplyHolds DEF Unassigned, StepEvents
<1> QED
  BY <1>2, <1>3

LEMMA RescheduleHolds ==
  ASSUME VisitInv, NEW t \in StartTimes, NEW actor, Reschedule(t, actor), DeskFollows
  PROVE  VisitInv'
<1>1. record \in RecordType /\ record.status \in Reschedulable /\ DOMAIN assignment' = Team
  BY DEF VisitInv, Reschedule, Reoffer
<1>2. MovedTo(t) \in RecordType /\ MovedTo(t).status = record.status
      /\ MovedTo(t).version = record.version + 1
  BY <1>1, TeamAssumption DEF MovedTo, RecordType
<1>3. /\ record' \in RecordType /\ latest'.to = record'.status /\ latest'.event \notin StepEvents
      /\ record'.version > record.version
  <2>1. CASE record.status = "ASSIGNED"
    <3>1. record' = [status |-> "CONFIRMED", version |-> record.version + 2, start |-> t,
                     original |-> record.original, reschedules |-> record.reschedules + 1]
      <4>1. PICK m, v : /\ m = MovedTo(t) /\ v = m.version + 1
                        /\ record' = [m EXCEPT !.status = "CONFIRMED", !.version = v]
        BY <2>1 DEF Reschedule
      <4>2. m = [status |-> m.status, version |-> m.version, start |-> m.start,
                 original |-> m.original, reschedules |-> m.reschedules]
        BY <4>1 DEF MovedTo
      <4>3. record' = [status |-> "CONFIRMED", version |-> v, start |-> m.start,
                       original |-> m.original, reschedules |-> m.reschedules]
        BY <4>1, <4>2
      <4>4. /\ v = record.version + 2 /\ m.start = t /\ m.original = record.original
            /\ m.reschedules = record.reschedules + 1
        BY <1>1, <4>1 DEF RecordType, MovedTo
      <4> QED
        BY <4>3, <4>4
    <3>2. latest' = [event |-> "WORKER_UNASSIGNED", to |-> "CONFIRMED", actor |-> actor]
      BY <2>1 DEF Reschedule
    <3> QED
      BY <1>1, <3>1, <3>2, TeamAssumption DEF RecordType, BookingStatuses, StepEvents
  <2>2. CASE record.status # "ASSIGNED"
    <3>1. record' = MovedTo(t) /\ UNCHANGED latest
      BY <2>2 DEF Reschedule
    <3>2. record.version \in Nat
      BY <1>1 DEF RecordType
    <3> QED
      BY <1>1, <1>2, <3>1, <3>2 DEF VisitInv, Reschedulable, StepStatuses
  <2> QED
    BY <2>1, <2>2
<1>4. /\ desk'.version \in Nat /\ desk'.version <= record'.version
      /\ VersionIsWhatTheDeskSaw'
  <2>1. record.version \in Nat /\ record'.version \in Nat /\ desk.version \in Nat
        /\ desk.version <= record.version
    BY <1>1, <1>3 DEF VisitInv, RecordType
  <2> QED
    BY <1>3, <2>1 DEF DeskFollows, VersionIsWhatTheDeskSaw, NotStale
<1> QED
  BY <1>1, <1>3, <1>4 DEF VisitInv

LEMMA WorkerSideHolds ==
  ASSUME VisitInv, NEW w \in Team, WorkerSide(w)
  PROVE  VisitInv'
<1>1. DeskFollows
  BY DEF WorkerSide, OfferJob, OfferExpires, AcceptOffer, Withdraw, LoadJob, JobLoaded, TryAgain,
         GiveUp, StepAnswered, Tap, DeskFollows
<1>2. DOMAIN assignment = Team
  BY DEF VisitInv
<1>3. CASE OfferJob(w) \/ OfferExpires(w)
  <2>1. PICK s : assignment' = [assignment EXCEPT ![w] = s]
    BY <1>3 DEF OfferJob, OfferExpires
  <2>2. UNCHANGED record /\ UNCHANGED latest /\ ~MaySee(w)
    BY <1>3 DEF OfferJob, OfferExpires, MaySee
  <2>3. \A v \in Team : MaySee(v) => MaySee(v)'
    BY <1>2, <2>1, <2>2 DEF MaySee
  <2> QED
    BY <1>1, <1>2, <2>1, <2>2, <2>3, KeptHolds
<1>4. CASE AcceptOffer(w)
  <2> DEFINE kept == [assignment EXCEPT ![w] = "ACCEPTED"]
  <2>1. Apply("WORKER_ACCEPTED", "WORKER_APP", w, kept) /\ DOMAIN kept = Team
    BY <1>2, <1>4 DEF AcceptOffer
  <2> HIDE DEF kept
  <2> QED
    BY <1>1, <2>1, ApplyHolds DEF StepEvents
<1>5. CASE Withdraw(w)
  BY <1>1, <1>5, UnassignedHolds DEF Withdraw
<1>6. CASE \/ LoadJob(w) \/ JobLoaded(w) \/ TryAgain(w) \/ GiveUp(w) \/ StepAnswered(w)
           \/ \E event \in StepEvents : Tap(w, event)
  <2>1. UNCHANGED record /\ UNCHANGED latest /\ UNCHANGED assignment
    BY <1>6 DEF LoadJob, JobLoaded, TryAgain, GiveUp, StepAnswered, Tap
  <2> QED
    BY <1>1, <1>2, <2>1, KeptHolds DEF MaySee
<1> QED
  BY <1>3, <1>4, <1>5, <1>6 DEF WorkerSide

LEMMA TakeStepHolds ==
  ASSUME VisitInv, NEW i \in 1..MaxSteps, TakeStep(i)
  PROVE  VisitInv'
<1> DEFINE w == steps[i].worker
           event == steps[i].event
           kept == IF event = "COMPLETE_SERVICE" THEN [assignment EXCEPT ![w] = "COMPLETED"]
                   ELSE assignment
<1>1. DeskFollows /\ DOMAIN assignment = Team
  BY DEF TakeStep, DeskFollows, VisitInv
<1>2. \/ UNCHANGED record /\ UNCHANGED latest /\ UNCHANGED assignment
      \/ assignment[w] = "ACCEPTED" /\ Apply(event, "WORKER_APP", w, kept)
  BY DEF TakeStep, StepAllowed
<1>3. CASE UNCHANGED record /\ UNCHANGED latest /\ UNCHANGED assignment
  BY <1>1, <1>3, KeptHolds DEF MaySee
<1>4. CASE assignment[w] = "ACCEPTED" /\ Apply(event, "WORKER_APP", w, kept)
  <2>1. DOMAIN kept = Team /\ (w \in Team => kept[w] \in {"ACCEPTED", "COMPLETED"})
    BY <1>1, <1>4
  <2> HIDE DEF kept, w, event
  <2> QED
    BY <1>1, <1>4, <2>1, ApplyHolds
<1> QED
  BY <1>2, <1>3, <1>4

LEMMA DeskSideHolds ==
  ASSUME VisitInv, DeskSide
  PROVE  VisitInv'
<1>1. CASE LoadBooking
  <2>1. /\ UNCHANGED record /\ UNCHANGED latest /\ UNCHANGED assignment
        /\ desk' = [version |-> record'.version, status |-> record'.status, start |-> record'.start]
    BY <1>1 DEF LoadBooking, Summary
  <2> QED
    BY <2>1, KeptHolds DEF DeskFollows, MaySee, VisitInv
<1>2. ASSUME NEW event \in DeskEvents, DeskEvent(event) PROVE VisitInv'
  <2> DEFINE kept == IF event = "COMPLETE_SERVICE"
                     THEN [w \in Team |-> IF assignment[w] = "ACCEPTED" THEN "COMPLETED" ELSE assignment[w]]
                     ELSE assignment
  <2>1. Apply(event, "ADMIN", "desk", kept) /\ DeskFollows /\ DOMAIN kept = Team
    BY <1>2 DEF DeskEvent, DeskFollows, VisitInv
  <2>2. "desk" \notin Team
    BY TeamAssumption
  <2> HIDE DEF kept
  <2> QED
    BY <2>1, <2>2, ApplyHolds
<1>3. CASE \E next \in NextInLine \cup {{w} : w \in Team} : DeskReassigns(next)
  BY <1>3, UnassignedHolds DEF DeskReassigns, DeskFollows
<1>4. CASE \E t \in StartTimes : DeskReschedules(t)
  BY <1>4, RescheduleHolds DEF DeskReschedules, DeskFollows
<1> QED
  BY <1>1, <1>2, <1>3, <1>4 DEF DeskSide

LEMMA VisitStepHolds == VisitInv /\ [VisitNext]_visitVars => VisitInv'
<1> SUFFICES ASSUME VisitInv, [VisitNext]_visitVars PROVE VisitInv'
  OBVIOUS
<1>1. DOMAIN assignment = Team
  BY DEF VisitInv
<1>2. ASSUME UNCHANGED record, UNCHANGED latest, UNCHANGED assignment, UNCHANGED desk
      PROVE  VisitInv'
  BY <1>1, <1>2, KeptHolds DEF MaySee, DeskFollows
<1>3. CASE Paid \/ HoldExpires \/ Close \/ CustomerCancels
  <2>1. PICK event, source, actor :
           /\ event \in {"PAYMENT_CAPTURED", "HOLD_EXPIRED", "CLOSE", "CANCEL"}
           /\ Apply(event, source, actor, assignment) /\ UNCHANGED desk
    BY <1>3 DEF Paid, HoldExpires, Close, CustomerCancels
  <2> QED
    BY <1>1, <2>1, ApplyHolds DEF DeskFollows, StepEvents
<1>4. CASE \E t \in StartTimes : CustomerReschedules(t)
  BY <1>4, RescheduleHolds DEF CustomerReschedules, DeskFollows
<1>5. CASE ShowStartCode \/ Rate \/ (\E i \in 1..MaxSteps : AnswerStep(i)) \/ UNCHANGED visitVars
  BY <1>2, <1>5 DEF ShowStartCode, Rate, AnswerStep, visitVars
<1> QED
  BY <1>3, <1>4, <1>5, WorkerSideHolds, TakeStepHolds, DeskSideHolds DEF VisitNext

\* Who acts on what was seen some time ago changes nothing by mistake, for any workers,
\* times, requests under way and changes of the booking.
THEOREM LateClientsDoNoHarm == VisitSpec => []LateClientsAreHarmless
<1>1. VisitInv => RepeatIsFromTheCrew
  BY DEF VisitInv, RepeatIsFromTheCrew, AlreadyApplied
<1>2. VisitInv => LateClientsAreHarmless
  BY <1>1 DEF VisitInv, LateClientsAreHarmless
<1> QED
  BY <1>2, VisitInitHolds, VisitStepHolds, PTL DEF VisitSpec

-----------------------------------------------------------------------------
(* Settlement. *)

Locking == {"LOCKED", "NUMBERED"}

\* A run that has the number of a series has the last one, and its booking is
\* still to settle.
Positions ==
    \A x \in Settlers :
        /\ settler[x].step # "NONE" => settler[x].of \in ToSettle
        /\ settler[x].step \in Locking => Unsettled(settler[x].of)
        /\ settler[x].step # "NUMBERED" => settler[x].series = NoSeries
        /\ settler[x].step = "NUMBERED" =>
              /\ settler[x].series \in Series
              /\ settler[x].number = nextNumber[settler[x].series] - 1
              /\ settler[x].number >= 1
              /\ bookingStatus[settler[x].of] = "COMPLETED"

\* The rows of the booking and of the series are locked by one run each.
OneLock ==
    \A x, y \in Settlers :
        /\ settler[x].step \in Locking /\ settler[y].step \in Locking
              /\ settler[x].of = settler[y].of => x = y
        /\ settler[x].series \in Series /\ settler[x].series = settler[y].series => x = y

\* Only completed visits are closed with an invoice; the others were missed.
Outcomes ==
    /\ \A b \in Finished : bookingStatus[b] # "NO_SHOW"
    /\ \A b \in ToSettle : bookingStatus[b] = "COMPLETED" => b \in Finished
    /\ \A b \in Finished : bookingStatus[b] = "CLOSED" <=> b \in earned
    /\ \A b \in earned : b \in Finished
    /\ \A i \in invoices : i.of \in earned
    /\ \A b \in earned : \E i \in invoices : i.of = b
    /\ \A i, j \in invoices : i.of = j.of => i = j

\* Every number below the next one is on one invoice, unless a run has it.
Numbers ==
    /\ \A i \in invoices : i.number >= 1 /\ i.number < nextNumber[i.series]
    /\ \A i, j \in invoices : i.series = j.series /\ i.number = j.number => i = j
    /\ \A i \in invoices, x \in Settlers :
          settler[x].series = i.series => settler[x].number # i.number
    /\ \A s \in Series, k \in Nat :
          k >= 1 /\ k < nextNumber[s] =>
              \/ \E i \in invoices : i.series = s /\ i.number = k
              \/ \E x \in Settlers : settler[x].series = s /\ settler[x].number = k

SettlementInv == SettlementTypeOK /\ Positions /\ OneLock /\ Outcomes /\ Numbers

RunType == [step : {"NONE", "CHOSEN", "LOCKED", "NUMBERED"}, of : ToSettle \cup {NoSeries},
            series : Series \cup {NoSeries}, number : Nat]

LEMMA SettlementInitHolds == SettlementInit => SettlementInv
<1> SUFFICES ASSUME SettlementInit
             PROVE  SettlementInv
  OBVIOUS
<1> USE SeriesAssumption DEF SettlementInit
<1>1. /\ settler = [x \in Settlers |-> [step |-> "NONE", of |-> NoSeries, series |-> NoSeries, number |-> 0]]
      /\ bookingStatus \in [ToSettle -> {"COMPLETED", "NO_SHOW"}]
      /\ \A b \in ToSettle : bookingStatus[b] = IF b \in Finished THEN "COMPLETED" ELSE "NO_SHOW"
      /\ Finished \subseteq ToSettle
  BY DEF Resting, ToSettle
<1>2. SettlementTypeOK
  <2>1. settler \in [Settlers -> RunType]
    BY <1>1 DEF RunType
  <2>2. nextNumber \in [Series -> Nat \ {0}]
    OBVIOUS
  <2>3. bookingStatus \in [ToSettle -> {"COMPLETED", "NO_SHOW", "CLOSED"}]
    BY <1>1
  <2> QED
    BY <2>1, <2>2, <2>3 DEF SettlementTypeOK, RunType
<1>3. Positions /\ OneLock
  <2>1. \A x \in Settlers : settler[x].step = "NONE" /\ settler[x].series = NoSeries
    BY <1>1
  <2> QED
    BY <2>1 DEF Positions, OneLock, Locking
<1>4. Outcomes
  BY <1>1 DEF Outcomes
<1>5. Numbers
  BY DEF Numbers
<1> QED
  BY <1>2, <1>3, <1>4, <1>5 DEF SettlementInv

\* What a run without a number may become while bookings, invoices and numbers
\* stay as they are.
May(r) ==
    /\ r \in RunType
    /\ r.series = NoSeries /\ r.step # "NUMBERED"
    /\ r.step # "NONE" => r.of \in ToSettle
    /\ r.step \in Locking => /\ Unsettled(r.of)
                             /\ \A y \in Settlers : settler[y].step \in Locking => settler[y].of # r.of

LEMMA RestingMay == May(Resting)
  BY DEF May, RunType, Resting, Locking

LEMMA RunMoves ==
  ASSUME SettlementInv, NEW x \in Settlers, settler[x].series = NoSeries, NEW r, May(r),
         settler' = [settler EXCEPT ![x] = r],
         UNCHANGED <<bookingStatus, captured, issuer, payable, nextNumber, invoices, earned>>
  PROVE  SettlementInv'
<1>1. /\ r \in RunType /\ r.series = NoSeries /\ r.step # "NUMBERED"
      /\ r.step # "NONE" => r.of \in ToSettle
      /\ r.step \in Locking => /\ Unsettled(r.of)
                               /\ \A y \in Settlers : settler[y].step \in Locking => settler[y].of # r.of
  BY DEF May
<1>2. \A y \in Settlers : settler'[y] = IF y = x THEN r ELSE settler[y]
  BY DEF SettlementInv, SettlementTypeOK
<1>3. SettlementTypeOK'
  BY <1>1 DEF SettlementInv, SettlementTypeOK, RunType
<1>4. Positions'
  BY <1>1, <1>2 DEF SettlementInv, Positions, Unsettled
<1>5. OneLock'
  BY <1>1, <1>2, SeriesAssumption DEF SettlementInv, OneLock
<1>6. Outcomes'
  BY DEF SettlementInv, Outcomes
<1>7. Numbers'
  <2>1. \A y \in Settlers : settler'[y].series \in Series => settler'[y] = settler[y]
    BY <1>1, <1>2, SeriesAssumption
  <2>2. \A y \in Settlers : settler[y].series \in Series => settler'[y] = settler[y]
    BY <1>2, SeriesAssumption
  <2>3. \A i \in invoices : i.series \in Series
    BY DEF SettlementInv, SettlementTypeOK
  <2> QED
    BY <2>1, <2>2, <2>3 DEF SettlementInv, Numbers
<1> QED
  BY <1>3, <1>4, <1>5, <1>6, <1>7 DEF SettlementInv

LEMMA ChooseHolds ==
  ASSUME SettlementInv, NEW x \in Settlers, NEW b \in ToSettle, ChooseToSettle(x, b)
  PROVE  SettlementInv'
<1> DEFINE r == [step |-> "CHOSEN", of |-> b, series |-> NoSeries, number |-> 0]
<1>1. May(r)
  BY DEF May, RunType, Locking
<1>2. settler[x].series = NoSeries
  BY RestingMay DEF ChooseToSettle, May
<1>3. /\ settler[x].series = NoSeries /\ settler' = [settler EXCEPT ![x] = r]
      /\ UNCHANGED <<bookingStatus, captured, issuer, payable, nextNumber, invoices, earned>>
  BY <1>2 DEF ChooseToSettle
<1> HIDE DEF r
<1> QED
  BY <1>1, <1>3, RunMoves

LEMMA LockHolds ==
  ASSUME SettlementInv, NEW x \in Settlers, LockToSettle(x)
  PROVE  SettlementInv'
<1> DEFINE b == settler[x].of
<1>1. /\ settler[x].step = "CHOSEN" /\ settler[x].series = NoSeries /\ b \in ToSettle
      /\ UNCHANGED <<bookingStatus, captured, issuer, payable, nextNumber, invoices, earned>>
      /\ \A y \in Settlers : settler[y].step \in Locking => settler[y].of # b
  BY DEF LockToSettle, SettlementInv, Positions, BookingLocked, Locking
<1>2. CASE Unsettled(b) /\ b \in captured
  <2> DEFINE r == [settler[x] EXCEPT !.step = "LOCKED"]
  <2>1. settler' = [settler EXCEPT ![x] = r]
    BY <1>2 DEF LockToSettle
  <2>2. settler[x] \in RunType
    BY DEF SettlementInv, SettlementTypeOK, RunType
  <2>3. May(r)
    BY <1>1, <1>2, <2>2 DEF May, RunType, Locking
  <2> HIDE DEF r
  <2> QED
    BY <1>1, <2>1, <2>3, RunMoves
<1>3. CASE ~(Unsettled(b) /\ b \in captured)
  <2>1. settler' = [settler EXCEPT ![x] = Resting]
    BY <1>3 DEF LockToSettle, Rests
  <2> QED
    BY <1>1, <2>1, RestingMay, RunMoves
<1> QED
  BY <1>2, <1>3

LEMMA CloseHolds ==
  ASSUME SettlementInv, NEW x \in Settlers, CloseMissed(x)
  PROVE  SettlementInv'
<1> DEFINE b == settler[x].of
<1>1. /\ settler[x].step = "LOCKED" /\ bookingStatus[b] = "NO_SHOW"
      /\ bookingStatus' = [bookingStatus EXCEPT ![b] = "CLOSED"]
      /\ settler' = [settler EXCEPT ![x] = Resting]
      /\ UNCHANGED <<captured, issuer, payable, nextNumber, invoices, earned>>
  BY DEF CloseMissed, Rests
<1>2. /\ b \in ToSettle /\ b \notin Finished /\ settler[x].series = NoSeries
      /\ \A y \in Settlers : y # x /\ settler[y].step \in Locking => settler[y].of # b
  <2>1. b \in ToSettle /\ settler[x].series = NoSeries
    BY <1>1 DEF SettlementInv, Positions
  <2>2. \A y \in Settlers : y # x /\ settler[y].step \in Locking => settler[y].of # b
    BY <1>1 DEF SettlementInv, OneLock, Locking
  <2> QED
    BY <1>1, <2>1, <2>2 DEF SettlementInv, Outcomes
<1>3. /\ \A c \in ToSettle : bookingStatus'[c] = IF c = b THEN "CLOSED" ELSE bookingStatus[c]
      /\ \A y \in Settlers : settler'[y] = IF y = x THEN Resting ELSE settler[y]
      /\ Resting.step = "NONE" /\ Resting.series = NoSeries /\ Resting \in RunType
  BY <1>1, RestingMay DEF SettlementInv, SettlementTypeOK, Resting, May
<1> HIDE DEF b
<1>4. SettlementTypeOK'
  BY <1>1, <1>3 DEF SettlementInv, SettlementTypeOK, RunType
<1>5. Positions'
  <2> SUFFICES ASSUME NEW y \in Settlers, y # x
               PROVE  Positions!(y)'
    BY <1>3 DEF Positions, Locking
  <2> QED
    BY <1>1, <1>2, <1>3 DEF SettlementInv, Positions, Unsettled, Locking
<1>6. OneLock'
  BY <1>3, SeriesAssumption DEF SettlementInv, OneLock, Locking
<1>7. Outcomes'
  BY <1>1, <1>2, <1>3 DEF SettlementInv, Outcomes, ToSettle
<1>8. Numbers'
  <2>1. \A y \in Settlers : settler[y].series \in Series \/ settler'[y].series \in Series
                             => settler'[y] = settler[y]
    BY <1>2, <1>3, SeriesAssumption
  <2>2. \A i \in invoices : i.series \in Series
    BY DEF SettlementInv, SettlementTypeOK
  <2> QED
    BY <1>1, <2>1, <2>2 DEF SettlementInv, Numbers
<1> QED
  BY <1>4, <1>5, <1>6, <1>7, <1>8 DEF SettlementInv

\* A run takes the next number of a series that no run has locked.
LEMMA TakeHolds ==
  ASSUME SettlementInv, NEW x \in Settlers, TakeNumber(x)
  PROVE  SettlementInv'
<1> DEFINE n == nextNumber[issuer]
           r == [step |-> "NUMBERED", of |-> settler[x].of, series |-> issuer, number |-> n]
<1>1. /\ settler[x].step = "LOCKED" /\ bookingStatus[settler[x].of] = "COMPLETED"
      /\ issuer \in Series /\ \A y \in Settlers : settler[y].series # issuer
      /\ nextNumber' = [nextNumber EXCEPT ![issuer] = n + 1]
      /\ UNCHANGED <<bookingStatus, captured, issuer, payable, invoices, earned>>
      /\ settler[x] \in RunType /\ n \in Nat \ {0}
  BY DEF TakeNumber, SequenceLocked, SettlementInv, SettlementTypeOK, RunType
<1>2. settler' = [settler EXCEPT ![x] = r]
  BY <1>1 DEF TakeNumber
<1>3. settler[x].of \in ToSettle
  BY <1>1 DEF SettlementInv, Positions
<1>4. /\ r \in RunType /\ r.step = "NUMBERED" /\ r.of = settler[x].of
      /\ r.series = issuer /\ r.number = n
  BY <1>1, <1>3 DEF RunType
<1>5. /\ \A y \in Settlers : settler'[y] = IF y = x THEN r ELSE settler[y]
      /\ \A s \in Series : nextNumber'[s] = IF s = issuer THEN n + 1 ELSE nextNumber[s]
      /\ \A s \in Series : nextNumber[s] \in Nat \ {0}
  BY <1>1, <1>2 DEF SettlementInv, SettlementTypeOK
<1> HIDE DEF r, n
<1>6. SettlementTypeOK'
  BY <1>1, <1>2, <1>4 DEF SettlementInv, SettlementTypeOK, RunType
<1>7. Positions'
  <2> SUFFICES ASSUME NEW y \in Settlers
               PROVE  Positions!(y)'
    BY DEF Positions
  <2>1. CASE y = x
    BY <2>1, <1>1, <1>3, <1>4, <1>5 DEF Unsettled, Locking
  <2>2. CASE y # x
    <3>1. settler'[y] = settler[y] /\ settler[y].series # issuer
      BY <2>2, <1>1, <1>5
    <3> QED
      BY <3>1, <1>1, <1>5 DEF SettlementInv, Positions, Unsettled, Locking
  <2> QED
    BY <2>1, <2>2
<1>8. OneLock'
  BY <1>1, <1>4, <1>5 DEF SettlementInv, OneLock, Locking
<1>9. Outcomes'
  BY <1>1 DEF SettlementInv, Outcomes
<1>10. Numbers'
  <2>1. \A i \in invoices : i.series \in Series /\ i.number \in Nat
    BY DEF SettlementInv, SettlementTypeOK
  <2>2. \A i \in invoices : i.number >= 1 /\ i.number < nextNumber'[i.series]
    BY <1>5, <2>1 DEF SettlementInv, Numbers, n
  <2>3. ASSUME NEW i \in invoices, NEW y \in Settlers, settler'[y].series = i.series
        PROVE  settler'[y].number # i.number
    <3>1. CASE y = x
      <4>1. i.series = issuer /\ settler'[y].number = n
        BY <3>1, <2>3, <1>4, <1>5
      <4> QED
        BY <4>1, <2>1 DEF SettlementInv, Numbers, n
    <3>2. CASE y # x
      BY <3>2, <2>3, <1>5 DEF SettlementInv, Numbers
    <3> QED
      BY <3>1, <3>2
  <2>4. ASSUME NEW s \in Series, NEW k \in Nat, k >= 1, k < nextNumber'[s]
        PROVE  \/ \E i \in invoices : i.series = s /\ i.number = k
               \/ \E y \in Settlers : settler'[y].series = s /\ settler'[y].number = k
    <3>1. CASE s = issuer /\ k = n
      BY <3>1, <1>4, <1>5
    <3>2. CASE ~(s = issuer /\ k = n)
      <4>1. k < nextNumber[s]
        BY <3>2, <2>4, <1>5, <1>1 DEF n
      <4>2. \/ \E i \in invoices : i.series = s /\ i.number = k
            \/ \E y \in Settlers : settler[y].series = s /\ settler[y].number = k
        BY <2>4, <4>1 DEF SettlementInv, Numbers
      <4>3. settler[x].series = NoSeries
        BY <1>1 DEF SettlementInv, Positions
      <4> QED
        BY <4>2, <4>3, <1>5, SeriesAssumption
    <3> QED
      BY <3>1, <3>2
  <2> QED
    BY <1>1, <2>2, <2>3, <2>4 DEF SettlementInv, Numbers
<1> QED
  BY <1>6, <1>7, <1>8, <1>9, <1>10 DEF SettlementInv

\* The number goes onto the invoice that closes the visit.
LEMMA CommitHolds ==
  ASSUME SettlementInv, NEW x \in Settlers, CommitSettled(x)
  PROVE  SettlementInv'
<1> DEFINE b == settler[x].of
           s == settler[x].series
           k == settler[x].number
           new == [of |-> b, series |-> s, number |-> k]
<1>1. /\ settler[x].step = "NUMBERED"
      /\ invoices' = invoices \cup {new} /\ earned' = earned \cup {b}
      /\ bookingStatus' = [bookingStatus EXCEPT ![b] = "CLOSED"]
      /\ settler' = [settler EXCEPT ![x] = Resting]
      /\ UNCHANGED <<captured, issuer, payable, nextNumber>>
      /\ settler[x] \in RunType
  BY DEF CommitSettled, Rests, SettlementInv, SettlementTypeOK, RunType
<1>2. /\ b \in ToSettle /\ bookingStatus[b] = "COMPLETED" /\ s \in Series
      /\ k \in Nat /\ k = nextNumber[s] - 1 /\ k >= 1 /\ nextNumber[s] \in Nat
      /\ b \in Finished /\ b \notin earned
      /\ \A y \in Settlers : y # x /\ settler[y].step \in Locking => settler[y].of # b
      /\ \A y \in Settlers : y # x => settler[y].series # s
  <2>1. /\ b \in ToSettle /\ bookingStatus[b] = "COMPLETED" /\ s \in Series
        /\ k = nextNumber[s] - 1 /\ k >= 1
    BY <1>1 DEF SettlementInv, Positions
  <2>2. k \in Nat /\ nextNumber[s] \in Nat
    BY <1>1, <2>1 DEF RunType, SettlementInv, SettlementTypeOK
  <2>3. b \in Finished /\ b \notin earned
    BY <2>1 DEF SettlementInv, Outcomes
  <2>4. \A y \in Settlers : y # x => settler[y].series # s
    BY <2>1 DEF SettlementInv, OneLock
  <2>5. \A y \in Settlers : y # x /\ settler[y].step \in Locking => settler[y].of # b
    BY <1>1 DEF SettlementInv, OneLock, Locking
  <2> QED
    BY <2>1, <2>2, <2>3, <2>4, <2>5
<1>3. /\ \A c \in ToSettle : bookingStatus'[c] = IF c = b THEN "CLOSED" ELSE bookingStatus[c]
      /\ \A y \in Settlers : settler'[y] = IF y = x THEN Resting ELSE settler[y]
      /\ Resting.step = "NONE" /\ Resting.series = NoSeries /\ Resting \in RunType
  BY <1>1, RestingMay DEF SettlementInv, SettlementTypeOK, Resting, May
<1>4. /\ new.of = b /\ new.series = s /\ new.number = k
      /\ new \in [of : ToSettle, series : Series, number : Nat]
      /\ \A i \in invoices : i.of # b /\ i.series \in Series /\ i.number \in Nat
  BY <1>2 DEF SettlementInv, Outcomes, SettlementTypeOK
<1> HIDE DEF new, k, s, b
<1>5. SettlementTypeOK'
  BY <1>1, <1>2, <1>3, <1>4 DEF SettlementInv, SettlementTypeOK, RunType
<1>6. Positions'
  <2> SUFFICES ASSUME NEW y \in Settlers
               PROVE  Positions!(y)'
    BY DEF Positions
  <2>1. CASE y = x
    BY <2>1, <1>3 DEF Locking
  <2>2. CASE y # x
    <3>1. settler'[y] = settler[y] /\ settler[y].series # s
      BY <2>2, <1>2, <1>3
    <3>2. settler[y].step \in Locking => settler[y].of # b
      BY <2>2, <1>2
    <3> QED
      BY <3>1, <3>2, <1>1, <1>3 DEF SettlementInv, Positions, Unsettled, Locking
  <2> QED
    BY <2>1, <2>2
<1>7. OneLock'
  BY <1>3, SeriesAssumption DEF SettlementInv, OneLock, Locking
<1>8. Outcomes'
  BY <1>1, <1>2, <1>3, <1>4 DEF SettlementInv, Outcomes, ToSettle
<1>9. Numbers'
  <2>1. \A i \in invoices' : i.number >= 1 /\ i.number < nextNumber'[i.series]
    BY <1>1, <1>2, <1>4 DEF SettlementInv, Numbers
  <2>2. \A i \in invoices : i.series = s => i.number # k
    BY DEF SettlementInv, Numbers, s, k
  <2>3. \A i, j \in invoices' : i.series = j.series /\ i.number = j.number => i = j
    BY <1>1, <1>4, <2>2 DEF SettlementInv, Numbers
  <2>4. \A i \in invoices', y \in Settlers :
           settler'[y].series = i.series => settler'[y].number # i.number
    BY <1>1, <1>2, <1>3, <1>4, SeriesAssumption DEF SettlementInv, Numbers
  <2>5. ASSUME NEW t \in Series, NEW l \in Nat, l >= 1, l < nextNumber[t]
        PROVE  \/ \E i \in invoices' : i.series = t /\ i.number = l
               \/ \E y \in Settlers : settler'[y].series = t /\ settler'[y].number = l
    <3>1. CASE \E i \in invoices : i.series = t /\ i.number = l
      BY <3>1, <1>1
    <3>2. ASSUME NEW y \in Settlers, settler[y].series = t, settler[y].number = l
          PROVE  \/ \E i \in invoices' : i.series = t /\ i.number = l
                 \/ \E z \in Settlers : settler'[z].series = t /\ settler'[z].number = l
      <4>1. CASE y = x
        BY <4>1, <3>2, <1>1, <1>4 DEF s, k
      <4>2. CASE y # x
        BY <4>2, <3>2, <1>3
      <4> QED
        BY <4>1, <4>2
    <3> QED
      BY <2>5, <3>1, <3>2 DEF SettlementInv, Numbers
  <2> QED
    BY <1>1, <2>1, <2>3, <2>4, <2>5 DEF Numbers
<1> QED
  BY <1>5, <1>6, <1>7, <1>8, <1>9 DEF SettlementInv

\* An aborted transaction gives its number back.
LEMMA AbandonHolds ==
  ASSUME SettlementInv, NEW x \in Settlers, Abandon(x)
  PROVE  SettlementInv'
<1> DEFINE t == settler[x].series
           k == settler[x].number
<1>1. /\ nextNumber' = [s \in Series |-> IF t = s THEN k ELSE nextNumber[s]]
      /\ settler' = [settler EXCEPT ![x] = Resting]
      /\ UNCHANGED <<bookingStatus, captured, issuer, payable, invoices, earned>>
      /\ settler[x] \in RunType
  BY DEF Abandon, Aborted, Rests, SettlementInv, SettlementTypeOK, RunType
<1>2. CASE t = NoSeries
  <2>1. nextNumber' = nextNumber
    BY <1>1, <1>2, SeriesAssumption DEF SettlementInv, SettlementTypeOK
  <2> QED
    BY <1>1, <1>2, <2>1, RestingMay, RunMoves
<1>3. CASE t # NoSeries
  <2>1. /\ t \in Series /\ k = nextNumber[t] - 1 /\ k >= 1 /\ k \in Nat
        /\ \A y \in Settlers : y # x => settler[y].series # t
    <3>1. t \in Series /\ k = nextNumber[t] - 1 /\ k >= 1
      BY <1>3 DEF SettlementInv, Positions
    <3> QED
      BY <1>1, <3>1 DEF SettlementInv, OneLock, RunType
  <2>2. /\ \A y \in Settlers : settler'[y] = IF y = x THEN Resting ELSE settler[y]
        /\ Resting.step = "NONE" /\ Resting.series = NoSeries /\ Resting \in RunType
        /\ \A s \in Series : nextNumber'[s] = IF s = t THEN k ELSE nextNumber[s]
        /\ \A s \in Series : nextNumber[s] \in Nat
    BY <1>1, RestingMay DEF SettlementInv, SettlementTypeOK, Resting, May
  <2>3. SettlementTypeOK'
    BY <1>1, <2>1, <2>2 DEF SettlementInv, SettlementTypeOK, RunType
  <2>4. Positions'
    <3> SUFFICES ASSUME NEW y \in Settlers, y # x
                 PROVE  Positions!(y)'
      BY <2>2 DEF Positions, Locking
    <3>1. settler'[y] = settler[y] /\ settler[y].series # t
      BY <2>1, <2>2
    <3> QED
      BY <3>1, <1>1, <2>2 DEF SettlementInv, Positions, Unsettled
  <2>5. OneLock'
    BY <2>2, SeriesAssumption DEF SettlementInv, OneLock, Locking
  <2>6. Outcomes'
    BY <1>1 DEF SettlementInv, Outcomes
  <2>7. \A i \in invoices : i.series \in Series /\ i.number \in Nat
    BY DEF SettlementInv, SettlementTypeOK
  <2>8. ASSUME NEW i \in invoices
        PROVE  i.number >= 1 /\ i.number < nextNumber'[i.series]
    <3>1. i.number >= 1 /\ i.number < nextNumber[i.series]
      BY DEF SettlementInv, Numbers
    <3>2. i.series = t => i.number # k
      BY DEF SettlementInv, Numbers
    <3> QED
      BY <2>1, <2>2, <2>7, <3>1, <3>2
  <2>9. ASSUME NEW s \in Series, NEW l \in Nat, l >= 1, l < nextNumber'[s]
        PROVE  \/ \E i \in invoices : i.series = s /\ i.number = l
               \/ \E y \in Settlers : settler'[y].series = s /\ settler'[y].number = l
    <3>1. l < nextNumber[s] /\ ~(s = t /\ l = k)
      BY <2>1, <2>2, <2>9
    <3>2. \/ \E i \in invoices : i.series = s /\ i.number = l
          \/ \E y \in Settlers : settler[y].series = s /\ settler[y].number = l
      BY <2>9, <3>1 DEF SettlementInv, Numbers
    <3> QED
      BY <2>2, <3>1, <3>2
  <2>10. \A i \in invoices, y \in Settlers :
            settler'[y].series = i.series => settler'[y].number # i.number
    BY <2>2, <2>7, SeriesAssumption DEF SettlementInv, Numbers
  <2>11. Numbers'
    BY <1>1, <2>8, <2>9, <2>10 DEF SettlementInv, Numbers
  <2> QED
    BY <2>3, <2>4, <2>5, <2>6, <2>11 DEF SettlementInv
<1> QED
  BY <1>2, <1>3

\* Payments and staff change nothing the numbers depend on.
LEMMA OthersHold ==
  ASSUME SettlementInv,
         \/ \E b \in ToSettle : Captured(b)
         \/ \E s \in Series : ConfigureIssuer(s)
         \/ ConfigurePayout
         \/ UNCHANGED settlement
  PROVE  SettlementInv'
<1>1. /\ UNCHANGED <<bookingStatus, nextNumber, invoices, earned, settler>>
      /\ captured' \subseteq ToSettle /\ issuer' \in Series \cup {NoSeries} /\ payable' \in BOOLEAN
  BY DEF Captured, ConfigureIssuer, ConfigurePayout, settlement, SettlementInv, SettlementTypeOK
<1> QED
  BY <1>1 DEF SettlementInv, SettlementTypeOK, Positions, Unsettled, OneLock, Outcomes, Numbers

LEMMA SettlementStepHolds == SettlementInv /\ [SettlementNext]_settlement => SettlementInv'
<1> SUFFICES ASSUME SettlementInv, [SettlementNext]_settlement PROVE SettlementInv'
  OBVIOUS
<1>1. ASSUME NEW x \in Settlers,
             \/ LockToSettle(x) \/ CloseMissed(x) \/ TakeNumber(x) \/ CommitSettled(x)
             \/ Abandon(x) \/ \E b \in ToSettle : ChooseToSettle(x, b)
      PROVE  SettlementInv'
  BY <1>1, ChooseHolds, LockHolds, CloseHolds, TakeHolds, CommitHolds, AbandonHolds
<1>2. CASE \/ \E b \in ToSettle : Captured(b)
           \/ \E s \in Series : ConfigureIssuer(s)
           \/ ConfigurePayout
           \/ UNCHANGED settlement
  BY <1>2, OthersHold
<1> QED
  BY <1>1, <1>2 DEF SettlementNext

\* The inductive invariant holds in every reachable state.
THEOREM SettlementInvariant == SettlementInit /\ [][SettlementNext]_settlement => []SettlementInv
  BY SettlementInitHolds, SettlementStepHolds, PTL

\* No number of a series is missing or used twice, whatever is aborted, and a
\* completed visit is closed exactly when it has its one invoice and its earnings.
THEOREM NumbersAreGapless == SettlementInit /\ [][SettlementNext]_settlement => []GaplessNumbers
<1>1. ASSUME SettlementInv, NEW s \in Series
      PROVE  NumbersOf(s) = 1 .. (nextNumber[s] - 1) \ InFlight(s)
  <2>1. nextNumber[s] \in Nat /\ \A i \in invoices : i.number \in Nat
    BY <1>1 DEF SettlementInv, SettlementTypeOK
  <2>2. ASSUME NEW k \in NumbersOf(s)
        PROVE  k \in 1 .. (nextNumber[s] - 1) \ InFlight(s)
    <3>1. PICK i \in invoices : i.series = s /\ i.number = k
      BY <2>2 DEF NumbersOf
    <3>2. k \in 1 .. (nextNumber[s] - 1)
      BY <1>1, <2>1, <3>1 DEF SettlementInv, Numbers
    <3>3. k \notin InFlight(s)
      BY <1>1, <3>1 DEF SettlementInv, Numbers, InFlight
    <3> QED
      BY <3>2, <3>3
  <2>3. ASSUME NEW k \in 1 .. (nextNumber[s] - 1), k \notin InFlight(s)
        PROVE  k \in NumbersOf(s)
    <3>1. ~ \E x \in Settlers : settler[x].series = s /\ settler[x].number = k
      BY <2>3 DEF InFlight
    <3>2. k \in Nat /\ k >= 1 /\ k < nextNumber[s]
      BY <2>1
    <3>3. \E i \in invoices : i.series = s /\ i.number = k
      BY <1>1, <3>1, <3>2 DEF SettlementInv, Numbers
    <3> QED
      BY <3>3 DEF NumbersOf
  <2> QED
    BY <2>2, <2>3
<1>2. ASSUME SettlementInv
      PROVE  /\ {i.of : i \in invoices} = {b \in Finished : bookingStatus[b] = "CLOSED"}
             /\ {b \in Finished : bookingStatus[b] = "CLOSED"} = earned
  <2>1. {b \in Finished : bookingStatus[b] = "CLOSED"} = earned
    BY <1>2 DEF SettlementInv, Outcomes
  <2>2. {i.of : i \in invoices} = earned
    BY <1>2 DEF SettlementInv, Outcomes
  <2> QED
    BY <2>1, <2>2
<1>3. ASSUME SettlementInv
      PROVE  /\ \A i, j \in invoices : i = j <=> (i.series = j.series /\ i.number = j.number)
             /\ \A i, j \in invoices : i.of = j.of => i = j
  BY <1>3 DEF SettlementInv, Outcomes, Numbers
<1>4. SettlementInv => GaplessNumbers
  BY <1>1, <1>2, <1>3 DEF GaplessNumbers
<1> QED
  BY <1>4, SettlementInvariant, PTL

-----------------------------------------------------------------------------
(* Promotions.  A booking being priced holds the promotion's row, and what    *)
(* was counted for it can only shrink until its redemption is saved.          *)

\* One booking is priced at a time, and there is room for it and for its customer.
PricedOK(o) ==
    /\ \A p \in Orders : order[p] = "PRICED" => p = o
    /\ Cardinality(Holding) < offer.limit
    /\ Cardinality(Holding \cap OfCustomer(o)) < offer.perUser

PromotionsInv ==
    /\ PromotionsTypeOK
    /\ \A o \in Orders : order[o] = "PRICED" => PricedOK(o)

\* Fewer redemptions are counted as fewer.
LEMMA FewerHeld ==
  ASSUME NEW S \in SUBSET Orders, NEW Q \in SUBSET S, NEW C
  PROVE  /\ Cardinality(Q) \in Nat /\ Cardinality(S) \in Nat /\ Cardinality(Q) <= Cardinality(S)
         /\ Cardinality(Q \cap C) \in Nat /\ Cardinality(S \cap C) \in Nat
         /\ Cardinality(Q \cap C) <= Cardinality(S \cap C)
<1>1. IsFiniteSet(S)
  BY FS_Subset, OrdersAssumption
<1>2. IsFiniteSet(Q) /\ IsFiniteSet(S \cap C) /\ IsFiniteSet(Q \cap C)
  BY <1>1, FS_Subset
<1>3. Q \cap C \in SUBSET (S \cap C)
  OBVIOUS
<1> QED
  BY <1>1, <1>2, <1>3, FS_Subset, FS_CardinalityType

\* One redemption more is counted as one more.
LEMMA OneMoreHeld ==
  ASSUME NEW S \in SUBSET Orders, NEW o \in Orders
  PROVE  /\ Cardinality(S) \in Nat /\ Cardinality(S \cup {o}) <= Cardinality(S) + 1
         /\ Cardinality(S \cup {o}) \in Nat
<1>1. IsFiniteSet(S)
  BY FS_Subset, OrdersAssumption
<1> QED
  BY <1>1, FS_AddElement, FS_CardinalityType

\* A step after which no more is held, and after which nobody else is priced,
\* leaves the room that was found.
LEMMA LessHeld ==
  ASSUME PromotionsInv, PromotionsTypeOK', offer' = offer, Holding' \subseteq Holding,
         \A o \in Orders : order'[o] = "PRICED" => order[o] = "PRICED"
  PROVE  PromotionsInv'
<1> SUFFICES ASSUME NEW o \in Orders, order'[o] = "PRICED"
             PROVE  PricedOK(o)'
  BY DEF PromotionsInv
<1>1. PricedOK(o)
  BY DEF PromotionsInv
<1>2. Holding \in SUBSET Orders /\ Holding' \in SUBSET Holding /\ OfCustomer(o)' = OfCustomer(o)
  BY DEF Holding, OfCustomer
<1>3. offer.limit \in Nat /\ offer.perUser \in Nat
  BY OrdersAssumption DEF PromotionsInv, PromotionsTypeOK, Offers, Limits, NoLimit
<1>4. /\ Cardinality(Holding') \in Nat /\ Cardinality(Holding) \in Nat
      /\ Cardinality(Holding') <= Cardinality(Holding)
      /\ Cardinality(Holding' \cap OfCustomer(o)) \in Nat /\ Cardinality(Holding \cap OfCustomer(o)) \in Nat
      /\ Cardinality(Holding' \cap OfCustomer(o)) <= Cardinality(Holding \cap OfCustomer(o))
  BY <1>2, FewerHeld
<1>5. Cardinality(Holding') < offer.limit
  BY <1>1, <1>3, <1>4 DEF PricedOK
<1>6. Cardinality(Holding' \cap OfCustomer(o)) < offer.perUser
  BY <1>1, <1>3, <1>4 DEF PricedOK
<1> QED
  BY <1>1, <1>2, <1>5, <1>6 DEF PricedOK

LEMMA PromotionsTyping ==
  ASSUME PromotionsTypeOK, [PromotionsNext]_promotions
  PROVE  PromotionsTypeOK'
<1>1. CASE \E o \in Orders : \/ Price(o) \/ Reserve(o) \/ Forget(o) \/ Redeem(o) \/ ConfirmUnpaid(o)
                             \/ \E status \in {"CANCELLED", "EXPIRED"} : ReleasePromotion(o, status)
  BY <1>1 DEF PromotionsTypeOK, OrderStatuses, Price, Reserve, Forget, Redeem, ConfirmUnpaid, ReleasePromotion
<1>2. ASSUME NEW valid \in BOOLEAN, NEW limit \in Limits \cup {NoLimit}, NEW perUser \in Limits,
             UpdateOffer(valid, limit, perUser)
      PROVE  PromotionsTypeOK'
  <2>1. offer.firstOnly \in BOOLEAN /\ (offer.valid /\ valid) \in BOOLEAN
    BY DEF PromotionsTypeOK, Offers
  <2>2. offer' \in Offers
    BY <1>2, <2>1 DEF UpdateOffer, Offers
  <2> QED
    BY <1>2, <2>2 DEF PromotionsTypeOK, UpdateOffer
<1>3. CASE UNCHANGED promotions
  BY <1>3 DEF PromotionsTypeOK, promotions
<1> QED
  BY <1>1, <1>2, <1>3 DEF PromotionsNext

LEMMA PriceHolds ==
  ASSUME PromotionsInv, PromotionsTypeOK', NEW o \in Orders, Price(o)
  PROVE  PromotionsInv'
<1>1. Holding' = Holding /\ offer' = offer /\ OfCustomer(o)' = OfCustomer(o)
  BY DEF Price, Holding, OfCustomer
<1>2. \A p \in Orders : order'[p] = "PRICED" => p = o
  BY DEF Price, MayPrice, OfferLocked, PromotionsInv, PromotionsTypeOK
<1>3. PricedOK(o)'
  BY <1>1, <1>2 DEF Price, MayPrice, PricedOK
<1> QED
  BY <1>2, <1>3 DEF PromotionsInv

LEMMA ReserveHolds ==
  ASSUME PromotionsInv, PromotionsTypeOK', NEW o \in Orders, Reserve(o)
  PROVE  PromotionsInv'
<1>1. \A p \in Orders : order'[p] # "PRICED"
  BY DEF Reserve, PromotionsInv, PromotionsTypeOK, PricedOK
<1> QED
  BY <1>1 DEF PromotionsInv

LEMMA PromotionsStepHolds ==
  ASSUME PromotionsInv, [PromotionsNext]_promotions
  PROVE  PromotionsInv'
<1>1. PromotionsTypeOK'
  BY PromotionsTyping DEF PromotionsInv
<1>2. ASSUME NEW o \in Orders,
             \/ Forget(o) \/ Redeem(o) \/ ConfirmUnpaid(o)
             \/ \E status \in {"CANCELLED", "EXPIRED"} : ReleasePromotion(o, status)
      PROVE  PromotionsInv'
  <2>1. PromotionsTypeOK
    BY DEF PromotionsInv
  <2>2. /\ offer' = offer /\ Holding' \subseteq Holding
        /\ \A p \in Orders : order'[p] = "PRICED" => order[p] = "PRICED"
    BY <1>2, <2>1 DEF Forget, Redeem, ConfirmUnpaid, ReleasePromotion, Holding, PromotionsTypeOK
  <2> QED
    BY <1>1, <2>2, LessHeld
<1>3. CASE \E valid \in BOOLEAN, limit \in Limits \cup {NoLimit}, perUser \in Limits :
               UpdateOffer(valid, limit, perUser)
  BY <1>1, <1>3 DEF UpdateOffer, OfferLocked, PromotionsInv
<1>4. CASE UNCHANGED promotions
  <2>1. offer' = offer /\ Holding' \subseteq Holding /\ order' = order
    BY <1>4 DEF promotions, Holding
  <2> QED
    BY <1>1, <2>1, LessHeld
<1> QED
  BY <1>1, <1>2, <1>3, <1>4, PriceHolds, ReserveHolds DEF PromotionsNext

LEMMA PromotionsInvariant == PromotionsSpec => []PromotionsInv
<1>1. PromotionsInit => PromotionsInv
  BY DEF PromotionsInit, PromotionsInv, PromotionsTypeOK, OrderStatuses
<1> QED
  BY <1>1, PromotionsStepHolds, PTL DEF PromotionsSpec

\* However many bookings are priced at the same time, and whatever staff do to the
\* limits, the last redemption is granted once, for any bookings, customers and limits.
THEOREM LastRedemptionGoesOnce == PromotionsSpec => NotOverspent
<1>1. ASSUME PromotionsInv, [PromotionsNext]_promotions, NEW o \in Holding' \ Holding
      PROVE  Cardinality(Holding') <= offer'.limit /\ Cardinality(Holding' \cap OfCustomer(o)) <= offer'.perUser
  <2>1. o \in Orders /\ PromotionsTypeOK /\ redemption'[o] \in {"RESERVED", "REDEEMED"}
        /\ redemption[o] \notin {"RESERVED", "REDEEMED"}
    BY <1>1 DEF Holding, PromotionsInv
  <2>2. PICK q \in Orders : Reserve(q)
    BY <1>1, <2>1 DEF PromotionsNext, promotions, Price, Forget, Redeem, ConfirmUnpaid, ReleasePromotion,
                      UpdateOffer, PromotionsTypeOK
  <2>3. q = o /\ offer' = offer /\ Holding' = Holding \cup {o}
    BY <2>1, <2>2 DEF Reserve, Holding, PromotionsTypeOK
  <2>4. PricedOK(o)
    BY <1>1, <2>2, <2>3 DEF Reserve, PromotionsInv
  <2>5. Holding' \cap OfCustomer(o) = (Holding \cap OfCustomer(o)) \cup {o}
    BY <2>1, <2>3 DEF OfCustomer
  <2>6. Holding \in SUBSET Orders /\ Holding \cap OfCustomer(o) \in SUBSET Orders
    BY DEF Holding
  <2>7. offer.limit \in Nat /\ offer.perUser \in Nat
    BY <2>1, OrdersAssumption DEF PromotionsTypeOK, Offers, Limits, NoLimit
  <2>8. Cardinality(Holding') <= Cardinality(Holding) + 1 /\ Cardinality(Holding) \in Nat
        /\ Cardinality(Holding') \in Nat
    BY <2>1, <2>3, <2>6, OneMoreHeld
  <2>9. /\ Cardinality(Holding' \cap OfCustomer(o)) <= Cardinality(Holding \cap OfCustomer(o)) + 1
        /\ Cardinality(Holding \cap OfCustomer(o)) \in Nat /\ Cardinality(Holding' \cap OfCustomer(o)) \in Nat
    BY <2>1, <2>5, <2>6, OneMoreHeld
  <2> QED
    BY <2>3, <2>4, <2>7, <2>8, <2>9 DEF PricedOK
<1>2. PromotionsInv /\ [PromotionsNext]_promotions
        => [\A o \in Holding' \ Holding :
              /\ Cardinality(Holding') <= offer'.limit
              /\ Cardinality(Holding' \cap OfCustomer(o)) <= offer'.perUser]_promotions
  BY <1>1
<1> QED
  BY <1>2, PromotionsInvariant, PTL DEF PromotionsSpec, NotOverspent

-----------------------------------------------------------------------------
(* Price rules.  What a request may write lies no further back than the       *)
(* tolerance, counted from the earliest moment it may have arrived.           *)

\* A row as a request leaves it: still the same rule, and at time t in force as before.
SameAt(rows, new, t) ==
    /\ \A k \in DOMAIN rows :
          /\ new[k].scope = rows[k].scope /\ new[k].priority = rows[k].priority
          /\ new[k].from = rows[k].from
          /\ t < new[k].to <=> t < rows[k].to
    /\ DOMAIN rows \subseteq DOMAIN new
    /\ \A k \in DOMAIN new \ DOMAIN rows : ~(new[k].from <= t)

\* Then the same rule is selected.
LEMMA SameIsSelected ==
  ASSUME NEW rows, NEW new, NEW t, SameAt(rows, new, t)
  PROVE  Selected(new, t) = Selected(rows, t)
<1>1. Matching(new, t) = Matching(rows, t)
  BY DEF SameAt, Matching
<1>2. \A j, k \in Matching(rows, t) : Before(new, j, k) <=> Before(rows, j, k)
  <2> SUFFICES ASSUME NEW j \in Matching(rows, t), NEW k \in Matching(rows, t)
               PROVE  Before(new, j, k) <=> Before(rows, j, k)
    OBVIOUS
  <2>1. /\ new[j].scope = rows[j].scope /\ new[j].priority = rows[j].priority /\ new[j].from = rows[j].from
        /\ new[k].scope = rows[k].scope /\ new[k].priority = rows[k].priority /\ new[k].from = rows[k].from
    BY DEF SameAt, Matching
  <2> QED
    BY <2>1 DEF Before
<1>3. Foremost(new, Matching(new, t)) = Foremost(rows, Matching(rows, t))
  BY <1>1, <1>2 DEF Foremost
<1> QED
  BY <1>3 DEF Selected

\* A row added at the end starts later than t.
LEMMA AddingKeeps ==
  ASSUME NEW rows \in Seq(Rule), NEW new \in Seq(Rule), NEW t \in Minutes, SameAt(rows, new, t),
         DOMAIN new = DOMAIN rows, NEW row \in Rule, t < row.from
  PROVE  SameAt(rows, Append(new, row), t)
<1> DEFINE more == Append(new, row)
<1>1. /\ DOMAIN new = 1..Len(new) /\ Len(new) \in Nat /\ DOMAIN more = 1..Len(new) + 1
      /\ \A k \in 1..Len(new) : more[k] = new[k]
      /\ more[Len(new) + 1] = row
  OBVIOUS
<1>2. t \in Int /\ row.from \in Int
  BY LagIsNat DEF Minutes, Rule
<1>3. \A k \in DOMAIN more \ DOMAIN rows : more[k] = row
  BY <1>1
<1> QED
  BY <1>1, <1>2, <1>3 DEF SameAt

\* A row that gets another end, when both ends are later than t.
LEMMA EndingKeeps ==
  ASSUME NEW rows \in Seq(Rule), NEW k \in DOMAIN rows, NEW t \in Minutes, NEW at \in 1..Never,
         at = rows[k].to \/ (t < at /\ t < rows[k].to)
  PROVE  /\ [rows EXCEPT ![k].to = at] \in Seq(Rule)
         /\ DOMAIN [rows EXCEPT ![k].to = at] = DOMAIN rows
         /\ SameAt(rows, [rows EXCEPT ![k].to = at], t)
<1> DEFINE new == [rows EXCEPT ![k].to = at]
<1>1. DOMAIN rows = 1..Len(rows) /\ Len(rows) \in Nat /\ \A j \in DOMAIN rows : rows[j] \in Rule
  OBVIOUS
<1>2. DOMAIN new = DOMAIN rows /\ \A j \in DOMAIN rows : new[j] = IF j = k THEN [rows[k] EXCEPT !.to = at] ELSE rows[j]
  OBVIOUS
<1>3. [rows[k] EXCEPT !.to = at] \in Rule
  BY <1>1 DEF Rule
<1>4. new \in Seq(Rule)
  BY <1>1, <1>2, <1>3
<1>5. \A j \in DOMAIN rows :
        /\ new[j].scope = rows[j].scope /\ new[j].priority = rows[j].priority
        /\ new[j].from = rows[j].from
        /\ t < new[j].to <=> t < rows[j].to
  BY <1>1, <1>2 DEF Rule
<1> QED
  BY <1>2, <1>4, <1>5 DEF SameAt

\* What a request may do to the rows: nothing, to add a row, to end one, or both.
\* Its times are within the tolerance.
Recent(at) == at >= minute - 1 - Lag
EndsAt(k, at) == at = rules[k].to \/ (Recent(at) /\ Recent(rules[k].to))
EndedRows(k, at) == [rules EXCEPT ![k].to = at]

RowsChange(new) ==
    \/ new = rules
    \/ \E row \in Rule : Recent(row.from) /\ new = Append(rules, row)
    \/ \E k \in DOMAIN rules, at \in 1..Never : EndsAt(k, at) /\ new = EndedRows(k, at)
    \/ \E k \in DOMAIN rules, at \in 1..Never, row \in Rule :
          /\ EndsAt(k, at) /\ Recent(row.from)
          /\ new = Append(EndedRows(k, at), row)

\* An instant that was not in the past when the request arrived is recent.
LEMMA FutureIsRecent ==
  ASSUME minute \in Nat, NEW at \in Nat, NEW asked \in Arrived, FutureInstant(at, asked)
  PROVE  Recent(at)
BY LagIsNat DEF Arrived, FutureInstant, Recent

LEMMA MayEndIsRecent ==
  ASSUME PricingTypeOK, NEW k \in DOMAIN rules, NEW at \in Nat, Recent(at), MayEnd(k, at)
  PROVE  EndsAt(k, at)
<1>1. rules[k] \in Rule
  BY DEF PricingTypeOK
<1>2. minute \in Nat /\ rules[k].to \in Nat
  BY <1>1, LagIsNat DEF PricingTypeOK, Minutes, Rule, Never
<1> QED
  BY <1>2, LagIsNat DEF MayEnd, EndsAt, Recent

LEMMA EveryStepChangesRows ==
  ASSUME PricingTypeOK, [PricingNext]_pricing
  PROVE  RowsChange(rules') /\ minute' \in Minutes /\ table' = table
<1>1. /\ minute \in Nat /\ minute \in Minutes /\ MaxMinute \in Nat /\ rules \in Seq(Rule)
      /\ Never \in 1..Never /\ Never = MaxMinute + 1 /\ \A t \in Minutes : t \in Nat /\ t < Never
  BY LagIsNat DEF PricingTypeOK, Minutes, Never
<1>2. ASSUME NEW scope \in Scopes, NEW priority \in Priorities, NEW from \in Minutes, NEW to \in 1..Never,
             CreateRule(scope, priority, from, to)
      PROVE  RowsChange(rules') /\ minute' \in Minutes /\ table' = table
  <2>1. [scope |-> scope, priority |-> priority, from |-> from, to |-> to, of |-> 0] \in Rule
    BY <1>2 DEF Rule
  <2>2. Recent(from)
    BY <1>1, <1>2, FutureIsRecent DEF CreateRule
  <2> QED
    BY <1>1, <1>2, <2>1, <2>2 DEF CreateRule, Adds, RowsChange
<1>3. ASSUME NEW from \in Minutes, CreateTaxRate(from)
      PROVE  RowsChange(rules') /\ minute' \in Minutes /\ table' = table
  <2>1. [scope |-> {}, priority |-> 0, from |-> from, to |-> Never, of |-> 0] \in Rule
    BY <1>1 DEF Rule
  <2>2. Recent(from)
    BY <1>1, <1>3, FutureIsRecent DEF CreateTaxRate
  <2> QED
    BY <1>1, <1>3, <2>1, <2>2 DEF CreateTaxRate, Adds, RowsChange
<1>4. ASSUME NEW k \in 1..MaxRules, NEW at \in Minutes, EndRule(k, at) \/ ReplaceRule(k, at)
      PROVE  /\ k \in DOMAIN rules /\ at \in 1..Never /\ EndsAt(k, at) /\ Recent(at)
             /\ rules[k] \in Rule /\ UNCHANGED <<table, minute>>
  <2>1. k \in DOMAIN rules /\ rules[k].from < at /\ MayEnd(k, at) /\ UNCHANGED <<table, minute>>
    BY <1>4 DEF EndRule, ReplaceRule
  <2>2. Recent(at)
    BY <1>1, <1>4, FutureIsRecent DEF EndRule, ReplaceRule
  <2>3. rules[k] \in Rule
    BY <1>1, <2>1
  <2>4. rules[k].from \in Nat
    BY <1>1, <2>3 DEF Rule
  <2>5. at \in Nat /\ at < Never /\ Never \in Nat
    BY <1>1
  <2>6. at \in 1..Never
    BY <2>1, <2>4, <2>5
  <2> QED
    BY <1>1, <2>1, <2>2, <2>3, <2>6, MayEndIsRecent
<1>5. ASSUME NEW k \in 1..MaxRules, NEW at \in Minutes, EndRule(k, at)
      PROVE  RowsChange(rules') /\ minute' \in Minutes /\ table' = table
  BY <1>1, <1>4, <1>5 DEF EndRule, RowsChange, EndedRows
<1>6. ASSUME NEW k \in 1..MaxRules, NEW at \in Minutes, ReplaceRule(k, at)
      PROVE  RowsChange(rules') /\ minute' \in Minutes /\ table' = table
  <2> DEFINE row == [scope |-> rules[k].scope, priority |-> rules[k].priority, from |-> at,
                      to |-> rules[k].to, of |-> k]
  <2>1. row \in Rule /\ row.from = at
    BY <1>4, <1>6 DEF Rule
  <2>2. rules' = Append(EndedRows(k, at), row)
    BY <1>6 DEF ReplaceRule, EndedRows
  <2> HIDE DEF row
  <2> QED
    BY <1>1, <1>4, <1>6, <2>1, <2>2 DEF RowsChange
<1>7. CASE TimePasses \/ UNCHANGED pricing
  BY <1>1, <1>7, LagIsNat DEF TimePasses, pricing, RowsChange, Minutes
<1> QED
  BY <1>2, <1>3, <1>5, <1>6, <1>7 DEF PricingNext

LEMMA ChangeKeepsPast ==
  ASSUME PricingTypeOK, NEW new, RowsChange(new), NEW t \in Minutes, t < minute - 1 - Lag
  PROVE  new \in Seq(Rule) /\ SameAt(rules, new, t)
<1>1. /\ minute \in Nat /\ MaxMinute \in Nat /\ Lag \in Nat /\ t \in Nat /\ rules \in Seq(Rule)
      /\ \A row \in Rule : row.from \in Nat /\ row.to \in Nat
  BY LagIsNat DEF PricingTypeOK, Minutes, Rule, Never
<1>2. \A at \in Nat : Recent(at) => t < at
  BY <1>1 DEF Recent
<1>3. SameAt(rules, rules, t)
  BY DEF SameAt
<1>4. ASSUME NEW k \in DOMAIN rules, NEW at \in 1..Never, EndsAt(k, at)
      PROVE  /\ EndedRows(k, at) \in Seq(Rule) /\ DOMAIN EndedRows(k, at) = DOMAIN rules
             /\ SameAt(rules, EndedRows(k, at), t)
  <2>1. rules[k] \in Rule
    BY <1>1
  <2>2. at = rules[k].to \/ (t < at /\ t < rules[k].to)
    BY <1>1, <1>2, <1>4, <2>1 DEF EndsAt
  <2> QED
    BY <1>1, <2>2, EndingKeeps DEF EndedRows
<1>5. ASSUME NEW row \in Rule, Recent(row.from)
      PROVE  t < row.from
  BY <1>1, <1>2, <1>5
<1>6. ASSUME NEW rows \in Seq(Rule), DOMAIN rows = DOMAIN rules, SameAt(rules, rows, t),
             NEW row \in Rule, Recent(row.from)
      PROVE  Append(rows, row) \in Seq(Rule) /\ SameAt(rules, Append(rows, row), t)
  BY <1>1, <1>5, <1>6, AddingKeeps
<1> QED
  BY <1>1, <1>3, <1>4, <1>6 DEF RowsChange

LEMMA RowsKeepTheirType ==
  ASSUME PricingTypeOK, NEW new, RowsChange(new)
  PROVE  new \in Seq(Rule)
<1>1. rules \in Seq(Rule)
  BY DEF PricingTypeOK
<1>2. ASSUME NEW k \in DOMAIN rules, NEW at \in 1..Never
      PROVE  EndedRows(k, at) \in Seq(Rule)
  <2>1. DOMAIN rules = 1..Len(rules) /\ Len(rules) \in Nat /\ \A j \in DOMAIN rules : rules[j] \in Rule
    BY <1>1
  <2>2. [rules[k] EXCEPT !.to = at] \in Rule
    BY <2>1 DEF Rule
  <2> QED
    BY <1>1, <2>1, <2>2 DEF EndedRows
<1>3. ASSUME NEW rows \in Seq(Rule), NEW row \in Rule
      PROVE  Append(rows, row) \in Seq(Rule)
  OBVIOUS
<1> QED
  BY <1>1, <1>2, <1>3 DEF RowsChange

LEMMA PricingInvariant == PricingSpec => []PricingTypeOK
<1>1. PricingInit => PricingTypeOK
  BY LagIsNat DEF PricingInit, PricingTypeOK, Minutes
<1>2. PricingTypeOK /\ [PricingNext]_pricing => PricingTypeOK'
  BY EveryStepChangesRows, RowsKeepTheirType DEF PricingTypeOK
<1> QED
  BY <1>1, <1>2, PTL DEF PricingSpec

\* Which rule applied in the past stays as it was, for any rules, scopes, priorities,
\* and however long requests take.
THEOREM PastStaysFixed == PricingSpec => PastIsFixed
<1>1. PricingTypeOK /\ [PricingNext]_pricing
        => [\A t \in Minutes : t < minute - 1 - Lag => Selected(rules', t) = Selected(rules, t)]_pricing
  BY EveryStepChangesRows, ChangeKeepsPast, SameIsSelected
<1> QED
  BY <1>1, PricingInvariant, PTL DEF PricingSpec, PastIsFixed

-----------------------------------------------------------------------------
(* What the app offers. *)

\* The least of some places in a list.
LEMMA LeastPlace ==
  ASSUME NEW S \in SUBSET Nat, S # {}
  PROVE  \E k \in S : \A j \in S : k <= j
<1>1. PICK k \in S : \A j \in S : ~(<<j, k>> \in OpToRel(<, Nat))
  BY WFMin, NatLessThanWellFounded
<1>2. \A j \in S : j \in Nat /\ ~(j < k)
  BY <1>1 DEF OpToRel
<1> QED
  BY <1>2

\* The zone that is found for the service is the nearest one, when that one offers it.
LEMMA NearestOffers ==
  ASSUME ResolveService(FALSE) \in offered, service.active
  PROVE  ResolveService(TRUE) = ResolveService(FALSE)
<1> DEFINE places(ofService) == {k \in DOMAIN Near : Qualifies(Near[k], ofService)}
           nearest(ofService) == CHOOSE k \in places(ofService) : \A j \in places(ofService) : k <= j
<1>1. places(TRUE) \subseteq places(FALSE) /\ places(FALSE) \in SUBSET Nat
  BY CrewsAssumption DEF Qualifies
<1>2. CASE places(FALSE) = {}
  BY <1>1, <1>2 DEF ResolveService
<1>3. CASE places(FALSE) # {}
  <2>1. nearest(FALSE) \in places(FALSE) /\ \A j \in places(FALSE) : nearest(FALSE) <= j
    BY <1>1, <1>3, LeastPlace
  <2>2. ResolveService(FALSE) = Near[nearest(FALSE)]
    BY <1>3 DEF ResolveService
  <2>3. nearest(FALSE) \in places(TRUE)
    BY <2>1, <2>2 DEF Qualifies
  <2>4. nearest(TRUE) \in places(TRUE) /\ \A j \in places(TRUE) : nearest(TRUE) <= j
    BY <1>1, <2>3, LeastPlace
  <2>5. nearest(TRUE) <= nearest(FALSE) /\ nearest(FALSE) <= nearest(TRUE)
    BY <1>1, <2>1, <2>3, <2>4
  <2>6. nearest(TRUE) \in Nat /\ nearest(FALSE) \in Nat
    BY <1>1, <2>1, <2>4
  <2>7. nearest(TRUE) = nearest(FALSE)
    <3>1. \A j, k \in Nat : j <= k /\ k <= j => j = k
      OBVIOUS
    <3> QED
      BY <2>5, <2>6, <3>1, Zenon
  <2>8. ResolveService(TRUE) = Near[nearest(TRUE)]
    BY <2>3 DEF ResolveService
  <2> QED
    BY <2>2, <2>7, <2>8
<1> QED
  BY <1>2, <1>3

\* The offered starts are the ones that are on a slot.
LEMMA SlotsAreMultiples ==
  ASSUME NEW t \in Moments
  PROVE  t % Granularity = 0 <=> t \in Slots
<1>1. t \in Nat /\ t < Granularity * LastSlot
  BY DayAssumption DEF Moments, DayEnd
<1>2. ASSUME NEW n \in Nat, NEW d \in Nat, d # 0
      PROVE  \E k \in Nat : \E r \in 0 .. d - 1 : n = d * k + r /\ r = n % d
  BY <1>2, SMT
<1>3. ASSUME t % Granularity = 0
      PROVE  t \in Slots
  <2>1. PICK k \in Nat, r \in 0 .. Granularity - 1 : t = Granularity * k + r /\ r = t % Granularity
    BY <1>1, <1>2, DayAssumption
  <2>2. t = Granularity * k
    <3>1. r = 0
      BY <2>1, <1>3
    <3>2. Granularity * k \in Int
      BY DayAssumption
    <3>3. \A m \in Int : m + 0 = m
      OBVIOUS
    <3> QED
      BY <2>1, <3>1, <3>2, <3>3, Zenon
  <2>3. k < LastSlot
    <3>1. ASSUME LastSlot <= k
          PROVE  FALSE
      <4>1. PICK d \in Nat : k = LastSlot + d
        <5>1. k - LastSlot \in Nat /\ k = LastSlot + (k - LastSlot)
          BY <3>1, DayAssumption
        <5> QED
          BY <5>1
      <4>2. Granularity * k = Granularity * LastSlot + Granularity * d /\ Granularity * d >= 0
        BY <4>1, DayAssumption
      <4>3. Granularity * LastSlot \in Int /\ Granularity * d \in Int
        BY DayAssumption
      <4> QED
        BY <1>1, <2>2, <4>2, <4>3
    <3> QED
      BY <3>1, DayAssumption
  <2> QED
    BY <2>2, <2>3, DayAssumption DEF Slots
<1>4. ASSUME t \in Slots
      PROVE  t % Granularity = 0
  <2>1. PICK j \in 0 .. LastSlot - 1 : t = Granularity * j
    BY <1>4 DEF Slots
  <2> QED
    BY <2>1, DayAssumption
<1> QED
  BY <1>3, <1>4

\* The times a reservation blocks are those that the app keeps free for it.
LEMMA SamePeriods ==
  ASSUME service \in Services, NEW option, SameQuestion(option), NEW t \in Int
  PROVE  /\ ReservationPeriod(t, option) = BlockedSlot(t, option)
         /\ ServicePeriod(t, option) = [from |-> t, to |-> t + ShownDuration(option)]
         /\ Covers(ReservationPeriod(t, option), ServicePeriod(t, option))
         /\ OptionAccepted(option)
<1>1. /\ service.option \in Nat /\ service.before \in Nat /\ service.after \in Nat
      /\ service.duration \in Nat
  BY DayAssumption
<1>2. DurationBooked(option) = ShownDuration(option) /\ DurationBooked(option) \in Nat
  BY <1>1 DEF SameQuestion, DurationBooked, ShownDuration, NoOption
<1>3. OptionAccepted(option)
  BY DEF SameQuestion, OptionAccepted
<1> QED
  BY <1>1, <1>2, <1>3 DEF ReservationPeriod, ServicePeriod, BlockedSlot, Covers

\* The database refuses no candidate when nobody else writes: what stands in the way
\* are expired holds, and the insert releases them first.
LEMMA CandidatesAreReserved ==
  ASSUME service \in Services, NEW option, SameQuestion(option), NEW t \in Int, NEW z
  PROVE  Reservable(z, t, option) = Candidates(z, BlockedSlot(t, option))
<1> DEFINE period == BlockedSlot(t, option)
<1>1. ReservationPeriod(t, option) = period /\ Covers(period, ServicePeriod(t, option))
  BY SamePeriods
<1>2. ASSUME NEW w \in Candidates(z, period), NEW v \in visits \ ReleasedFor(w, period),
             v.worker = w, Overlap(v, period)
      PROVE  FALSE
  BY <1>2 DEF Candidates, ReleasedFor
<1>3. \A w \in Candidates(z, period) : MayInsert(w, z, t, option)
  BY <1>1, <1>2 DEF MayInsert, Candidates
<1> QED
  BY <1>1, <1>3 DEF Reservable

\* Somebody is free where there is a candidate.
LEMMA FreeAreCandidates ==
  ASSUME NEW z, NEW period
  PROVE  SomebodyIsFree(z, period) <=> Candidates(z, period) # {}
BY DEF SomebodyIsFree, Candidates

\* Enough members are some, and some are at least one.
LEMMA EnoughIsSome ==
  ASSUME NEW C, IsFiniteSet(C), NEW n \in Nat \ {0}
  PROVE  (Cardinality(C) >= n => C # {}) /\ (C # {} => Cardinality(C) >= 1)
<1>1. Cardinality(C) \in Nat
  BY FS_CardinalityType
<1>2. Cardinality(C) = 0 <=> C = {}
  BY FS_EmptySet
<1> QED
  BY <1>1, <1>2

\* The two programs give one answer to the same question.
LEMMA AnswersAgree ==
  ASSUME service \in Services, moment \in Nat, NEW option, SameQuestion(option), NEW t \in Moments
  PROVE  /\ Bookable(t, option) => Offered(t, option)
         /\ Offered(t, option) /\ "price_rule" \in rule /\ service.workers = 1
               => Bookable(t, option)
<1>1. CASE ~service.active
  BY <1>1 DEF Offered, Bookable
<1>2. CASE service.active
  <2> DEFINE z == ResolveService(FALSE)
             period == BlockedSlot(t, option)
  <2>1. ResolveService(TRUE) = z
    BY <1>2, NearestOffers DEF SameQuestion
  <2>2. t \in Int /\ service.lead \in Nat /\ service.ahead \in Nat /\ service.workers \in Nat \ {0}
    BY DayAssumption DEF Moments
  <2>3. ValidStart(t) <=> /\ service.scheduled /\ t \in Slots
                          /\ moment + service.lead <= t /\ t <= moment + service.ahead
    BY <2>2, SlotsAreMultiples DEF ValidStart
  <2>4. /\ ServicePeriod(t, option) = [from |-> t, to |-> t + ShownDuration(option)]
        /\ OptionAccepted(option) /\ Reservable(z, t, option) = Candidates(z, period)
    BY <2>2, SamePeriods, CandidatesAreReserved
  <2>5. IsFiniteSet(Candidates(z, period))
    BY FS_Subset, CrewsAssumption DEF Candidates
  <2>6. SomebodyIsFree(z, period) <=> Candidates(z, period) # {}
    BY FreeAreCandidates
  <2>7. /\ Cardinality(Candidates(z, period)) >= service.workers => Candidates(z, period) # {}
        /\ Candidates(z, period) # {} => Cardinality(Candidates(z, period)) >= 1
    BY <2>2, <2>5, EnoughIsSome
  <2>8. ServicePeriod(t, option).from = t
    BY <2>4
  <2>9. ServicePeriod(t, option).to = t + ShownDuration(option)
    BY <2>4
  <2>10. SomebodyIsFree(z, period) /\ service.workers = 1
           => Cardinality(Candidates(z, period)) >= service.workers
    BY <2>6, <2>7
  <2>11. Offered(t, option) <=> /\ z # NoZone /\ service.scheduled /\ t \in Slots
                                /\ moment + service.lead <= t /\ t <= moment + service.ahead
                                /\ WithinHours(z, t, t + ShownDuration(option))
                                /\ SomebodyIsFree(z, period)
    BY <1>2 DEF Offered
  <2>12. Bookable(t, option) <=> /\ z # NoZone /\ ValidStart(t) /\ "price_rule" \in rule
                                 /\ WithinHours(z, t, t + ShownDuration(option))
                                 /\ Cardinality(Candidates(z, period)) >= service.workers
    BY <1>2, <2>1, <2>4, <2>8, <2>9, Zenon DEF Bookable
  <2> QED
    BY <2>3, <2>6, <2>7, <2>10, <2>11, <2>12
<1> QED
  BY <1>1, <1>2

-----------------------------------------------------------------------------
(* What a customer looks at. *)

OfferingTypeOK ==
    /\ service \in Services /\ moment \in Nat
    /\ visits \subseteq [worker : Crew, from : Int, to : Int, status : {"HELD", "ALLOCATED"},
                         expires : Nat]
    /\ displayed.times \subseteq Moments
    /\ displayed.option \in {NoOption, service.option}

\* What is looked at is still offered, unless it has become too close.
ShownIsOffered ==
    \A t \in displayed.times :
        moment + service.lead <= t => Offered(t, displayed.option)

OfferingInv == OfferingTypeOK /\ ShownIsOffered

\* A time stays offered when nothing that blocks a worker appears and no shift goes.
LEMMA StaysOffered ==
  ASSUME UNCHANGED <<configured, fit>>, shifts \subseteq shifts',
         moment \in Int, moment' \in Int, moment <= moment',
         service \in Services, NEW t \in Moments, moment' + service.lead <= t, NEW option,
         \A v \in visits' :
             \/ v.status = "HELD" /\ v.expires <= moment'
             \/ \E u \in visits : /\ u.worker = v.worker /\ u.from = v.from /\ u.to = v.to
                                  /\ ~(u.status = "HELD" /\ u.expires <= moment),
         Offered(t, option)
  PROVE  Offered(t, option)'
<1>1. service' = service /\ offered' = offered /\ inactive' = inactive /\ hours' = hours /\ fit' = fit
  BY DEF configured
<1>2. ResolveService(FALSE)' = ResolveService(FALSE)
  BY <1>1 DEF ResolveService, Qualifies, Served
<1>3. ASSUME NEW z, NEW from, NEW to
      PROVE  WithinHours(z, from, to)' = WithinHours(z, from, to)
  BY <1>1 DEF WithinHours, Applying
<1>4. ASSUME NEW z, NEW blocked, SomebodyIsFree(z, blocked)
      PROVE  SomebodyIsFree(z, blocked)'
  <2>1. PICK w \in Crew :
          /\ \E s \in shifts : s.worker = w /\ s.zone = z /\ Covers(s, blocked)
          /\ IsFit(w, blocked)
          /\ ~ \E v \in visits : /\ v.worker = w /\ Overlap(v, blocked)
                                 /\ ~(v.status = "HELD" /\ v.expires <= moment)
    BY <1>4 DEF SomebodyIsFree
  <2>2. IsFit(w, blocked)'
    BY <1>1, <2>1 DEF IsFit
  <2>3. \E s \in shifts' : s.worker = w /\ s.zone = z /\ Covers(s, blocked)
    BY <2>1
  <2>4. ~ \E v \in visits' : /\ v.worker = w /\ Overlap(v, blocked)
                             /\ ~(v.status = "HELD" /\ v.expires <= moment')
    BY <2>1 DEF Overlap
  <2> QED
    BY <2>2, <2>3, <2>4 DEF SomebodyIsFree
<1>5. service.lead \in Nat /\ service.ahead \in Nat /\ t \in Int
  BY DayAssumption DEF Moments
<1>6. t <= moment' + service'.ahead /\ moment' + service'.lead <= t
  BY <1>1, <1>5 DEF Offered
<1>7. BlockedSlot(t, option)' = BlockedSlot(t, option) /\ ShownDuration(option)' = ShownDuration(option)
  BY <1>1 DEF BlockedSlot, ShownDuration
<1> QED
  BY <1>1, <1>2, <1>3, <1>4, <1>6, <1>7 DEF Offered

LEMMA OfferingStart == OfferingInit => OfferingInv
BY DayAssumption DEF OfferingInit, OfferingInv, OfferingTypeOK, ShownIsOffered, Nothing, NoOption

LEMMA OfferingStep == OfferingInv /\ [OfferingNext]_offering => OfferingInv'
<1> SUFFICES ASSUME OfferingInv, [OfferingNext]_offering
             PROVE  OfferingInv'
  OBVIOUS
<1> USE DEF OfferingInv
\* What staff change, a booking and a late payment leave nothing on the screen.
<1>1. ASSUME OfferingTypeOK', displayed' = Nothing
      PROVE  OfferingInv'
  BY <1>1 DEF ShownIsOffered, Nothing
<1>2. ASSUME NEW s \in Services, UpdateService(s)
      PROVE  OfferingInv'
  BY <1>1, <1>2 DEF UpdateService, OfferingTypeOK, Nothing
<1>3. ASSUME NEW kind, RuleChanges(kind)
      PROVE  OfferingInv'
  BY <1>1, <1>3 DEF RuleChanges, OfferingTypeOK, Nothing
<1>4. ASSUME NEW z, SetServiceZone(z)
      PROVE  OfferingInv'
  BY <1>1, <1>4 DEF SetServiceZone, OfferingTypeOK, Nothing
<1>5. ASSUME NEW z, NEW own, NEW open, NEW close, AddHours(z, own, open, close)
      PROVE  OfferingInv'
  BY <1>1, <1>5 DEF AddHours, OfferingTypeOK, Nothing
<1>6. ASSUME NEW a, SwitchArea(a)
      PROVE  OfferingInv'
  BY <1>1, <1>6 DEF SwitchArea, OfferingTypeOK, Nothing
<1>7. ASSUME NEW k, EndHours(k)
      PROVE  OfferingInv'
  BY <1>1, <1>7 DEF EndHours, OfferingTypeOK, Nothing
<1>8. ASSUME NEW w, NEW until, FitnessChanges(w, until)
      PROVE  OfferingInv'
  BY <1>1, <1>8 DEF FitnessChanges, configured, OfferingTypeOK, Nothing
<1>9. ASSUME NEW t \in Moments, NEW option, Book(t, option)
      PROVE  OfferingInv'
  <2>1. service' = service /\ moment' = moment /\ displayed' = Nothing
    BY <1>9 DEF Book, configured
  <2> DEFINE period == ReservationPeriod(t, option)
  <2>2. period.from \in Int /\ period.to \in Int
    BY DayAssumption DEF OfferingTypeOK, Moments, ReservationPeriod, ServicePeriod, DurationBooked
  <2>3. moment + service.hold \in Nat
    BY DayAssumption DEF OfferingTypeOK
  <2>4. PICK crew \in SUBSET Crew :
          visits' \subseteq visits \cup {[worker |-> w, from |-> period.from, to |-> period.to,
                                       status |-> "HELD", expires |-> moment + service.hold] : w \in crew}
    <3>1. Reservable(ResolveService(TRUE), t, option) \subseteq Crew
      BY DEF Reservable, Candidates
    <3> QED
      BY <1>9, <3>1 DEF Book
  <2> HIDE DEF period
  <2>5. OfferingTypeOK'
    BY <2>1, <2>2, <2>3, <2>4 DEF OfferingTypeOK, Nothing
  <2> QED
    BY <1>1, <2>1, <2>5
\* Nothing that is shown is lost.
<1>10. ASSUME OfferingTypeOK', UNCHANGED <<configured, fit, displayed>>, shifts \subseteq shifts',
              moment <= moment',
              \A v \in visits' :
                 \/ v.status = "HELD" /\ v.expires <= moment'
                 \/ \E u \in visits : /\ u.worker = v.worker /\ u.from = v.from /\ u.to = v.to
                                      /\ ~(u.status = "HELD" /\ u.expires <= moment)
       PROVE  OfferingInv'
  <2>1. service' = service /\ displayed' = displayed
    BY <1>10 DEF configured
  <2>2. moment \in Int /\ moment' \in Int /\ service \in Services /\ displayed.times \subseteq Moments
    BY <1>10 DEF OfferingTypeOK
  <2>3. ASSUME NEW t \in displayed.times, moment' + service.lead <= t
        PROVE  Offered(t, displayed.option)'
    <3>1. t \in Int /\ service.lead \in Nat
      BY <2>2, DayAssumption DEF Moments
    <3>2. Offered(t, displayed.option)
      BY <1>10, <2>2, <2>3, <3>1 DEF ShownIsOffered
    <3> DEFINE option == displayed.option
    <3>3. Offered(t, option) /\ option' = option
      BY <2>1, <3>2
    <3> HIDE DEF option
    <3> QED
      BY <1>10, <2>2, <2>3, <3>3, StaysOffered DEF option
  <2> QED
    BY <1>10, <2>1, <2>3 DEF ShownIsOffered
<1>11. ASSUME NEW w, NEW z, NEW from, NEW to, AddShift(w, z, from, to)
       PROVE  OfferingInv'
  <2>1. /\ UNCHANGED <<configured, fit, visits, moment, displayed>>
        /\ shifts \subseteq shifts'
    BY <1>11 DEF AddShift
  <2>2. OfferingTypeOK' /\ moment <= moment'
    BY <2>1 DEF OfferingTypeOK, configured
  <2>3. \A v \in visits' :
           \/ v.status = "HELD" /\ v.expires <= moment'
           \/ \E u \in visits : /\ u.worker = v.worker /\ u.from = v.from /\ u.to = v.to
                                /\ ~(u.status = "HELD" /\ u.expires <= moment)
    BY <2>1
  <2> QED
    BY <1>10, <2>1, <2>2, <2>3
<1>12. ASSUME NEW option \in {NoOption, service.option}, ShowSlots(option)
       PROVE  OfferingInv'
  <2>1. /\ service' = service /\ moment' = moment /\ visits' = visits
        /\ displayed'.times = {t \in Moments : Offered(t, option)} /\ displayed'.option = option
    BY <1>12 DEF ShowSlots, configured
  <2>2. ASSUME NEW t \in Moments, Offered(t, option)
        PROVE  Offered(t, option)'
    <3>1. UNCHANGED <<configured, fit, shifts>>
      BY <1>12 DEF ShowSlots
    <3>2. moment \in Int /\ service \in Services
      BY DEF OfferingTypeOK
    <3>3. moment' + service.lead <= t
      BY <2>1, <2>2 DEF Offered
    <3>4. \A v \in visits' :
             \/ v.status = "HELD" /\ v.expires <= moment'
             \/ \E u \in visits : /\ u.worker = v.worker /\ u.from = v.from /\ u.to = v.to
                                  /\ ~(u.status = "HELD" /\ u.expires <= moment)
      BY <2>1
    <3>5. moment' \in Int /\ moment <= moment' /\ shifts \subseteq shifts'
      BY <2>1, <3>1, <3>2
    <3> QED
      BY <2>2, <3>1, <3>2, <3>3, <3>4, <3>5, StaysOffered
  <2>3. OfferingTypeOK'
    BY <2>1 DEF OfferingTypeOK
  <2> QED
    BY <2>1, <2>2, <2>3 DEF ShownIsOffered
<1>13. ASSUME NEW v \in visits, AllocateHeld(v)
       PROVE  OfferingInv'
  <2> DEFINE paid == [v EXCEPT !.status = "ALLOCATED", !.expires = 0]
             Rows == [worker : Crew, from : Int, to : Int, status : {"HELD", "ALLOCATED"},
                      expires : Nat]
  <2>1. /\ UNCHANGED <<configured, shifts, fit, moment>> /\ v.status = "HELD"
        /\ visits' = (visits \ {v}) \cup {paid}
        /\ displayed' = IF v.expires <= moment THEN Nothing ELSE displayed
    BY <1>13 DEF AllocateHeld
  <2>2. v \in Rows /\ visits \subseteq Rows
    BY DEF OfferingTypeOK
  <2>3. /\ paid \in Rows /\ paid.status = "ALLOCATED"
        /\ paid.worker = v.worker /\ paid.from = v.from /\ paid.to = v.to
    BY <2>2
  <2> HIDE DEF paid
  <2>4. OfferingTypeOK' /\ moment <= moment'
    BY <2>1, <2>2, <2>3 DEF OfferingTypeOK, configured, Nothing
  <2>5. CASE v.expires <= moment
    BY <1>1, <2>1, <2>4, <2>5
  <2>6. CASE ~(v.expires <= moment)
    <3>1. \A u \in visits' :
             \/ u.status = "HELD" /\ u.expires <= moment'
             \/ \E x \in visits : /\ x.worker = u.worker /\ x.from = u.from /\ x.to = u.to
                                  /\ ~(x.status = "HELD" /\ x.expires <= moment)
      <4>1. ASSUME NEW u \in visits', u # paid
            PROVE  u \in visits /\ moment' = moment
        BY <2>1, <4>1
      <4> QED
        BY <2>3, <2>6, <4>1
    <3> QED
      BY <1>10, <2>1, <2>4, <2>6, <3>1
  <2> QED
    BY <2>5, <2>6
<1>14. ASSUME NEW v \in visits, Release(v)
       PROVE  OfferingInv'
  <2>1. UNCHANGED <<configured, shifts, fit, moment, displayed>> /\ visits' \subseteq visits
    BY <1>14 DEF Release
  <2>2. OfferingTypeOK' /\ moment <= moment'
    BY <2>1 DEF OfferingTypeOK, configured
  <2>3. \A u \in visits' :
           \/ u.status = "HELD" /\ u.expires <= moment'
           \/ \E x \in visits : /\ x.worker = u.worker /\ x.from = u.from /\ x.to = u.to
                                /\ ~(x.status = "HELD" /\ x.expires <= moment)
    BY <2>1
  <2> QED
    BY <1>10, <2>1, <2>2, <2>3
<1>15. ASSUME DayGoesOn
       PROVE  OfferingInv'
  <2>1. UNCHANGED <<configured, shifts, fit, visits, displayed>> /\ moment' = moment + 1
    BY <1>15 DEF DayGoesOn
  <2>2. OfferingTypeOK' /\ moment <= moment'
    BY <2>1 DEF OfferingTypeOK, configured
  <2>3. \A u \in visits' :
           \/ u.status = "HELD" /\ u.expires <= moment'
           \/ \E x \in visits : /\ x.worker = u.worker /\ x.from = u.from /\ x.to = u.to
                                /\ ~(x.status = "HELD" /\ x.expires <= moment)
    BY <2>1 DEF OfferingTypeOK
  <2> QED
    BY <1>10, <2>1, <2>2, <2>3
<1>16. CASE UNCHANGED offering
  <2>1. UNCHANGED <<configured, shifts, fit, visits, moment, displayed>>
    BY <1>16 DEF offering
  <2>2. OfferingTypeOK' /\ moment <= moment'
    BY <2>1 DEF OfferingTypeOK, configured
  <2> QED
    BY <1>10, <2>1, <2>2
<1> QED
  BY <1>2, <1>3, <1>4, <1>5, <1>6, <1>7, <1>8, <1>9, <1>11, <1>12, <1>13, <1>14, <1>15, <1>16
     DEF OfferingNext

LEMMA OfferingInvariant == OfferingSpec => []OfferingInv
BY OfferingStart, OfferingStep, PTL DEF OfferingSpec

\* What the app offers is what can be booked, for any zones, workers, shifts, hours,
\* services and reservations, expired holds among them; and what was shown stays
\* bookable while others only pay in time, cancel and let their holds expire.
THEOREM OffersCanBeBooked == OfferingSpec => []OfferedIsBookable
<1>1. OfferingInv => ProgramsAgree
  BY AnswersAgree DEF OfferingInv, OfferingTypeOK, ProgramsAgree
<1>2. OfferingInv => ShownStaysBookable
  BY AnswersAgree DEF OfferingInv, OfferingTypeOK, ShownIsOffered, ShownStaysBookable
<1>3. OfferingInv => OfferedIsBookable
  BY <1>1, <1>2 DEF OfferedIsBookable
<1> QED
  BY <1>3, OfferingInvariant, PTL
=============================================================================
