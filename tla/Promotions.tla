----------------------------- MODULE Promotions -----------------------------
(***************************************************************************)
(* One promotion and the bookings that want its discount.  A booking is    *)
(* priced in the transaction that inserts it: the promotion row is locked, *)
(* the redemptions are counted, the redemption is inserted with the        *)
(* booking.  Payment redeems it, a cancellation or an expiry releases it,  *)
(* and staff may change the limits at any time.                            *)
(***************************************************************************)
EXTENDS Naturals, FiniteSets

CONSTANTS
    Orders,        \* bookings that ask for the promotion
    CustomerOf,    \* the customer of each
    MaxLimit       \* bound: largest limit staff set

ASSUME OrdersAssumption == IsFiniteSet(Orders) /\ MaxLimit \in Nat

VARIABLES
    offer,        \* promotion: its limits, and whether it is valid
    order,        \* status of each booking
    redemption    \* promotion_redemption of each booking

promotions == <<offer, order, redemption>>

-----------------------------------------------------------------------------
Limits == 1 .. MaxLimit
NoLimit == MaxLimit + 1    \* max_redemptions is null
Offers == [valid : BOOLEAN, limit : Limits \cup {NoLimit}, perUser : Limits, firstOnly : BOOLEAN]

\* PRICED: in a transaction that holds the promotion row.
OrderStatuses == {"NONE", "PRICED", "PENDING_PAYMENT", "CONFIRMED", "CANCELLED", "EXPIRED"}

OfferLocked == \E o \in Orders : order[o] = "PRICED"
Holding == {o \in Orders : redemption[o] \in {"RESERVED", "REDEEMED"}}
OfCustomer(o) == {p \in Orders : CustomerOf[p] = CustomerOf[o]}

\* A customer who has a booking that went ahead is not new any more.
Booked(o) == \E p \in OfCustomer(o) : order[p] = "CONFIRMED"

\* Mutant: without the row lock, bookings that are being created do not count.
MutantMayPrice(o) ==
    /\ offer.valid
    /\ Cardinality(Holding) < offer.limit
    /\ Cardinality(Holding \cap OfCustomer(o)) < offer.perUser
    /\ ~(offer.firstOnly /\ Booked(o))

\* loadPromotion.
MayPrice(o) ==
    /\ ~OfferLocked /\ offer.valid
    /\ Cardinality(Holding) < offer.limit
    /\ Cardinality(Holding \cap OfCustomer(o)) < offer.perUser
    /\ ~(offer.firstOnly /\ Booked(o))

-----------------------------------------------------------------------------
Price(o) ==
    /\ order[o] = "NONE" /\ MayPrice(o)
    /\ order' = [order EXCEPT ![o] = "PRICED"]
    /\ UNCHANGED <<offer, redemption>>

\* The booking, its price lines and its redemption are one transaction.
Reserve(o) ==
    /\ order[o] = "PRICED"
    /\ order' = [order EXCEPT ![o] = "PENDING_PAYMENT"]
    /\ redemption' = [redemption EXCEPT ![o] = "RESERVED"]
    /\ UNCHANGED offer

\* No capacity, a changed price, a conflict: nothing is saved.  Another booking
\* may ask under the same name.
Forget(o) ==
    /\ order[o] = "PRICED"
    /\ order' = [order EXCEPT ![o] = "NONE"]
    /\ UNCHANGED <<offer, redemption>>

Redeem(o) ==
    /\ order[o] = "PENDING_PAYMENT"
    /\ order' = [order EXCEPT ![o] = "CONFIRMED"]
    /\ redemption' = [redemption EXCEPT ![o] = IF @ = "RESERVED" THEN "REDEEMED" ELSE @]
    /\ UNCHANGED offer

\* confirmWithoutPrepayment leaves the redemption as it is.
ConfirmUnpaid(o) ==
    /\ order[o] = "PENDING_PAYMENT"
    /\ order' = [order EXCEPT ![o] = "CONFIRMED"]
    /\ UNCHANGED <<offer, redemption>>

ReleasePromotion(o, status) ==
    /\ order[o] = "PENDING_PAYMENT" \/ (order[o] = "CONFIRMED" /\ status = "CANCELLED")
    /\ order' = [order EXCEPT ![o] = status]
    /\ redemption' = [redemption EXCEPT ![o] = "RELEASED"]
    /\ UNCHANGED offer

\* Staff may lower a limit below what is used; the row may be locked.
UpdateOffer(valid, limit, perUser) ==
    /\ ~OfferLocked
    /\ offer' = [valid |-> offer.valid /\ valid, limit |-> limit, perUser |-> perUser,
                 firstOnly |-> offer.firstOnly]
    /\ UNCHANGED <<order, redemption>>

-----------------------------------------------------------------------------
PromotionsInit ==
    /\ offer \in {o \in Offers : o.valid}
    /\ order = [o \in Orders |-> "NONE"]
    /\ redemption = [o \in Orders |-> "NONE"]

PromotionsNext ==
    \/ \E o \in Orders : \/ Price(o) \/ Reserve(o) \/ Forget(o) \/ Redeem(o) \/ ConfirmUnpaid(o)
                         \/ \E status \in {"CANCELLED", "EXPIRED"} : ReleasePromotion(o, status)
    \/ \E valid \in BOOLEAN, limit \in Limits \cup {NoLimit}, perUser \in Limits :
           UpdateOffer(valid, limit, perUser)

PromotionsSpec == PromotionsInit /\ [][PromotionsNext]_promotions

-----------------------------------------------------------------------------
PromotionsTypeOK ==
    /\ offer \in Offers
    /\ order \in [Orders -> OrderStatuses]
    /\ redemption \in [Orders -> {"NONE", "RESERVED", "REDEEMED", "RELEASED"}]

\* "The last available redemption cannot be used twice concurrently"
\* (pricing.service.ts:174): a discount is granted only within the limits that
\* hold at that moment, of all bookings and of the customer's, whatever staff do
\* to the limits while bookings are being made.
NotOverspent ==
    [][\A o \in Holding' \ Holding :
        /\ Cardinality(Holding') <= offer'.limit
        /\ Cardinality(Holding' \cap OfCustomer(o)) <= offer'.perUser]_promotions
=============================================================================
