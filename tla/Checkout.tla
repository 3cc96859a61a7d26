------------------------------ MODULE Checkout ------------------------------
(***************************************************************************)
(* Booking a service from the customer's app: the service screen asks for  *)
(* a quote, sends the booking with the total it shows and one idempotency  *)
(* key for as long as the same choice is retried, and the HTTP client      *)
(* sends it again when no answer comes, while the server may still be busy *)
(* with the earlier request.  Where and when a worker is free is the       *)
(* subject of Offering and Dispatch: here a creation may find nobody.      *)
(***************************************************************************)
EXTENDS Naturals, Sequences

CONSTANTS
    MaxPrice,       \* bound on the price changes; a price never returns
    MaxChoices,     \* bound on the changes of the choice
    MaxSends,       \* requests the client sends for one tap
    MaxAttempts     \* bound on the booking requests

VARIABLES
    price,      \* what pricing answers now
    screen,     \* the service screen
    attempts,   \* the booking requests, in the order they were sent
    bookings    \* the bookings of this customer

checkout == <<price, screen, attempts, bookings>>

\* The screen: how often the choice changed, the total shown (0: none), the
\* key, the request it waits for (0: none) and how often that was sent.
Fresh(choice, key) == [choice |-> choice, total |-> 0, key |-> key, waiting |-> 0, sends |-> 0]

Results == {"booked", "PRICE_CHANGED", "NO_AVAILABILITY"}
Attempts == 1..Len(attempts)

-----------------------------------------------------------------------------
(* The screen and the client. *)

PriceMoves ==
    /\ price < MaxPrice
    /\ price' = price + 1
    /\ UNCHANGED <<screen, attempts, bookings>>

\* Another time or address: a new key, and the quote is asked for again.  Other
\* tasks: a new key.  A request under way goes on.
Choose ==
    /\ screen.choice < MaxChoices
    /\ \E total \in {0, screen.total} :
          screen' = [screen EXCEPT !.choice = @ + 1, !.total = total, !.key = @ + 1]
    /\ UNCHANGED <<price, attempts, bookings>>

\* CustomerService.quote; an answer for an earlier choice is dropped.
Quoted ==
    /\ screen.total = 0
    /\ screen' = [screen EXCEPT !.total = price]
    /\ UNCHANGED <<price, attempts, bookings>>

\* Sends the request of the screen's key; it carries the total that is shown.
Post(key, sends) ==
    /\ Len(attempts) < MaxAttempts
    /\ attempts' = Append(attempts, [key |-> key, choice |-> screen.choice, total |-> screen.total, at |-> "sent"])
    /\ screen' = [screen EXCEPT !.key = key, !.waiting = Len(attempts) + 1, !.sends = sends]
    /\ UNCHANGED <<price, bookings>>

\* Mutant: a key for each tap.
MutantBook == screen.waiting = 0 /\ screen.total # 0 /\ Post(screen.key + 10, 1)

BookService == screen.waiting = 0 /\ screen.total # 0 /\ Post(screen.key, 1)

\* HttpClient.request: no answer in 15 s, no connection, or an overloaded
\* server: sent again as it was.
Resend ==
    /\ screen.waiting # 0 /\ screen.sends < MaxSends
    /\ Len(attempts) < MaxAttempts
    /\ attempts' = Append(attempts, [attempts[screen.waiting] EXCEPT !.at = "sent"])
    /\ screen' = [screen EXCEPT !.waiting = Len(attempts) + 1, !.sends = @ + 1]
    /\ UNCHANGED <<price, bookings>>

GiveUpBooking ==
    /\ screen.waiting # 0
    /\ screen' = [screen EXCEPT !.waiting = 0, !.sends = 0]
    /\ UNCHANGED <<price, attempts, bookings>>

\* The answer the screen waits for.  Booked: on to the payment, and this screen
\* is left.  Another price: a new key and a new quote.  Nobody free: the time
\* is chosen again.
BookingAnswered ==
    /\ screen.waiting # 0
    /\ LET at == attempts[screen.waiting].at IN
          \/ /\ at = "booked" /\ screen.choice < MaxChoices
             /\ screen' = Fresh(screen.choice + 1, screen.key + 1)
          \/ /\ at = "PRICE_CHANGED"
             /\ screen' = Fresh(screen.choice, screen.key + 1)
          \/ /\ at = "NO_AVAILABILITY" /\ screen.choice < MaxChoices
             /\ screen' = Fresh(screen.choice + 1, screen.key + 1)
    /\ UNCHANGED <<price, attempts, bookings>>

-----------------------------------------------------------------------------
(* BookingCreationService.create; requests may overlap. *)

Become(i, from, to) == attempts[i].at = from /\ attempts' = [attempts EXCEPT ![i].at = to]

Saved(key) == \E b \in bookings : b.key = key

LookUpKey(i) ==
    /\ Become(i, "sent", IF Saved(attempts[i].key) THEN "booked" ELSE "new")
    /\ UNCHANGED <<price, screen, bookings>>

\* In the transaction: the price of now against the total the customer saw.
CheckPrice(i) ==
    /\ Become(i, "new", IF price = attempts[i].total THEN "priced" ELSE "PRICE_CHANGED")
    /\ UNCHANGED <<price, screen, bookings>>

\* The unique key makes a second request wait for the first; its booking is
\* then the answer.
SaveBooking(i) ==
    /\ Become(i, "priced", "booked")
    /\ bookings' = IF Saved(attempts[i].key) THEN bookings
                   ELSE bookings \cup {[key |-> attempts[i].key, choice |-> attempts[i].choice,
                                        total |-> attempts[i].total]}
    /\ UNCHANGED <<price, screen>>

FindNobody(i) ==
    /\ ~Saved(attempts[i].key)
    /\ Become(i, "priced", "NO_AVAILABILITY")
    /\ UNCHANGED <<price, screen, bookings>>

-----------------------------------------------------------------------------
CheckoutInit ==
    /\ price = 1
    /\ screen = Fresh(1, 1)
    /\ attempts = <<>>
    /\ bookings = {}

CheckoutNext ==
    \/ PriceMoves \/ Choose \/ Quoted \/ BookService \/ Resend \/ GiveUpBooking \/ BookingAnswered
    \/ \E i \in Attempts : LookUpKey(i) \/ CheckPrice(i) \/ SaveBooking(i) \/ FindNobody(i)

CheckoutSpec == CheckoutInit /\ [][CheckoutNext]_checkout

-----------------------------------------------------------------------------
(* However often a choice is sent, and however late the server is, it is      *)
(* booked once -- at one price: when the price changes while a request is     *)
(* still under way, the screen books again under a new key, and both may be   *)
(* saved.                                                                     *)
OneChoiceOneBooking ==
    \A a, b \in bookings : a.choice = b.choice /\ a.total = b.total => a = b
=============================================================================
