----------------------------- MODULE MCCustomer -----------------------------
(* What a customer meets before a visit, on small instances that share no    *)
(* state, so a behaviour ("part") has one of them: the shop, where staff put *)
(* a service on sale that nobody has booked yet; the day of a service that   *)
(* is on sale, with two workers and their reservations; the payments of one  *)
(* booking.                                                                  *)
EXTENDS Offering, Payments, TLC

CONSTANTS w1, w2

VARIABLE part

-----------------------------------------------------------------------------
(* Values of the constants. *)

PaymentSymmetry == Permutations(Payments)

MCNear == <<"near", "far">>

Sold(scheduled, duration, before, after, workers, lead, ahead) ==
    [active |-> TRUE, scheduled |-> scheduled, duration |-> duration, before |-> before,
     after |-> after, option |-> NoOption, choosable |-> FALSE, workers |-> workers,
     lead |-> lead, ahead |-> ahead, hold |-> 1]
WithOption(s, option, choosable) == [s EXCEPT !.option = option, !.choosable = choosable]

MCPlain == Sold(TRUE, 1, 1, 0, 1, 1, 3)

\* Travel before a short visit that is booked at least one unit and at most three
\* units ahead; a visit with a shorter option, on sale or not; a crew of two; and a
\* service that can only be had at once.
MCSold == {MCPlain,
           WithOption(Sold(TRUE, 2, 0, 1, 1, 0, 6), 1, TRUE),
           WithOption(Sold(TRUE, 2, 0, 1, 1, 0, 6), 1, FALSE),
           Sold(TRUE, 1, 0, 0, 2, 0, 6), Sold(FALSE, 1, 0, 0, 1, 0, 6)}
MCServices == MCSold \cup {[s EXCEPT !.active = FALSE] : s \in MCSold}

-----------------------------------------------------------------------------
MCInit ==
    /\ part \in {"shop", "day", "payments"} /\ Init
    /\ hours = <<>> /\ shifts = {} /\ visits = {} /\ moment = 0 /\ inactive = {}
    /\ fit = [w \in Crew |-> DayEnd] /\ displayed = Nothing
    /\ IF part = "day"
       THEN service \in MCSold /\ offered = {"near"} /\ rule = RuleKinds
       ELSE /\ service \in MCServices \ MCSold /\ offered = {} /\ rule = {}
            /\ part = "payments" => service = [MCPlain EXCEPT !.active = FALSE]

\* One worker may be at work all day, in one zone.
Shop ==
    /\ OfferingNext /\ UNCHANGED <<hours, fit, visits, moment>>
    /\ \A s \in shifts' : s.worker = w1 /\ s.from = 0 /\ s.to = DayEnd
    /\ service' = service \/ service'.active # service.active
    /\ displayed' \in {displayed, Nothing} \/ displayed'.option = NoOption

\* The shifts are known when the day begins.  The papers of one worker may end before
\* the day does, and the zone may open later and close earlier than the day.
Day ==
    /\ OfferingNext /\ UNCHANGED <<service, offered, inactive, rule>>
    /\ shifts' # shifts \/ fit' # fit => moment = 0
    /\ \A s \in shifts' : s \in {[worker |-> w1, zone |-> "near", from |-> 0, to |-> DayEnd],
                               [worker |-> w2, zone |-> "near", from |-> 1, to |-> DayEnd - 2]}
    /\ \A k \in DOMAIN hours' :
          hours'[k].zone = "near" /\ hours'[k].open = 2 /\ hours'[k].close = DayEnd - 1
    /\ fit'[w1] \in {3, DayEnd} /\ fit'[w2] = fit[w2]

MCNext ==
    \/ /\ part = "shop" /\ Shop
       /\ UNCHANGED <<part, vars>>
    \/ /\ part = "day" /\ Day
       /\ UNCHANGED <<part, vars>>
    \/ /\ part = "payments" /\ Next
       /\ UNCHANGED <<part, offering>>

MCSpec == MCInit /\ [][MCNext]_<<part, offering, vars>>
=============================================================================
