---------------------------- MODULE MCBackground ----------------------------
(* What the worker processes do in the background, on small instances that    *)
(* share no state, so a behaviour ("part") has one of them: two refunds of    *)
(* one payment, of which a goodwill refund and a cancellation compete for the *)
(* captured amount, push notifications, notifications by WhatsApp and in the  *)
(* app.                                                                      *)
EXTENDS Refunds, Notifications

CONSTANT u1

VARIABLE part

MCRecipient == [m \in Messages |-> u1]

\* The channels of a part.
Routed == CASE part = "push" -> {"PUSH"}
            [] part = "chat" -> Channels \ {"PUSH"}
            [] OTHER -> {}

MCInit ==
    /\ part \in {"refunds", "push", "chat"}
    /\ RefundsInit
    /\ NotificationsStart(Routed)
    /\ part # "chat" => optedIn = {}
    /\ part # "push" => \A t \in Devices : device[t] = "NONE"

\* In the app is always on.
Chat == NotificationsNext /\ "IN_APP" \in routes'

MCNext ==
    \/ /\ part = "refunds" /\ RefundsNext
       /\ UNCHANGED <<part, notifications>>
    \/ /\ \/ part = "push" /\ NotificationsNext
          \/ part = "chat" /\ Chat
       /\ routes' \subseteq Routed
       /\ UNCHANGED <<part, refundVars>>

MCSpec == /\ MCInit
          /\ [][MCNext]_<<part, refundVars, notifications>>
          /\ RefundsFairness /\ NotificationsFairness
=============================================================================
