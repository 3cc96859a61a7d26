--------------------------- MODULE BookingStatus ---------------------------
(***************************************************************************)
(* The booking state machine: the statuses of one service visit, the       *)
(* events that move it and the channels that may raise each event.  The    *)
(* same table is seeded into PostgreSQL (booking_status_transition), where *)
(* the booking_before_update trigger enforces it on every write, so one    *)
(* table stands for both.  Whether a free-text reason is required is left  *)
(* out: every caller of an event that needs one validates it first.        *)
(***************************************************************************)

BookingStatuses ==
    { "PENDING_PAYMENT", "CONFIRMED", "ON_HOLD", "ASSIGNED", "EN_ROUTE",
      "ARRIVED", "IN_PROGRESS", "COMPLETED", "CLOSED", "CANCELLED",
      "EXPIRED", "NO_SHOW" }

Sources ==
    {"CUSTOMER_APP", "WORKER_APP", "ADMIN", "SYSTEM", "PAYMENT_GATEWAY", "INTEGRATION"}

\* RESCHEDULABLE_BOOKING_STATUSES: the promised time may still be changed.
Reschedulable == {"PENDING_PAYMENT", "CONFIRMED", "ON_HOLD", "ASSIGNED"}

T(from, event, to, sources) ==
    [from |-> from, event |-> event, to |-> to, sources |-> sources]

BookingTransitions ==
    { T("PENDING_PAYMENT", "PAYMENT_CAPTURED", "CONFIRMED",
        {"PAYMENT_GATEWAY", "SYSTEM"}),
      T("PENDING_PAYMENT", "CONFIRM_WITHOUT_PREPAYMENT", "CONFIRMED", {"ADMIN"}),
      T("PENDING_PAYMENT", "HOLD_EXPIRED", "EXPIRED", {"SYSTEM"}),
      T("PENDING_PAYMENT", "CANCEL", "CANCELLED",
        {"CUSTOMER_APP", "ADMIN", "SYSTEM"}),
      T("CONFIRMED", "PLACE_ON_HOLD", "ON_HOLD", {"ADMIN"}),
      T("ON_HOLD", "RELEASE_HOLD", "CONFIRMED", {"ADMIN"}),
      T("ON_HOLD", "CANCEL", "CANCELLED", {"ADMIN", "CUSTOMER_APP"}),
      T("CONFIRMED", "WORKER_ACCEPTED", "ASSIGNED", {"WORKER_APP", "ADMIN"}),
      T("CONFIRMED", "CANCEL", "CANCELLED", {"CUSTOMER_APP", "ADMIN", "SYSTEM"}),
      T("ASSIGNED", "WORKER_UNASSIGNED", "CONFIRMED",
        {"WORKER_APP", "ADMIN", "SYSTEM"}),
      T("ASSIGNED", "CANCEL", "CANCELLED", {"CUSTOMER_APP", "ADMIN"}),
      T("ASSIGNED", "START_TRAVEL", "EN_ROUTE", {"WORKER_APP", "ADMIN"}),
      T("EN_ROUTE", "WORKER_UNASSIGNED", "CONFIRMED", {"ADMIN", "SYSTEM"}),
      T("EN_ROUTE", "MARK_ARRIVED", "ARRIVED", {"WORKER_APP", "ADMIN"}),
      T("EN_ROUTE", "CANCEL", "CANCELLED", {"CUSTOMER_APP", "ADMIN"}),
      T("ARRIVED", "START_SERVICE", "IN_PROGRESS", {"WORKER_APP", "ADMIN"}),
      T("ARRIVED", "CUSTOMER_NO_SHOW", "NO_SHOW", {"WORKER_APP", "ADMIN"}),
      T("ARRIVED", "CANCEL", "CANCELLED", {"ADMIN"}),
      T("IN_PROGRESS", "COMPLETE_SERVICE", "COMPLETED", {"WORKER_APP", "ADMIN"}),
      T("IN_PROGRESS", "CANCEL", "CANCELLED", {"ADMIN"}),
      T("COMPLETED", "CLOSE", "CLOSED", {"SYSTEM", "ADMIN"}),
      T("NO_SHOW", "CLOSE", "CLOSED", {"SYSTEM", "ADMIN"}) }

\* resolveBookingTransition: the statuses an event may move a booking to when
\* it is raised by a source -- at most one, and none when it is refused.
Resolve(from, event, source) ==
    { t.to : t \in { u \in BookingTransitions :
                        u.from = from /\ u.event = event /\ source \in u.sources } }
=============================================================================
