----------------------------- MODULE Settlement -----------------------------
(***************************************************************************)
(* Closing finished bookings: one transaction of the settlement job issues *)
(* the invoice, creates the earnings and closes the booking, or leaves it  *)
(* as it is.  Two runs of the job may overlap, staff change the issuer and *)
(* the payout rules meanwhile, and any transaction may be aborted.         *)
(***************************************************************************)
EXTENDS Naturals

CONSTANTS
    Finished,   \* bookings that were completed
    Missed,     \* bookings whose customer did not show up
    Series,     \* invoice series the issuer may be configured with
    Settlers    \* runs of the job

VARIABLES
    bookingStatus,\* status of each booking
    captured,     \* bookings whose price has been captured
    issuer,       \* series of the configured issuer, if any
    payable,      \* whether a payout rule covers the bookings
    nextNumber,   \* invoice_sequence, with the changes of an open transaction
    invoices,     \* invoice
    earned,       \* bookings with worker_earning rows
    settler       \* what each run is at

settlement == <<bookingStatus, captured, issuer, payable, nextNumber, invoices, earned, settler>>

-----------------------------------------------------------------------------
ToSettle == Finished \cup Missed
NoSeries == "none"

ASSUME SeriesAssumption == NoSeries \notin Series

Resting == [step |-> "NONE", of |-> NoSeries, series |-> NoSeries, number |-> 0]

BookingLocked(b) == \E x \in Settlers : settler[x].of = b /\ settler[x].step \in {"LOCKED", "NUMBERED"}
SequenceLocked(s) == \E x \in Settlers : settler[x].series = s

Unsettled(b) == bookingStatus[b] \in {"COMPLETED", "NO_SHOW"}
Rests(x) == settler' = [settler EXCEPT ![x] = Resting]

-----------------------------------------------------------------------------
\* settleDue reads the bookings that are due before it settles one by one.
ChooseToSettle(x, b) ==
    /\ settler[x] = Resting /\ Unsettled(b)
    /\ settler' = [settler EXCEPT ![x] = 
                    [step |-> "CHOSEN", of |-> b, series |-> NoSeries, number |-> 0]]
    /\ UNCHANGED <<bookingStatus, captured, issuer, payable, nextNumber, invoices, earned>>

\* settle locks the booking and looks again.
LockToSettle(x) ==
    LET b == settler[x].of IN
    /\ settler[x].step = "CHOSEN" /\ ~BookingLocked(b)
    /\ IF Unsettled(b) /\ b \in captured
       THEN settler' = [settler EXCEPT ![x].step = "LOCKED"]
       ELSE Rests(x)
    /\ UNCHANGED <<bookingStatus, captured, issuer, payable, nextNumber, invoices, earned>>

\* A missed visit is closed without an invoice.
CloseMissed(x) ==
    LET b == settler[x].of IN
    /\ settler[x].step = "LOCKED" /\ bookingStatus[b] = "NO_SHOW"
    /\ bookingStatus' = [bookingStatus EXCEPT ![b] = "CLOSED"]
    /\ Rests(x)
    /\ UNCHANGED <<captured, issuer, payable, nextNumber, invoices, earned>>

\* issueInvoice takes the next number of the series; the row stays locked.
TakeNumber(x) ==
    /\ settler[x].step = "LOCKED" /\ bookingStatus[settler[x].of] = "COMPLETED"
    /\ issuer # NoSeries /\ payable /\ ~SequenceLocked(issuer)
    /\ settler' = [settler EXCEPT ![x] =
                    [step |-> "NUMBERED", of |-> @.of, series |-> issuer, number |-> nextNumber[issuer]]]
    /\ nextNumber' = [nextNumber EXCEPT ![issuer] = @ + 1]
    /\ UNCHANGED <<bookingStatus, captured, issuer, payable, invoices, earned>>

CommitSettled(x) ==
    LET mine == settler[x] IN
    /\ mine.step = "NUMBERED"
    /\ invoices' = invoices \cup {[of |-> mine.of, series |-> mine.series, number |-> mine.number]}
    /\ earned' = earned \cup {mine.of}
    /\ bookingStatus' = [bookingStatus EXCEPT ![mine.of] = "CLOSED"]
    /\ Rests(x)
    /\ UNCHANGED <<captured, issuer, payable, nextNumber>>

\* Mutant: the number is taken outside of the transaction.
MutantAborted(x) == nextNumber

\* What an aborted transaction leaves of the counters.
Aborted(x) ==
    [s \in Series |-> IF settler[x].series = s THEN settler[x].number ELSE nextNumber[s]]

\* Something is not configured, a statement fails, a conflict, the process dies.
Abandon(x) ==
    /\ settler[x] # Resting
    /\ nextNumber' = Aborted(x)
    /\ Rests(x)
    /\ UNCHANGED <<bookingStatus, captured, issuer, payable, invoices, earned>>

-----------------------------------------------------------------------------
Captured(b) ==
    /\ b \notin captured
    /\ captured' = captured \cup {b}
    /\ UNCHANGED <<bookingStatus, issuer, payable, nextNumber, invoices, earned, settler>>

ConfigureIssuer(s) ==
    /\ issuer' = s
    /\ UNCHANGED <<bookingStatus, captured, payable, nextNumber, invoices, earned, settler>>

ConfigurePayout ==
    /\ payable' = ~payable
    /\ UNCHANGED <<bookingStatus, captured, issuer, nextNumber, invoices, earned, settler>>

-----------------------------------------------------------------------------
SettlementInit ==
    /\ bookingStatus = [b \in ToSettle |-> IF b \in Finished THEN "COMPLETED" ELSE "NO_SHOW"]
    /\ captured = {}
    /\ issuer = NoSeries /\ payable = FALSE
    /\ nextNumber = [s \in Series |-> 1]
    /\ invoices = {} /\ earned = {}
    /\ settler = [x \in Settlers |-> Resting]

SettlementNext ==
    \/ \E x \in Settlers : \/ LockToSettle(x) \/ CloseMissed(x) \/ TakeNumber(x)
                           \/ CommitSettled(x) \/ Abandon(x)
                           \/ \E b \in ToSettle : ChooseToSettle(x, b)
    \/ \E b \in ToSettle : Captured(b)
    \/ \E s \in Series : ConfigureIssuer(s)
    \/ ConfigurePayout

-----------------------------------------------------------------------------
SettlementTypeOK ==
    /\ bookingStatus \in [ToSettle -> {"COMPLETED", "NO_SHOW", "CLOSED"}]
    /\ captured \subseteq ToSettle /\ earned \subseteq ToSettle
    /\ issuer \in Series \cup {NoSeries} /\ payable \in BOOLEAN
    /\ nextNumber \in [Series -> Nat \ {0}]
    /\ invoices \subseteq [of : ToSettle, series : Series, number : Nat]
    /\ settler \in [Settlers -> [step : {"NONE", "CHOSEN", "LOCKED", "NUMBERED"},
                                 of : ToSettle \cup {NoSeries},
                                 series : Series \cup {NoSeries}, number : Nat]]

NumbersOf(s) == {i.number : i \in {j \in invoices : j.series = s}}
InFlight(s) == {settler[x].number : x \in {y \in Settlers : settler[y].series = s}}

\* The numbers of a series have no gap and no repetition whatever is aborted
\* ("Gapless numbering", settlement.service.ts:148), and the bookings that have
\* an invoice are those completed ones that are closed, with their earnings.
GaplessNumbers ==
    /\ \A s \in Series : NumbersOf(s) = 1 .. (nextNumber[s] - 1) \ InFlight(s)
    /\ \A i, j \in invoices : i = j <=> (i.series = j.series /\ i.number = j.number)
    /\ {i.of : i \in invoices} = {b \in Finished : bookingStatus[b] = "CLOSED"}
    /\ \A i, j \in invoices : i.of = j.of => i = j
    /\ {b \in Finished : bookingStatus[b] = "CLOSED"} = earned
=============================================================================
