---------------------------- MODULE RefundLedger ----------------------------
(***************************************************************************)
(* What the refunds of one captured payment promise, whatever happens to   *)
(* the calls and webhooks behind them: a refund is asked for, allowed or   *)
(* denied, and an allowed one is paid out at most once.  The refunds that  *)
(* were not denied never add up to more than was captured.                 *)
(***************************************************************************)
EXTENDS Naturals, Functions

CONSTANTS Refunds, Captured

VARIABLE entry

Entry == [state : {"NONE", "ASKED", "DENIED", "DUE", "PAID"}, amount : 0..Captured]

\* What was promised to the customer so far.
Promised ==
    SumFunction([r \in Refunds |->
        IF entry[r].state \in {"NONE", "DENIED"} THEN 0 ELSE entry[r].amount])

\* What may still be promised.
Unpromised == Captured - Promised

Ask(r, amount, state) ==
    /\ entry[r].state = "NONE"
    /\ amount \in 1..Unpromised
    /\ entry' = [entry EXCEPT ![r] = [state |-> state, amount |-> amount]]

Decide(r, state) ==
    /\ entry[r].state = "ASKED"
    /\ entry' = [entry EXCEPT ![r].state = state]

Pay(r) ==
    /\ entry[r].state = "DUE"
    /\ entry' = [entry EXCEPT ![r].state = "PAID"]

Init == entry = [r \in Refunds |-> [state |-> "NONE", amount |-> 0]]

Next ==
    \E r \in Refunds :
        \/ \E amount \in 1..Unpromised, state \in {"ASKED", "DUE"} : Ask(r, amount, state)
        \/ \E state \in {"DENIED", "DUE"} : Decide(r, state)
        \/ Pay(r)

Spec == Init /\ [][Next]_entry
=============================================================================
