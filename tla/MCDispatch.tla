----------------------------- MODULE MCDispatch -----------------------------
(* Small instances of Dispatch: a booking of a service for one worker, and    *)
(* one of a service whose crew size administrators change between one and     *)
(* two.  Nothing compares the two times but whether they overlap.             *)
EXTENDS Dispatch, TLC

CONSTANTS b1, b2, w1, w2, s1, s2, t1, t2

MCServiceOf == [b \in Bookings |-> IF b = b1 THEN s1 ELSE s2]
MCCrewLimit == s1 :> 1 @@ s2 :> 2
MCTimes == {{t1}, {t2}}
DispatchSymmetry == Permutations(Workers) \cup Permutations({t1, t2})
=============================================================================
