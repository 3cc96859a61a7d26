------------------------------- MODULE MCJobs -------------------------------
(* The jobs that keep dispatch moving, the lease under which a job runs in    *)
(* two processes, the safety incidents a job escalates.  They share no state  *)
(* here: a behaviour ("part") has one of them.                                *)
EXTENDS Dispatch, JobLease, Safety, TLC

CONSTANTS b1, b2, w1, w2, s1, s2, q2

VARIABLE part

MCOneTime == {{1}}
MCServiceOf == [b \in Bookings |-> IF b = b1 THEN s1 ELSE s2]
MCCrewLimit == s1 :> 1 @@ s2 :> 2

\* q2 is always at work, and at most on the last level of the roster.
Escalation == q2 \in working /\ \A entry \in roster : entry[2] = q2 => entry[1] = TopLevel

MCInit ==
    /\ part \in {"dispatch", "lease", "safety"}
    /\ Init /\ LeaseInit
    /\ SafetyInit /\ Escalation /\ (part # "safety" => roster = {} /\ working = {q2})

MCNext ==
    \/ part = "dispatch" /\ Next /\ UNCHANGED <<part, leaseVars, safety>>
    \/ part = "lease" /\ LeaseNext /\ UNCHANGED <<part, vars, safety>>
    \/ part = "safety" /\ SafetyNext /\ Escalation' /\ UNCHANGED <<part, vars, leaseVars>>

MCSpec == /\ MCInit /\ [][MCNext]_<<part, vars, leaseVars, safety>>
          /\ Fairness /\ LeaseFairness /\ SafetyFairness
=============================================================================
