------------------------------ MODULE JobLease ------------------------------
(***************************************************************************)
(* One periodic job and the worker processes that may run it.  A process   *)
(* runs the job after it has taken the job's lease, a row of job_lease     *)
(* with an owner and an expiry.  Statements on that row are atomic; the    *)
(* run between taking and giving back the lease is not, and neither is the *)
(* shutdown of a process whose run is still under way.  A restarted        *)
(* process is a new owner.                                                 *)
(***************************************************************************)
CONSTANTS Processes, Nobody, Gone

ASSUME OwnerAssumption == Nobody \notin Processes /\ Gone \notin Processes /\ Nobody # Gone

VARIABLES
    process,   \* where each process stands
    stopping,  \* processes that are shutting down
    owner,     \* job_lease.owner: Nobody without a row, Gone after a restart
    valid,     \* locked_until has not passed
    outlived   \* runs that lost their lease to time or to their own shutdown

leaseVars == <<process, stopping, owner, valid, outlived>>

-----------------------------------------------------------------------------
\* WAITING for the timer, CLAIMING the lease, RUNNING the job.
Places == {"DOWN", "WAITING", "CLAIMING", "RUNNING"}

\* Types: only a live process shuts down, only a run outlives its lease, and a
\* lease that has not expired is a row with an owner.
LeaseTypeOK ==
    /\ process \in [Processes -> Places]
    /\ stopping \in SUBSET {p \in Processes : process[p] # "DOWN"}
    /\ owner \in Processes \cup {Nobody, Gone}
    /\ valid \in BOOLEAN
    /\ outlived \in SUBSET {p \in Processes : process[p] = "RUNNING"}
    /\ valid => owner # Nobody

HasLease(p) == owner = p /\ valid

Moves(p, place) == process' = [process EXCEPT ![p] = place]

-----------------------------------------------------------------------------
(* The processes. *)

Start(p) ==
    /\ process[p] = "DOWN"
    /\ Moves(p, "WAITING")
    /\ UNCHANGED <<stopping, owner, valid, outlived>>

\* schedule: the timer fires, unless onApplicationShutdown cleared it.
Tick(p) ==
    /\ process[p] = "WAITING"
    /\ p \notin stopping
    /\ Moves(p, "CLAIMING")
    /\ UNCHANGED <<stopping, owner, valid, outlived>>

\* Mutant: a lease that expired is not taken over.
MutantNeverTakesOver(p) == owner \in {Nobody, p}

\* Mutant: the lease's expiry is not looked at.
MutantTakesAnyLease(p) == TRUE

\* The upsert takes a lease that is absent, expired or the process's own.
MayTake(p) == owner = Nobody \/ ~valid \/ owner = p

TakeLease(p) ==
    /\ process[p] = "CLAIMING"
    /\ MayTake(p)
    /\ Moves(p, "RUNNING")
    /\ owner' = p
    /\ valid' = TRUE
    /\ UNCHANGED <<stopping, outlived>>

Refused(p) ==
    /\ process[p] = "CLAIMING"
    /\ ~MayTake(p)
    /\ Moves(p, "WAITING")
    /\ UNCHANGED <<stopping, owner, valid, outlived>>

\* The run succeeded or failed; the lease is given back if it is still ours.
Finish(p) ==
    /\ process[p] = "RUNNING"
    /\ Moves(p, "WAITING")
    /\ outlived' = outlived \ {p}
    /\ valid' = (valid /\ owner # p)
    /\ UNCHANGED <<stopping, owner>>

\* The database is down: the lease is neither taken nor given back, and the
\* process tries again on its next tick.
DatabaseFails(p) ==
    /\ process[p] \in {"CLAIMING", "RUNNING"}
    /\ Moves(p, "WAITING")
    /\ outlived' = outlived \ {p}
    /\ UNCHANGED <<stopping, owner, valid>>

\* onApplicationShutdown deletes the process's leases without waiting for the
\* run that may hold one.
Shutdown(p) ==
    /\ process[p] # "DOWN"
    /\ p \notin stopping
    /\ stopping' = stopping \cup {p}
    /\ owner' = IF owner = p THEN Nobody ELSE owner
    /\ valid' = (valid /\ owner # p)
    /\ outlived' = IF process[p] = "RUNNING" THEN outlived \cup {p} ELSE outlived
    /\ UNCHANGED process

\* The process exits or is killed; whatever lease it had waits for its expiry.
Exit(p) ==
    /\ process[p] # "DOWN"
    /\ Moves(p, "DOWN")
    /\ stopping' = stopping \ {p}
    /\ owner' = IF owner = p THEN Gone ELSE owner
    /\ outlived' = outlived \ {p}
    /\ UNCHANGED valid

\* locked_until passes, whether or not the run is over.
JobLeaseExpires ==
    /\ valid
    /\ valid' = FALSE
    /\ outlived' = outlived \cup {p \in Processes : owner = p /\ process[p] = "RUNNING"}
    /\ UNCHANGED <<process, stopping, owner>>

-----------------------------------------------------------------------------
LeaseInit ==
    /\ process = [p \in Processes |-> "DOWN"]
    /\ stopping = {}
    /\ owner = Nobody
    /\ valid = FALSE
    /\ outlived = {}

ProcessStep(p) ==
    \/ Start(p) \/ Tick(p) \/ TakeLease(p) \/ Refused(p) \/ Finish(p)
    \/ DatabaseFails(p) \/ Shutdown(p) \/ Exit(p)

LeaseNext == JobLeaseExpires \/ \E p \in Processes : ProcessStep(p)

LeaseSpec == LeaseInit /\ [][LeaseNext]_leaseVars

-----------------------------------------------------------------------------
(* Safety. *)

\* A run has the lease until it expires or its own process shuts down: nobody
\* else's start, late finish, crash or shutdown takes it away.
LeaseIsKept ==
    \A p \in Processes :
        process[p] = "RUNNING" /\ p \notin outlived => HasLease(p)

\* So two processes run the job at once only when one has outlived its lease.
AloneWithinLease ==
    \A p, q \in Processes :
        /\ process[p] = "RUNNING" /\ p \notin outlived
        /\ process[q] = "RUNNING" /\ q \notin outlived
        => p = q

-----------------------------------------------------------------------------
(* Liveness.  Timers fire, time passes, and a claim repeated for ever reaches *)
(* the database some time.  Nothing is assumed of starts, exits and runs.     *)

LeaseFairness ==
    /\ WF_leaseVars(JobLeaseExpires)
    /\ \A p \in Processes :
          /\ WF_leaseVars(Tick(p))
          /\ WF_leaseVars(Refused(p))
          /\ SF_leaseVars(TakeLease(p))

FairLeaseSpec == LeaseSpec /\ LeaseFairness

Up(p) == process[p] # "DOWN" /\ p \notin stopping

\* "A crashed worker never blocks a job permanently": while one process stays
\* up, the job is run again and again.
JobKeepsRunning ==
    \A p \in Processes :
        <>[]Up(p) => []<>(\E q \in Processes : process[q] = "RUNNING")
=============================================================================
