----------------------------- MODULE Onboarding -----------------------------
(***************************************************************************)
(* The life of one worker with the company: the checks and the training    *)
(* the services require, the decisions of staff, and the status the        *)
(* worker's profile moves through.                                         *)
(*                                                                         *)
(* A transaction reads first -- a check's status, the onboarding state, the *)
(* next status -- and writes when it commits; others commit in between.    *)
(* The trigger checks a move of status against the row as it is then, and  *)
(* a move it refuses undoes the whole transaction.  Transactions that read *)
(* nothing first are one step.                                             *)
(***************************************************************************)
EXTENDS Documents, Naturals, Sequences

CONSTANTS
    CheckOf,       \* the check each upload is for (WORKER_UPLOADED_TYPES) ...
    Recorded,      \* ... and the checks by staff that the services require
    Transactions,  \* transactions that may be under way
    MaxChecks      \* bound on the rows of worker_verification

VARIABLES
    worker,  \* worker_profile, worker_presence and what makes a worker bookable
    checks,  \* worker_verification by created_at, the start of its transaction
    tx       \* the transactions under way

people == <<worker, checks, tx>>

-----------------------------------------------------------------------------
Uploaded == {CheckOf[d] : d \in Docs}
Required == Uploaded \cup Recorded
Onboarding == {"REGISTERED", "PROFILE_PENDING", "DOCUMENTS_PENDING",
               "VERIFICATION_PENDING", "TRAINING_PENDING"}
Working == {"ACTIVE", "RESTRICTED"}
Employed == Working \cup {"APPROVED"}
Left == {"INACTIVE", "REJECTED"}
Decisions == Employed \cup Left \cup {"SUSPENDED", "PROFILE_PENDING"}

\* worker_status_transition.  Its sources are left out: onboarding moves a worker
\* as the system where the worker's app may not.
Transitions ==
    { <<"REGISTERED", "PROFILE_PENDING">>, <<"PROFILE_PENDING", "DOCUMENTS_PENDING">>,
      <<"DOCUMENTS_PENDING", "VERIFICATION_PENDING">>,
      <<"VERIFICATION_PENDING", "DOCUMENTS_PENDING">>,
      <<"VERIFICATION_PENDING", "TRAINING_PENDING">>,
      <<"TRAINING_PENDING", "VERIFICATION_PENDING">>,
      <<"TRAINING_PENDING", "APPROVED">>, <<"APPROVED", "ACTIVE">>,
      <<"REJECTED", "PROFILE_PENDING">>, <<"ACTIVE", "RESTRICTED">>,
      <<"RESTRICTED", "ACTIVE">>, <<"SUSPENDED", "ACTIVE">>,
      <<"SUSPENDED", "INACTIVE">>, <<"INACTIVE", "ACTIVE">> }
    \cup Onboarding \X {"REJECTED"}
    \cup Employed \X {"SUSPENDED", "INACTIVE"}

\* worker_profile_status_guard.
MayMove(from, to) == from = to \/ <<from, to>> \in Transitions

-----------------------------------------------------------------------------
(* WorkerOnboardingService. *)

\* OPEN: inserted by a transaction that has not committed; UNDONE: by one that
\* did not.
Row(type, d, status) == [type |-> type, of |-> d, status |-> status, lapsed |-> FALSE]
Hidden == {"OPEN", "UNDONE"}

\* The latest row of a type counts.
Latest(rows, type, Holds(_)) ==
    \E k \in DOMAIN rows :
        /\ rows[k].type = type /\ rows[k].status \notin Hidden /\ Holds(rows[k])
        /\ \A j \in DOMAIN rows :
              rows[j].type = type /\ rows[j].status \notin Hidden => j <= k

IsSubmitted(row) == row.status \in {"SUBMITTED", "VERIFIED"}
IsVerified(row) == row.status = "VERIFIED" /\ ~row.lapsed
IsRejected(row) == row.status = "REJECTED"

Verified(rows) == \A type \in Required : Latest(rows, type, IsVerified)

\* nextStatus: where the worker may move on or back to.
NextStatus(status, complete, rows) ==
    LET rejected == \E type \in Required : Latest(rows, type, IsRejected)
        submitted == \A type \in Uploaded : Latest(rows, type, IsSubmitted)
    IN  CASE status = "REGISTERED" -> {"PROFILE_PENDING"}
          [] status = "PROFILE_PENDING" /\ complete -> {"DOCUMENTS_PENDING"}
          [] status = "DOCUMENTS_PENDING" /\ submitted -> {"VERIFICATION_PENDING"}
          [] status = "VERIFICATION_PENDING" /\ rejected -> {"DOCUMENTS_PENDING"}
          [] status = "VERIFICATION_PENDING" /\ ~rejected /\ Verified(rows)
                -> {"TRAINING_PENDING"}
          [] status = "TRAINING_PENDING" /\ ~Verified(rows) -> {"VERIFICATION_PENDING"}
          [] OTHER -> {}

\* advance, with so many moves left: a rejected check by staff sends a worker back
\* and forth until they are used up.
Advanced(status, complete, rows, moves) ==
    LET After[n \in 0..moves] ==
            IF n = 0 THEN status
            ELSE LET next == NextStatus(After[n - 1], complete, rows)
                 IN  IF next = {} THEN After[n - 1] ELSE CHOOSE s \in next : TRUE
    IN  After[moves]

MaxMoves == 6

-----------------------------------------------------------------------------
(* Transactions that read before they write. *)

NoTx == [kind |-> "NONE", row |-> 0, status |-> "NONE", next |-> {}]
Change(kind, row, status) == [kind |-> kind, row |-> row, status |-> status, next |-> {}]

\* What a transaction sees of worker_verification: its own change included.
RowsWith(rows, c) ==
    IF c.kind = "CHECK" THEN [rows EXCEPT ![c.row].status = c.status] ELSE rows

\* It changes something and calls advance, which finds where to move.
Begins(t, c, rows) ==
    /\ tx[t] = NoTx
    /\ checks' = rows
    /\ tx' = [tx EXCEPT ![t] = [c EXCEPT !.next =
                 NextStatus(worker.status, worker.complete, RowsWith(rows, c))]]

Inserts(t, type, d, status) ==
    /\ Len(checks) < MaxChecks
    /\ Begins(t, Change("CHECK", Len(checks) + 1, status),
              Append(checks, Row(type, d, "OPEN")))
    /\ UNCHANGED worker

\* submitVerification, once the upload is confirmed.
Submit(t, r) ==
    /\ request[r].step = "CONFIRMED"
    /\ Inserts(t, CheckOf[request[r].of], request[r].of, "SUBMITTED")
    /\ request' = Stops(request, r)
    /\ UNCHANGED <<doc, object, link, scan, purge, shown>>

\* recordVerification, for any check there is.
Record(t, type, status) ==
    /\ Inserts(t, type, None, status)
    /\ UNCHANGED documents

\* Mutant: the check is read without a lock.
MutantLocked(k) == FALSE

\* SELECT ... FOR UPDATE, or the row's own update.
Locked(k) == \E t \in Transactions : tx[t].kind = "CHECK" /\ tx[t].row = k

\* Mutant: a file need not have been scanned.
MutantDecide(t, k, status) ==
    /\ checks[k].status = "SUBMITTED" /\ ~Locked(k)
    /\ Begins(t, Change("CHECK", k, status), checks)
    /\ UNCHANGED <<worker, documents>>

\* decideVerification: the file's status is read while the check is locked.
Decide(t, k, status) ==
    /\ checks[k].status = "SUBMITTED" /\ ~Locked(k)
    /\ status = "VERIFIED" /\ checks[k].of # None => doc[checks[k].of].status = "CLEAN"
    /\ Begins(t, Change("CHECK", k, status), checks)
    /\ UNCHANGED <<worker, documents>>

RecordTraining(t, status) ==
    /\ Begins(t, Change("TRAINING", 0, status), checks)
    /\ UNCHANGED <<worker, documents>>

\* changeStatus to APPROVED: checks and training must be complete.
Approve(t) ==
    /\ tx[t] = NoTx /\ Verified(checks) /\ worker.trained
    /\ tx' = [tx EXCEPT ![t] = [Change("STATUS", 0, "APPROVED") EXCEPT !.next = {"APPROVED"}]]
    /\ UNCHANGED <<worker, checks, documents>>

\* setPresence: who may go online is read without a lock.
GoOnline(t) ==
    /\ tx[t] = NoTx /\ worker.status \in Working
    /\ tx' = [tx EXCEPT ![t] = Change("ONLINE", 0, "NONE")]
    /\ UNCHANGED <<worker, checks, documents>>

\* The first move is the one found when it began; advance then reads again.
StatusAfter(c, rows) ==
    IF c.next = {} THEN worker.status
    ELSE LET next == CHOOSE s \in c.next : TRUE
         IN  Advanced(next, worker.complete, rows, MaxMoves - 1)

Commit(t) ==
    LET c == tx[t]
        rows == RowsWith(checks, c)
    IN  /\ c # NoTx
        /\ \A next \in c.next : MayMove(worker.status, next)
        /\ checks' = rows
        /\ worker' = [worker EXCEPT !.status = StatusAfter(c, rows),
                                    !.trained = @ \/ <<c.kind, c.status>> = <<"TRAINING", "PASSED">>,
                                    !.online = @ \/ c.kind = "ONLINE"]
        /\ doc' = IF c.kind = "STATUS" THEN RetentionCancelled ELSE doc
        /\ tx' = [tx EXCEPT ![t] = NoTx]
        /\ UNCHANGED <<object, link, request, scan, purge, shown>>

\* Refused by the trigger, or failed otherwise.
Undo(t) ==
    LET c == tx[t] IN
    /\ c # NoTx
    /\ checks' = IF c.kind = "CHECK" /\ checks[c.row].status = "OPEN"
                 THEN [checks EXCEPT ![c.row].status = "UNDONE"] ELSE checks
    /\ tx' = [tx EXCEPT ![t] = NoTx]
    /\ UNCHANGED <<worker, documents>>

-----------------------------------------------------------------------------
(* Transactions that read nothing first, or lock what they read. *)

\* updateProfile locks the worker's row; complete: nothing is missing any more.
UpdateProfile(complete) ==
    /\ complete \in {TRUE, worker.complete}
    /\ worker' = [worker EXCEPT !.complete = complete,
                    !.status = Advanced(worker.status, complete, checks, MaxMoves)]
    /\ UNCHANGED <<checks, tx, documents>>

GoOffline ==
    /\ worker' = [worker EXCEPT !.online = FALSE]
    /\ UNCHANGED <<checks, tx, documents>>

\* changeStatus.  keeps: no retention period is configured.
ChangeStatus(to, keeps) ==
    /\ to # "APPROVED" /\ MayMove(worker.status, to)
    /\ worker' = [worker EXCEPT !.status = to,
                                !.online = @ /\ to \notin Left \cup {"SUSPENDED"}]
    /\ doc' = IF to \notin Left THEN RetentionCancelled
              ELSE IF keeps THEN doc ELSE RetentionScheduled
    /\ UNCHANGED <<checks, tx, object, link, request, scan, purge, shown>>

GrantServicePermission ==
    /\ worker' = [worker EXCEPT !.permitted = TRUE]
    /\ UNCHANGED <<checks, tx, documents>>

\* restrict and liftRestriction, for the service and the zone looked at.
RestrictWorker(restricted) ==
    /\ worker' = [worker EXCEPT !.restricted = restricted]
    /\ UNCHANGED <<checks, tx, documents>>

CheckLapses(k) ==
    /\ checks[k].status = "VERIFIED"
    /\ checks' = [checks EXCEPT ![k].lapsed = TRUE]
    /\ UNCHANGED <<worker, tx, documents>>

\* rejectMalware also withdraws the checks that wait on the file, whoever locks
\* one of them first.
WithdrawMalware(s) ==
    LET waits == {k \in DOMAIN checks :
                    <<checks[k].of, checks[k].status>> = <<scan[s].of, "SUBMITTED">>}
    IN  /\ RejectMalware(s)
        /\ \A k \in waits : ~Locked(k)
        /\ checks' = [k \in DOMAIN checks |->
                        IF k \in waits THEN [checks[k] EXCEPT !.status = "WITHDRAWN"]
                        ELSE checks[k]]
        /\ UNCHANGED <<worker, tx>>

-----------------------------------------------------------------------------
\* worker_ineligibility_reason.
Eligible ==
    /\ worker.status \in Working
    /\ worker.permitted /\ ~worker.restricted /\ worker.trained
    /\ Verified(checks)

PeopleInit ==
    /\ worker = [status |-> "REGISTERED", complete |-> FALSE, trained |-> FALSE,
                 online |-> FALSE, permitted |-> FALSE, restricted |-> FALSE]
    /\ checks = <<>>
    /\ tx = [t \in Transactions |-> NoTx]
    /\ DocumentsInit

Verdicts == {"VERIFIED", "REJECTED"}

PeopleNext ==
    \/ DocumentsNext /\ UNCHANGED people
    \/ \E s \in Scans : WithdrawMalware(s)
    \/ \E t \in Transactions :
          \/ \E r \in Requests : Submit(t, r)
          \/ \E verdict \in Verdicts : \/ \E type \in Required : Record(t, type, verdict)
                                       \/ \E k \in DOMAIN checks : Decide(t, k, verdict)
          \/ \E result \in {"PASSED", "FAILED"} : RecordTraining(t, result)
          \/ Approve(t) \/ GoOnline(t) \/ Commit(t) \/ Undo(t)
    \/ \E complete \in BOOLEAN : UpdateProfile(complete) \/ RestrictWorker(complete)
    \/ \E to \in Decisions, keeps \in BOOLEAN : ChangeStatus(to, keeps)
    \/ \E k \in DOMAIN checks : CheckLapses(k)
    \/ GoOffline \/ GrantServicePermission

PeopleSpec == PeopleInit /\ [][PeopleNext]_<<people, documents>>

-----------------------------------------------------------------------------
\* A worker who can be booked has had every uploaded file scanned and accepted, or
\* the check made by staff: whatever becomes of files and checks while others are
\* deciding on them (docs/11-security-readiness.md, 3.).
BookableIsVetted ==
    Eligible => \A type \in Uploaded :
        Latest(checks, type, LAMBDA row : row.of # None => doc[row.of].found)

\* A check is decided once: neither a second member of staff nor a scan that fails
\* late overrides what was recorded, with its reason, as somebody's decision.
DecisionsStand ==
    [][\A k \in DOMAIN checks :
         checks[k].status \in Verdicts => checks'[k].status = checks[k].status]_people
=============================================================================
