----------------------------- MODULE StaffAccess -----------------------------
(***************************************************************************)
(* Staff accounts: who may administer them, and how a member of the staff  *)
(* signs in with a password and an authenticator.                          *)
(*                                                                         *)
(* Suspending somebody, or taking the SUPER_ADMIN role away, is a          *)
(* transaction of several statements under READ COMMITTED: it locks the    *)
(* target's row, reads who else is an active super administrator, locks    *)
(* those rows one by one -- each counts if it still is one when its lock   *)
(* is had -- and writes.  Transactions that wait for each other are        *)
(* aborted and started again (inTransaction).  The other operations hold   *)
(* the account's row for a moment and are one step.                        *)
(***************************************************************************)
EXTENDS Naturals, FiniteSets

CONSTANTS
    Members,        \* staff accounts
    Changes,        \* administrators' requests that may be under way
    Challenges,     \* rows of staff_login_challenge there are to insert
    MaxSecrets,     \* bound on the authenticator secrets ever generated
    MaxPasswords,   \* STAFF_LOGIN_POLICY.maxFailedPasswords
    MaxCodes        \* staff_login_challenge.max_attempts

VARIABLES
    account,    \* app_user.status
    admins,     \* members with an unrevoked SUPER_ADMIN role
    change,     \* the requests, with their transactions
    credential, \* staff_credential
    invited,    \* members with an open invitation
    login,      \* staff_login_challenge
    secrets,    \* authenticator secrets generated so far
    signedIn    \* members with an unrevoked session

administration == <<account, admins, change>>
signingIn == <<credential, invited, login, secrets, signedIn>>
staff == <<account, admins, change, credential, invited, login, secrets, signedIn>>

-----------------------------------------------------------------------------
NoSecret == 0
NoChange == [step |-> "NONE"]
ActiveAdmins == {p \in admins : account[p] = "ACTIVE"}

\* Row locks: p's row is held by a transaction other than x's.
HeldByOthers(p, x) == \E y \in Changes \ {x} : change[y].step # "NONE" /\ p \in change[y].locks
Free(p) == \A x \in Changes : change[x].step # "NONE" => p \notin change[x].locks

Step(x, step) == change[x].step = step
ChangeEnds(x) == change' = [change EXCEPT ![x] = NoChange]

\* The transaction of x goes on: what it has locked, which rows it still has to
\* lock and which of those it locked are other administrators.
Goes(x, step, locks, todo, others) ==
    change' = [change EXCEPT ![x] = [step |-> step, target |-> change[x].target,
                                     kind |-> change[x].kind, locks |-> locks, todo |-> todo,
                                     others |-> others]]

-----------------------------------------------------------------------------
(* Administering: StaffAdminService.setStatus, grant and revoke. *)

\* The guard has let the request of an active super administrator pass; what
\* becomes of the administrator afterwards is not looked at again.
AskForChange(x, actor, target, kind) ==
    /\ Step(x, "NONE")
    /\ actor \in ActiveAdmins /\ actor # target
    /\ account[target] # "NONE"
    /\ change' = [change EXCEPT ![x] = [step |-> "LOCK", target |-> target, kind |-> kind,
                                        locks |-> {}, todo |-> {}, others |-> {}]]
    /\ UNCHANGED <<account, admins, signingIn>>

\* lockStaff; revoking a role nobody has, or granting one again, ends there.
LockTarget(x) ==
    LET c == change[x]
    IN  /\ Step(x, "LOCK")
        /\ ~HeldByOthers(c.target, x)
        /\ IF \/ c.kind = "REVOKE" /\ c.target \notin admins
              \/ c.kind = "GRANT" /\ c.target \in admins
           THEN ChangeEnds(x)
           ELSE Goes(x, IF c.kind \in {"SUSPEND", "REVOKE"} THEN "LOOK" ELSE "WRITE",
                     {c.target}, {}, {})
        /\ UNCHANGED <<account, admins, signingIn>>

\* assertAnotherSuperAdmin reads who else there is...
FindOthers(x) ==
    /\ Step(x, "LOOK")
    /\ Goes(x, "TAKE", change[x].locks, ActiveAdmins \ {change[x].target}, {})
    /\ UNCHANGED <<account, admins, signingIn>>

\* Mutant: the rows found are not locked.
MutantTakeOther(x, p) ==
    LET c == change[x]
    IN  /\ Step(x, "TAKE") /\ p \in c.todo
        /\ Goes(x, "TAKE", c.locks, c.todo \ {p}, c.others \cup {p})
        /\ UNCHANGED <<account, admins, signingIn>>

\* ... and locks them, looking again at each.
TakeOther(x, p) ==
    LET c == change[x]
    IN  /\ Step(x, "TAKE") /\ p \in c.todo
        /\ ~HeldByOthers(p, x)
        /\ Goes(x, "TAKE", c.locks \cup {p}, c.todo \ {p}, c.others \cup ({p} \cap ActiveAdmins))
        /\ UNCHANGED <<account, admins, signingIn>>

AnotherAdmin(x) ==
    /\ Step(x, "TAKE") /\ change[x].todo = {}
    /\ IF change[x].others = {} THEN ChangeEnds(x)
       ELSE Goes(x, "WRITE", change[x].locks, {}, change[x].others)
    /\ UNCHANGED <<account, admins, signingIn>>

\* The write and the commit.  Suspending signs out everywhere.
Write(x) ==
    LET p == change[x].target
        kind == change[x].kind
    IN  /\ Step(x, "WRITE")
        /\ account' = CASE kind = "SUSPEND" -> [account EXCEPT ![p] = "SUSPENDED"]
                        [] kind = "ACTIVATE" -> [account EXCEPT ![p] = "ACTIVE"]
                        [] OTHER -> account
        /\ admins' = CASE kind = "REVOKE" -> admins \ {p}
                       [] kind = "GRANT" -> admins \cup {p}
                       [] OTHER -> admins
        /\ signedIn' = IF kind = "SUSPEND" THEN signedIn \ {p} ELSE signedIn
        /\ ChangeEnds(x)
        /\ UNCHANGED <<credential, invited, login, secrets>>

\* A deadlock or another failure of the transaction, which is begun again or
\* given up.
Abort(x, again) ==
    /\ ~Step(x, "NONE")
    /\ IF again THEN Goes(x, "LOCK", {}, {}, {}) ELSE ChangeEnds(x)
    /\ UNCHANGED <<account, admins, signingIn>>

\* create, with or without the SUPER_ADMIN role.
CreateMember(p, admin) ==
    /\ account[p] = "NONE" /\ ActiveAdmins # {}
    /\ account' = [account EXCEPT ![p] = "ACTIVE"]
    /\ admins' = IF admin THEN admins \cup {p} ELSE admins
    /\ invited' = invited \cup {p}
    /\ UNCHANGED <<change, credential, login, secrets, signedIn>>

\* reinvite: also how a forgotten password is reset.
Reinvite(p) ==
    /\ account[p] # "NONE" /\ ActiveAdmins \ {p} # {} /\ Free(p)
    /\ invited' = invited \cup {p}
    /\ UNCHANGED <<administration, credential, login, secrets, signedIn>>

\* resetMfa: the authenticator must be enrolled again.
ResetMfa(p) ==
    /\ account[p] # "NONE" /\ ActiveAdmins \ {p} # {} /\ Free(p)
    /\ credential' = [credential EXCEPT ![p].secret = NoSecret, ![p].pending = NoSecret]
    /\ signedIn' = signedIn \ {p}
    /\ UNCHANGED <<administration, invited, login, secrets>>

-----------------------------------------------------------------------------
(* Signing in: StaffAuthService. *)

InvitationExpires(p) ==
    /\ p \in invited
    /\ invited' = invited \ {p}
    /\ UNCHANGED <<administration, credential, login, secrets, signedIn>>

\* acceptInvitation sets the password and ends the sessions; the authenticator
\* stays.
AcceptInvitation(p) ==
    /\ p \in invited /\ account[p] = "ACTIVE" /\ Free(p)
    /\ invited' = invited \ {p}
    /\ credential' = [credential EXCEPT ![p].password = TRUE, ![p].failed = 0,
                                        ![p].locked = FALSE]
    /\ signedIn' = signedIn \ {p}
    /\ UNCHANGED <<administration, login, secrets>>

CanLogIn(p) == credential[p].password /\ ~credential[p].locked /\ Free(p)

\* A wrong password, or any for an account that is not active.
LogInFails(p) ==
    LET failed == credential[p].failed + 1
        lock == failed >= MaxPasswords
    IN  /\ CanLogIn(p)
        /\ credential' = [credential EXCEPT ![p].failed = IF lock THEN 0 ELSE failed,
                                            ![p].locked = lock]
        /\ UNCHANGED <<administration, invited, login, secrets, signedIn>>

LockEnds(p) ==
    /\ credential[p].locked
    /\ credential' = [credential EXCEPT ![p].locked = FALSE]
    /\ UNCHANGED <<administration, invited, login, secrets, signedIn>>

\* Mutant: whether an authenticator is enrolled already is not looked at.
MutantLogIn(p, k) ==
    /\ CanLogIn(p) /\ account[p] = "ACTIVE" /\ login[k].member = "NONE"
    /\ login' = [login EXCEPT ![k] = [@ EXCEPT !.member = p, !.open = TRUE,
                                        !.purpose = "MFA_ENROLL"]]
    /\ secrets < MaxSecrets
    /\ secrets' = secrets + 1
    /\ credential' = [credential EXCEPT ![p].failed = 0, ![p].pending = secrets + 1]
    /\ UNCHANGED <<administration, invited, signedIn>>

\* The right password: a challenge, and without an enrolled authenticator a
\* secret to enrol.
LogIn(p, k) ==
    LET enrolled == credential[p].secret # NoSecret
    IN  /\ CanLogIn(p) /\ account[p] = "ACTIVE" /\ login[k].member = "NONE"
        /\ login' = [login EXCEPT ![k] = [@ EXCEPT !.member = p, !.open = TRUE,
                                            !.purpose = IF enrolled THEN "MFA_VERIFY"
                                                        ELSE "MFA_ENROLL"]]
        /\ enrolled \/ secrets < MaxSecrets
        /\ secrets' = IF enrolled THEN secrets ELSE secrets + 1
        /\ credential' = [credential EXCEPT ![p].failed = 0,
                            ![p].pending = IF enrolled THEN @ ELSE secrets + 1]
        /\ UNCHANGED <<administration, invited, signedIn>>

\* The secret a code for the challenge is compared with.
SecretFor(k) == LET c == credential[login[k].member]
                IN  IF login[k].purpose = "MFA_ENROLL" THEN c.pending ELSE c.secret

Enrol(p) == [credential EXCEPT ![p].secret = credential[p].pending, ![p].pending = NoSecret]

\* completeMfa, with a code that is right and new, or with another one.  Neither
\* the account's status nor its lock is looked at.
CompleteMfa(k, right) ==
    LET p == login[k].member
    IN  /\ login[k].open /\ login[k].attempts < MaxCodes
        /\ SecretFor(k) # NoSecret
        /\ IF right
           THEN /\ login' = [login EXCEPT ![k].open = FALSE]
                /\ credential' = IF login[k].purpose = "MFA_ENROLL" THEN Enrol(p) ELSE credential
                /\ signedIn' = signedIn \cup {p}
           ELSE /\ login' = [login EXCEPT ![k].attempts = @ + 1]
                /\ UNCHANGED <<credential, signedIn>>
        /\ UNCHANGED <<administration, invited, secrets>>

ChallengeExpires(k) ==
    /\ login[k].open
    /\ login' = [login EXCEPT ![k].open = FALSE]
    /\ UNCHANGED <<administration, credential, invited, secrets, signedIn>>

-----------------------------------------------------------------------------
StaffInit ==
    /\ admins \in SUBSET Members
    /\ account \in [Members -> {"NONE", "ACTIVE", "SUSPENDED"}]
    /\ \A p \in admins : account[p] # "NONE"
    /\ ActiveAdmins # {}
    /\ change = [x \in Changes |-> NoChange]
    /\ credential = [p \in Members |-> [password |-> account[p] # "NONE", failed |-> 0,
                       locked |-> FALSE, secret |-> NoSecret, pending |-> NoSecret]]
    /\ invited = {}
    /\ login = [k \in Challenges |-> [member |-> "NONE", purpose |-> "NONE", open |-> FALSE,
                                      attempts |-> 0]]
    /\ secrets = 0
    /\ signedIn = {}

Administering ==
    \/ \E x \in Changes, actor, target \in Members,
          kind \in {"SUSPEND", "ACTIVATE", "GRANT", "REVOKE"} : AskForChange(x, actor, target, kind)
    \/ \E x \in Changes : \/ LockTarget(x) \/ FindOthers(x) \/ AnotherAdmin(x) \/ Write(x)
                          \/ Abort(x, TRUE) \/ Abort(x, FALSE)
                          \/ \E p \in Members : TakeOther(x, p)
    \/ \E p \in Members, admin \in BOOLEAN : CreateMember(p, admin)

SigningIn ==
    \/ \E p \in Members : \/ Reinvite(p) \/ ResetMfa(p) \/ InvitationExpires(p)
                          \/ AcceptInvitation(p) \/ LogInFails(p) \/ LockEnds(p)
                          \/ \E k \in Challenges : LogIn(p, k)
    \/ \E k \in Challenges : \/ CompleteMfa(k, TRUE) \/ CompleteMfa(k, FALSE)
                             \/ ChallengeExpires(k)

StaffNext == Administering \/ SigningIn

StaffSpec == StaffInit /\ [][StaffNext]_staff

-----------------------------------------------------------------------------
\* "Someone must always be able to administer staff": administrators who suspend
\* each other, or take each other's role, at the same time leave one.
SomebodyAdministers == ActiveAdmins # {}

\* An enrolled authenticator is never replaced by another, also not by a
\* challenge left open from before it was enrolled: only a reset takes it away.
AuthenticatorIsKept ==
    [][\A p \in Members : credential[p].secret # NoSecret
          => credential'[p].secret \in {credential[p].secret, NoSecret}]_staff
=============================================================================
