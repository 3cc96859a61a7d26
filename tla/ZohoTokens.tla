----------------------------- MODULE ZohoTokens -----------------------------
(***************************************************************************)
(* Access tokens for Zoho (ZohoAuth) and the requests that use them        *)
(* (ZohoHttp).  All processes share one token, a row of                    *)
(* integration_credential: who finds it missing, about to expire or        *)
(* refused asks Zoho for another while holding the row's lock.             *)
(*                                                                         *)
(* A token is a number, in the order Zoho issued them.  Zoho may stop      *)
(* accepting one before its time.  A process may die anywhere, which rolls *)
(* its transaction back.                                                   *)
(***************************************************************************)
EXTENDS Naturals

CONSTANTS
    Askers,     \* requests that may be under way
    MaxIssued   \* bound on the tokens Zoho issues

VARIABLES
    credential,     \* the row: the token (0: none), whether it is about to expire,
                    \* whether the last request for one failed
    accepted,       \* the tokens Zoho accepts
    issued,         \* the last token Zoho issued
    asker           \* what each request is doing

zohoTokens == <<credential, accepted, issued, asker>>

-----------------------------------------------------------------------------
\* TOKEN: wants a token other than the refused one; REQUEST: asks Zoho for one;
\* STORE: has it; FAILED: was not given one; SEND: calls Zoho with the token.
NotAsking == [step |-> "DONE", token |-> 0, refused |-> 0]

Asking(a, step) == asker[a].step = step
StepsTo(a, step) == asker' = [asker EXCEPT ![a].step = step]
IsOver(a) == asker' = [asker EXCEPT ![a] = NotAsking]

\* accessToken holds the row lock while Zoho is asked, until the outcome is stored.
RowLocked == \E a \in Askers : asker[a].step \in {"REQUEST", "STORE", "FAILED"}

\* Mutant: whoever was refused a token has a new one issued.
MutantUsable(refused) ==
    credential.token # 0 /\ refused = 0 /\ ~credential.expiring

\* The stored token serves, unless it is the one that was refused.
Usable(refused) ==
    credential.token \notin {0, refused} /\ ~credential.expiring

-----------------------------------------------------------------------------
(* accessToken. *)

StartRequest(a) ==
    /\ Asking(a, "DONE")
    /\ StepsTo(a, "TOKEN")
    /\ UNCHANGED <<credential, accepted, issued>>

LockToken(a) ==
    /\ Asking(a, "TOKEN") /\ ~RowLocked
    /\ asker' = [asker EXCEPT ![a] =
          IF Usable(@.refused) THEN [step |-> "SEND", token |-> credential.token, refused |-> @.refused]
          ELSE [@ EXCEPT !.step = "REQUEST"]]
    /\ UNCHANGED <<credential, accepted, issued>>

\* requestToken: the answer of Zoho may be lost.
IssueToken(a, answered) ==
    /\ Asking(a, "REQUEST") /\ issued < MaxIssued
    /\ issued' = issued + 1
    /\ accepted' = accepted \cup {issued'}
    /\ asker' = [asker EXCEPT ![a] =
          IF answered THEN [step |-> "STORE", token |-> issued', refused |-> @.refused]
          ELSE [@ EXCEPT !.step = "FAILED"]]
    /\ UNCHANGED credential

DenyToken(a) ==
    /\ Asking(a, "REQUEST")
    /\ StepsTo(a, "FAILED")
    /\ UNCHANGED <<credential, accepted, issued>>

StoreToken(a) ==
    /\ Asking(a, "STORE")
    /\ credential' = [token |-> asker[a].token, expiring |-> FALSE, failed |-> FALSE]
    /\ StepsTo(a, "SEND")
    /\ UNCHANGED <<accepted, issued>>

\* The failure is committed with the lock released, and ends the request.
StoreFailure(a) ==
    /\ Asking(a, "FAILED")
    /\ credential' = [credential EXCEPT !.failed = TRUE]
    /\ IsOver(a)
    /\ UNCHANGED <<accepted, issued>>

-----------------------------------------------------------------------------
(* ZohoHttp.request. *)

\* A refused token is replaced, and the request sent again, once.
AnswerRequest(a) ==
    /\ Asking(a, "SEND")
    /\ IF asker[a].token \in accepted \/ asker[a].refused # 0 THEN IsOver(a)
       ELSE asker' = [asker EXCEPT ![a] =
                        [step |-> "TOKEN", token |-> @.token, refused |-> @.token]]
    /\ UNCHANGED <<credential, accepted, issued>>

\* No answer in time, or the process dies.
RequestIsLost(a) ==
    /\ ~Asking(a, "DONE")
    /\ IsOver(a)
    /\ UNCHANGED <<credential, accepted, issued>>

-----------------------------------------------------------------------------
(* Zoho, and time. *)

\* REFRESH_MARGIN_MS before expires_at.
TokenNearsExpiry ==
    /\ credential.token # 0 /\ ~credential.expiring
    /\ credential' = [credential EXCEPT !.expiring = TRUE]
    /\ UNCHANGED <<accepted, issued, asker>>

TokenIsRevoked(t) ==
    /\ accepted' = accepted \ {t}
    /\ UNCHANGED <<credential, issued, asker>>

-----------------------------------------------------------------------------
TokensInit ==
    /\ credential = [token |-> 0, expiring |-> FALSE, failed |-> FALSE]
    /\ accepted = {} /\ issued = 0
    /\ asker = [a \in Askers |-> NotAsking]

TokensNext ==
    \/ \E a \in Askers :
          \/ StartRequest(a) \/ LockToken(a) \/ DenyToken(a)
          \/ StoreToken(a) \/ StoreFailure(a) \/ AnswerRequest(a) \/ RequestIsLost(a)
          \/ \E answered \in BOOLEAN : IssueToken(a, answered)
    \/ TokenNearsExpiry
    \/ \E t \in accepted : TokenIsRevoked(t)

TokensSpec == TokensInit /\ [][TokensNext]_zohoTokens

-----------------------------------------------------------------------------
(* "Instances never refresh at the same time (Zoho allows only ten token        *)
(* requests per ten minutes)": a token Zoho still accepts is replaced only      *)
(* when it is about to expire, however many requests were refused the one       *)
(* before it.                                                                   *)
GoodTokenIsKept ==
    [][ credential'.token # credential.token =>
           \/ credential.token \notin accepted
           \/ credential.expiring ]_zohoTokens
=============================================================================
