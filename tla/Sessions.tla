------------------------------ MODULE Sessions ------------------------------
(***************************************************************************)
(* The sessions of one person in one app: the server's auth_session rows   *)
(* and the app's HttpClient with its token store.                          *)
(*                                                                         *)
(* A session's tokens come in generations: refreshing replaces the pair    *)
(* (access token, refresh token) by the next one.  Calls of the app run    *)
(* concurrently; each takes its tokens from the store when it starts, and  *)
(* requests and answers take their time and can be lost.  The app is the   *)
(* only one that has the tokens.                                           *)
(***************************************************************************)
EXTENDS Naturals

CONSTANTS
    Calls,          \* calls of the app that may be under way
    SignIns,        \* sessions there are to start
    MaxGeneration   \* bound on the refreshes of a session

VARIABLES
    session,    \* auth_session
    fresh,      \* pairs whose access token has not expired
    store,      \* the app's TokenStore
    apiCall,    \* what each call is doing
    refreshing  \* the refresh under way (HttpClient.refreshing)

sessions == <<session, fresh, store, apiCall, refreshing>>

-----------------------------------------------------------------------------
Tokens == SignIns \X (0..MaxGeneration)
NoTokens == <<>>

\* lost: the answer to a refresh of it never arrived; late: a call refreshed it
\* with tokens that the store no longer had; ended: "NO", or why it ended.
NewSession == [generation |-> 0, ended |-> "NO", lost |-> FALSE, late |-> FALSE]
NotStarted == [NewSession EXCEPT !.ended = "NOT_STARTED"]
Live(s) == session[s].ended = "NO"

\* SENT: on its way to the server; OK, TOKEN_EXPIRED, SESSION_EXPIRED: the answer is
\* on its way back; WAITING: for a refresh.  A call is sent again at most once.
NoCall == [step |-> "NONE", with |-> NoTokens, again |-> FALSE, logout |-> FALSE]
NoRefresh == [step |-> "NONE", with |-> NoTokens, gets |-> NoTokens]

Under(c, step) == apiCall[c].step = step
Continues(c, step) == apiCall' = [apiCall EXCEPT ![c].step = step]

-----------------------------------------------------------------------------
(* The server. *)

\* SessionService.create, for an app that has no tokens.
SignIn(s) ==
    /\ session[s] = NotStarted /\ store = NoTokens
    /\ session' = [session EXCEPT ![s] = NewSession]
    /\ store' = <<s, 0>>
    /\ fresh' = fresh \cup {<<s, 0>>}
    /\ UNCHANGED <<apiCall, refreshing>>

\* AuthGuard: the access token's expiry is looked at first, then its session.
Serve(c) ==
    LET s == apiCall[c].with[1]
        served == apiCall[c].with \in fresh /\ Live(s)
    IN  /\ Under(c, "SENT")
        /\ Continues(c, IF apiCall[c].with \notin fresh THEN "TOKEN_EXPIRED"
                        ELSE IF Live(s) THEN "OK" ELSE "SESSION_EXPIRED")
        /\ session' = IF served /\ apiCall[c].logout
                      THEN [session EXCEPT ![s].ended = "LOGOUT"] ELSE session
        /\ UNCHANGED <<fresh, store, refreshing>>

AccessTokenExpires(pair) ==
    /\ pair \in fresh
    /\ fresh' = fresh \ {pair}
    /\ UNCHANGED <<session, store, apiCall, refreshing>>

\* It expires, or is ended from elsewhere: signing out everywhere, a new
\* password, a suspension.
SessionEnds(s) ==
    /\ Live(s)
    /\ session' = [session EXCEPT ![s].ended = "ENDED"]
    /\ UNCHANGED <<fresh, store, apiCall, refreshing>>

\* SessionService.refresh: the current refresh token is exchanged; the previous
\* one ends the session.
ServeRefresh(answered) ==
    LET s == refreshing.with[1]
        g == refreshing.with[2]
        exchanged == Live(s) /\ session[s].generation = g
    IN  /\ refreshing.step = "SENT"
        /\ exchanged => g < MaxGeneration
        /\ session' = IF exchanged
                      THEN [session EXCEPT ![s].generation = g + 1,
                                           ![s].lost = @ \/ ~answered]
                      ELSE IF Live(s) /\ session[s].generation = g + 1
                      THEN [session EXCEPT ![s].ended = "REFRESH_TOKEN_REUSED"]
                      ELSE session
        /\ fresh' = IF exchanged THEN fresh \cup {<<s, g + 1>>} ELSE fresh
        /\ refreshing' = [refreshing EXCEPT !.step = "ANSWERED",
                            !.gets = IF exchanged /\ answered THEN <<s, g + 1>> ELSE NoTokens]
        /\ UNCHANGED <<store, apiCall>>

-----------------------------------------------------------------------------
(* The app. *)

Begin(c, logout) ==
    /\ Under(c, "NONE") /\ store # NoTokens
    /\ apiCall' = [apiCall EXCEPT ![c] = [step |-> "SENT", with |-> store, again |-> FALSE,
                                    logout |-> logout]]
    /\ UNCHANGED <<session, fresh, store, refreshing>>

\* Signing out clears the store, whatever became of the call.
Ends(c) == apiCall' = [apiCall EXCEPT ![c] = NoCall]
StoreAfter(c, ended) == IF ended \/ apiCall[c].logout THEN NoTokens ELSE store

\* The call succeeded, or it failed for good: a session that is over is
\* forgotten, unless the call was a repeated one.
Answered(c) ==
    /\ \/ apiCall[c].step \in {"OK", "SESSION_EXPIRED"}
       \/ Under(c, "TOKEN_EXPIRED") /\ apiCall[c].again
    /\ Ends(c)
    /\ store' = StoreAfter(c, Under(c, "SESSION_EXPIRED") /\ ~apiCall[c].again)
    /\ UNCHANGED <<session, fresh, refreshing>>

\* No connection, or no answer in time, for a call or for the refresh.
CallTimesOut(c) ==
    /\ apiCall[c].step \notin {"NONE", "WAITING"}
    /\ Ends(c)
    /\ store' = StoreAfter(c, FALSE)
    /\ UNCHANGED <<session, fresh, refreshing>>

RefreshTimesOut ==
    /\ refreshing.step = "SENT"
    /\ refreshing' = [refreshing EXCEPT !.step = "ANSWERED"]
    /\ UNCHANGED <<session, fresh, store, apiCall>>

StartsRefresh(c) ==
    /\ refreshing' = [NoRefresh EXCEPT !.step = "SENT", !.with = apiCall[c].with]
    /\ session' = [session EXCEPT ![apiCall[c].with[1]].late = @ \/ store # apiCall[c].with]

\* The access token has expired: the call joins the refresh that is under way or
\* starts one, with the tokens it began with.
Expired(c) ==
    /\ Under(c, "TOKEN_EXPIRED") /\ ~apiCall[c].again
    /\ IF refreshing = NoRefresh THEN StartsRefresh(c) ELSE UNCHANGED <<refreshing, session>>
    /\ Continues(c, "WAITING")
    /\ UNCHANGED <<fresh, store>>

\* Mutant: the new tokens are used but not saved.
MutantRefreshed ==
    LET new == refreshing.gets
        waiting == {c \in Calls : Under(c, "WAITING")}
    IN  /\ refreshing.step = "ANSWERED"
        /\ refreshing' = NoRefresh
        /\ store' = IF new = NoTokens THEN new ELSE store
        /\ apiCall' = [c \in Calls |->
                      IF c \notin waiting THEN apiCall[c]
                      ELSE IF new = NoTokens THEN NoCall
                      ELSE [step |-> "SENT", with |-> new, again |-> TRUE,
                            logout |-> apiCall[c].logout]]
        /\ UNCHANGED <<session, fresh>>

\* The refresh has ended, for all calls that wait for it: they are sent again
\* with the new tokens, or fail and the store is cleared.
Refreshed ==
    LET new == refreshing.gets
        waiting == {c \in Calls : Under(c, "WAITING")}
    IN  /\ refreshing.step = "ANSWERED"
        /\ refreshing' = NoRefresh
        /\ store' = new
        /\ apiCall' = [c \in Calls |->
                      IF c \notin waiting THEN apiCall[c]
                      ELSE IF new = NoTokens THEN NoCall
                      ELSE [step |-> "SENT", with |-> new, again |-> TRUE,
                            logout |-> apiCall[c].logout]]
        /\ UNCHANGED <<session, fresh>>

-----------------------------------------------------------------------------
SessionsInit ==
    /\ session = [s \in SignIns |-> NotStarted]
    /\ fresh = {}
    /\ store = NoTokens
    /\ apiCall = [c \in Calls |-> NoCall]
    /\ refreshing = NoRefresh

SessionsNext ==
    \/ \E s \in SignIns : SignIn(s) \/ SessionEnds(s)
    \/ \E pair \in fresh : AccessTokenExpires(pair)
    \/ \E answered \in BOOLEAN : ServeRefresh(answered)
    \/ \E c \in Calls : Begin(c, TRUE) \/ Begin(c, FALSE) \/ Serve(c) \/ Answered(c)
                        \/ CallTimesOut(c) \/ Expired(c)
    \/ RefreshTimesOut \/ Refreshed

SessionsSpec == SessionsInit /\ [][SessionsNext]_sessions

-----------------------------------------------------------------------------
Reused(s) == session[s].ended = "REFRESH_TOKEN_REUSED"

\* The tokens in the store are never taken for copies, however calls, refreshes
\* and lost answers interleave: only a call that refreshes with tokens already
\* replaced can end the session as copied.
StoredTokensAreNotReused == \A s \in SignIns : Reused(s) => session[s].late

\* http.ts: "on an expired access token, refreshes once (shared by concurrent
\* calls)" -- so that, as long as no answer gets lost, the app is never taken for
\* somebody who copied its tokens.
AppIsNotACopy == \A s \in SignIns : Reused(s) => session[s].lost
=============================================================================
