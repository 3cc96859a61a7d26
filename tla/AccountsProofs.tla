--------------------------- MODULE AccountsProofs ---------------------------
(***************************************************************************)
(* Proofs about Sessions, for any calls of the app, about StaffAccess, for *)
(* any members and any requests of administrators, and about Consents, for *)
(* any legal documents and any requests of a person.                       *)
(***************************************************************************)
EXTENDS Sessions, StaffAccess, Consents, WellFoundedInduction, TLAPS

(***************************************************************************)
(* Sessions.  The tokens in the store are those of the current generation  *)
(* whenever no refresh is under way, and no refresh starts while another   *)
(* one is: so a refresh that began with the tokens of the store is served  *)
(* while they are current.                                                 *)
(***************************************************************************)
Pairs == SignIns \X Nat
Endings == {"NO", "NOT_STARTED", "LOGOUT", "ENDED", "REFRESH_TOKEN_REUSED"}
SessionRows == [generation : Nat, ended : Endings, lost : BOOLEAN, late : BOOLEAN]
CallSteps == {"NONE", "SENT", "OK", "TOKEN_EXPIRED", "SESSION_EXPIRED", "WAITING"}
CallRows == [step : CallSteps, with : Pairs \cup {NoTokens}, again : BOOLEAN, logout : BOOLEAN]
RefreshRows == [step : {"NONE", "SENT", "ANSWERED"}, with : Pairs \cup {NoTokens},
                gets : Pairs \cup {NoTokens}]

SessionsTypeOK ==
    /\ session \in [SignIns -> SessionRows]
    /\ store \in Pairs \cup {NoTokens}
    /\ apiCall \in [Calls -> CallRows]
    /\ refreshing \in RefreshRows

Started(pair) == pair \in Pairs /\ session[pair[1]].ended # "NOT_STARTED"
IsCurrent(pair) == session[pair[1]].generation = pair[2]

\* Tokens come from sessions that were started.
TokensAreStarted ==
    /\ store # NoTokens => Started(store)
    /\ \A c \in Calls : apiCall[c].step # "NONE" => Started(apiCall[c].with)
    /\ refreshing.step # "NONE" => Started(refreshing.with)
    /\ refreshing.gets # NoTokens => Started(refreshing.gets)

\* The store has the current tokens, or the answer that is on its way does.
TokensAreCurrent ==
    /\ refreshing.step = "NONE" /\ store # NoTokens => IsCurrent(store)
    /\ refreshing.gets # NoTokens => refreshing.step = "ANSWERED" /\ IsCurrent(refreshing.gets)
    /\ refreshing.step = "SENT" /\ ~session[refreshing.with[1]].late => IsCurrent(refreshing.with)

SessionsInv ==
    SessionsTypeOK /\ TokensAreStarted /\ TokensAreCurrent /\ StoredTokensAreNotReused

LEMMA NotStartedIs ==
  NotStarted \in SessionRows /\ NotStarted.ended = "NOT_STARTED"
<1>1. NewSession \in SessionRows
  BY DEF NewSession, SessionRows, Endings
<1> QED
  BY <1>1 DEF NotStarted, SessionRows, Endings

LEMMA SessionsInitHolds == SessionsInit => SessionsInv
<1> SUFFICES ASSUME SessionsInit PROVE SessionsInv
  OBVIOUS
<1>1. \A s \in SignIns : session[s] \in SessionRows /\ session[s].ended = "NOT_STARTED"
  BY NotStartedIs DEF SessionsInit
<1>2. SessionsTypeOK
  BY <1>1 DEF SessionsInit, SessionsTypeOK, CallRows, CallSteps,
              RefreshRows, NoCall, NoRefresh
<1>3. TokensAreStarted /\ TokensAreCurrent
  BY DEF SessionsInit, TokensAreStarted, TokensAreCurrent, NoCall, NoRefresh
<1>4. StoredTokensAreNotReused
  BY <1>1 DEF SessionsInit, StoredTokensAreNotReused, Reused
<1> QED
  BY <1>2, <1>3, <1>4 DEF SessionsInv

\* A pair of tokens is not the empty one.
LEMMA PairsAreTokens ==
  ASSUME NEW pair \in Pairs
  PROVE  pair # NoTokens /\ pair[1] \in SignIns /\ pair[2] \in Nat /\ pair = <<pair[1], pair[2]>>
BY DEF Pairs, NoTokens

\* Steps in which sessions at most end, or are refreshed late.
LEMMA SessionsGoOn ==
  ASSUME SessionsInv, session' \in [SignIns -> SessionRows],
         \A s \in SignIns :
            /\ session'[s].generation = session[s].generation
            /\ session'[s].ended = session[s].ended \/ session'[s].ended \in {"LOGOUT", "ENDED"}
            /\ session[s].late => session'[s].late
  PROVE  /\ \A pair \in Pairs : Started(pair) => Started(pair)'
         /\ \A pair \in Pairs : IsCurrent(pair) => IsCurrent(pair)'
         /\ StoredTokensAreNotReused'
<1>1. \A pair \in Pairs : pair[1] \in SignIns
  BY DEF Pairs
<1> QED
  BY <1>1 DEF SessionsInv, Started, IsCurrent, StoredTokensAreNotReused, Reused

\* Calls that go on or end, while neither tokens nor sessions change.
LEMMA CallsGoOn ==
  ASSUME SessionsInv, UNCHANGED refreshing,
         session' \in [SignIns -> SessionRows],
         \A s \in SignIns :
            /\ session'[s].generation = session[s].generation
            /\ session'[s].ended = session[s].ended \/ session'[s].ended \in {"LOGOUT", "ENDED"}
            /\ session'[s].late = session[s].late,
         apiCall' \in [Calls -> CallRows],
         \A c \in Calls : apiCall'[c].step # "NONE" =>
            \/ apiCall[c].step # "NONE" /\ apiCall'[c].with = apiCall[c].with
            \/ apiCall'[c].with = store /\ store # NoTokens,
         store' \in {store, NoTokens}
  PROVE  SessionsInv'
<1>1. /\ \A pair \in Pairs : Started(pair) => Started(pair)'
      /\ \A pair \in Pairs : IsCurrent(pair) => IsCurrent(pair)'
      /\ StoredTokensAreNotReused'
  BY SessionsGoOn
<1>2. SessionsTypeOK'
  BY DEF SessionsInv, SessionsTypeOK
<1>3. TokensAreStarted'
  BY <1>1 DEF SessionsInv, TokensAreStarted, Started
<1>4. TokensAreCurrent'
  <2>1. refreshing.step # "NONE" => refreshing.with[1] \in SignIns /\ refreshing.with \in Pairs
    BY DEF SessionsInv, TokensAreStarted, Started, Pairs
  <2>2. refreshing.gets # NoTokens => refreshing.gets \in Pairs
    BY DEF SessionsInv, TokensAreStarted, Started
  <2>3. store # NoTokens => store \in Pairs
    BY DEF SessionsInv, TokensAreStarted, Started
  <2> QED
    BY <1>1, <2>1, <2>2, <2>3 DEF SessionsInv, TokensAreCurrent
<1> QED
  BY <1>1, <1>2, <1>3, <1>4 DEF SessionsInv

LEMMA SignInHolds ==
  ASSUME SessionsInv, NEW s \in SignIns, SignIn(s)
  PROVE  SessionsInv'
<1>1. /\ session[s] = NotStarted /\ store = NoTokens /\ store' = <<s, 0>>
      /\ session' = [session EXCEPT ![s] = NewSession] /\ UNCHANGED <<apiCall, refreshing>>
  BY DEF SignIn
<1>2. session[s].ended = "NOT_STARTED"
  BY <1>1, NotStartedIs
<1>3. NewSession \in SessionRows /\ NewSession.ended = "NO" /\ NewSession.generation = 0
  BY DEF NewSession, SessionRows, Endings
<1>4. <<s, 0>> \in Pairs /\ <<s, 0>> # NoTokens
  BY PairsAreTokens DEF Pairs
<1>5. /\ session'[s] = NewSession
      /\ \A q \in SignIns \ {s} : session'[q] = session[q]
  BY <1>1 DEF SessionsInv, SessionsTypeOK
<1>6. SessionsTypeOK'
  BY <1>1, <1>3, <1>4 DEF SessionsInv, SessionsTypeOK
<1>7. \A pair \in Pairs : Started(pair) =>
        pair[1] # s /\ Started(pair)' /\ (IsCurrent(pair) <=> IsCurrent(pair)')
  <2> SUFFICES ASSUME NEW pair \in Pairs, Started(pair)
               PROVE  pair[1] # s /\ Started(pair)' /\ (IsCurrent(pair) <=> IsCurrent(pair)')
    OBVIOUS
  <2>1. pair[1] # s /\ pair[1] \in SignIns
    BY <1>2, PairsAreTokens DEF Started
  <2> QED
    BY <1>5, <2>1 DEF Started, IsCurrent
<1>8. Started(<<s, 0>>)' /\ IsCurrent(<<s, 0>>)'
  BY <1>3, <1>4, <1>5 DEF Started, IsCurrent
<1>9. TokensAreStarted'
  BY <1>1, <1>7, <1>8 DEF SessionsInv, TokensAreStarted, Started
<1>10. TokensAreCurrent'
  <2>1. refreshing.step # "NONE" => Started(refreshing.with) /\ refreshing.with \in Pairs
    BY DEF SessionsInv, TokensAreStarted, Started
  <2>2. refreshing.gets # NoTokens => Started(refreshing.gets) /\ refreshing.gets \in Pairs
    BY DEF SessionsInv, TokensAreStarted, Started
  <2>3. refreshing.step # "NONE" => session'[refreshing.with[1]] = session[refreshing.with[1]]
    BY <1>5, <1>7, <2>1, PairsAreTokens
  <2> QED
    BY <1>1, <1>7, <1>8, <2>1, <2>2, <2>3 DEF SessionsInv, TokensAreCurrent
<1>11. StoredTokensAreNotReused'
  BY <1>3, <1>5 DEF SessionsInv, StoredTokensAreNotReused, Reused
<1> QED
  BY <1>6, <1>9, <1>10, <1>11 DEF SessionsInv

\* The row of s with another end.
LEMMA EndMoves ==
  ASSUME SessionsTypeOK, NEW s \in SignIns, NEW e \in Endings,
         session' = [session EXCEPT ![s].ended = e]
  PROVE  /\ session' \in [SignIns -> SessionRows]
         /\ session'[s].ended = e /\ session'[s].generation = session[s].generation
         /\ session'[s].late = session[s].late
         /\ \A q \in SignIns \ {s} : session'[q] = session[q]
<1>1. session[s] \in SessionRows
  BY DEF SessionsTypeOK
<1>2. session'[s] = [session[s] EXCEPT !.ended = e]
  BY DEF SessionsTypeOK
<1> QED
  BY <1>1, <1>2 DEF SessionsTypeOK, SessionRows

LEMMA SessionEndsHolds ==
  ASSUME SessionsInv, NEW s \in SignIns, SessionEnds(s)
  PROVE  SessionsInv'
<1>1. session' = [session EXCEPT ![s].ended = "ENDED"] /\ UNCHANGED <<store, apiCall, refreshing>>
  BY DEF SessionEnds
<1>2. SessionsTypeOK /\ "ENDED" \in Endings
  BY DEF SessionsInv, Endings
<1>3. /\ session' \in [SignIns -> SessionRows]
      /\ \A q \in SignIns :
            /\ session'[q].generation = session[q].generation
            /\ session'[q].ended = session[q].ended \/ session'[q].ended \in {"LOGOUT", "ENDED"}
            /\ session'[q].late = session[q].late
  BY <1>1, <1>2, EndMoves
<1> QED
  BY <1>1, <1>2, <1>3, CallsGoOn DEF SessionsTypeOK

\* A call at another step.
LEMMA ApiCallMoves ==
  ASSUME SessionsTypeOK, NEW c \in Calls, NEW step \in CallSteps, Continues(c, step)
  PROVE  /\ apiCall' \in [Calls -> CallRows]
         /\ \A b \in Calls : apiCall'[b].with = apiCall[b].with
         /\ \A b \in Calls \ {c} : apiCall'[b] = apiCall[b]
<1>1. apiCall[c] \in CallRows
  BY DEF SessionsTypeOK
<1>2. apiCall'[c] = [apiCall[c] EXCEPT !.step = step]
  BY DEF Continues, SessionsTypeOK
<1>3. \A b \in Calls \ {c} : apiCall'[b] = apiCall[b]
  BY DEF Continues, SessionsTypeOK
<1>4. DOMAIN apiCall' = Calls /\ apiCall' = [b \in Calls |-> apiCall'[b]]
  BY DEF Continues, SessionsTypeOK
<1> QED
  BY <1>1, <1>2, <1>3, <1>4 DEF SessionsTypeOK, CallRows

LEMMA ServeHolds ==
  ASSUME SessionsInv, NEW c \in Calls, Serve(c)
  PROVE  SessionsInv'
<1> DEFINE s == apiCall[c].with[1]
<1>1. SessionsTypeOK /\ apiCall[c].step # "NONE" /\ UNCHANGED <<store, refreshing>>
  BY DEF SessionsInv, Serve, Under
<1>2. s \in SignIns
  BY <1>1, PairsAreTokens DEF SessionsInv, TokensAreStarted, Started
<1>3. PICK step \in {"OK", "TOKEN_EXPIRED", "SESSION_EXPIRED"} : Continues(c, step)
  BY DEF Serve
<1>4. /\ apiCall' \in [Calls -> CallRows]
      /\ \A b \in Calls : apiCall'[b].with = apiCall[b].with
      /\ \A b \in Calls \ {c} : apiCall'[b] = apiCall[b]
  <2>1. step \in CallSteps
    BY DEF CallSteps
  <2> QED
    BY <1>1, <1>3, <2>1, ApiCallMoves
<1>5. /\ session' \in [SignIns -> SessionRows]
      /\ \A q \in SignIns :
            /\ session'[q].generation = session[q].generation
            /\ session'[q].ended = session[q].ended \/ session'[q].ended \in {"LOGOUT", "ENDED"}
            /\ session'[q].late = session[q].late
  <2>1. CASE UNCHANGED session
    BY <1>1, <2>1 DEF SessionsTypeOK
  <2>2. CASE session' = [session EXCEPT ![s].ended = "LOGOUT"]
    <3>1. "LOGOUT" \in Endings
      BY DEF Endings
    <3> HIDE DEF s
    <3> QED
      BY <1>1, <1>2, <2>2, <3>1, EndMoves
  <2> QED
    BY <2>1, <2>2 DEF Serve
<1> QED
  BY <1>1, <1>4, <1>5, CallsGoOn

LEMMA BeginHolds ==
  ASSUME SessionsInv, NEW c \in Calls, NEW logout \in BOOLEAN, Begin(c, logout)
  PROVE  SessionsInv'
<1>1. /\ SessionsTypeOK /\ store # NoTokens /\ UNCHANGED <<session, store, refreshing>>
      /\ apiCall' = [apiCall EXCEPT ![c] = [step |-> "SENT", with |-> store, again |-> FALSE,
                                            logout |-> logout]]
  BY DEF SessionsInv, Begin
<1>2. apiCall' \in [Calls -> CallRows]
  BY <1>1 DEF SessionsTypeOK, CallRows, CallSteps
<1>3. \A b \in Calls : apiCall'[b] = apiCall[b] \/ apiCall'[b].with = store
  BY <1>1 DEF SessionsTypeOK
<1> QED
  BY <1>1, <1>2, <1>3, CallsGoOn DEF SessionsTypeOK

LEMMA CallEndsHolds ==
  ASSUME SessionsInv, NEW c \in Calls, Answered(c) \/ CallTimesOut(c)
  PROVE  SessionsInv'
<1>1. /\ SessionsTypeOK /\ UNCHANGED <<session, refreshing>>
      /\ Ends(c) /\ store' \in {store, NoTokens}
  BY DEF SessionsInv, Answered, CallTimesOut, StoreAfter
<1>2. NoCall \in CallRows /\ NoCall.step = "NONE"
  BY DEF NoCall, CallRows, CallSteps
<1>3. /\ apiCall' \in [Calls -> CallRows]
      /\ \A b \in Calls : apiCall'[b] = apiCall[b] \/ apiCall'[b] = NoCall
  BY <1>1, <1>2 DEF SessionsTypeOK, Ends
<1> QED
  BY <1>1, <1>2, <1>3, CallsGoOn DEF SessionsTypeOK

LEMMA ExpiredHolds ==
  ASSUME SessionsInv, NEW c \in Calls, Expired(c)
  PROVE  SessionsInv'
<1> DEFINE with == apiCall[c].with
           s == with[1]
<1>1. SessionsTypeOK /\ apiCall[c].step # "NONE" /\ UNCHANGED store
  BY DEF SessionsInv, Expired, Under
<1>2. Started(with) /\ with \in Pairs /\ s \in SignIns
  BY <1>1, PairsAreTokens DEF SessionsInv, TokensAreStarted, Started
<1>3. /\ apiCall' \in [Calls -> CallRows]
      /\ \A b \in Calls : apiCall'[b].with = apiCall[b].with
      /\ \A b \in Calls \ {c} : apiCall'[b] = apiCall[b]
  BY <1>1, ApiCallMoves DEF Expired, CallSteps
<1>4. CASE UNCHANGED <<refreshing, session>>
  BY <1>1, <1>3, <1>4, CallsGoOn DEF SessionsTypeOK
<1>5. CASE refreshing = NoRefresh /\ StartsRefresh(c)
  <2>1. refreshing' = [step |-> "SENT", with |-> with, gets |-> NoTokens]
    BY <1>5 DEF StartsRefresh, NoRefresh
  <2>2. session' = [session EXCEPT ![s].late = @ \/ store # with]
    BY <1>5 DEF StartsRefresh
  <2> HIDE DEF with, s
  <2>3. session'[s] = [session[s] EXCEPT !.late = session[s].late \/ store # with]
    BY <1>1, <1>2, <2>2 DEF SessionsTypeOK
  <2>4. /\ session' \in [SignIns -> SessionRows]
        /\ \A q \in SignIns :
              /\ session'[q].generation = session[q].generation
              /\ session'[q].ended = session[q].ended
              /\ session[q].late => session'[q].late
        /\ session'[s].late \/ store = with
    <3>1. session[s] \in SessionRows
      BY <1>1, <1>2 DEF SessionsTypeOK
    <3>2. session'[s] \in SessionRows /\ session'[s].generation = session[s].generation
          /\ session'[s].ended = session[s].ended
          /\ (session[s].late => session'[s].late) /\ (session'[s].late \/ store = with)
      BY <2>3, <3>1 DEF SessionRows
    <3>3. \A q \in SignIns \ {s} : session'[q] = session[q]
      BY <1>1, <2>2 DEF SessionsTypeOK
    <3>4. session' = [q \in SignIns |-> session'[q]]
      BY <1>1, <2>2 DEF SessionsTypeOK
    <3> QED
      BY <1>1, <3>2, <3>3, <3>4 DEF SessionsTypeOK
  <2>5. /\ \A pair \in Pairs : Started(pair) => Started(pair)'
        /\ \A pair \in Pairs : IsCurrent(pair) => IsCurrent(pair)'
        /\ StoredTokensAreNotReused'
    BY <2>4, SessionsGoOn
  <2>6. SessionsTypeOK'
    BY <1>1, <1>2, <1>3, <2>1, <2>4 DEF SessionsTypeOK, RefreshRows
  <2>7. TokensAreStarted'
    BY <1>1, <1>2, <1>3, <2>1, <2>5 DEF SessionsInv, TokensAreStarted, Started, with
  <2>8. TokensAreCurrent'
    <3>1. store = with => IsCurrent(with)
      BY <1>2, <1>5, PairsAreTokens DEF SessionsInv, TokensAreCurrent, NoRefresh
    <3> QED
      BY <1>2, <2>1, <2>4, <2>5, <3>1 DEF TokensAreCurrent, s
  <2> QED
    BY <2>5, <2>6, <2>7, <2>8 DEF SessionsInv
<1> QED
  BY <1>4, <1>5 DEF Expired

\* The answer to the refresh under way, or none.
LEMMA RefreshAnswered ==
  ASSUME SessionsTypeOK, refreshing.step = "SENT", NEW gets \in Pairs \cup {NoTokens},
         refreshing' = [refreshing EXCEPT !.step = "ANSWERED", !.gets = gets]
  PROVE  /\ refreshing' \in RefreshRows /\ refreshing'.step = "ANSWERED"
         /\ refreshing'.with = refreshing.with /\ refreshing'.gets = gets
BY DEF SessionsTypeOK, RefreshRows

LEMMA ServeRefreshHolds ==
  ASSUME SessionsInv, NEW answered \in BOOLEAN, ServeRefresh(answered)
  PROVE  SessionsInv'
<1> DEFINE s == refreshing.with[1]
           g == refreshing.with[2]
           exchanged == Live(s) /\ session[s].generation = g
           gets == IF exchanged /\ answered THEN <<s, g + 1>> ELSE NoTokens
<1>1. SessionsTypeOK /\ refreshing.step = "SENT" /\ UNCHANGED <<store, apiCall>>
  BY DEF SessionsInv, ServeRefresh
<1>2. Started(refreshing.with) /\ s \in SignIns /\ g \in Nat
  BY <1>1, PairsAreTokens DEF SessionsInv, TokensAreStarted, Started
<1>3. <<s, g + 1>> \in Pairs /\ <<s, g + 1>> # NoTokens
  BY <1>2, PairsAreTokens DEF Pairs
<1>4. /\ refreshing' \in RefreshRows /\ refreshing'.step = "ANSWERED"
      /\ refreshing'.with = refreshing.with /\ refreshing'.gets = gets
  <2>1. gets \in Pairs \cup {NoTokens}
    BY <1>3
  <2>2. refreshing' = [refreshing EXCEPT !.step = "ANSWERED", !.gets = gets]
    BY DEF ServeRefresh
  <2> HIDE DEF gets
  <2> QED
    BY <1>1, <2>1, <2>2, RefreshAnswered
<1>5. session[s] \in SessionRows
  BY <1>1, <1>2 DEF SessionsTypeOK
<1>6. /\ session' \in [SignIns -> SessionRows]
      /\ \A q \in SignIns \ {s} : session'[q] = session[q]
      /\ session'[s].late = session[s].late
      /\ session'[s].ended # "NOT_STARTED"
      /\ session'[s].ended = "REFRESH_TOKEN_REUSED" => session[s].late
      /\ exchanged => session'[s].generation = g + 1
  <2>1. CASE exchanged
    <3>1. session' = [session EXCEPT ![s].generation = g + 1, ![s].lost = @ \/ ~answered]
      BY <2>1 DEF ServeRefresh
    <3> HIDE DEF s, g
    <3>2. session'[s] = [session[s] EXCEPT !.generation = g + 1,
                                           !.lost = session[s].lost \/ ~answered]
      BY <1>1, <1>2, <3>1 DEF SessionsTypeOK
    <3>3. /\ session'[s] \in SessionRows /\ session'[s].generation = g + 1
          /\ session'[s].late = session[s].late /\ session'[s].ended = session[s].ended
      <4>1. session[s] = [generation |-> session[s].generation, ended |-> session[s].ended,
                          lost |-> session[s].lost, late |-> session[s].late]
        BY <1>5 DEF SessionRows
      <4>2. session'[s] = [generation |-> g + 1, ended |-> session[s].ended,
                           lost |-> session[s].lost \/ ~answered, late |-> session[s].late]
        BY <3>2, <4>1
      <4>3. [generation |-> g + 1, ended |-> session[s].ended,
             lost |-> session[s].lost \/ ~answered, late |-> session[s].late] \in SessionRows
        BY <1>2, <1>5 DEF SessionRows
      <4> QED
        BY <4>2, <4>3
    <3>4. \A q \in SignIns \ {s} : session'[q] = session[q]
      BY <1>1, <3>1 DEF SessionsTypeOK
    <3>5. session' = [q \in SignIns |-> session'[q]]
      BY <1>1, <3>1 DEF SessionsTypeOK
    <3>6. session[s].ended = "NO"
      BY <2>1 DEF Live
    <3> QED
      BY <1>1, <3>3, <3>4, <3>5, <3>6 DEF SessionsTypeOK
  <2>2. CASE Live(s) /\ session[s].generation = g + 1
    <3>1. session' = [session EXCEPT ![s].ended = "REFRESH_TOKEN_REUSED"]
      BY <1>2, <2>2 DEF ServeRefresh
    <3>2. "REFRESH_TOKEN_REUSED" \in Endings
      BY DEF Endings
    <3>3. session[s].late
      BY <1>1, <1>2, <2>2 DEF SessionsInv, TokensAreCurrent, IsCurrent
    <3>4. ~ exchanged
      BY <1>2, <2>2
    <3> HIDE DEF s, g, exchanged
    <3> QED
      BY <1>1, <1>2, <3>1, <3>2, <3>3, <3>4, EndMoves
  <2>3. CASE ~ exchanged /\ ~(Live(s) /\ session[s].generation = g + 1)
    <3>1. UNCHANGED session
      BY <2>3 DEF ServeRefresh
    <3> QED
      BY <1>1, <1>2, <2>3, <3>1
         DEF SessionsInv, SessionsTypeOK, Started, StoredTokensAreNotReused, Reused
  <2> QED
    BY <2>1, <2>2, <2>3
<1> HIDE DEF exchanged, s, g
<1>7. SessionsTypeOK'
  BY <1>1, <1>4, <1>6 DEF SessionsTypeOK
<1>8. \A pair \in Pairs : Started(pair) => Started(pair)'
  BY <1>6, PairsAreTokens DEF Started
<1>9. TokensAreStarted'
  <2>1. gets # NoTokens => gets \in Pairs /\ session'[gets[1]].ended # "NOT_STARTED"
    <3>1. <<s, g + 1>>[1] = s
      OBVIOUS
    <3> QED
      BY <1>3, <1>6, <3>1
  <2> QED
    BY <1>1, <1>4, <1>8, <2>1 DEF SessionsInv, TokensAreStarted, Started
<1>10. TokensAreCurrent'
  BY <1>1, <1>3, <1>4, <1>6 DEF TokensAreCurrent, IsCurrent
<1>11. StoredTokensAreNotReused'
  BY <1>2, <1>6 DEF SessionsInv, StoredTokensAreNotReused, Reused
<1> QED
  BY <1>7, <1>9, <1>10, <1>11 DEF SessionsInv

LEMMA RefreshTimesOutHolds ==
  ASSUME SessionsInv, RefreshTimesOut
  PROVE  SessionsInv'
<1>1. /\ SessionsTypeOK /\ UNCHANGED <<session, store, apiCall>>
      /\ refreshing.step = "SENT" /\ refreshing' = [refreshing EXCEPT !.step = "ANSWERED"]
  BY DEF SessionsInv, RefreshTimesOut
<1>2. /\ refreshing' \in RefreshRows /\ refreshing'.step = "ANSWERED"
      /\ refreshing'.with = refreshing.with /\ refreshing'.gets = refreshing.gets
  BY <1>1 DEF SessionsTypeOK, RefreshRows
<1>3. SessionsTypeOK' /\ TokensAreStarted'
  BY <1>1, <1>2 DEF SessionsInv, SessionsTypeOK, TokensAreStarted, Started
<1>4. TokensAreCurrent' /\ StoredTokensAreNotReused'
  BY <1>1, <1>2
     DEF SessionsInv, TokensAreCurrent, IsCurrent, StoredTokensAreNotReused, Reused
<1> QED
  BY <1>3, <1>4 DEF SessionsInv

LEMMA RefreshedHolds ==
  ASSUME SessionsInv, Refreshed
  PROVE  SessionsInv'
<1> DEFINE new == refreshing.gets
<1>1. /\ SessionsTypeOK /\ UNCHANGED session
      /\ refreshing' = [step |-> "NONE", with |-> NoTokens, gets |-> NoTokens] /\ store' = new
  BY DEF SessionsInv, Refreshed, NoRefresh
<1>2. new # NoTokens => Started(new) /\ IsCurrent(new)
  BY DEF SessionsInv, TokensAreStarted, TokensAreCurrent
<1>3. NoCall \in CallRows /\ NoCall.step = "NONE" /\ new \in Pairs \cup {NoTokens}
  BY <1>1 DEF NoCall, CallRows, CallSteps, SessionsTypeOK, RefreshRows
<1>4. /\ apiCall' \in [Calls -> CallRows]
      /\ \A c \in Calls : \/ apiCall'[c] = apiCall[c] \/ apiCall'[c] = NoCall
                          \/ apiCall'[c].with = new /\ new # NoTokens
  <2>1. apiCall' = [c \in Calls |->
                      IF c \notin {b \in Calls : Under(b, "WAITING")} THEN apiCall[c]
                      ELSE IF new = NoTokens THEN NoCall
                      ELSE [step |-> "SENT", with |-> new, again |-> TRUE,
                            logout |-> apiCall[c].logout]]
    BY DEF Refreshed
  <2> HIDE DEF new
  <2>2. ASSUME NEW c \in Calls
        PROVE  /\ apiCall'[c] \in CallRows
               /\ \/ apiCall'[c] = apiCall[c] \/ apiCall'[c] = NoCall
                  \/ apiCall'[c].with = new /\ new # NoTokens
    <3>1. apiCall[c] \in CallRows
      BY <1>1 DEF SessionsTypeOK
    <3>2. [step |-> "SENT", with |-> new, again |-> TRUE, logout |-> apiCall[c].logout]
            \in CallRows
      BY <1>3, <3>1 DEF CallRows, CallSteps
    <3> QED
      BY <1>3, <2>1, <3>1, <3>2
  <2> QED
    BY <2>1, <2>2
<1>5. SessionsTypeOK'
  BY <1>1, <1>3, <1>4 DEF SessionsTypeOK, RefreshRows
<1>6. TokensAreStarted'
  BY <1>1, <1>2, <1>3, <1>4 DEF SessionsInv, TokensAreStarted, Started
<1>7. TokensAreCurrent' /\ StoredTokensAreNotReused'
  BY <1>1, <1>2 DEF SessionsInv, TokensAreCurrent, IsCurrent, StoredTokensAreNotReused, Reused
<1> QED
  BY <1>5, <1>6, <1>7 DEF SessionsInv

LEMMA SessionsStepHolds == SessionsInv /\ [SessionsNext]_sessions => SessionsInv'
<1> SUFFICES ASSUME SessionsInv, [SessionsNext]_sessions PROVE SessionsInv'
  OBVIOUS
<1>1. CASE UNCHANGED <<session, store, apiCall, refreshing>>
  <2>1. SessionsTypeOK' /\ TokensAreStarted'
    BY <1>1 DEF SessionsInv, SessionsTypeOK, TokensAreStarted, Started
  <2>2. TokensAreCurrent' /\ StoredTokensAreNotReused'
    BY <1>1 DEF SessionsInv, TokensAreCurrent, IsCurrent, StoredTokensAreNotReused, Reused
  <2> QED
    BY <2>1, <2>2 DEF SessionsInv
<1>2. CASE \E s \in SignIns : SignIn(s) \/ SessionEnds(s)
  BY <1>2, SignInHolds, SessionEndsHolds
<1>3. CASE \E pair \in fresh : AccessTokenExpires(pair)
  BY <1>1, <1>3 DEF AccessTokenExpires
<1>4. CASE \E answered \in BOOLEAN : ServeRefresh(answered)
  BY <1>4, ServeRefreshHolds
<1>5. CASE \E c \in Calls : Begin(c, TRUE) \/ Begin(c, FALSE) \/ Serve(c) \/ Answered(c)
                            \/ CallTimesOut(c) \/ Expired(c)
  BY <1>5, BeginHolds, ServeHolds, CallEndsHolds, ExpiredHolds
<1>6. CASE RefreshTimesOut \/ Refreshed
  BY <1>6, RefreshTimesOutHolds, RefreshedHolds
<1> QED
  BY <1>1, <1>2, <1>3, <1>4, <1>5, <1>6 DEF SessionsNext, sessions

LEMMA SessionsInvariant == SessionsSpec => []SessionsInv
<1>1. SessionsInit => SessionsInv
  BY SessionsInitHolds
<1>2. SessionsInv /\ [SessionsNext]_sessions => SessionsInv'
  BY SessionsStepHolds
<1> QED
  BY <1>1, <1>2, PTL DEF SessionsSpec

\* However many calls find their access token expired at once, and whichever
\* answers get lost, the server takes the app for a thief only if a call
\* refreshed with tokens that had been replaced already.
THEOREM CurrentTokensAreTrusted == SessionsSpec => []StoredTokensAreNotReused
<1>1. SessionsInv => StoredTokensAreNotReused
  BY DEF SessionsInv
<1> QED
  BY <1>1, SessionsInvariant, PTL

-----------------------------------------------------------------------------
(***************************************************************************)
(* StaffAccess.  A request that may write has locked its target and, when  *)
(* it takes an administrator away, another one; as long as it holds those  *)
(* locks nobody else can take that other one away.                         *)
(***************************************************************************)
Kinds == {"SUSPEND", "ACTIVATE", "GRANT", "REVOKE"}
TakesAway == {"SUSPEND", "REVOKE"}

ChangeRows == [step : {"LOCK", "LOOK", "TAKE", "WRITE"}, target : Members, kind : Kinds,
               locks : SUBSET Members, todo : SUBSET Members, others : SUBSET Members]

ChangesTypeOK ==
    /\ account \in [Members -> {"NONE", "ACTIVE", "SUSPENDED"}]
    /\ admins \subseteq Members
    /\ change \in [Changes -> ChangeRows \cup {NoChange}]

\* What a request at each step has locked and seen.
ChangeOK(x) ==
    LET c == change[x]
    IN  /\ c.step \in {"LOOK", "TAKE", "WRITE"} => c.target \in c.locks
        /\ c.step = "TAKE" => c.target \notin c.todo
        /\ c.step \in {"LOCK", "LOOK"} => c.others = {}
        /\ c.step \in {"TAKE", "WRITE"} /\ c.kind \in TakesAway =>
              c.others \subseteq (c.locks \cap ActiveAdmins) \ {c.target}
        /\ c.step = "WRITE" /\ c.kind \in TakesAway => c.others # {}
        /\ c.step \in {"LOOK", "TAKE"} => c.kind \in TakesAway

Holds(x, p) == change[x].step # "NONE" /\ p \in change[x].locks

\* A row is locked by one request at a time.
LocksExclude ==
    \A x, y \in Changes, p \in Members : Holds(x, p) /\ Holds(y, p) => x = y

ChangesInv ==
    ChangesTypeOK /\ (\A x \in Changes : ChangeOK(x)) /\ LocksExclude /\ SomebodyAdministers

LEMMA ChangesInitHolds == StaffInit => ChangesInv
<1> SUFFICES ASSUME StaffInit PROVE ChangesInv
  OBVIOUS
<1>1. ChangesTypeOK
  BY DEF StaffInit, ChangesTypeOK
<1>2. \A x \in Changes : change[x] = NoChange /\ change[x].step = "NONE"
  BY DEF StaffInit, NoChange
<1> QED
  BY <1>1, <1>2 DEF StaffInit, ChangesInv, ChangeOK, LocksExclude, Holds, SomebodyAdministers

\* A request moves on without giving up or losing anybody.
LEMMA RequestGoesOn ==
  ASSUME ChangesInv, NEW x \in Changes, NEW row \in ChangeRows \cup {NoChange},
         change' = [change EXCEPT ![x] = row], UNCHANGED <<account, admins>>, ChangeOK(x)',
         row.step # "NONE" => \A p \in row.locks : Holds(x, p) \/ ~HeldByOthers(p, x)
  PROVE  ChangesInv'
<1>1. change'[x] = row /\ \A y \in Changes \ {x} : change'[y] = change[y]
  BY DEF ChangesInv, ChangesTypeOK
<1>2. ChangesTypeOK'
  BY DEF ChangesInv, ChangesTypeOK
<1>3. ASSUME NEW y \in Changes PROVE ChangeOK(y)'
  <2>1. CASE y = x
    BY <2>1
  <2>2. CASE y # x
    BY <1>1, <2>2 DEF ChangesInv, ChangeOK, ActiveAdmins
  <2> QED
    BY <2>1, <2>2
<1>4. LocksExclude'
  <2>1. ASSUME NEW y \in Changes \ {x}, NEW p \in Members, Holds(x, p)', Holds(y, p)'
        PROVE  FALSE
    <3>1. Holds(y, p) /\ p \in row.locks /\ row.step # "NONE"
      BY <1>1, <2>1 DEF Holds
    <3>2. HeldByOthers(p, x)
      BY <3>1 DEF HeldByOthers, Holds
    <3> QED
      BY <2>1, <3>1, <3>2 DEF ChangesInv, LocksExclude
  <2>2. ASSUME NEW y \in Changes \ {x}, NEW z \in Changes \ {x}, NEW p \in Members,
               Holds(y, p)', Holds(z, p)'
        PROVE  y = z
    BY <1>1, <2>2 DEF ChangesInv, LocksExclude, Holds
  <2> QED
    BY <2>1, <2>2 DEF LocksExclude
<1> QED
  BY <1>2, <1>3, <1>4 DEF ChangesInv, SomebodyAdministers, ActiveAdmins

\* A request that ends, at any time.
LEMMA RequestEnds ==
  ASSUME ChangesInv, NEW x \in Changes, ChangeEnds(x), UNCHANGED <<account, admins>>
  PROVE  ChangesInv'
<1>1. ChangeOK(x)'
  BY DEF ChangeEnds, NoChange, ChangeOK, ChangesInv, ChangesTypeOK
<1> QED
  BY <1>1, RequestGoesOn DEF ChangeEnds, NoChange

LEMMA AskHolds ==
  ASSUME ChangesInv, NEW x \in Changes, NEW actor \in Members, NEW target \in Members,
         NEW kind \in Kinds, AskForChange(x, actor, target, kind)
  PROVE  ChangesInv'
<1> DEFINE row == [step |-> "LOCK", target |-> target, kind |-> kind,
                   locks |-> {}, todo |-> {}, others |-> {}]
<1>1. change' = [change EXCEPT ![x] = row] /\ UNCHANGED <<account, admins>>
  BY DEF AskForChange
<1>2. row \in ChangeRows /\ row.locks = {} /\ row.step = "LOCK" /\ row.others = {}
  BY DEF ChangeRows
<1> HIDE DEF row
<1>3. ChangeOK(x)'
  BY <1>1, <1>2 DEF ChangeOK, ChangesInv, ChangesTypeOK
<1> QED
  BY <1>1, <1>2, <1>3, RequestGoesOn

LEMMA RequestIs ==
  ASSUME ChangesInv, NEW x \in Changes, change[x].step # "NONE"
  PROVE  change[x] \in ChangeRows
BY DEF ChangesInv, ChangesTypeOK, NoChange

\* What a request holds at another step of its transaction.
LEMMA RequestMoves ==
  ASSUME ChangesInv, NEW x \in Changes, change[x].step # "NONE",
         NEW step \in {"LOCK", "LOOK", "TAKE", "WRITE"},
         NEW locks \in SUBSET Members, NEW todo \in SUBSET Members, NEW others \in SUBSET Members,
         Goes(x, step, locks, todo, others), UNCHANGED <<account, admins>>,
         step # "LOCK" => change[x].target \in locks,
         step = "TAKE" => change[x].target \notin todo,
         step \in {"LOCK", "LOOK"} => others = {},
         step \in {"TAKE", "WRITE"} /\ change[x].kind \in TakesAway =>
            others \subseteq (locks \cap ActiveAdmins) \ {change[x].target},
         step = "WRITE" /\ change[x].kind \in TakesAway => others # {},
         step \in {"LOOK", "TAKE"} => change[x].kind \in TakesAway,
         \A p \in locks : Holds(x, p) \/ ~HeldByOthers(p, x)
  PROVE  ChangesInv'
<1> DEFINE row == [step |-> step, target |-> change[x].target, kind |-> change[x].kind,
                   locks |-> locks, todo |-> todo, others |-> others]
<1>1. row \in ChangeRows
  BY RequestIs DEF ChangeRows
<1>2. /\ row.step = step /\ row.target = change[x].target /\ row.kind = change[x].kind
      /\ row.locks = locks /\ row.todo = todo /\ row.others = others
  OBVIOUS
<1> HIDE DEF row
<1>3. change' = [change EXCEPT ![x] = row]
  BY DEF Goes, row
<1>4. change'[x] = row /\ ActiveAdmins' = ActiveAdmins
  BY <1>3 DEF ChangesInv, ChangesTypeOK, ActiveAdmins
<1>5. ChangeOK(x)'
  BY <1>2, <1>4 DEF ChangeOK
<1> QED
  BY <1>1, <1>2, <1>3, <1>5, RequestGoesOn

LEMMA LockTargetHolds ==
  ASSUME ChangesInv, NEW x \in Changes, LockTarget(x)
  PROVE  ChangesInv'
<1> DEFINE c == change[x]
<1>1. /\ c.step = "LOCK" /\ ~HeldByOthers(c.target, x) /\ UNCHANGED <<account, admins>>
      /\ c.target \in Members
  BY RequestIs DEF LockTarget, Step, ChangeRows
<1>2. CASE ChangeEnds(x)
  BY <1>1, <1>2, RequestEnds
<1>3. CASE Goes(x, "LOOK", {c.target}, {}, {}) /\ c.kind \in TakesAway
  BY <1>1, <1>3, RequestMoves
<1>4. CASE Goes(x, "WRITE", {c.target}, {}, {}) /\ c.kind \notin TakesAway
  BY <1>1, <1>4, RequestMoves
<1> QED
  BY <1>2, <1>3, <1>4 DEF LockTarget, TakesAway

LEMMA FindOthersHolds ==
  ASSUME ChangesInv, NEW x \in Changes, FindOthers(x)
  PROVE  ChangesInv'
<1> DEFINE c == change[x]
<1>1. /\ c.step = "LOOK" /\ c.locks \in SUBSET Members /\ UNCHANGED <<account, admins>>
      /\ Goes(x, "TAKE", c.locks, ActiveAdmins \ {c.target}, {})
  BY RequestIs DEF FindOthers, Step, ChangeRows
<1>2. ActiveAdmins \ {c.target} \in SUBSET Members
  BY DEF ChangesInv, ChangesTypeOK, ActiveAdmins
<1>3. c.target \in c.locks /\ c.kind \in TakesAway /\ \A p \in c.locks : Holds(x, p)
  BY <1>1 DEF ChangesInv, ChangeOK, Holds
<1> QED
  BY <1>1, <1>2, <1>3, RequestMoves

LEMMA TakeOtherHolds ==
  ASSUME ChangesInv, NEW x \in Changes, NEW p \in Members, TakeOther(x, p)
  PROVE  ChangesInv'
<1> DEFINE c == change[x]
           locks == c.locks \cup {p}
           todo == c.todo \ {p}
           others == c.others \cup ({p} \cap ActiveAdmins)
<1>1. /\ c.step = "TAKE" /\ p \in c.todo /\ ~HeldByOthers(p, x) /\ UNCHANGED <<account, admins>>
      /\ Goes(x, "TAKE", locks, todo, others)
  BY DEF TakeOther, Step
<1>2. locks \in SUBSET Members /\ todo \in SUBSET Members /\ others \in SUBSET Members
  BY <1>1, RequestIs DEF ChangeRows
<1>3. /\ c.target \in c.locks /\ c.target \notin c.todo /\ c.kind \in TakesAway
      /\ c.others \subseteq (c.locks \cap ActiveAdmins) \ {c.target}
      /\ \A q \in c.locks : Holds(x, q)
  BY <1>1 DEF ChangesInv, ChangeOK, Holds
<1>4. others \subseteq (locks \cap ActiveAdmins) \ {c.target}
  BY <1>1, <1>3
<1>5. \A q \in locks : Holds(x, q) \/ ~HeldByOthers(q, x)
  BY <1>1, <1>3
<1>6. c.target \in locks /\ c.target \notin todo
  BY <1>3
<1> HIDE DEF locks, todo, others
<1> QED
  BY <1>1, <1>2, <1>3, <1>4, <1>5, <1>6, RequestMoves

LEMMA AnotherAdminHolds ==
  ASSUME ChangesInv, NEW x \in Changes, AnotherAdmin(x)
  PROVE  ChangesInv'
<1> DEFINE c == change[x]
<1>1. c.step = "TAKE" /\ UNCHANGED <<account, admins>>
  BY DEF AnotherAdmin, Step
<1>2. CASE ChangeEnds(x)
  BY <1>1, <1>2, RequestEnds
<1>3. CASE c.others # {} /\ Goes(x, "WRITE", c.locks, {}, c.others)
  <2>1. c.locks \in SUBSET Members /\ c.others \in SUBSET Members
    BY <1>1, RequestIs DEF ChangeRows
  <2>2. /\ c.target \in c.locks /\ c.kind \in TakesAway
        /\ c.others \subseteq (c.locks \cap ActiveAdmins) \ {c.target}
        /\ \A q \in c.locks : Holds(x, q)
    BY <1>1 DEF ChangesInv, ChangeOK, Holds
  <2> QED
    BY <1>1, <1>3, <2>1, <2>2, RequestMoves
<1> QED
  BY <1>2, <1>3 DEF AnotherAdmin

LEMMA AbortHolds ==
  ASSUME ChangesInv, NEW x \in Changes, NEW again \in BOOLEAN, Abort(x, again)
  PROVE  ChangesInv'
<1>1. change[x].step # "NONE" /\ UNCHANGED <<account, admins>>
  BY DEF Abort, Step
<1>2. CASE ChangeEnds(x)
  BY <1>1, <1>2, RequestEnds
<1>3. CASE Goes(x, "LOCK", {}, {}, {})
  BY <1>1, <1>3, RequestMoves
<1> QED
  BY <1>2, <1>3 DEF Abort

\* Administrators come, and at most p -- whom x has locked -- goes.
LEMMA WriteHolds ==
  ASSUME ChangesInv, NEW x \in Changes, Write(x)
  PROVE  ChangesInv'
<1> DEFINE c == change[x]
           p == c.target
<1>1. c.step = "WRITE" /\ ChangeEnds(x) /\ c \in ChangeRows /\ p \in Members
  BY RequestIs DEF Write, Step, ChangeRows
<1>2. ChangesTypeOK'
  BY <1>1 DEF ChangesInv, ChangesTypeOK, Write, ChangeEnds
<1>3. Holds(x, p) /\ \A y \in Changes \ {x} : ~Holds(y, p)
  BY <1>1 DEF ChangesInv, ChangeOK, LocksExclude, Holds
<1>4. \A q \in ActiveAdmins : q \in ActiveAdmins' \/ (q = p /\ c.kind \in TakesAway)
  BY <1>1 DEF Write, ActiveAdmins, ChangesInv, ChangesTypeOK, TakesAway
<1>5. change'[x] = NoChange /\ \A y \in Changes \ {x} : change'[y] = change[y]
  BY <1>1 DEF ChangeEnds, ChangesInv, ChangesTypeOK
<1>6. ASSUME NEW y \in Changes PROVE ChangeOK(y)'
  <2>1. CASE y = x
    BY <1>5, <2>1 DEF ChangeOK, NoChange
  <2>2. CASE y # x
    <3>1. change'[y] = change[y] /\ ChangeOK(y)
      BY <1>5, <2>2 DEF ChangesInv
    <3>2. change[y].step # "NONE" => p \notin change[y].locks
      BY <1>3, <2>2 DEF Holds
    <3> QED
      BY <1>4, <3>1, <3>2 DEF ChangeOK
  <2> QED
    BY <2>1, <2>2
<1>7. LocksExclude'
  BY <1>5 DEF ChangesInv, LocksExclude, Holds, NoChange
<1>8. SomebodyAdministers'
  <2>1. CASE c.kind \in TakesAway
    <3>1. PICK q \in c.others : TRUE
      BY <1>1, <2>1 DEF ChangesInv, ChangeOK
    <3>2. q \in ActiveAdmins /\ q # p
      BY <1>1, <2>1, <3>1 DEF ChangesInv, ChangeOK
    <3> QED
      BY <1>4, <3>2 DEF SomebodyAdministers
  <2>2. CASE c.kind \notin TakesAway
    BY <1>4, <2>2 DEF ChangesInv, SomebodyAdministers
  <2> QED
    BY <2>1, <2>2
<1> QED
  BY <1>2, <1>6, <1>7, <1>8 DEF ChangesInv

LEMMA CreateMemberHolds ==
  ASSUME ChangesInv, NEW p \in Members, NEW admin \in BOOLEAN, CreateMember(p, admin)
  PROVE  ChangesInv'
<1>1. UNCHANGED change /\ ActiveAdmins \subseteq ActiveAdmins'
  BY DEF CreateMember, ActiveAdmins, ChangesInv, ChangesTypeOK
<1>2. ChangesTypeOK'
  BY DEF CreateMember, ChangesInv, ChangesTypeOK
<1>3. (\A x \in Changes : ChangeOK(x)') /\ LocksExclude'
  BY <1>1 DEF ChangesInv, ChangeOK, LocksExclude, Holds
<1> QED
  BY <1>1, <1>2, <1>3 DEF ChangesInv, SomebodyAdministers

LEMMA StaffStepHolds == ChangesInv /\ [StaffNext]_staff => ChangesInv'
<1> SUFFICES ASSUME ChangesInv, [StaffNext]_staff PROVE ChangesInv'
  OBVIOUS
<1>1. CASE UNCHANGED <<account, admins, change>>
  BY <1>1 DEF ChangesInv, ChangesTypeOK, ChangeOK, LocksExclude, Holds, SomebodyAdministers,
              ActiveAdmins
<1>2. CASE Administering
  BY <1>2, AskHolds, LockTargetHolds, FindOthersHolds, AnotherAdminHolds, WriteHolds,
     AbortHolds, TakeOtherHolds, CreateMemberHolds DEF Administering, Kinds
<1>3. CASE SigningIn
  BY <1>1, <1>3 DEF SigningIn, Reinvite, ResetMfa, InvitationExpires, AcceptInvitation,
                    LogInFails, LockEnds, LogIn, CompleteMfa, ChallengeExpires, administration
<1> QED
  BY <1>1, <1>2, <1>3 DEF StaffNext, staff

\* However many administrators suspend each other, or take each other's role, at
\* the same time, one of them stays.
THEOREM OneAdministratorStays == StaffSpec => []SomebodyAdministers
<1>1. StaffInit => ChangesInv
  BY ChangesInitHolds
<1>2. ChangesInv /\ [StaffNext]_staff => ChangesInv'
  BY StaffStepHolds
<1>3. ChangesInv => SomebodyAdministers
  BY DEF ChangesInv
<1> QED
  BY <1>1, <1>2, <1>3, PTL DEF StaffSpec

-----------------------------------------------------------------------------
(***************************************************************************)
(* An authenticator.  A secret is offered for enrolment only as long as    *)
(* none is enrolled, and is forgotten when it is: a challenge that stayed  *)
(* open has nothing to enrol any more.                                     *)
(***************************************************************************)
CredentialRows == [password : BOOLEAN, failed : Nat, locked : BOOLEAN, secret : Nat, pending : Nat]

OnlyOneSecret(row) == row.pending # NoSecret => row.secret = NoSecret

SecretsInv ==
    /\ secrets \in Nat
    /\ credential \in [Members -> CredentialRows]
    /\ \A p \in Members : OnlyOneSecret(credential[p])

SecretsAreKept ==
    \A p \in Members : credential[p].secret # NoSecret
        => credential'[p].secret \in {credential[p].secret, NoSecret}

LEMMA SecretsInitHolds == StaffInit => SecretsInv
BY DEF StaffInit, SecretsInv, CredentialRows, OnlyOneSecret, NoSecret

LEMMA CredentialIs ==
  ASSUME NEW c \in CredentialRows
  PROVE  c = [password |-> c.password, failed |-> c.failed, locked |-> c.locked,
              secret |-> c.secret, pending |-> c.pending]
BY DEF CredentialRows

\* A step that writes the row of p.
LEMMA OneCredential ==
  ASSUME SecretsInv, NEW p \in Members, secrets' \in Nat,
         credential' = [q \in Members |-> credential'[q]],
         \A q \in Members \ {p} : credential'[q] = credential[q],
         credential'[p] \in CredentialRows, OnlyOneSecret(credential'[p]),
         credential[p].secret # NoSecret => credential'[p].secret \in {credential[p].secret, NoSecret}
  PROVE  SecretsInv' /\ SecretsAreKept
BY DEF SecretsInv, SecretsAreKept, OnlyOneSecret

LEMMA ResetMfaHolds ==
  ASSUME SecretsInv, NEW p \in Members, ResetMfa(p)
  PROVE  SecretsInv' /\ SecretsAreKept
<1> DEFINE c == credential[p]
<1>1. credential' = [credential EXCEPT ![p].secret = NoSecret, ![p].pending = NoSecret]
      /\ UNCHANGED secrets
  BY DEF ResetMfa
<1>2. credential'[p] = [c EXCEPT !.secret = NoSecret, !.pending = NoSecret]
      /\ credential' = [q \in Members |-> credential'[q]]
      /\ \A q \in Members \ {p} : credential'[q] = credential[q]
  BY <1>1 DEF SecretsInv
<1>3. credential'[p] \in CredentialRows /\ credential'[p].secret = NoSecret
  <2>1. c \in CredentialRows
    BY DEF SecretsInv
  <2>2. credential'[p] = [c EXCEPT !.secret = 0, !.pending = 0]
    BY <1>2 DEF NoSecret
  <2> QED
    <3>1. credential'[p] = [password |-> c.password, failed |-> c.failed, locked |-> c.locked,
                            secret |-> 0, pending |-> 0]
      BY <2>1, <2>2, CredentialIs
    <3> QED
      BY <2>1, <3>1 DEF CredentialRows, NoSecret
<1> QED
  BY <1>1, <1>2, <1>3, OneCredential DEF SecretsInv, OnlyOneSecret

\* Rows of which the secrets stay as they are.
LEMMA SecretsStay ==
  ASSUME SecretsInv, NEW p \in Members, UNCHANGED secrets,
         credential' = [q \in Members |-> credential'[q]],
         \A q \in Members \ {p} : credential'[q] = credential[q],
         credential'[p] \in CredentialRows,
         credential'[p].secret = credential[p].secret,
         credential'[p].pending = credential[p].pending
  PROVE  SecretsInv' /\ SecretsAreKept
BY OneCredential DEF SecretsInv, OnlyOneSecret

LEMMA PasswordsHold ==
  ASSUME SecretsInv, NEW p \in Members, AcceptInvitation(p) \/ LogInFails(p) \/ LockEnds(p)
  PROVE  SecretsInv' /\ SecretsAreKept
<1> DEFINE c == credential[p]
<1>1. c \in CredentialRows /\ UNCHANGED secrets
  BY DEF SecretsInv, AcceptInvitation, LogInFails, LockEnds
<1>2. CASE AcceptInvitation(p)
  <2>1. credential' = [credential EXCEPT ![p].password = TRUE, ![p].failed = 0,
                                         ![p].locked = FALSE]
    BY <1>2 DEF AcceptInvitation
  <2>2. credential' = [q \in Members |-> credential'[q]]
        /\ \A q \in Members \ {p} : credential'[q] = credential[q]
    BY <2>1 DEF SecretsInv
  <2>3. /\ credential'[p] \in CredentialRows /\ credential'[p].secret = c.secret
        /\ credential'[p].pending = c.pending
    <3>1. credential'[p] = [c EXCEPT !.password = TRUE, !.failed = 0, !.locked = FALSE]
      BY <2>1 DEF SecretsInv
    <3>2. c \in CredentialRows
      BY <1>1
    <3> QED
      <4>1. credential'[p] = [password |-> TRUE, failed |-> 0, locked |-> FALSE,
                              secret |-> c.secret, pending |-> c.pending]
        BY <3>1, <3>2, CredentialIs
      <4> QED
        BY <3>2, <4>1 DEF CredentialRows
  <2> QED
    BY <1>1, <2>2, <2>3, SecretsStay
<1>3. CASE LogInFails(p)
  <2>1. PICK failed \in Nat, lock \in BOOLEAN :
          credential' = [credential EXCEPT ![p].failed = failed, ![p].locked = lock]
    <3>1. c.failed + 1 \in Nat /\ (c.failed + 1 >= MaxPasswords) \in BOOLEAN
      BY <1>1 DEF CredentialRows
    <3> QED
      BY <1>3, <3>1 DEF LogInFails
  <2>2. credential'[p] = [c EXCEPT !.failed = failed, !.locked = lock]
        /\ credential' = [q \in Members |-> credential'[q]]
        /\ \A q \in Members \ {p} : credential'[q] = credential[q]
    BY <2>1 DEF SecretsInv
  <2>3. /\ credential'[p] \in CredentialRows /\ credential'[p].secret = c.secret
        /\ credential'[p].pending = c.pending
    BY <1>1, <2>2 DEF CredentialRows
  <2> QED
    BY <1>1, <2>2, <2>3, SecretsStay
<1>4. CASE LockEnds(p)
  <2>1. credential' = [credential EXCEPT ![p].locked = FALSE]
    BY <1>4 DEF LockEnds
  <2>2. credential'[p] = [c EXCEPT !.locked = FALSE]
        /\ credential' = [q \in Members |-> credential'[q]]
        /\ \A q \in Members \ {p} : credential'[q] = credential[q]
    BY <2>1 DEF SecretsInv
  <2>3. /\ credential'[p] \in CredentialRows /\ credential'[p].secret = c.secret
        /\ credential'[p].pending = c.pending
    BY <1>1, <2>2 DEF CredentialRows
  <2> QED
    BY <1>1, <2>2, <2>3, SecretsStay
<1> QED
  BY <1>2, <1>3, <1>4

\* A secret to enrol is made for a member who has none.
LEMMA LogInHolds ==
  ASSUME SecretsInv, NEW p \in Members, NEW k \in Challenges, LogIn(p, k)
  PROVE  SecretsInv' /\ SecretsAreKept
<1> DEFINE c == credential[p]
           pending == IF c.secret # NoSecret THEN c.pending ELSE secrets + 1
<1>1. credential' = [credential EXCEPT ![p].failed = 0, ![p].pending = pending]
  BY DEF LogIn, SecretsInv
<1>2. pending \in Nat /\ secrets' \in Nat /\ OnlyOneSecret(c)
  BY DEF LogIn, SecretsInv, CredentialRows
<1>3. pending # NoSecret => c.secret = NoSecret
  BY <1>2 DEF OnlyOneSecret
<1> HIDE DEF pending
<1>4. credential'[p] = [c EXCEPT !.failed = 0, !.pending = pending]
      /\ credential' = [q \in Members |-> credential'[q]]
      /\ \A q \in Members \ {p} : credential'[q] = credential[q]
  BY <1>1 DEF SecretsInv
<1>5. /\ credential'[p] \in CredentialRows /\ credential'[p].secret = c.secret
      /\ credential'[p].pending = pending
  <2>1. c \in CredentialRows /\ pending \in Nat
    BY <1>2 DEF SecretsInv
  <2>2. credential'[p] = [c EXCEPT !.failed = 0, !.pending = pending]
    BY <1>4
  <2> QED
    <3>1. credential'[p] = [password |-> c.password, failed |-> 0, locked |-> c.locked,
                            secret |-> c.secret, pending |-> pending]
      BY <2>1, <2>2, CredentialIs
    <3> QED
      BY <2>1, <3>1 DEF CredentialRows
<1> QED
  BY <1>2, <1>3, <1>4, <1>5, OneCredential DEF OnlyOneSecret

\* What a challenge enrols is the pending secret, so none was enrolled.
LEMMA CompleteMfaHolds ==
  ASSUME SecretsInv, NEW k \in Challenges, NEW right \in BOOLEAN, CompleteMfa(k, right)
  PROVE  SecretsInv' /\ SecretsAreKept
<1> DEFINE p == login[k].member
           c == credential[p]
<1>1. CASE UNCHANGED <<credential, secrets>>
  BY <1>1 DEF SecretsInv, SecretsAreKept
<1>2. CASE credential' = Enrol(p) /\ UNCHANGED secrets /\ c.pending # NoSecret /\ p \in Members
  <2>1. credential' = [credential EXCEPT ![p].secret = c.pending, ![p].pending = NoSecret]
    BY <1>2 DEF Enrol
  <2>2. p \in Members /\ c \in CredentialRows /\ c.secret = NoSecret
    BY <1>2 DEF SecretsInv, OnlyOneSecret
  <2> HIDE DEF p
  <2>3. credential'[p] = [c EXCEPT !.secret = c.pending, !.pending = NoSecret]
        /\ credential' = [q \in Members |-> credential'[q]]
        /\ \A q \in Members \ {p} : credential'[q] = credential[q]
    BY <2>1, <2>2 DEF SecretsInv
  <2>4. credential'[p] \in CredentialRows /\ credential'[p].pending = NoSecret
    BY <2>2, <2>3 DEF CredentialRows, NoSecret
  <2> QED
    BY <1>2, <2>2, <2>3, <2>4, OneCredential DEF SecretsInv, OnlyOneSecret
<1>3. CASE credential' = Enrol(p) /\ UNCHANGED secrets /\ p \notin Members
  BY <1>3 DEF Enrol, SecretsInv, SecretsAreKept
<1> QED
  BY <1>1, <1>2, <1>3 DEF CompleteMfa, SecretFor

LEMMA SecretsStepHolds ==
  ASSUME SecretsInv, [StaffNext]_staff
  PROVE  SecretsInv' /\ SecretsAreKept
<1>1. CASE UNCHANGED <<credential, secrets>>
  BY <1>1 DEF SecretsInv, SecretsAreKept
<1>2. CASE Administering
  BY <1>1, <1>2 DEF Administering, AskForChange, LockTarget, FindOthers, TakeOther, AnotherAdmin,
                    Write, Abort, CreateMember, signingIn
<1>3. CASE SigningIn
  <2>1. ASSUME NEW p \in Members,
               \/ Reinvite(p) \/ ResetMfa(p) \/ InvitationExpires(p) \/ AcceptInvitation(p)
               \/ LogInFails(p) \/ LockEnds(p) \/ \E k \in Challenges : LogIn(p, k)
        PROVE  SecretsInv' /\ SecretsAreKept
    BY <1>1, <2>1, ResetMfaHolds, PasswordsHold, LogInHolds DEF Reinvite, InvitationExpires
  <2>2. ASSUME NEW k \in Challenges,
               CompleteMfa(k, TRUE) \/ CompleteMfa(k, FALSE) \/ ChallengeExpires(k)
        PROVE  SecretsInv' /\ SecretsAreKept
    BY <1>1, <2>2, CompleteMfaHolds DEF ChallengeExpires
  <2> QED
    BY <1>3, <2>1, <2>2 DEF SigningIn
<1> QED
  BY <1>1, <1>2, <1>3 DEF StaffNext, staff

\* No challenge, however long it was left open, replaces the authenticator of a
\* member who has enrolled one.
THEOREM EnrolledAuthenticatorStays == StaffSpec => AuthenticatorIsKept
<1>1. StaffInit => SecretsInv
  BY SecretsInitHolds
<1>2. SecretsInv /\ [StaffNext]_staff => SecretsInv'
  BY SecretsStepHolds
<1>3. SecretsInv /\ [StaffNext]_staff
        => [\A p \in Members : credential[p].secret # NoSecret
              => credential'[p].secret \in {credential[p].secret, NoSecret}]_staff
  BY SecretsStepHolds DEF SecretsAreKept
<1> QED
  BY <1>1, <1>2, <1>3, PTL DEF StaffSpec, AuthenticatorIsKept

-----------------------------------------------------------------------------
(* Legal documents.  Until a check has read the documents, whatever has come  *)
(* into force since it began is noted; what it then reads is among that, and  *)
(* what was accepted stays accepted.                                          *)

KeysOfLaw == LegalCodes \X (Versions \cup {0})
AskedRows == [step : {"idle", "accepting", "recording", "checking", "documents", "letThrough"},
              docs : SUBSET Document, since : SUBSET KeysOfLaw]

ConsentsTypeOK ==
    /\ clock \in Nat /\ legal \subseteq Document /\ terms \subseteq Document
    /\ asked \in [Person -> AskedRows]

\* What is in force has been noted, or that nothing is.
AllNoted(r) ==
    \A code \in LegalCodes :
        /\ \A v \in InForce(code) : <<code, v>> \in asked[r].since
        /\ InForce(code) = {} => <<code, 0>> \in asked[r].since

\* Of each document one of the versions noted is among those that were read.
ReadNoted(r) ==
    \A code \in LegalCodes :
        \/ <<code, 0>> \in asked[r].since
        \/ \E d \in asked[r].docs : d.code = code /\ Key(d) \in asked[r].since

AcceptedNoted(r) ==
    \A code \in LegalCodes :
        \E k \in asked[r].since : k[1] = code /\ (k[2] = 0 \/ k \in Keys(consent))

AskedOK(r) ==
    /\ asked[r].step = "checking" => AllNoted(r)
    /\ asked[r].step = "documents" => ReadNoted(r)
    /\ asked[r].step = "letThrough" => AcceptedNoted(r)

ConsentsInv == ConsentsTypeOK /\ \A r \in Person : AskedOK(r)

LEMMA ConsentsInitHolds == ConsentsInit => ConsentsInv
BY DEF ConsentsInit, ConsentsInv, ConsentsTypeOK, AskedRows, AskedOK, NotAsking

Begun(code) == {d \in legal : d.code = code /\ d.from <= clock}

\* Of some documents one comes last.
LEMMA OneComesLast ==
  ASSUME NEW docs, docs \subseteq Document, docs # {}
  PROVE  \E d \in docs : \A f \in docs : f.from <= d.from
<1> DEFINE S == {LegalEnd - d.from : d \in docs}
           Before == {ss \in Nat \X Nat : ss[1] < ss[2]}
<1>1. \A d \in docs : d.from \in Nat /\ d.from <= LegalEnd /\ LegalEnd \in Nat
  BY ConsentsAssumption DEF Document
<1>2. S \subseteq Nat /\ S # {}
  BY <1>1
<1>3. IsWellFoundedOn(Before, Nat)
  BY NatLessThanWellFounded DEF OpToRel
<1> HIDE DEF Before, S
<1>4. PICK x \in S : \A y \in S : ~(<<y, x>> \in Before)
  BY <1>2, <1>3, WFMin
<1>5. \A y \in S : ~(y < x)
  BY <1>2, <1>4 DEF Before
<1>6. PICK d \in docs : x = LegalEnd - d.from
  BY DEF S
<1>7. ASSUME NEW f \in docs PROVE f.from <= d.from
  <2>1. ~(LegalEnd - f.from < x)
    BY <1>5 DEF S
  <2> QED
    BY <1>1, <1>6, <2>1
<1> QED
  BY <1>7

LEMMA InForceIs ==
  ASSUME ConsentsTypeOK, NEW code, InForce(code) = {}
  PROVE  Begun(code) = {}
<1>1. InForce(code) = {d.version : d \in {e \in Begun(code) : \A f \in Begun(code) : f.from <= e.from}}
  BY DEF InForce, Begun
<1>2. Begun(code) \subseteq Document
  BY DEF Begun, ConsentsTypeOK
<1> QED
  BY <1>1, <1>2, OneComesLast

\* A document is read in one language or another.
LEMMA EveryDocumentIsRead ==
  ASSUME NEW locale, NEW code \in LegalCodes, ConsentsTypeOK, InForce(code) # {}
  PROVE  \E d \in Current(locale) : d.code = code /\ d.version \in InForce(code)
<1> DEFINE rows(c) == {d \in legal : d.code = c /\ d.from <= clock /\ d.version \in InForce(c)}
<1>1. Current(locale) = {d \in UNION {rows(c) : c \in LegalCodes} :
                            d.locale = locale \/ \A e \in rows(d.code) : e.locale # locale}
  BY DEF Current
<1>2. PICK d : d \in rows(code)
  BY DEF InForce
<1>3. CASE \E e \in rows(code) : e.locale = locale
  <2>1. PICK e \in rows(code) : e.locale = locale
    BY <1>3
  <2> QED
    BY <1>1, <2>1
<1>4. CASE \A e \in rows(code) : e.locale # locale
  BY <1>1, <1>2, <1>4
<1> QED
  BY <1>3, <1>4

LEMMA CurrentIsLegal ==
  ASSUME NEW locale
  PROVE  Current(locale) \subseteq legal
BY DEF Current

\* A request moves on, while the law stays and no consent is lost.
LEMMA RequestOfLawMoves ==
  ASSUME ConsentsInv, NEW r \in Person, UNCHANGED <<clock, legal>>, consent \subseteq consent',
         terms' \subseteq Document, NEW row \in AskedRows, asked' = [asked EXCEPT ![r] = row],
         AskedOK(r)'
  PROVE  ConsentsInv'
<1>1. ConsentsTypeOK' /\ \A q \in Person \ {r} : asked'[q] = asked[q]
  BY DEF ConsentsInv, ConsentsTypeOK
<1>2. ASSUME NEW q \in Person \ {r} PROVE AskedOK(q)'
  <2>1. AskedOK(q) /\ asked'[q] = asked[q]
    BY <1>1 DEF ConsentsInv
  <2>2. Keys(consent) \subseteq Keys(consent')
    BY DEF Keys
  <2>3. \A code : InForce(code)' = InForce(code)
    BY DEF InForce
  <2>4. AllNoted(q) => AllNoted(q)'
    BY <2>1, <2>3 DEF AllNoted
  <2>5. ReadNoted(q) => ReadNoted(q)'
    BY <2>1 DEF ReadNoted
  <2>6. AcceptedNoted(q) => AcceptedNoted(q)'
    BY <2>1, <2>2 DEF AcceptedNoted
  <2> QED
    BY <2>1, <2>4, <2>5, <2>6 DEF AskedOK
<1> QED
  BY <1>1, <1>2 DEF ConsentsInv

\* Something else is in force: whoever checks notes it.
LEMMA LawGoesOn ==
  ASSUME ConsentsInv, clock' \in Nat, clock <= clock', legal \subseteq legal',
         legal' \subseteq Document, UNCHANGED <<consent, terms>>, asked' = Noted(legal', clock')
  PROVE  ConsentsInv'
<1> DEFINE inForce == {d \in legal' : /\ d.from <= clock'
                                     /\ \A e \in legal' : e.code = d.code /\ e.from <= clock' => e.from <= d.from}
<1>1. asked' = [r \in Person |-> IF asked[r].step = "checking"
                              THEN [asked[r] EXCEPT !.since = @ \cup Keys(inForce)] ELSE asked[r]]
  BY DEF Noted
<1>2. Keys(inForce) \subseteq KeysOfLaw
  BY DEF Keys, Key, KeysOfLaw, Document
<1>3. \A code : \A v \in InForce(code)' : <<code, v>> \in Keys(inForce)
  BY DEF InForce, Keys, Key
<1> HIDE DEF inForce
<1>4. ASSUME NEW r \in Person
      PROVE  /\ asked'[r] \in AskedRows /\ asked'[r].step = asked[r].step
             /\ asked[r].step # "checking" => asked'[r] = asked[r]
             /\ asked[r].step = "checking" => asked'[r].since = asked[r].since \cup Keys(inForce)
  <2>1. asked[r] \in AskedRows
    BY DEF ConsentsInv, ConsentsTypeOK
  <2>2. PICK since : since = asked[r].since \cup Keys(inForce)
    OBVIOUS
  <2>3. CASE asked[r].step = "checking"
    <3>1. asked'[r] = [asked[r] EXCEPT !.since = since]
      BY <1>1, <2>2, <2>3
    <3>2. since \in SUBSET KeysOfLaw
      BY <1>2, <2>1, <2>2 DEF AskedRows
    <3> QED
      BY <2>1, <2>2, <2>3, <3>1, <3>2 DEF AskedRows
  <2>4. CASE asked[r].step # "checking"
    BY <1>1, <2>1, <2>4
  <2> QED
    BY <2>3, <2>4
<1>5. ConsentsTypeOK'
  <2>1. asked' = [r \in Person |-> asked'[r]]
    BY <1>1
  <2> QED
    BY <1>4, <2>1 DEF ConsentsInv, ConsentsTypeOK
<1>6. \A code : InForce(code)' = {} => InForce(code) = {}
  <2> SUFFICES ASSUME NEW code, InForce(code)' = {} PROVE InForce(code) = {}
    OBVIOUS
  <2>1. InForce(code)' = {d.version : d \in {e \in Begun(code)' : \A f \in Begun(code)' : f.from <= e.from}}
    BY DEF InForce, Begun
  <2>2. Begun(code)' \subseteq Document
    BY DEF Begun
  <2>3. Begun(code)' = {}
    BY <2>1, <2>2, OneComesLast
  <2>4. \A d \in Begun(code) : d.from \in Nat
    BY ConsentsAssumption DEF Begun, ConsentsInv, ConsentsTypeOK, Document
  <2>5. Begun(code) \subseteq Begun(code)'
    BY <2>4 DEF Begun, ConsentsInv, ConsentsTypeOK
  <2> QED
    BY <2>3, <2>5 DEF InForce, Begun
<1>7. ASSUME NEW r \in Person PROVE AskedOK(r)'
  <2>1. AskedOK(r)
    BY DEF ConsentsInv
  <2>2. CASE asked[r].step = "checking"
    BY <1>3, <1>4, <1>6, <2>1, <2>2 DEF AskedOK, AllNoted
  <2>3. CASE asked[r].step # "checking"
    BY <1>4, <2>1, <2>3 DEF AskedOK, ReadNoted, AcceptedNoted
  <2> QED
    BY <2>2, <2>3
<1> QED
  BY <1>5, <1>7 DEF ConsentsInv

LEMMA NotAskingRow == NotAsking \in AskedRows /\ NotAsking.step = "idle"
BY DEF NotAsking, AskedRows

LEMMA ConsentRequestHolds ==
  ASSUME ConsentsInv, NEW r \in Person, ConsentRequest(r)
  PROVE  ConsentsInv'
<1>t. /\ asked[r] \in AskedRows /\ DOMAIN asked = Person /\ AskedOK(r)
      /\ terms \subseteq Document /\ legal \subseteq Document
  BY DEF ConsentsInv, ConsentsTypeOK
<1>1. ASSUME NEW row \in AskedRows, row.step \in {"idle", "accepting", "recording"},
             asked' = [asked EXCEPT ![r] = row], UNCHANGED <<clock, legal>>,
             consent \subseteq consent', terms' \subseteq Document
      PROVE  ConsentsInv'
  <2>1. AskedOK(r)'
    BY <1>t, <1>1 DEF AskedOK
  <2> QED
    BY <1>1, <2>1, RequestOfLawMoves
<1>2. CASE AcceptShown(r)
  <2> DEFINE row == [step |-> "accepting", docs |-> terms, since |-> {}]
  <2>1. row \in AskedRows /\ row.step = "accepting"
    BY <1>t DEF AskedRows
  <2>2. asked' = [asked EXCEPT ![r] = row] /\ UNCHANGED <<clock, legal, consent, terms>>
    BY <1>2 DEF AcceptShown
  <2> HIDE DEF row
  <2> QED
    BY <1>t, <1>1, <2>1, <2>2
<1>3. CASE CheckShown(r)
  <2>1. PICK row : /\ row = [asked[r] EXCEPT !.step = "recording"] \/ row = NotAsking
                   /\ asked' = [asked EXCEPT ![r] = row]
    BY <1>3 DEF CheckShown
  <2>2. row \in AskedRows /\ row.step \in {"idle", "recording"}
    BY <1>t, <2>1, NotAskingRow DEF AskedRows
  <2>3. UNCHANGED <<clock, legal, consent, terms>>
    BY <1>3 DEF CheckShown
  <2> QED
    BY <1>t, <1>1, <2>1, <2>2, <2>3
<1>4. CASE RecordConsent(r) \/ Acts(r)
  <2>1. /\ asked' = [asked EXCEPT ![r] = NotAsking] /\ UNCHANGED <<clock, legal>>
        /\ consent \subseteq consent' /\ terms' \in {terms, {}}
    BY <1>4 DEF RecordConsent, Acts
  <2> QED
    BY <1>t, <1>1, <2>1, NotAskingRow
<1>5. CASE AskToAct(r)
  <2> DEFINE noted == {k \in LegalCodes \X (Versions \cup {0}) :
                          k[2] \in InForce(k[1]) \/ (k[2] = 0 /\ InForce(k[1]) = {})}
             row == [step |-> "checking", docs |-> {}, since |-> noted]
  <2>1. row \in AskedRows /\ row.step = "checking" /\ row.since = noted
    BY DEF AskedRows, KeysOfLaw
  <2>2. asked' = [asked EXCEPT ![r] = row] /\ UNCHANGED <<clock, legal, consent, terms>>
    BY <1>5 DEF AskToAct
  <2>3. \A code : InForce(code) \subseteq Versions /\ InForce(code)' = InForce(code)
    BY <1>t, <2>2 DEF InForce, Document
  <2>4. \A code \in LegalCodes : /\ \A v \in InForce(code) : <<code, v>> \in noted
                                 /\ InForce(code) = {} => <<code, 0>> \in noted
    BY <2>3
  <2> HIDE DEF row, noted
  <2>5. AllNoted(r)' /\ asked'[r].step = "checking"
    BY <1>t, <2>1, <2>2, <2>3, <2>4 DEF AllNoted
  <2>6. AskedOK(r)'
    BY <2>5 DEF AskedOK
  <2> QED
    BY <1>t, <2>1, <2>2, <2>6, RequestOfLawMoves
<1>6. CASE ReadDocuments(r)
  <2> DEFINE row == [step |-> "documents", docs |-> Current("en"), since |-> asked[r].since]
  <2>1. /\ row \in AskedRows /\ row.step = "documents" /\ row.docs = Current("en")
        /\ row.since = asked[r].since
    BY <1>t, CurrentIsLegal DEF AskedRows
  <2>2. asked' = [asked EXCEPT ![r] = row] /\ UNCHANGED <<clock, legal, consent, terms>>
    BY <1>6 DEF ReadDocuments
  <2>3. AllNoted(r)
    BY <1>t, <1>6 DEF ReadDocuments, AskedOK
  <2>4. ASSUME NEW code \in LegalCodes
        PROVE  \/ <<code, 0>> \in asked[r].since
               \/ \E d \in Current("en") : d.code = code /\ Key(d) \in asked[r].since
    <3>1. CASE InForce(code) = {}
      BY <2>3, <3>1 DEF AllNoted
    <3>2. CASE InForce(code) # {}
      <4>1. PICK d \in Current("en") : d.code = code /\ d.version \in InForce(code)
        BY <3>2, EveryDocumentIsRead DEF ConsentsInv
      <4> QED
        BY <2>3, <4>1 DEF AllNoted, Key
    <3> QED
      BY <3>1, <3>2
  <2> HIDE DEF row
  <2>5. ReadNoted(r)' /\ asked'[r].step = "documents"
    BY <1>t, <2>1, <2>2, <2>4 DEF ReadNoted
  <2>6. AskedOK(r)'
    BY <2>5 DEF AskedOK
  <2> QED
    BY <1>t, <2>1, <2>2, <2>6, RequestOfLawMoves
<1>7. CASE ReadAcceptances(r)
  <2>1. /\ UNCHANGED <<clock, legal, consent, terms>> /\ asked[r].step = "documents"
        /\ \/ asked' = [asked EXCEPT ![r] = NotAsking]
           \/ /\ asked' = [asked EXCEPT ![r] = [asked[r] EXCEPT !.step = "letThrough"]]
              /\ Keys(asked[r].docs) \subseteq AcceptedKeys
    BY <1>7 DEF ReadAcceptances
  <2>2. CASE asked' = [asked EXCEPT ![r] = NotAsking]
    BY <1>t, <1>1, <2>1, <2>2, NotAskingRow
  <2>3. CASE /\ asked' = [asked EXCEPT ![r] = [asked[r] EXCEPT !.step = "letThrough"]]
             /\ Keys(asked[r].docs) \subseteq AcceptedKeys
    <3>1. PICK row : row = [asked[r] EXCEPT !.step = "letThrough"]
      OBVIOUS
    <3>2. row \in AskedRows /\ row.step = "letThrough" /\ row.since = asked[r].since
      BY <1>t, <3>1 DEF AskedRows
    <3>3. asked' = [asked EXCEPT ![r] = row]
      BY <2>3, <3>1
    <3>4. ASSUME NEW code \in LegalCodes
          PROVE  \E k \in asked[r].since : k[1] = code /\ (k[2] = 0 \/ k \in Keys(consent))
      <4>1. \/ <<code, 0>> \in asked[r].since
            \/ \E d \in asked[r].docs : d.code = code /\ Key(d) \in asked[r].since
        BY <1>t, <2>1 DEF AskedOK, ReadNoted
      <4>2. CASE <<code, 0>> \in asked[r].since
        BY <4>2
      <4>3. CASE \E d \in asked[r].docs : d.code = code /\ Key(d) \in asked[r].since
        <5>1. PICK d \in asked[r].docs : d.code = code /\ Key(d) \in asked[r].since
          BY <4>3
        <5>2. Key(d) \in Keys(consent)
          BY <2>3 DEF Keys, AcceptedKeys
        <5>3. Key(d)[1] = code
          BY <5>1 DEF Key
        <5> QED
          BY <5>1, <5>2, <5>3
      <4> QED
        BY <4>1, <4>2, <4>3
    <3>5. AcceptedNoted(r)' /\ asked'[r].step = "letThrough"
      BY <1>t, <2>1, <3>2, <3>3, <3>4 DEF AcceptedNoted
    <3>6. AskedOK(r)'
      BY <3>5 DEF AskedOK
    <3> QED
      BY <1>t, <2>1, <3>2, <3>3, <3>6, RequestOfLawMoves
  <2> QED
    BY <2>1, <2>2, <2>3
<1> QED
  BY <1>2, <1>3, <1>4, <1>5, <1>6, <1>7 DEF ConsentRequest

LEMMA ConsentsStepHolds == ConsentsInv /\ [ConsentsNext]_consents => ConsentsInv'
<1> SUFFICES ASSUME ConsentsInv, [ConsentsNext]_consents PROVE ConsentsInv'
  OBVIOUS
<1>1. clock \in Nat /\ legal \subseteq Document /\ terms \subseteq Document
  BY DEF ConsentsInv, ConsentsTypeOK
<1>2. ASSUME UNCHANGED <<clock, legal, consent, asked>>, terms' \subseteq Document
      PROVE  ConsentsInv'
  BY <1>2 DEF ConsentsInv, ConsentsTypeOK, AskedOK, AllNoted, ReadNoted, AcceptedNoted, InForce
<1>3. ASSUME NEW code \in LegalCodes, NEW v \in Versions, NEW locale \in Locales,
             NEW from \in 0..LegalEnd, Publish(code, v, locale, from)
      PROVE  ConsentsInv'
  <2>1. /\ legal' = legal \cup {[code |-> code, version |-> v, locale |-> locale, from |-> from]}
        /\ asked' = Noted(legal', clock') /\ UNCHANGED <<clock, consent, terms>>
    BY <1>3 DEF Publish
  <2>2. legal' \subseteq Document
    BY <1>1, <2>1 DEF Document
  <2> QED
    BY <1>1, <2>1, <2>2, LawGoesOn
<1>4. CASE LegalTimePasses
  <2>1. /\ clock' = clock + 1 /\ asked' = Noted(legal', clock') /\ UNCHANGED <<legal, consent, terms>>
    BY <1>4 DEF LegalTimePasses
  <2> QED
    BY <1>1, <2>1, LawGoesOn
<1>5. CASE \E locale \in Locales : OpenTerms(locale)
  <2>1. PICK locale : OpenTerms(locale)
    BY <1>5
  <2>2. terms' \subseteq Document
    BY <1>1, <2>1, CurrentIsLegal DEF OpenTerms
  <2> QED
    BY <1>2, <2>1, <2>2 DEF OpenTerms
<1>6. CASE \E granted \in BOOLEAN : \/ ChooseOptional(granted)
                                    \/ \E again \in BOOLEAN : SetOptional(granted, again)
  BY <1>1, <1>2, <1>6 DEF ChooseOptional, SetOptional
<1>7. CASE UNCHANGED consents
  BY <1>1, <1>2, <1>7 DEF consents
<1> QED
  BY <1>3, <1>4, <1>5, <1>6, <1>7, ConsentRequestHolds DEF ConsentsNext

\* Nobody books or goes online without having accepted what was in force, whatever is
\* published meanwhile, for any documents, languages, versions and requests.
THEOREM NobodySlipsThrough == ConsentsSpec => []LetThroughHasAccepted
<1>1. ConsentsInv => LetThroughHasAccepted
  BY DEF ConsentsInv, AskedOK, AcceptedNoted, LetThroughHasAccepted
<1> QED
  BY <1>1, ConsentsInitHolds, ConsentsStepHolds, PTL DEF ConsentsSpec
=============================================================================
