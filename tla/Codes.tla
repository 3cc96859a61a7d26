-------------------------------- MODULE Codes --------------------------------
(***************************************************************************)
(* The codes a person types in: the code sent by SMS to sign in to one of  *)
(* the apps, for one phone over one day, and the code a customer tells the *)
(* worker so that the service of a booking can start.                      *)
(*                                                                         *)
(* Each request is a transaction.  Requests for a phone take turns (an     *)
(* advisory lock) and a code's row is locked while it is looked at; the    *)
(* SMS goes out between two transactions, and codes can be typed in, and   *)
(* others requested, before its outcome is recorded.                       *)
(***************************************************************************)
EXTENDS Naturals, Sequences, FiniteSets, Functions

CONSTANTS
    Apps,                   \* CUSTOMER_APP, WORKER_APP
    MaxPerCode,             \* max_attempts of a code
    MaxFailed,              \* maxFailedVerificationsPerPhonePerHour
    MaxPerHour, MaxPerDay   \* maxRequestsPerPhonePerHour, ...PerDay

ASSUME CodesAssumption ==
    IsFiniteSet(Apps) /\ MaxPerCode \in Nat /\ MaxFailed \in Nat \ {0}

VARIABLES
    challenge,  \* otp_challenge of the last hour, in the order of the requests
    today,      \* how many codes were requested today
    visit       \* a booking with its booking_verification_code

codes == <<challenge, today, visit>>

-----------------------------------------------------------------------------
Issued == DOMAIN challenge

\* Ages: COOLING for 30 s, VALID for 5 min, RECENT for an hour.
COOLING == 1
VALID == 2
RECENT == 3

Cooling == {c \in Issued : challenge[c].age = COOLING /\ challenge[c].delivery # "FAILED"}
FailedHour == SumFunction([c \in Issued |-> challenge[c].attempts])

Usable(c) == ~challenge[c].consumed /\ challenge[c].age <= VALID

\* wrong: how often a wrong code was really compared with this one.
NewChallenge(app) ==
    [app |-> app, consumed |-> FALSE, attempts |-> 0, delivery |-> "PENDING",
     age |-> COOLING, wrong |-> 0]

MayRequest ==
    /\ FailedHour < MaxFailed
    /\ Cooling = {}
    /\ Len(challenge) < MaxPerHour
    /\ today < MaxPerDay

\* Mutant: the code of an earlier request can still be used.
MutantRequest(app) ==
    /\ MayRequest
    /\ challenge' = Append(challenge, NewChallenge(app))
    /\ today' = today + 1
    /\ UNCHANGED visit

\* OtpService.request: only the newest code for a phone and app can be used.
Request(app) ==
    /\ MayRequest
    /\ challenge' = Append([c \in Issued |->
                              IF challenge[c].app = app THEN [challenge[c] EXCEPT !.consumed = TRUE]
                              ELSE challenge[c]],
                           NewChallenge(app))
    /\ today' = today + 1
    /\ UNCHANGED visit

\* The provider's answer; the code is withdrawn when there is no good one, also
\* if the SMS has arrived and its code has been used meanwhile.
DeliveryRecorded(c, sent) ==
    /\ challenge[c].delivery = "PENDING"
    /\ challenge' = IF sent THEN [challenge EXCEPT ![c].delivery = "SENT"]
                    ELSE [challenge EXCEPT ![c].delivery = "FAILED", ![c].consumed = TRUE]
    /\ UNCHANGED <<today, visit>>

\* OtpService.verify: the attempt is committed before the failure is reported.
EnterCode(c, right) ==
    /\ Usable(c)
    /\ challenge[c].attempts < MaxPerCode
    /\ challenge' = IF right THEN [challenge EXCEPT ![c].consumed = TRUE]
                    ELSE [challenge EXCEPT ![c].attempts = @ + 1, ![c].wrong = @ + 1]
    /\ UNCHANGED <<today, visit>>

\* Time passes: earlier challenges are older.
GetsOlder(c) ==
    /\ challenge[c].age < RECENT
    /\ \A b \in 1..(c - 1) : challenge[b].age > challenge[c].age
    /\ challenge' = [challenge EXCEPT ![c].age = @ + 1]
    /\ UNCHANGED <<today, visit>>

\* The first one's hour is over; its SMS call has long ended.
HourPasses ==
    /\ challenge # <<>> /\ challenge[1].age = RECENT
    /\ challenge' = Tail(challenge)
    /\ UNCHANGED <<today, visit>>

-----------------------------------------------------------------------------
(* The start code. *)

Arrive ==
    /\ visit.status = "ASSIGNED"
    /\ visit' = [visit EXCEPT !.status = "ARRIVED"]
    /\ UNCHANGED <<challenge, today>>

\* startService with a code: the wrong attempt is returned, not thrown, so that
\* it is committed.
StartWithCode(right) ==
    /\ visit.status = "ARRIVED"
    /\ visit.attempts < MaxPerCode
    /\ visit' = IF right THEN [visit EXCEPT !.status = "STARTED"]
                ELSE [visit EXCEPT !.attempts = @ + 1, !.wrong = @ + 1]
    /\ UNCHANGED <<challenge, today>>

\* Operations may start without a code, with a reason.
StartWithoutCode ==
    /\ visit.status = "ARRIVED"
    /\ visit' = [visit EXCEPT !.status = "STARTED"]
    /\ UNCHANGED <<challenge, today>>

-----------------------------------------------------------------------------
CodesInit ==
    /\ challenge = <<>>
    /\ today = 0
    /\ visit = [status |-> "ASSIGNED", attempts |-> 0, wrong |-> 0]

CodesNext ==
    \/ \E app \in Apps : Request(app)
    \/ \E c \in Issued : \E yes \in BOOLEAN : DeliveryRecorded(c, yes) \/ EnterCode(c, yes)
    \/ \E c \in Issued : GetsOlder(c)
    \/ HourPasses
    \/ Arrive \/ StartWithoutCode
    \/ \E right \in BOOLEAN : StartWithCode(right)

CodesSpec == CodesInit /\ [][CodesNext]_codes

-----------------------------------------------------------------------------
\* However requests, deliveries and wrong codes interleave, the codes of an hour
\* are guessed at a bounded number of times: those that lock the phone, and what
\* the code of each app that is open by then still allows.  A start code is
\* guessed at no more often than its own limit.
GuessesAreBounded ==
    /\ SumFunction([c \in Issued |-> challenge[c].wrong])
            <= MaxFailed - 1 + Cardinality(Apps) * MaxPerCode
    /\ visit.wrong <= MaxPerCode
=============================================================================
