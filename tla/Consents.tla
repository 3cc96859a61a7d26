------------------------------ MODULE Consents ------------------------------
(***************************************************************************)
(* Legal documents and consent (LegalService): versions of the documents   *)
(* an app requires come into force at their time, a person accepts exactly *)
(* the versions the terms screen shows, and booking or going online is let *)
(* through only after a check of its own.  A request reads and writes in   *)
(* separate statements: documents may be published, and come into force,   *)
(* between any two.  One person; optional consents have one purpose.       *)
(* Two versions of a document never get the same moment: the database may  *)
(* then take either.                                                       *)
(***************************************************************************)
EXTENDS Naturals, FiniteSets

CONSTANTS
    LegalCodes,     \* the documents this app requires
    Versions,
    Locales,
    Person,         \* the requests of this person that may overlap
    LegalEnd,       \* bound on the time
    MaxDocuments    \* bound on the published rows

ASSUME ConsentsAssumption == LegalEnd \in Nat

VARIABLES
    clock,         \* the time
    legal,          \* the rows of legal_document
    consent,        \* the documents with an active consent_record
    terms,          \* what the terms screen asks the person to accept
    asked,          \* the requests
    choice          \* the optional consent, and the choices on their way

consents == <<clock, legal, consent, terms, asked, choice>>

-----------------------------------------------------------------------------
Document == [code : LegalCodes, version : Versions, locale : Locales, from : 0..LegalEnd]

\* The versions of a document whose time has come, latest first: the one in force.
InForce(code) ==
    LET begun == {d \in legal : d.code = code /\ d.from <= clock} IN
    {d.version : d \in {e \in begun : \A f \in begun : f.from <= e.from}}

\* current: the row of each document that is shown in a language.
Current(locale) ==
    LET rows(code) == {d \in legal : d.code = code /\ d.from <= clock /\ d.version \in InForce(code)}
    IN {d \in UNION {rows(code) : code \in LegalCodes} :
            d.locale = locale \/ \A e \in rows(d.code) : e.locale # locale}

Key(d) == <<d.code, d.version>>
Keys(docs) == {Key(d) : d \in docs}

\* Mutant: the version that was accepted is not looked at.
MutantAcceptedKeys == {<<d.code, v>> : d \in consent, v \in Versions}

\* acceptedVersions: a version accepted in one language is accepted in all.
AcceptedKeys == Keys(consent)

NotAsking == [step |-> "idle", docs |-> {}, since |-> {}]

\* What comes into force is noted for the requests that have not read it yet;
\* version 0: nothing is in force.
Noted(docs, now) ==
    LET inForce == {d \in docs : d.from <= now /\
                       \A e \in docs : e.code = d.code /\ e.from <= now => e.from <= d.from}
    IN  [r \in Person |-> IF asked[r].step = "checking"
                          THEN [asked[r] EXCEPT !.since = @ \cup Keys(inForce)] ELSE asked[r]]

-----------------------------------------------------------------------------
(* Documents. *)

\* publish: "never in the past"; also another language of an older version.
Publish(code, version, locale, from) ==
    /\ Cardinality(legal) < MaxDocuments
    /\ from >= clock
    /\ \A d \in legal : d.code = code =>
          /\ <<d.version, d.locale>> # <<version, locale>>
          /\ d.from = from => d.version = version
    /\ legal' = legal \cup {[code |-> code, version |-> version, locale |-> locale, from |-> from]}
    /\ asked' = Noted(legal', clock)
    /\ UNCHANGED <<clock, consent, terms, choice>>

LegalTimePasses ==
    /\ clock < LegalEnd
    /\ clock' = clock + 1
    /\ asked' = Noted(legal, clock')
    /\ UNCHANGED <<legal, consent, terms, choice>>

-----------------------------------------------------------------------------
(* The terms screen. *)

\* status, and what the screen shows of it: the documents not yet accepted.
OpenTerms(locale) ==
    /\ terms' = {d \in Current(locale) : Key(d) \notin AcceptedKeys}
    /\ UNCHANGED <<clock, legal, consent, asked, choice>>

AcceptShown(r) ==
    /\ asked[r] = NotAsking
    /\ terms # {}
    /\ asked' = [asked EXCEPT ![r] = [step |-> "accepting", docs |-> terms, since |-> {}]]
    /\ UNCHANGED <<clock, legal, consent, terms, choice>>

\* accept: refused unless every document belongs to a version in force.
CheckShown(r) ==
    /\ asked[r].step = "accepting"
    /\ asked' = [asked EXCEPT ![r] =
          IF \A d \in asked[r].docs : d.version \in InForce(d.code)
          THEN [@ EXCEPT !.step = "recording"] ELSE NotAsking]
    /\ UNCHANGED <<clock, legal, consent, terms, choice>>

\* The screen goes on when the answer reaches it; accepting again is a no-op.
RecordConsent(r) ==
    /\ asked[r].step = "recording"
    /\ consent' = consent \cup asked[r].docs
    /\ asked' = [asked EXCEPT ![r] = NotAsking]
    /\ terms' \in {terms, {}}
    /\ UNCHANGED <<clock, legal, choice>>

-----------------------------------------------------------------------------
(* Booking, or going online. *)

\* assertAccepted ...
AskToAct(r) ==
    /\ asked[r] = NotAsking
    /\ asked' = [asked EXCEPT ![r] = [step |-> "checking", docs |-> {},
                    since |-> {k \in LegalCodes \X (Versions \cup {0}) :
                                  k[2] \in InForce(k[1]) \/ (k[2] = 0 /\ InForce(k[1]) = {})}]]
    /\ UNCHANGED <<clock, legal, consent, terms, choice>>

\* ... reads what is in force ...
ReadDocuments(r) ==
    /\ asked[r].step = "checking"
    /\ asked' = [asked EXCEPT ![r] =
          [step |-> "documents", docs |-> Current("en"), since |-> @.since]]
    /\ UNCHANGED <<clock, legal, consent, terms, choice>>

\* ... then what the person accepted.
ReadAcceptances(r) ==
    /\ asked[r].step = "documents"
    /\ asked' = [asked EXCEPT ![r] =
          IF Keys(asked[r].docs) \subseteq AcceptedKeys
          THEN [@ EXCEPT !.step = "letThrough"] ELSE NotAsking]
    /\ UNCHANGED <<clock, legal, consent, terms, choice>>

\* The booking is made, or the worker is online.
Acts(r) ==
    /\ asked[r].step = "letThrough"
    /\ asked' = [asked EXCEPT ![r] = NotAsking]
    /\ UNCHANGED <<clock, legal, consent, terms, choice>>

-----------------------------------------------------------------------------
(* Optional consents. *)

\* choose: the client retries it without a key or an order.
ChooseOptional(granted) ==
    /\ choice' = [choice EXCEPT !.sent = @ \cup {granted}]
    /\ UNCHANGED <<clock, legal, consent, terms, asked>>

SetOptional(granted, again) ==
    /\ granted \in choice.sent
    /\ choice' = [on |-> granted, sent |-> IF again THEN choice.sent ELSE choice.sent \ {granted}]
    /\ UNCHANGED <<clock, legal, consent, terms, asked>>

-----------------------------------------------------------------------------
ConsentsInit ==
    /\ clock = 0
    /\ legal = {} /\ consent = {} /\ terms = {}
    /\ asked = [r \in Person |-> NotAsking]
    /\ choice = [on |-> FALSE, sent |-> {}]

ConsentRequest(r) ==
    \/ AcceptShown(r) \/ CheckShown(r) \/ RecordConsent(r)
    \/ AskToAct(r) \/ ReadDocuments(r) \/ ReadAcceptances(r) \/ Acts(r)

ConsentsNext ==
    \/ \E code \in LegalCodes, v \in Versions, locale \in Locales, from \in 0..LegalEnd :
          Publish(code, v, locale, from)
    \/ LegalTimePasses
    \/ \E locale \in Locales : OpenTerms(locale)
    \/ \E r \in Person : ConsentRequest(r)
    \/ \E granted \in BOOLEAN : \/ ChooseOptional(granted)
                                \/ \E again \in BOOLEAN : SetOptional(granted, again)

ConsentsSpec == ConsentsInit /\ [][ConsentsNext]_consents

-----------------------------------------------------------------------------
(* Who is let through has accepted, of every required document, a version     *)
(* that was in force between the start of the check and its reading of the    *)
(* documents, or there was a moment without one.                              *)
LetThroughHasAccepted ==
    \A r \in Person, code \in LegalCodes :
        asked[r].step = "letThrough" =>
            \E k \in asked[r].since : k[1] = code /\ (k[2] = 0 \/ k \in Keys(consent))
=============================================================================
