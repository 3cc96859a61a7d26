--------------------------- MODULE Notifications ---------------------------
(***************************************************************************)
(* Messages to customers, workers and staff.  A business change enqueues   *)
(* them in its own transaction, one per channel switched on for its event, *)
(* under a key that is never queued twice.  Sender processes claim due     *)
(* ones (SKIP LOCKED), send them outside any transaction to every address  *)
(* of the recipient and write down how it went, by id alone.               *)
(*                                                                         *)
(* A process may die anywhere; a claim untouched for ten minutes is taken  *)
(* over.  We assume a live process does not take that long for its batch.  *)
(***************************************************************************)
EXTENDS Naturals, FiniteSets, Functions

CONSTANTS
    Messages,       \* dedupe keys of logical messages
    Recipient,      \* who a message is for, [Messages -> people]
    Channels,       \* a subset of PUSH, SMS, WHATSAPP, EMAIL, IN_APP
    Devices,        \* push tokens
    Senders,        \* worker processes
    MaxSends, SendBatch,    \* DISPATCH_POLICY.maxAttempts, .batchSize
    MaxDoubts       \* bound on the deaths of a process that has sent and not marked

ASSUME NotificationsAssumption == {MaxSends, SendBatch} \subseteq Nat \ {0} /\ MaxDoubts \in Nat

VARIABLES
    note,       \* notification, by <<dedupe key, channel>>
    waits,      \* those whose next_attempt_at (or stale time) is still to come
    routes,     \* channels whose notification_route is enabled
    optedIn,    \* people with an unwithdrawn WHATSAPP consent
    device,     \* user_device: whose each push token is, NONE when disabled
    sender,     \* what each process is doing
    copies,     \* how often each address got each notification
    doubts      \* how often it was unknown whether a notification had gone out

notifications == <<note, waits, routes, optedIn, device, sender, copies, doubts>>

-----------------------------------------------------------------------------
Notes == Messages \X Channels
People == Range(Recipient)
Owner(n) == Recipient[n[1]]
Addresses == Devices \cup {"ADDRESS"}

NoteStatuses == {"ABSENT", "QUEUED", "SENDING", "SENT", "FAILED", "SKIPPED"}

\* OK and LOST reach the recipient; a LOST answer is reported as RETRYABLE.
SendOutcomes == {"OK", "LOST", "RETRYABLE", "PERMANENT", "INVALID_RECIPIENT"}

\* READ: about to read the first notification; SEND: about to send it; MARK:
\* about to write status.
Resting == [step |-> "REST", batch |-> {}, current |-> <<>>, attempts |-> 0,
            addresses |-> {}, status |-> "ABSENT"]

Exhausted(n) == note[n].attempts >= MaxSends

-----------------------------------------------------------------------------
(* What the rest of the system does. *)

\* NotificationService.enqueue, from any business transaction, which may be
\* retried: one row per enabled channel, unless its key exists.
EnqueueMessage(m) ==
    LET new == {n \in {m} \X routes : note[n].status = "ABSENT"}
    IN  /\ new # {}
        /\ note' = [n \in Notes |-> IF n \in new THEN [note[n] EXCEPT !.status = "QUEUED"]
                                    ELSE note[n]]
        /\ UNCHANGED <<waits, routes, optedIn, device, sender, copies, doubts>>

\* Operations switch the routing of a channel.
SetRoute(ch) ==
    /\ routes' = IF ch \in routes THEN routes \ {ch} ELSE routes \cup {ch}
    /\ UNCHANGED <<note, waits, optedIn, device, sender, copies, doubts>>

SetConsent(u) ==
    /\ optedIn' = IF u \in optedIn THEN optedIn \ {u} ELSE optedIn \cup {u}
    /\ UNCHANGED <<note, waits, routes, device, sender, copies, doubts>>

\* DeviceService.register: a token belongs to whoever registered it last.
RegisterDevice(t, u) ==
    /\ device[t] # u
    /\ device' = [device EXCEPT ![t] = u]
    /\ UNCHANGED <<note, waits, routes, optedIn, sender, copies, doubts>>

-----------------------------------------------------------------------------
(* The dispatcher. *)

\* Mutant: a claim whose process died is never taken over.
MutantDueNotes ==
    {n \in Notes : note[n].status \in {"QUEUED", "FAILED"} /\ n \notin waits /\ ~Exhausted(n)}

\* What dispatchDue can claim: QUEUED or FAILED and due, or claimed by a process
\* that has not been heard of for ten minutes (first set back to QUEUED).
DueNotes ==
    {n \in Notes :
        /\ note[n].status \in {"QUEUED", "FAILED", "SENDING"}
        /\ n \notin waits
        /\ ~Exhausted(n)}

ClaimNotes(d) ==
    /\ sender[d].step = "REST"
    /\ DueNotes # {}
    /\ \E batch \in SUBSET DueNotes :
        /\ Cardinality(batch) <= SendBatch
        /\ Cardinality(batch) = SendBatch \/ batch = DueNotes
        /\ note' = [n \in Notes |-> IF n \in batch THEN [note[n] EXCEPT !.status = "SENDING"]
                                    ELSE note[n]]
        /\ waits' = waits \cup batch
        /\ sender' = [sender EXCEPT ![d] = [Resting EXCEPT !.step = "READ", !.batch = batch]]
    /\ UNCHANGED <<routes, optedIn, device, copies, doubts>>

\* Where deliver would send it now; nowhere is SKIPPED, whatever the reason.
AddressesOf(n) ==
    CASE n[2] \notin routes -> {}
      [] n[2] = "PUSH" -> {t \in Devices : device[t] = Owner(n)}
      [] n[2] = "WHATSAPP" /\ Owner(n) \notin optedIn -> {}
      [] OTHER -> {"ADDRESS"}

\* deliver reads the row, the route, the consent and the addresses.
ReadNote(d) ==
    /\ sender[d].step = "READ"
    /\ \E n \in sender[d].batch :
        LET found == AddressesOf(n)
        IN  sender' = [sender EXCEPT ![d] =
                [step |-> IF n[2] = "IN_APP" \/ found = {} THEN "MARK" ELSE "SEND",
                 batch |-> @.batch, current |-> n, attempts |-> note[n].attempts,
                 addresses |-> found,
                 status |-> IF n[2] = "IN_APP" THEN "SENT" ELSE "SKIPPED"]]
    /\ UNCHANGED <<note, waits, routes, optedIn, device, copies, doubts>>

\* Mutant: one address that can be tried again is enough to try them all.
MutantVerdict(d, how) ==
    LET said == Range(how)
    IN  IF said \cap {"LOST", "RETRYABLE"} = {} /\ "OK" \in said
        THEN [status |-> "SENT", attempts |-> sender[d].attempts + 1]
        ELSE [status |-> "FAILED",
              attempts |-> IF said \cap {"LOST", "RETRYABLE"} # {}
                           THEN sender[d].attempts + 1 ELSE MaxSends]

\* How an attempt ends: SENT once anybody got it and said so, for good when
\* nothing would change by trying again.
Verdict(d, how) ==
    LET said == Range(how)
    IN  IF "OK" \in said
        THEN [status |-> "SENT", attempts |-> sender[d].attempts + 1]
        ELSE [status |-> "FAILED",
              attempts |-> IF said \cap {"LOST", "RETRYABLE"} # {}
                           THEN sender[d].attempts + 1 ELSE MaxSends]

\* To all addresses at once; a token that is no longer valid is disabled, by the
\* id of its device.
SendNote(d) ==
    LET n == sender[d].current
    IN  /\ sender[d].step = "SEND"
        /\ \E how \in [sender[d].addresses -> SendOutcomes] :
            LET got == {a \in DOMAIN how : how[a] \in {"OK", "LOST"}}
                gone == {a \in DOMAIN how \cap Devices : how[a] = "INVALID_RECIPIENT"}
            IN  /\ copies' = [copies EXCEPT ![n] =
                                [a \in Addresses |-> @[a] + IF a \in got THEN 1 ELSE 0]]
                /\ doubts' = [doubts EXCEPT ![n] =
                                @ + IF "LOST" \in Range(how) THEN 1 ELSE 0]
                /\ device' = [t \in Devices |-> IF t \in gone THEN "NONE" ELSE device[t]]
                /\ sender' = [sender EXCEPT ![d] =
                        [step |-> "MARK", batch |-> @.batch, current |-> n, addresses |-> {},
                         attempts |-> Verdict(d, how).attempts,
                         status |-> Verdict(d, how).status]]
        /\ UNCHANGED <<note, waits, routes, optedIn>>

\* mark: FAILED ones wait before the next attempt.
MarkNote(d) ==
    LET n == sender[d].current
        rest == sender[d].batch \ {n}
    IN  /\ sender[d].step = "MARK"
        /\ note' = [note EXCEPT ![n] = [status |-> sender[d].status,
                                        attempts |-> sender[d].attempts]]
        /\ waits' = IF sender[d].status = "FAILED" THEN waits ELSE waits \ {n}
        /\ sender' = [sender EXCEPT ![d] =
                        IF rest = {} THEN Resting
                        ELSE [Resting EXCEPT !.step = "READ", !.batch = rest]]
        /\ UNCHANGED <<routes, optedIn, device, copies, doubts>>

\* The process dies, or loses the database.
SenderDies(d) ==
    LET n == sender[d].current
        sent == /\ sender[d].step = "MARK" /\ n[2] # "IN_APP"
                /\ sender[d].status # "SKIPPED"
    IN  /\ sender[d].step # "REST"
        /\ sent => doubts[n] < MaxDoubts
        /\ doubts' = IF sent THEN [doubts EXCEPT ![n] = @ + 1] ELSE doubts
        /\ sender' = [sender EXCEPT ![d] = Resting]
        /\ UNCHANGED <<note, waits, routes, optedIn, device, copies>>

\* next_attempt_at, or the ten minutes of a claim, pass.
WaitEnds(n) ==
    /\ n \in waits
    /\ \A d \in Senders : n \notin sender[d].batch
    /\ waits' = waits \ {n}
    /\ UNCHANGED <<note, routes, optedIn, device, sender, copies, doubts>>

-----------------------------------------------------------------------------
NotificationsStart(routed) ==
    /\ note = [n \in Notes |-> [status |-> "ABSENT", attempts |-> 0]]
    /\ waits = {}
    /\ routes = routed
    /\ optedIn \in SUBSET People
    /\ device \in [Devices -> People \cup {"NONE"}]
    /\ sender = [d \in Senders |-> Resting]
    /\ copies = [n \in Notes |-> [a \in Addresses |-> 0]]
    /\ doubts = [n \in Notes |-> 0]

NotificationsInit == NotificationsStart(Channels)

NotificationsNext ==
    \/ \E m \in Messages : EnqueueMessage(m)
    \/ \E ch \in Channels : SetRoute(ch)
    \/ \E u \in People : SetConsent(u)
    \/ \E t \in Devices, u \in People : RegisterDevice(t, u)
    \/ \E d \in Senders :
          ClaimNotes(d) \/ ReadNote(d) \/ SendNote(d) \/ MarkNote(d) \/ SenderDies(d)
    \/ \E n \in Notes : WaitEnds(n)

\* The dispatch job runs again and again, and processes do not die for ever.
NotificationsFairness ==
    /\ \A d \in Senders :
          WF_notifications(ClaimNotes(d) \/ ReadNote(d) \/ SendNote(d) \/ MarkNote(d))
    /\ \A n \in Notes : WF_notifications(WaitEnds(n))
    /\ <>[][\A d \in Senders : ~SenderDies(d)]_notifications

NotificationsSpec == NotificationsInit /\ [][NotificationsNext]_notifications

-----------------------------------------------------------------------------
\* "Several workers can run without sending a message twice": an address gets a
\* notification again only for every time nobody could know whether it had
\* (an answer that got lost, a process that died before writing it down).
NoNeedlessCopy == \A n \in Notes, a \in Addresses : copies[n][a] <= 1 + doubts[n]

\* Every notification is sent, skipped or given up in the end, whichever
\* processes died with it in their hands.
Outstanding(n) ==
    note[n].status \in {"QUEUED", "SENDING"} \/ (note[n].status = "FAILED" /\ ~Exhausted(n))

EveryNoteSettles == []<>(\A n \in Notes : ~Outstanding(n))
=============================================================================
