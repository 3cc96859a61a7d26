-------------------------- MODULE BackgroundProofs --------------------------
(***************************************************************************)
(* What the worker processes do behind the scenes, for any set of them:    *)
(* runs of one job that are still within their lease never overlap         *)
(* (JobLease); nobody gets a notification twice without a reason, for any  *)
(* messages, channels and devices (Notifications); and what they do with   *)
(* Zoho: the access token they share (ZohoTokens) and the outbox (Outbox), *)
(* for any number of requests, dispatchers, records and events.            *)
(***************************************************************************)
EXTENDS JobLease, Notifications, ZohoTokens, Outbox, WellFoundedInduction, TLAPS

-----------------------------------------------------------------------------
(* Job leases. *)

\* A run within its lease has the lease: with its types this is inductive, and
\* one lease has one owner.
LeaseInv == LeaseTypeOK /\ LeaseIsKept

LEMMA LeaseInitHolds == LeaseInit => LeaseInv
  BY DEF LeaseInit, LeaseInv, LeaseTypeOK, LeaseIsKept, Places

\* No step of a process takes the lease from a run that is within it.
LEMMA LeaseStepHolds == LeaseInv /\ [LeaseNext]_leaseVars => LeaseInv'
<1> SUFFICES ASSUME LeaseInv, [LeaseNext]_leaseVars
             PROVE  LeaseInv'
  OBVIOUS
<1> USE OwnerAssumption DEF LeaseInv, LeaseTypeOK, LeaseIsKept, HasLease, Places, Moves
<1>1. CASE JobLeaseExpires
  BY <1>1 DEF JobLeaseExpires
<1>2. ASSUME NEW p \in Processes, ProcessStep(p)
      PROVE  LeaseInv'
  <2>1. CASE Start(p)
    BY <2>1 DEF Start
  <2>2. CASE Tick(p)
    BY <2>2 DEF Tick
  <2>3. CASE TakeLease(p)
    BY <2>3 DEF TakeLease, MayTake
  <2>4. CASE Refused(p)
    BY <2>4 DEF Refused
  <2>5. CASE Finish(p)
    BY <2>5 DEF Finish
  <2>6. CASE DatabaseFails(p)
    BY <2>6 DEF DatabaseFails
  <2>7. CASE Shutdown(p)
    BY <2>7 DEF Shutdown
  <2>8. CASE Exit(p)
    BY <2>8 DEF Exit
  <2> QED
    BY <1>2, <2>1, <2>2, <2>3, <2>4, <2>5, <2>6, <2>7, <2>8 DEF ProcessStep
<1>3. CASE UNCHANGED leaseVars
  BY <1>3 DEF leaseVars
<1> QED
  BY <1>1, <1>2, <1>3 DEF LeaseNext

\* The inductive invariant holds in every reachable state.
THEOREM LeaseInvariant == LeaseSpec => []LeaseInv
  BY LeaseInitHolds, LeaseStepHolds, PTL DEF LeaseSpec

\* Types, for any set of processes.
THEOREM LeaseTyping == LeaseSpec => []LeaseTypeOK
  BY LeaseInvariant, PTL DEF LeaseInv

\* Nobody else's start, late finish, crash or shutdown takes the lease of a run
\* away before it expires.
THEOREM LeasesAreKept == LeaseSpec => []LeaseIsKept
  BY LeaseInvariant, PTL DEF LeaseInv

\* Only the run that outlives its lease, or whose process shuts down, ever runs
\* beside another: two runs within their lease are the same run.
THEOREM RunsAreAlone == LeaseSpec => []AloneWithinLease
<1>1. LeaseInv => AloneWithinLease
  BY DEF LeaseInv, LeaseIsKept, AloneWithinLease, HasLease
<1> QED
  BY <1>1, LeaseInvariant, PTL
-----------------------------------------------------------------------------
(* Notifications.  A note is in the batch of one process at most, and as long *)
(* as it is not sent, nobody has it but for the doubts there were.            *)

SenderOK(d) ==
    /\ sender[d].step \in {"REST", "READ", "SEND", "MARK"}
    /\ sender[d].attempts \in Nat /\ sender[d].status \in NoteStatuses
    /\ sender[d].step = "REST" => sender[d].batch = {}
    /\ \A n \in sender[d].batch : n \in Notes /\ n \in waits /\ note[n].status = "SENDING"
    /\ sender[d].step \in {"SEND", "MARK"} => sender[d].current \in sender[d].batch
    /\ sender[d].step = "SEND" => sender[d].current[2] # "IN_APP"

Disjoint(c, d) == sender[c].batch \cap sender[d].batch = {}

\* A process is about to write down that the note was sent.
Marks(d, n) == sender[d].step = "MARK" /\ sender[d].current = n /\ sender[d].status = "SENT"

CopiesOK(n) ==
    \A a \in Addresses :
        /\ copies[n][a] <= 1 + doubts[n]
        /\ n[2] = "IN_APP" => copies[n][a] = 0
        /\ note[n].status # "SENT" /\ (\A d \in Senders : ~Marks(d, n))
              => copies[n][a] <= doubts[n]

NotesInv ==
    /\ note \in [Notes -> [status : NoteStatuses, attempts : Nat]] /\ DOMAIN sender = Senders
    /\ copies \in [Notes -> [Addresses -> Nat]] /\ doubts \in [Notes -> Nat]
    /\ \A d \in Senders : SenderOK(d)
    /\ \A d \in Senders : \A c \in Senders \ {d} : Disjoint(c, d)
    /\ \A n \in Notes : CopiesOK(n)

LEMMA NotesInitHolds == NotificationsInit => NotesInv
BY DEF NotificationsInit, NotificationsStart, NotesInv, SenderOK, Disjoint, Marks, CopiesOK,
       Resting, NoteStatuses

\* Notes that nobody has, at another status.
LEMMA NoteMoves ==
  ASSUME NEW row \in [status : NoteStatuses, attempts : Nat], NEW s \in NoteStatuses, NEW x,
         x = [row EXCEPT !.status = s]
  PROVE  x \in [status : NoteStatuses, attempts : Nat] /\ x.status = s
OBVIOUS

\* Only notes that nobody has move, and none of them was SENT.
LEMMA NotesMove ==
  ASSUME NotesInv, UNCHANGED <<copies, doubts, sender>>, waits \subseteq waits',
         note' \in [Notes -> [status : NoteStatuses, attempts : Nat]],
         \A n \in Notes : \/ note'[n] = note[n]
                          \/ note[n].status # "SENDING" /\ note[n].status # "SENT"
  PROVE  NotesInv'
<1>1. ASSUME NEW d \in Senders PROVE SenderOK(d)'
  BY DEF NotesInv, SenderOK
<1>2. ASSUME NEW n \in Notes PROVE CopiesOK(n)'
  BY DEF NotesInv, CopiesOK, Marks
<1>3. ASSUME NEW d \in Senders, NEW c \in Senders \ {d} PROVE Disjoint(c, d)'
  BY DEF NotesInv, Disjoint
<1> QED
  BY <1>1, <1>2, <1>3 DEF NotesInv

LEMMA EnqueueMessageHolds ==
  ASSUME NotesInv, NEW m \in Messages, EnqueueMessage(m)
  PROVE  NotesInv'
<1>1. PICK new : /\ new \subseteq {n \in Notes : note[n].status = "ABSENT"} \cup ({m} \X routes)
                 /\ \A n \in new : note[n].status = "ABSENT"
                 /\ note' = [n \in Notes |-> IF n \in new THEN [note[n] EXCEPT !.status = "QUEUED"]
                                             ELSE note[n]]
  BY DEF EnqueueMessage
<1>2. ASSUME NEW n \in Notes
      PROVE  /\ note'[n] \in [status : NoteStatuses, attempts : Nat]
             /\ note'[n] = note[n] \/ note[n].status = "ABSENT"
  BY <1>1, NoteMoves DEF NotesInv, NoteStatuses
<1>3. note' \in [Notes -> [status : NoteStatuses, attempts : Nat]]
  <2>1. note' = [n \in Notes |-> note'[n]]
    BY <1>1
  <2> QED
    BY <1>2, <2>1
<1>4. UNCHANGED <<copies, doubts, sender, waits>>
  BY DEF EnqueueMessage
<1> QED
  BY <1>2, <1>3, <1>4, NotesMove

LEMMA ClaimNotesHolds ==
  ASSUME NotesInv, NEW d \in Senders, ClaimNotes(d)
  PROVE  NotesInv'
<1>1. PICK batch \in SUBSET DueNotes :
        /\ note' = [n \in Notes |-> IF n \in batch THEN [note[n] EXCEPT !.status = "SENDING"]
                                    ELSE note[n]]
        /\ waits' = waits \cup batch
        /\ sender' = [sender EXCEPT ![d] = [Resting EXCEPT !.step = "READ", !.batch = batch]]
  BY DEF ClaimNotes
<1>2. PICK reading : reading = [Resting EXCEPT !.step = "READ", !.batch = batch]
  OBVIOUS
<1>3. reading.step = "READ" /\ reading.batch = batch /\ reading.attempts = 0 /\ reading.status = "ABSENT"
  BY <1>2 DEF Resting
<1>4. /\ sender'[d] = reading /\ DOMAIN sender' = Senders
      /\ \A c \in Senders \ {d} : sender'[c] = sender[c]
  BY <1>1, <1>2 DEF NotesInv
<1>5. \A n \in batch : /\ n \in Notes /\ n \notin waits /\ note[n].status # "SENT"
                       /\ \A c \in Senders : n \notin sender[c].batch
  BY DEF DueNotes, NotesInv, SenderOK
<1>6. ASSUME NEW n \in Notes
      PROVE  /\ note'[n] \in [status : NoteStatuses, attempts : Nat]
             /\ IF n \in batch THEN note'[n].status = "SENDING" ELSE note'[n] = note[n]
  BY <1>1, NoteMoves DEF NotesInv, NoteStatuses
<1>7. note' \in [Notes -> [status : NoteStatuses, attempts : Nat]]
  <2>1. note' = [n \in Notes |-> note'[n]]
    BY <1>1
  <2> QED
    BY <1>6, <2>1
<1>8. UNCHANGED <<copies, doubts>>
  BY DEF ClaimNotes
<1>9. ASSUME NEW c \in Senders PROVE SenderOK(c)'
  <2>1. CASE c = d
    <3>1. \A n \in batch : n \in Notes /\ n \in waits' /\ note'[n].status = "SENDING"
      BY <1>1, <1>5, <1>6
    <3> QED
      BY <1>3, <1>4, <2>1, <3>1 DEF SenderOK, NoteStatuses
  <2>2. CASE c # d
    BY <1>1, <1>4, <1>5, <1>6, <2>2 DEF SenderOK, NotesInv
  <2> QED
    BY <2>1, <2>2
<1>10. ASSUME NEW b \in Senders, NEW c \in Senders \ {b} PROVE Disjoint(c, b)'
  BY <1>3, <1>4, <1>5 DEF Disjoint, NotesInv
<1>11. ASSUME NEW n \in Notes PROVE CopiesOK(n)'
  <2>1. \A c \in Senders : Marks(c, n) => Marks(c, n)' \/ c = d
    BY <1>4 DEF Marks
  <2>2. n \in batch => \A c \in Senders : ~Marks(c, n)
    BY <1>5 DEF Marks, NotesInv, SenderOK
  <2>3. ~Marks(d, n)
    BY DEF Marks, ClaimNotes
  <2> QED
    BY <1>5, <1>6, <1>8, <2>1, <2>2, <2>3 DEF CopiesOK, NotesInv
<1> QED
  BY <1>4, <1>7, <1>8, <1>9, <1>10, <1>11 DEF NotesInv

\* A process that goes on with its batch, or with less of it, while the notes stay.
LEMMA SenderMoves ==
  ASSUME NotesInv, NEW d \in Senders, UNCHANGED <<note, waits>>,
         DOMAIN sender' = Senders, \A c \in Senders \ {d} : sender'[c] = sender[c],
         SenderOK(d)', sender'[d].batch \subseteq sender[d].batch,
         copies' \in [Notes -> [Addresses -> Nat]], doubts' \in [Notes -> Nat],
         \A n \in Notes : CopiesOK(n)'
  PROVE  NotesInv'
<1>1. ASSUME NEW c \in Senders PROVE SenderOK(c)'
  BY DEF NotesInv, SenderOK
<1>2. ASSUME NEW b \in Senders, NEW c \in Senders \ {b} PROVE Disjoint(c, b)'
  BY DEF NotesInv, Disjoint
<1> QED
  BY <1>1, <1>2 DEF NotesInv

LEMMA ReadNoteHolds ==
  ASSUME NotesInv, NEW d \in Senders, ReadNote(d)
  PROVE  NotesInv'
<1>1. PICK n \in sender[d].batch :
        sender' = [sender EXCEPT ![d] =
                [step |-> IF n[2] = "IN_APP" \/ AddressesOf(n) = {} THEN "MARK" ELSE "SEND",
                 batch |-> @.batch, current |-> n, attempts |-> note[n].attempts,
                 addresses |-> AddressesOf(n),
                 status |-> IF n[2] = "IN_APP" THEN "SENT" ELSE "SKIPPED"]]
  BY DEF ReadNote
<1>2. UNCHANGED <<note, waits, copies, doubts>> /\ sender[d].step = "READ"
  BY DEF ReadNote
<1>3. /\ sender'[d] = [step |-> IF n[2] = "IN_APP" \/ AddressesOf(n) = {} THEN "MARK" ELSE "SEND",
                       batch |-> sender[d].batch, current |-> n, attempts |-> note[n].attempts,
                       addresses |-> AddressesOf(n),
                       status |-> IF n[2] = "IN_APP" THEN "SENT" ELSE "SKIPPED"]
      /\ DOMAIN sender' = Senders /\ \A c \in Senders \ {d} : sender'[c] = sender[c]
  BY <1>1 DEF NotesInv
<1>4. n \in Notes /\ note[n].attempts \in Nat
  BY DEF NotesInv, SenderOK
<1>5. SenderOK(d)'
  BY <1>2, <1>3, <1>4 DEF NotesInv, SenderOK, NoteStatuses
<1>6. ASSUME NEW m \in Notes PROVE CopiesOK(m)'
  <2>1. \A c \in Senders : Marks(c, m) => Marks(c, m)'
    BY <1>2, <1>3 DEF Marks
  <2>2. CopiesOK(m)
    BY DEF NotesInv
  <2> QED
    BY <1>2, <2>1, <2>2 DEF CopiesOK
<1> QED
  BY <1>2, <1>3, <1>5, <1>6, SenderMoves DEF NotesInv

\* Whoever sends a note has it alone, and has not marked it yet.
LEMMA HasAlone ==
  ASSUME NotesInv, NEW d \in Senders, sender[d].step \in {"SEND", "MARK"}
  PROVE  /\ sender[d].current \in Notes /\ sender[d].current \in sender[d].batch
         /\ note[sender[d].current].status = "SENDING"
         /\ \A c \in Senders \ {d} : ~Marks(c, sender[d].current)
<1>1. sender[d].current \in sender[d].batch
  BY DEF NotesInv, SenderOK
<1>2. ASSUME NEW c \in Senders \ {d}, Marks(c, sender[d].current) PROVE FALSE
  <2>1. sender[d].current \in sender[c].batch
    BY <1>2 DEF NotesInv, SenderOK, Marks
  <2> QED
    BY <1>1, <2>1 DEF NotesInv, Disjoint
<1> QED
  BY <1>1, <1>2 DEF NotesInv, SenderOK

LEMMA SendNoteHolds ==
  ASSUME NotesInv, NEW d \in Senders, SendNote(d)
  PROVE  NotesInv'
<1>0. PICK n : n = sender[d].current
  OBVIOUS
<1>1. PICK how \in [sender[d].addresses -> SendOutcomes] :
        /\ copies' = [copies EXCEPT ![n] =
                       [a \in Addresses |-> @[a] + IF a \in {b \in DOMAIN how : how[b] \in {"OK", "LOST"}}
                                                  THEN 1 ELSE 0]]
        /\ doubts' = [doubts EXCEPT ![n] = @ + IF "LOST" \in Range(how) THEN 1 ELSE 0]
        /\ sender' = [sender EXCEPT ![d] =
                [step |-> "MARK", batch |-> @.batch, current |-> n, addresses |-> {},
                 attempts |-> Verdict(d, how).attempts,
                 status |-> Verdict(d, how).status]]
  <2>1. n = sender[d].current /\ SendNote(d)
    BY <1>0
  <2> QED
    BY <2>1, ZenonT(60) DEF SendNote
<1>2. sender[d].step = "SEND" /\ UNCHANGED <<note, waits>>
  BY DEF SendNote
<1>3. /\ n \in Notes /\ n \in sender[d].batch /\ note[n].status = "SENDING" /\ n[2] # "IN_APP"
      /\ \A c \in Senders \ {d} : ~Marks(c, n)
  BY <1>0, <1>2, HasAlone DEF NotesInv, SenderOK
<1>4. ~Marks(d, n)
  BY <1>2 DEF Marks
<1> DEFINE verdict == Verdict(d, how)
<1>5. /\ verdict.attempts \in Nat /\ verdict.status \in {"SENT", "FAILED"}
      /\ verdict.status = "SENT" <=> "OK" \in Range(how)
  BY NotificationsAssumption DEF Verdict, NotesInv, SenderOK
<1> HIDE DEF verdict
<1>6. /\ sender'[d] = [step |-> "MARK", batch |-> sender[d].batch, current |-> n, addresses |-> {},
                       attempts |-> verdict.attempts, status |-> verdict.status]
      /\ DOMAIN sender' = Senders /\ \A c \in Senders \ {d} : sender'[c] = sender[c]
  BY <1>1 DEF NotesInv, verdict
<1>7. SenderOK(d)'
  BY <1>2, <1>3, <1>5, <1>6 DEF NotesInv, SenderOK, NoteStatuses
<1> DEFINE got == {b \in DOMAIN how : how[b] \in {"OK", "LOST"}}
           lost == IF "LOST" \in Range(how) THEN 1 ELSE 0
<1>8. got # {} => "OK" \in Range(how) \/ "LOST" \in Range(how)
  BY DEF Range
<1>9. lost \in {0, 1}
  OBVIOUS
<1>10. got # {} /\ verdict.status # "SENT" => lost = 1
  BY <1>5, <1>8
<1>11. /\ copies' = [copies EXCEPT ![n] = [a \in Addresses |-> @[a] + IF a \in got THEN 1 ELSE 0]]
       /\ doubts' = [doubts EXCEPT ![n] = @ + lost]
  BY <1>1
<1> HIDE DEF got, lost
<1>12. copies' \in [Notes -> [Addresses -> Nat]] /\ doubts' \in [Notes -> Nat]
  BY <1>3, <1>9, <1>11 DEF NotesInv
<1>13. CopiesOK(n)'
  <2> SUFFICES ASSUME NEW a \in Addresses
               PROVE  /\ copies'[n][a] <= 1 + doubts'[n]
                      /\ verdict.status # "SENT" => copies'[n][a] <= doubts'[n]
    BY <1>3, <1>6 DEF CopiesOK, Marks
  <2>1. copies[n][a] \in Nat /\ doubts[n] \in Nat /\ copies[n][a] <= doubts[n]
    BY <1>2, <1>3, <1>4 DEF NotesInv, CopiesOK
  <2>2. doubts'[n] = doubts[n] + lost
    BY <1>3, <1>11 DEF NotesInv
  <2>3. copies'[n][a] = copies[n][a] + IF a \in got THEN 1 ELSE 0
    BY <1>3, <1>11 DEF NotesInv
  <2> QED
    BY <1>9, <1>10, <2>1, <2>2, <2>3
<1>14. ASSUME NEW m \in Notes \ {n} PROVE CopiesOK(m)'
  <2>1. copies'[m] = copies[m] /\ doubts'[m] = doubts[m] /\ note'[m] = note[m]
    BY <1>2, <1>11 DEF NotesInv
  <2>2. \A c \in Senders : Marks(c, m) => Marks(c, m)'
    BY <1>2, <1>6 DEF Marks
  <2>3. CopiesOK(m)
    BY DEF NotesInv
  <2> QED
    BY <2>1, <2>2, <2>3 DEF CopiesOK
<1> QED
  BY <1>2, <1>6, <1>7, <1>12, <1>13, <1>14, SenderMoves

LEMMA SenderDiesHolds ==
  ASSUME NotesInv, NEW d \in Senders, SenderDies(d)
  PROVE  NotesInv'
<1> DEFINE n == sender[d].current
           sent == sender[d].step = "MARK" /\ n[2] # "IN_APP" /\ sender[d].status # "SKIPPED"
<1>1. /\ UNCHANGED <<note, waits, copies>> /\ sender' = [sender EXCEPT ![d] = Resting]
      /\ doubts' = IF sent THEN [doubts EXCEPT ![n] = @ + 1] ELSE doubts
  BY DEF SenderDies
<1>2. /\ sender'[d] = Resting /\ DOMAIN sender' = Senders
      /\ \A c \in Senders \ {d} : sender'[c] = sender[c]
  BY <1>1 DEF NotesInv
<1>3. SenderOK(d)' /\ sender'[d].batch = {}
  BY <1>2 DEF Resting, SenderOK, NoteStatuses
<1>4. sent => n \in Notes
  BY HasAlone
<1>5. doubts' \in [Notes -> Nat]
  BY <1>1, <1>4 DEF NotesInv
<1>6. ASSUME NEW m \in Notes PROVE CopiesOK(m)'
  <2>1. \A c \in Senders : Marks(c, m) => Marks(c, m)' \/ c = d
    BY <1>2 DEF Marks
  <2>2. CopiesOK(m) /\ doubts[m] \in Nat /\ copies[m] \in [Addresses -> Nat]
    BY DEF NotesInv
  <2>3. CASE Marks(d, m) /\ m[2] # "IN_APP"
    <3>1. doubts'[m] = doubts[m] + 1
      BY <1>1, <2>3 DEF Marks, NotesInv
    <3> QED
      BY <1>1, <2>2, <3>1 DEF CopiesOK
  <2>4. CASE m[2] = "IN_APP"
    <3>1. doubts'[m] \in Nat
      BY <1>5
    <3> QED
      BY <1>1, <2>2, <2>4, <3>1 DEF CopiesOK
  <2>5. CASE ~Marks(d, m)
    <3>1. doubts'[m] = doubts[m] \/ doubts'[m] = doubts[m] + 1
      BY <1>1 DEF NotesInv
    <3> QED
      BY <1>1, <2>1, <2>2, <2>5, <3>1 DEF CopiesOK
  <2> QED
    BY <2>3, <2>4, <2>5
<1> QED
  BY <1>1, <1>2, <1>3, <1>5, <1>6, SenderMoves DEF NotesInv

LEMMA MarkNoteHolds ==
  ASSUME NotesInv, NEW d \in Senders, MarkNote(d)
  PROVE  NotesInv'
<1>0. PICK n : n = sender[d].current
  OBVIOUS
<1> DEFINE rest == sender[d].batch \ {n}
<1>1. /\ note' = [note EXCEPT ![n] = [status |-> sender[d].status, attempts |-> sender[d].attempts]]
      /\ waits \ {n} \subseteq waits'
      /\ UNCHANGED <<copies, doubts>> /\ sender[d].step = "MARK"
  BY <1>0 DEF MarkNote
<1>2. PICK next : /\ \/ next = Resting /\ rest = {}
                     \/ next = [Resting EXCEPT !.step = "READ", !.batch = rest]
                  /\ sender' = [sender EXCEPT ![d] = next]
  BY <1>0 DEF MarkNote
<1>3. n \in Notes /\ n \in sender[d].batch /\ \A c \in Senders \ {d} : ~Marks(c, n)
  BY <1>0, <1>1, HasAlone
<1>4. /\ sender[d].status \in NoteStatuses /\ sender[d].attempts \in Nat
      /\ \A m \in sender[d].batch : m \in Notes /\ m \in waits /\ note[m].status = "SENDING"
  BY DEF NotesInv, SenderOK
<1>5. /\ next.step \in {"REST", "READ"} /\ next.batch = rest
      /\ next.attempts = 0 /\ next.status = "ABSENT" /\ (next.step = "REST" => next.batch = {})
  <2> HIDE DEF rest
  <2>1. CASE next = Resting /\ rest = {}
    BY <2>1 DEF Resting
  <2>2. CASE next = [Resting EXCEPT !.step = "READ", !.batch = rest]
    BY <2>2 DEF Resting
  <2> QED
    BY <1>2, <2>1, <2>2
<1>6. \A c \in Senders \ {d} : n \notin sender[c].batch
  BY <1>3 DEF NotesInv, Disjoint
<1>7. /\ sender'[d] = next /\ DOMAIN sender' = Senders
      /\ \A c \in Senders \ {d} : sender'[c] = sender[c]
  BY <1>2 DEF NotesInv
<1>8. /\ note' \in [Notes -> [status : NoteStatuses, attempts : Nat]]
      /\ note'[n].status = sender[d].status
      /\ \A m \in Notes \ {n} : note'[m] = note[m]
  BY <1>1, <1>3, <1>4 DEF NotesInv
<1>9. ASSUME NEW c \in Senders PROVE SenderOK(c)'
  <2>1. CASE c = d
    <3>1. \A m \in rest : m \in Notes /\ m \in waits' /\ note'[m].status = "SENDING"
      BY <1>1, <1>4, <1>8
    <3> HIDE DEF rest
    <3> QED
      BY <1>5, <1>7, <2>1, <3>1 DEF SenderOK, NoteStatuses
  <2>2. CASE c # d
    <3>1. SenderOK(c) /\ n \notin sender[c].batch /\ sender'[c] = sender[c]
      BY <1>6, <1>7, <2>2 DEF NotesInv
    <3>2. \A m \in sender[c].batch : m \in Notes /\ m \in waits' /\ note'[m].status = "SENDING"
      BY <1>1, <1>8, <3>1 DEF SenderOK
    <3> QED
      BY <3>1, <3>2 DEF SenderOK
  <2> QED
    BY <2>1, <2>2
<1>10. ASSUME NEW b \in Senders, NEW c \in Senders \ {b} PROVE Disjoint(c, b)'
  BY <1>5, <1>7 DEF Disjoint, NotesInv
<1>11. ASSUME NEW m \in Notes PROVE CopiesOK(m)'
  <2>1. \A c \in Senders \ {d} : Marks(c, m) => Marks(c, m)'
    BY <1>7 DEF Marks
  <2>2. CopiesOK(m)
    BY DEF NotesInv
  <2>3. CASE m = n
    <3>1. note[n].status = "SENDING"
      BY <1>3, <1>4
    <3>2. note'[n].status # "SENT" => \A c \in Senders : ~Marks(c, n)
      BY <1>3, <1>8 DEF Marks
    <3> QED
      BY <1>1, <1>8, <2>2, <2>3, <3>1, <3>2 DEF CopiesOK
  <2>4. CASE m # n
    <3>1. ~Marks(d, m) /\ note'[m] = note[m]
      BY <1>0, <1>8, <2>4 DEF Marks
    <3> QED
      BY <1>1, <2>1, <2>2, <3>1 DEF CopiesOK
  <2> QED
    BY <2>3, <2>4
<1> QED
  BY <1>1, <1>7, <1>8, <1>9, <1>10, <1>11 DEF NotesInv

LEMMA WaitEndsHolds ==
  ASSUME NotesInv, NEW n \in Notes, WaitEnds(n)
  PROVE  NotesInv'
<1>1. /\ UNCHANGED <<note, sender, copies, doubts>> /\ waits' = waits \ {n}
      /\ \A d \in Senders : n \notin sender[d].batch
  BY DEF WaitEnds
<1>2. ASSUME NEW d \in Senders PROVE SenderOK(d)'
  BY <1>1 DEF NotesInv, SenderOK
<1>3. ASSUME NEW m \in Notes PROVE CopiesOK(m)'
  BY <1>1 DEF NotesInv, CopiesOK, Marks
<1>4. ASSUME NEW b \in Senders, NEW c \in Senders \ {b} PROVE Disjoint(c, b)'
  BY <1>1 DEF NotesInv, Disjoint
<1> QED
  BY <1>1, <1>2, <1>3, <1>4 DEF NotesInv

LEMMA NotesStepHolds == NotesInv /\ [NotificationsNext]_notifications => NotesInv'
<1> SUFFICES ASSUME NotesInv, [NotificationsNext]_notifications PROVE NotesInv'
  OBVIOUS
<1>1. CASE UNCHANGED <<note, waits, sender, copies, doubts>>
  BY <1>1, NotesMove DEF NotesInv
<1>2. CASE \E m \in Messages : EnqueueMessage(m)
  BY <1>2, EnqueueMessageHolds
<1>3. CASE \/ \E ch \in Channels : SetRoute(ch)
           \/ \E u \in People : SetConsent(u)
           \/ \E t \in Devices, u \in People : RegisterDevice(t, u)
  BY <1>1, <1>3 DEF SetRoute, SetConsent, RegisterDevice
<1>4. ASSUME NEW d \in Senders,
             ClaimNotes(d) \/ ReadNote(d) \/ SendNote(d) \/ MarkNote(d) \/ SenderDies(d)
      PROVE  NotesInv'
  BY <1>4, ClaimNotesHolds, ReadNoteHolds, SendNoteHolds, MarkNoteHolds, SenderDiesHolds
<1>5. CASE \E n \in Notes : WaitEnds(n)
  BY <1>5, WaitEndsHolds
<1>6. CASE UNCHANGED notifications
  BY <1>1, <1>6 DEF notifications
<1> QED
  BY <1>2, <1>3, <1>4, <1>5, <1>6 DEF NotificationsNext

\* Several processes send, die and take over from each other, and yet an address gets
\* a notification once, and once more for every time nobody could know, for any
\* messages, channels, devices and processes.
THEOREM NobodyIsPestered == NotificationsSpec => []NoNeedlessCopy
<1>1. NotesInv => NoNeedlessCopy
  BY DEF NotesInv, CopiesOK, NoNeedlessCopy
<1> QED
  BY <1>1, NotesInitHolds, NotesStepHolds, PTL DEF NotificationsSpec

-----------------------------------------------------------------------------
(* Tokens.  However many tokens Zoho issues, the processes never replace one *)
(* that Zoho still accepts before it is about to expire.                     *)

AskSteps == {"DONE", "TOKEN", "REQUEST", "STORE", "FAILED", "SEND"}
Holding == {"REQUEST", "STORE", "FAILED"}

TokensTypeOK ==
    /\ credential \in [token : Nat, expiring : BOOLEAN, failed : BOOLEAN]
    /\ accepted \subseteq Nat \ {0}
    /\ issued \in Nat
    /\ asker \in [Askers -> [step : AskSteps, token : Nat, refused : Nat]]

\* Only one request at a time holds the lock of the row.
OneHolder ==
    \A a, b \in Askers :
        asker[a].step \in Holding /\ asker[b].step \in Holding => a = b

\* Nobody knows a token that was not issued yet, so a new one is new to all.
NothingUnissued ==
    /\ credential.token <= issued
    /\ \A t \in accepted : t <= issued
    /\ \A a \in Askers : asker[a].token <= issued /\ asker[a].refused <= issued

\* A refused token was refused for good.
RefusedIsDead == \A a \in Askers : asker[a].refused \notin accepted

\* Who asks Zoho for a token, or is about to store one, found the one in the row
\* of no use, and nobody has changed the row since.
AsksForReason ==
    \A a \in Askers :
        asker[a].step \in {"REQUEST", "STORE"} => ~Usable(asker[a].refused)

TokensInv == TokensTypeOK /\ OneHolder /\ NothingUnissued /\ RefusedIsDead /\ AsksForReason

LEMMA TokensInitHolds == TokensInit => TokensInv
  BY DEF TokensInit, TokensInv, TokensTypeOK, OneHolder, NothingUnissued, RefusedIsDead,
         AsksForReason, NotAsking, AskSteps, Holding, Usable

\* What a step may make of one request, the row and the tokens being as they are.
Fits(a, r) ==
    /\ r \in [step : AskSteps, token : Nat, refused : Nat]
    /\ r.token <= issued /\ r.refused <= issued /\ r.refused \notin accepted
    /\ r.step \in Holding => \A b \in Askers : asker[b].step \in Holding => b = a
    /\ r.step \in {"REQUEST", "STORE"} => ~Usable(r.refused)

\* A request whose new state fits the rest keeps the invariant.
LEMMA OneMoves ==
  ASSUME TokensInv, NEW a \in Askers, NEW r, Fits(a, r),
         asker' = [asker EXCEPT ![a] = r], UNCHANGED <<credential, accepted, issued>>
  PROVE  TokensInv'
<1>1. \A b \in Askers : asker'[b] = IF b = a THEN r ELSE asker[b]
  BY DEF TokensInv, TokensTypeOK
<1>2. TokensTypeOK'
  BY DEF TokensInv, TokensTypeOK, Fits
<1>3. OneHolder'
  BY <1>1 DEF TokensInv, OneHolder, Fits
<1>4. NothingUnissued' /\ RefusedIsDead'
  BY <1>1 DEF TokensInv, NothingUnissued, RefusedIsDead, Fits
<1>5. AsksForReason'
  BY <1>1 DEF TokensInv, AsksForReason, Usable, Fits
<1> QED
  BY <1>2, <1>3, <1>4, <1>5 DEF TokensInv

\* Requests that are over, and those at a step without the lock, fit always.
LEMMA AlwaysFits ==
  ASSUME TokensInv, NEW a \in Askers
  PROVE  /\ Fits(a, NotAsking)
         /\ \A s \in AskSteps \ Holding : Fits(a, [asker[a] EXCEPT !.step = s])
<1>1. Fits(a, NotAsking)
  BY DEF Fits, TokensInv, TokensTypeOK, NotAsking, AskSteps, Holding
<1>2. ASSUME NEW s \in AskSteps \ Holding
      PROVE  Fits(a, [asker[a] EXCEPT !.step = s])
  <2>1. asker[a] \in [step : AskSteps, token : Nat, refused : Nat]
    BY DEF TokensInv, TokensTypeOK
  <2>2. asker[a].token <= issued /\ asker[a].refused <= issued /\ asker[a].refused \notin accepted
    BY DEF TokensInv, NothingUnissued, RefusedIsDead
  <2> QED
    BY <2>1, <2>2 DEF Fits, AskSteps, Holding
<1> QED
  BY <1>1, <1>2

\* A request keeps the lock it has while it goes on with the same purpose.
LEMMA HolderFits ==
  ASSUME TokensInv, NEW a \in Askers, asker[a].step \in Holding
  PROVE  \A b \in Askers : asker[b].step \in Holding => b = a
  BY DEF TokensInv, OneHolder

\* No step of a request, of Zoho or of time breaks the invariant.
LEMMA TokensStepHolds == TokensInv /\ [TokensNext]_zohoTokens => TokensInv'
<1> SUFFICES ASSUME TokensInv, [TokensNext]_zohoTokens
             PROVE  TokensInv'
  OBVIOUS
<1>t. /\ credential \in [token : Nat, expiring : BOOLEAN, failed : BOOLEAN]
      /\ accepted \subseteq Nat \ {0} /\ issued \in Nat
      /\ \A a \in Askers : asker[a] \in [step : AskSteps, token : Nat, refused : Nat]
      /\ asker \in [Askers -> [step : AskSteps, token : Nat, refused : Nat]]
  BY DEF TokensInv, TokensTypeOK
<1>1. ASSUME NEW a \in Askers, StartRequest(a)
      PROVE  TokensInv'
  <2>1. Fits(a, [asker[a] EXCEPT !.step = "TOKEN"])
    BY AlwaysFits DEF AskSteps, Holding
  <2>2. /\ asker' = [asker EXCEPT ![a] = [asker[a] EXCEPT !.step = "TOKEN"]]
        /\ UNCHANGED <<credential, accepted, issued>>
    BY <1>1 DEF StartRequest, StepsTo
  <2> QED
    BY <2>1, <2>2, OneMoves
<1>2. ASSUME NEW a \in Askers, LockToken(a)
      PROVE  TokensInv'
  <2>1. CASE Usable(asker[a].refused)
    <3> DEFINE r == [step |-> "SEND", token |-> credential.token, refused |-> asker[a].refused]
    <3>1. asker' = [asker EXCEPT ![a] = r] /\ UNCHANGED <<credential, accepted, issued>>
      BY <1>2, <2>1 DEF LockToken
    <3>2. Fits(a, r)
      BY <1>t DEF Fits, TokensInv, NothingUnissued, RefusedIsDead, AskSteps, Holding
    <3> HIDE DEF r
    <3> QED
      BY <3>1, <3>2, OneMoves
  <2>2. CASE ~Usable(asker[a].refused)
    <3> DEFINE r == [asker[a] EXCEPT !.step = "REQUEST"]
    <3>1. asker' = [asker EXCEPT ![a] = r] /\ UNCHANGED <<credential, accepted, issued>>
      BY <1>2, <2>2 DEF LockToken
    <3>2. \A b \in Askers : asker[b].step \notin Holding
      BY <1>2 DEF LockToken, RowLocked, Holding
    <3>3. Fits(a, r)
      BY <1>t, <2>2, <3>2 DEF Fits, TokensInv, NothingUnissued, RefusedIsDead, AskSteps, Holding
    <3> HIDE DEF r
    <3> QED
      BY <3>1, <3>3, OneMoves
  <2> QED
    BY <2>1, <2>2
<1>3. ASSUME NEW a \in Askers, DenyToken(a)
      PROVE  TokensInv'
  <2> DEFINE r == [asker[a] EXCEPT !.step = "FAILED"]
  <2>1. asker' = [asker EXCEPT ![a] = r] /\ UNCHANGED <<credential, accepted, issued>>
    BY <1>3 DEF DenyToken, StepsTo
  <2>2. \A b \in Askers : asker[b].step \in Holding => b = a
    BY <1>3, HolderFits DEF DenyToken, Asking, Holding
  <2>3. Fits(a, r)
    BY <1>t, <2>2 DEF Fits, TokensInv, NothingUnissued, RefusedIsDead, AskSteps, Holding
  <2> HIDE DEF r
  <2> QED
    BY <2>1, <2>3, OneMoves
<1>4. ASSUME NEW a \in Askers, StoreToken(a)
      PROVE  TokensInv'
  <2>1. /\ asker' = [asker EXCEPT ![a] = [asker[a] EXCEPT !.step = "SEND"]]
        /\ credential' = [token |-> asker[a].token, expiring |-> FALSE, failed |-> FALSE]
        /\ accepted' = accepted /\ issued' = issued
    BY <1>4 DEF StoreToken, StepsTo
  <2>2. \A b \in Askers : asker[b].step \in Holding => b = a
    BY <1>4, HolderFits DEF StoreToken, Asking, Holding
  <2>3. /\ asker'[a].step = "SEND"
        /\ \A b \in Askers : b # a => asker'[b] = asker[b]
        /\ \A b \in Askers : asker'[b].token = asker[b].token /\ asker'[b].refused = asker[b].refused
    BY <1>t, <2>1
  <2>4. TokensTypeOK'
    BY <1>t, <2>1 DEF TokensTypeOK, AskSteps
  <2>5. OneHolder' /\ AsksForReason'
    BY <2>2, <2>3 DEF OneHolder, AsksForReason, Holding
  <2>6. NothingUnissued' /\ RefusedIsDead'
    BY <2>1, <2>3 DEF TokensInv, NothingUnissued, RefusedIsDead
  <2> QED
    BY <2>4, <2>5, <2>6 DEF TokensInv
<1>5. ASSUME NEW a \in Askers, StoreFailure(a)
      PROVE  TokensInv'
  <2>1. /\ asker' = [asker EXCEPT ![a] = NotAsking]
        /\ credential' = [credential EXCEPT !.failed = TRUE]
        /\ accepted' = accepted /\ issued' = issued
    BY <1>5 DEF StoreFailure, IsOver
  <2>2. credential'.token = credential.token /\ credential'.expiring = credential.expiring
    BY <1>t, <2>1
  <2>3. \A b \in Askers : asker'[b] = IF b = a THEN NotAsking ELSE asker[b]
    BY <1>t, <2>1
  <2>4. TokensTypeOK'
    BY <1>t, <2>1 DEF TokensTypeOK, NotAsking, AskSteps
  <2>5. OneHolder'
    BY <2>3 DEF TokensInv, OneHolder, NotAsking, Holding
  <2>6. AsksForReason'
    BY <2>2, <2>3 DEF TokensInv, AsksForReason, Usable, NotAsking
  <2>7. NothingUnissued' /\ RefusedIsDead'
    BY <1>t, <2>1, <2>2, <2>3 DEF TokensInv, NothingUnissued, RefusedIsDead, NotAsking
  <2> QED
    BY <2>4, <2>5, <2>6, <2>7 DEF TokensInv
<1>6. ASSUME NEW a \in Askers, AnswerRequest(a)
      PROVE  TokensInv'
  <2>1. CASE asker[a].token \in accepted \/ asker[a].refused # 0
    <3>1. asker' = [asker EXCEPT ![a] = NotAsking] /\ UNCHANGED <<credential, accepted, issued>>
      BY <1>6, <2>1 DEF AnswerRequest, IsOver
    <3> QED
      BY <3>1, AlwaysFits, OneMoves
  <2>2. CASE ~(asker[a].token \in accepted \/ asker[a].refused # 0)
    <3> DEFINE r == [step |-> "TOKEN", token |-> asker[a].token, refused |-> asker[a].token]
    <3>1. asker' = [asker EXCEPT ![a] = r] /\ UNCHANGED <<credential, accepted, issued>>
      BY <1>6, <2>2 DEF AnswerRequest
    <3>2. Fits(a, r)
      BY <1>t, <2>2 DEF Fits, TokensInv, NothingUnissued, AskSteps, Holding
    <3> HIDE DEF r
    <3> QED
      BY <3>1, <3>2, OneMoves
  <2> QED
    BY <2>1, <2>2
<1>7. ASSUME NEW a \in Askers, RequestIsLost(a)
      PROVE  TokensInv'
  <2>1. asker' = [asker EXCEPT ![a] = NotAsking] /\ UNCHANGED <<credential, accepted, issued>>
    BY <1>7 DEF RequestIsLost, IsOver
  <2> QED
    BY <2>1, AlwaysFits, OneMoves
<1>8. ASSUME NEW a \in Askers, NEW answered \in BOOLEAN, IssueToken(a, answered)
      PROVE  TokensInv'
  <2> DEFINE r == IF answered
                  THEN [step |-> "STORE", token |-> issued', refused |-> asker[a].refused]
                  ELSE [asker[a] EXCEPT !.step = "FAILED"]
  <2>1. /\ asker' = [asker EXCEPT ![a] = r]
        /\ credential' = credential
        /\ accepted' = accepted \cup {issued'} /\ issued' = issued + 1
    BY <1>8 DEF IssueToken
  <2>2. /\ asker[a].step = "REQUEST"
        /\ \A b \in Askers : asker[b].step \in Holding => b = a
    BY <1>8, HolderFits DEF IssueToken, Asking, Holding
  <2>3. /\ r \in [step : AskSteps, token : Nat, refused : Nat]
        /\ r.refused = asker[a].refused
        /\ r.token \in {issued', asker[a].token}
        /\ r.step \in Holding
    BY <1>t, <2>1 DEF AskSteps, Holding
  <2> HIDE DEF r
  <2>4. \A b \in Askers : asker'[b] = IF b = a THEN r ELSE asker[b]
    BY <1>t, <2>1
  <2>5. TokensTypeOK'
    BY <1>t, <2>1, <2>3 DEF TokensTypeOK
  <2>6. OneHolder'
    BY <2>2, <2>4 DEF OneHolder
  <2>7. AsksForReason'
    BY <2>1, <2>2, <2>3, <2>4 DEF TokensInv, AsksForReason, Usable, Holding
  <2>8. NothingUnissued'
    BY <1>t, <2>1, <2>3, <2>4 DEF TokensInv, NothingUnissued
  <2>9. RefusedIsDead'
    BY <1>t, <2>1, <2>3, <2>4 DEF TokensInv, NothingUnissued, RefusedIsDead
  <2> QED
    BY <2>5, <2>6, <2>7, <2>8, <2>9 DEF TokensInv
<1>9. CASE TokenNearsExpiry
  <2>1. /\ credential' = [credential EXCEPT !.expiring = TRUE]
        /\ UNCHANGED <<accepted, issued, asker>>
    BY <1>9 DEF TokenNearsExpiry
  <2> QED
    BY <1>t, <2>1 DEF TokensInv, TokensTypeOK, OneHolder, NothingUnissued, RefusedIsDead,
                      AsksForReason, Usable
<1>10. ASSUME NEW t \in accepted, TokenIsRevoked(t)
       PROVE  TokensInv'
  BY <1>10 DEF TokenIsRevoked, TokensInv, TokensTypeOK, OneHolder, NothingUnissued, RefusedIsDead,
               AsksForReason, Usable
<1>11. CASE UNCHANGED zohoTokens
  BY <1>11 DEF zohoTokens, TokensInv, TokensTypeOK, OneHolder, NothingUnissued, RefusedIsDead,
               AsksForReason, Usable
<1> QED
  BY <1>1, <1>2, <1>3, <1>4, <1>5, <1>6, <1>7, <1>8, <1>9, <1>10, <1>11 DEF TokensNext

\* The inductive invariant holds in every reachable state.
LEMMA TokensInvariant == TokensSpec => []TokensInv
  BY TokensInitHolds, TokensStepHolds, PTL DEF TokensSpec

\* Only StoreToken changes the token of the row, and it runs under the lock that
\* was taken when the row was found to be of no use.
LEMMA StepKeepsGoodToken ==
  TokensInv /\ [TokensNext]_zohoTokens =>
    [ credential'.token # credential.token =>
         credential.token \notin accepted \/ credential.expiring ]_zohoTokens
<1> SUFFICES ASSUME TokensInv, TokensNext, credential'.token # credential.token,
                    credential.token \in accepted
             PROVE  credential.expiring
  BY DEF zohoTokens
<1>1. ASSUME NEW a \in Askers, StoreToken(a)
      PROVE  credential.expiring
  BY <1>1 DEF StoreToken, Asking, TokensInv, AsksForReason, RefusedIsDead, Usable, TokensTypeOK
<1>2. credential' = credential \/ (\E a \in Askers : StoreToken(a))
        \/ (\E a \in Askers : StoreFailure(a)) \/ TokenNearsExpiry
  BY DEF TokensNext, StartRequest, LockToken, DenyToken, AnswerRequest, RequestIsLost,
         IssueToken, TokenIsRevoked
<1>3. (\E a \in Askers : StoreFailure(a)) \/ TokenNearsExpiry => credential'.token = credential.token
  BY DEF StoreFailure, TokenNearsExpiry, TokensInv, TokensTypeOK
<1> QED
  BY <1>1, <1>2, <1>3

\* A token that Zoho accepts is replaced only when it is about to expire, for
\* any number of requests that were refused the one before it.
THEOREM GoodTokensAreKept == TokensSpec => GoodTokenIsKept
  BY TokensInvariant, StepKeepsGoodToken, PTL DEF TokensSpec, GoodTokenIsKept

-----------------------------------------------------------------------------
(* The outbox.  As long as no event of a record is taken from a process at    *)
(* work, one process has it, and what that does depends on no other record.   *)

\* The first of a batch is one of it.
LEMMA MinIsLeast ==
  ASSUME NEW S, S \subseteq Nat, S # {}
  PROVE  Min(S) \in S /\ \A y \in S : Min(S) <= y
<1> DEFINE Before == {ss \in Nat \X Nat : ss[1] < ss[2]}
<1>1. IsWellFoundedOn(Before, Nat)
  BY NatLessThanWellFounded DEF OpToRel
<1> HIDE DEF Before
<1>2. PICK x \in S : \A y \in S : ~(<<y, x>> \in Before)
  BY <1>1, WFMin
<1>3. \A y \in S : ~(y < x)
  BY <1>2 DEF Before
<1>4. \A y \in S : x <= y
  BY <1>3
<1> QED
  BY <1>4 DEF Min

Held(d, e) == e \in DOMAIN dispatcher[d].batch

\* No event of its record was taken from a process at work.
Calm(e) == events[e].record \notin seized

HeldOK(d) ==
    /\ \A e \in DOMAIN dispatcher[d].batch :
          e \in Ids /\ (Calm(e) => events[e].status = "PROCESSING")
    /\ dispatcher[d].step # "IDLE" => DOMAIN dispatcher[d].batch # {}

\* A calm event is in the hands of one dispatcher.
Apart(c, d) == \A e \in DOMAIN dispatcher[c].batch : Calm(e) => ~Held(d, e)

HoldInv ==
    /\ events \in Seq(Event)
    /\ DOMAIN dispatcher = Dispatchers
    /\ \A d \in Dispatchers : HeldOK(d)
    /\ \A c \in Dispatchers : \A d \in Dispatchers \ {c} : Apart(c, d)
    /\ DeliveredInOrder

\* How the status of a calm event goes on: staff deal with a dead one, its holder
\* lets go of it, a dispatcher claims it when its turn has come.
StatusGoesOn(e) ==
    \/ ~Calm(e)
    \/ events'[e].status = events[e].status
    \/ events[e].status = "DEAD" /\ events'[e].status \in {"PENDING", "DISCARDED"}
    \/ /\ events[e].status = "PROCESSING"
       /\ events'[e].status \in {"PENDING", "SUCCEEDED", "DEAD"}
    \/ /\ First(e) /\ events[e].status \in {"PENDING", "PROCESSING"}
       /\ events'[e].status = "PROCESSING"

\* Events are added at the end, and stay events of the same kind about the same
\* record.
EventsGoOn ==
    /\ events' \in Seq(Event)
    /\ seized \subseteq seized'
    /\ \/ Len(events') = Len(events)
       \/ Len(events') = Len(events) + 1 /\ events'[Len(events) + 1].status = "PENDING"
    /\ \A e \in Ids : /\ events'[e].record = events[e].record
                      /\ events'[e].type = events[e].type
                      /\ StatusGoesOn(e)

LEMMA OrderHolds ==
  ASSUME HoldInv, EventsGoOn
  PROVE  DeliveredInOrder'
<1> SUFFICES ASSUME NEW e \in Ids', NEW f \in Ids', e < f,
                    events'[e].record = events'[f].record, Calm(e)', Unfinished(e)'
             PROVE  events'[f].status = "PENDING"
  BY DEF DeliveredInOrder, Calm
<1>1. /\ Len(events) \in Nat /\ Len(events') \in Nat
      /\ e \in 1..Len(events') /\ f \in 1..Len(events')
  BY DEF HoldInv, EventsGoOn, Ids
<1>2. e \in Ids
  BY <1>1 DEF EventsGoOn, Ids
<1>a. Calm(e)
  BY <1>2 DEF EventsGoOn, Calm
<1>3. Unfinished(e)
  BY <1>2, <1>a DEF EventsGoOn, StatusGoesOn, Unfinished
<1>4. CASE f \in Ids
  <2>1. events[e].record = events[f].record
    BY <1>2, <1>4 DEF EventsGoOn
  <2>2. events[f].status = "PENDING"
    BY <1>2, <1>3, <1>4, <1>a, <2>1 DEF HoldInv, DeliveredInOrder, Calm
  <2>5. Calm(f)
    BY <1>a, <2>1 DEF Calm
  <2>3. e \in 1..(f - 1)
    BY <1>1
  <2>4. ~First(f)
    BY <1>3, <2>1, <2>3 DEF First, Unfinished
  <2> QED
    BY <1>4, <2>2, <2>4, <2>5 DEF EventsGoOn, StatusGoesOn
<1>5. CASE f \notin Ids
  BY <1>1, <1>5 DEF EventsGoOn, Ids
<1> QED
  BY <1>4, <1>5

\* Dispatchers that let go of events, or go on with those they hold.
LEMMA HoldersGoOn ==
  ASSUME HoldInv, EventsGoOn, DOMAIN dispatcher' = Dispatchers,
         \A d \in Dispatchers :
            /\ DOMAIN dispatcher'[d].batch \subseteq DOMAIN dispatcher[d].batch
            /\ dispatcher'[d].step # "IDLE" => DOMAIN dispatcher'[d].batch # {}
            /\ \A e \in DOMAIN dispatcher'[d].batch :
                  Calm(e) => events'[e].status = events[e].status
  PROVE  HoldInv'
<1>0. \A e \in Ids : e \in Ids' /\ (Calm(e)' => Calm(e))
  BY DEF EventsGoOn, Calm, HoldInv, Ids
<1>1. ASSUME NEW d \in Dispatchers PROVE HeldOK(d)'
  BY <1>0 DEF HoldInv, HeldOK
<1>2. ASSUME NEW c \in Dispatchers, NEW d \in Dispatchers \ {c} PROVE Apart(c, d)'
  BY <1>0 DEF HoldInv, HeldOK, Apart, Held
<1> QED
  BY <1>1, <1>2, OrderHolds DEF HoldInv, EventsGoOn

\* Dispatchers that stay as they are.
LEMMA HoldersStay ==
  ASSUME HoldInv, EventsGoOn, UNCHANGED dispatcher,
         \A e \in Ids : events[e].status = "PROCESSING" => events'[e].status = "PROCESSING"
  PROVE  HoldInv'
<1>1. \A d \in Dispatchers : HeldOK(d)
  BY DEF HoldInv
<1>2. ASSUME NEW d \in Dispatchers
      PROVE  /\ DOMAIN dispatcher'[d].batch \subseteq DOMAIN dispatcher[d].batch
             /\ dispatcher'[d].step # "IDLE" => DOMAIN dispatcher'[d].batch # {}
             /\ \A e \in DOMAIN dispatcher'[d].batch :
                   Calm(e) => events'[e].status = events[e].status
  BY <1>1 DEF HeldOK
<1> QED
  BY <1>2, HoldersGoOn DEF HoldInv

LEMMA SameEvents ==
  ASSUME HoldInv, UNCHANGED events, seized \subseteq seized'
  PROVE  EventsGoOn
BY DEF HoldInv, EventsGoOn, StatusGoesOn

\* An event at another status.
LEMMA StatusIs ==
  ASSUME NEW e \in Event, NEW x,
         NEW s \in {"PENDING", "PROCESSING", "SUCCEEDED", "DEAD", "DISCARDED"},
         x = [e EXCEPT !.status = s]
  PROVE  x \in Event /\ x.record = e.record /\ x.type = e.type /\ x.status = s
BY DEF Event

LEMMA RowIs ==
  ASSUME NEW e \in Event, NEW n \in 0..MaxAttempts, NEW x,
         NEW s \in {"PENDING", "PROCESSING", "SUCCEEDED", "DEAD", "DISCARDED"},
         x = [record |-> e.record, type |-> e.type, attempts |-> n, status |-> s]
  PROVE  x \in Event /\ x.record = e.record /\ x.type = e.type /\ x.status = s
BY DEF Event

\* An event, written out.
LEMMA FieldsOf ==
  ASSUME NEW e \in Event
  PROVE  e = [record |-> e.record, type |-> e.type, attempts |-> e.attempts, status |-> e.status]
BY DEF Event

LEMMA EventsRewritten ==
  ASSUME HoldInv, seized \subseteq seized', events' = [e \in Ids |-> events'[e]],
         \A e \in Ids : /\ events'[e] \in Event
                        /\ events'[e].record = events[e].record
                        /\ events'[e].type = events[e].type
                        /\ StatusGoesOn(e)
  PROVE  EventsGoOn /\ Len(events') = Len(events)
<1>1. Len(events) \in Nat /\ DOMAIN events' = 1..Len(events)
  BY DEF HoldInv, Ids
<1>2. \A e \in 1..Len(events) : events'[e] \in Event
  BY DEF Ids
<1>3. events' \in [1..Len(events) -> Event]
  BY <1>1, <1>2 DEF Ids
<1>4. events' \in Seq(Event) /\ Len(events') = Len(events)
  BY <1>1, <1>3
<1> QED
  BY <1>4 DEF EventsGoOn

\* One event at another status.
LEMMA OneRewritten ==
  ASSUME HoldInv, seized \subseteq seized', NEW e \in Ids, NEW n \in 0..MaxAttempts,
         NEW s \in {"PENDING", "PROCESSING", "SUCCEEDED", "DEAD", "DISCARDED"},
         \/ events' = [events EXCEPT ![e].status = s]
         \/ events' = [events EXCEPT ![e].status = s, ![e].attempts = n],
         \/ ~Calm(e)
         \/ events[e].status = "DEAD" /\ s \in {"PENDING", "DISCARDED"}
         \/ events[e].status = "PROCESSING" /\ s \in {"PENDING", "SUCCEEDED", "DEAD"}
  PROVE  /\ EventsGoOn /\ Len(events') = Len(events) /\ events'[e].status = s
         /\ \A f \in Ids \ {e} : events'[f] = events[f]
<1>1. events \in [Ids -> Event]
  BY DEF HoldInv, Ids
<1>2. /\ \/ events'[e] = [events[e] EXCEPT !.status = s]
         \/ events'[e] = [events[e] EXCEPT !.status = s, !.attempts = n]
      /\ \A f \in Ids \ {e} : events'[f] = events[f]
      /\ events' = [f \in Ids |-> events'[f]]
  BY <1>1
<1>3. /\ events'[e] \in Event /\ events'[e].record = events[e].record
      /\ events'[e].type = events[e].type /\ events'[e].status = s
  <2>1. events[e] \in Event
    BY <1>1
  <2>2. CASE events'[e] = [events[e] EXCEPT !.status = s]
    BY <2>1, <2>2, StatusIs
  <2>3. CASE events'[e] = [events[e] EXCEPT !.status = s, !.attempts = n]
    <3>1. events'[e] = [record |-> events[e].record, type |-> events[e].type,
                        attempts |-> n, status |-> s]
      BY <2>1, <2>3, FieldsOf
    <3> QED
      BY <2>1, <3>1, RowIs
  <2> QED
    BY <1>2, <2>2, <2>3
<1>4. \A f \in Ids : /\ events'[f] \in Event /\ events'[f].record = events[f].record
                     /\ events'[f].type = events[f].type /\ StatusGoesOn(f)
  BY <1>1, <1>2, <1>3 DEF StatusGoesOn
<1> QED
  BY <1>2, <1>3, <1>4, EventsRewritten

LEMMA EnqueueGoes ==
  ASSUME HoldInv, seized \subseteq seized', NEW r \in Cases \cup Mirrored, NEW type \in Types, Enqueue(r, type)
  PROVE  EventsGoOn /\ \A e \in Ids : events'[e] = events[e]
<1>1. CASE UNCHANGED events
  BY <1>1, SameEvents
<1> DEFINE new == [record |-> r, type |-> type, attempts |-> 0, status |-> "PENDING"]
<1>2. CASE events' = Append(events, new)
  <2>1. new \in Event /\ new.status = "PENDING"
    BY OutboxAssumption DEF Event
  <2> HIDE DEF new
  <2>2. events \in Seq(Event)
    BY DEF HoldInv
  <2>3. /\ events' \in Seq(Event) /\ Len(events') = Len(events) + 1
        /\ events'[Len(events) + 1] = new
        /\ \A e \in 1..Len(events) : events'[e] = events[e]
    BY <1>2, <2>1, <2>2
  <2> QED
    BY <2>1, <2>3 DEF EventsGoOn, StatusGoesOn, Ids
<1> QED
  BY <1>1, <1>2 DEF Enqueue

\* No event that is being delivered succeeds in this step.
NoneSucceeds ==
    \A e \in Ids : events[e].status = "PROCESSING" => events'[e].status # "SUCCEEDED"

\* A claim takes events that nobody holds, in their turn.
LEMMA ClaimHolds ==
  ASSUME HoldInv, NEW d \in Dispatchers, NEW t \in Targets, Claim(d, t)
  PROVE  HoldInv' /\ EventsGoOn /\ NoneSucceeds
<1> USE OutboxAssumption
<1>1. PICK batch \in SUBSET Due(t) :
        /\ batch # {}
        /\ events' = [e \in Ids |-> IF e \in batch
                        THEN [events[e] EXCEPT !.status = "PROCESSING",
                                               !.attempts = Counted(@ + 1)]
                        ELSE events[e]]
        /\ dispatcher' = [dispatcher EXCEPT ![d] =
                            [step |-> "CALL", read |-> "NONE",
                             batch |-> [e \in batch |-> Counted(events[e].attempts + 1)]]]
        /\ seized' = seized \cup {events[e].record :
                        e \in batch \cap UNION {DOMAIN dispatcher[c].batch : c \in Dispatchers}}
  BY DEF Claim
<1>2. events \in [Ids -> Event] /\ batch \subseteq Ids /\ DOMAIN dispatcher = Dispatchers
  BY DEF HoldInv, Ids, Due
<1>3. \A e \in batch : First(e) /\ events[e].status \in {"PENDING", "PROCESSING"}
  BY DEF Due
<1>4. ASSUME NEW e \in batch
      PROVE  /\ events'[e] \in Event /\ events'[e].record = events[e].record
             /\ events'[e].type = events[e].type /\ events'[e].status = "PROCESSING"
  <2> DEFINE n == Counted(events[e].attempts + 1)
  <2>1. events'[e] = [events[e] EXCEPT !.status = "PROCESSING", !.attempts = n]
    BY <1>1, <1>2, <1>4
  <2>2. events[e] \in Event
    BY <1>2, <1>4
  <2>3. n \in 0..MaxAttempts
    BY <2>2 DEF Counted, Event
  <2> HIDE DEF n
  <2>4. events'[e] = [record |-> events[e].record, type |-> events[e].type,
                      attempts |-> n, status |-> "PROCESSING"]
    BY <2>1, <2>2, FieldsOf
  <2> QED
    BY <2>2, <2>3, <2>4, RowIs
<1>5. \A e \in Ids \ batch : events'[e] = events[e]
  BY <1>1
<1>6. EventsGoOn /\ Len(events') = Len(events)
  <2>1. \A e \in Ids : /\ events'[e] \in Event /\ events'[e].record = events[e].record
                       /\ events'[e].type = events[e].type /\ StatusGoesOn(e)
    BY <1>2, <1>3, <1>4, <1>5 DEF StatusGoesOn
  <2>2. events' = [e \in Ids |-> events'[e]] /\ seized \subseteq seized'
    BY <1>1
  <2> QED
    BY <2>1, <2>2, EventsRewritten
<1>7. /\ DOMAIN dispatcher' = Dispatchers /\ DOMAIN dispatcher'[d].batch = batch
      /\ \A c \in Dispatchers \ {d} : dispatcher'[c] = dispatcher[c]
  BY <1>1, <1>2
<1>8. \A c \in Dispatchers \ {d} : \A e \in DOMAIN dispatcher[c].batch :
         e \in Ids /\ (e \in batch => ~Calm(e)')
  <2> DEFINE busy == UNION {DOMAIN dispatcher[c].batch : c \in Dispatchers}
  <2>1. ASSUME NEW c \in Dispatchers, NEW e \in DOMAIN dispatcher[c].batch
        PROVE  e \in Ids /\ (e \in batch => events[e].record \in seized')
    <3>1. e \in busy
      OBVIOUS
    <3>2. seized' = seized \cup {events[f].record : f \in batch \cap busy}
      BY <1>1
    <3> HIDE DEF busy
    <3> QED
      BY <3>1, <3>2 DEF HoldInv, HeldOK
  <2> QED
    BY <1>6, <2>1 DEF Calm, EventsGoOn
<1>a. \A e \in Ids : e \in Ids' /\ (Calm(e)' => Calm(e))
  BY <1>6 DEF EventsGoOn, Calm, Ids
<1>9. ASSUME NEW c \in Dispatchers PROVE HeldOK(c)'
  <2>1. CASE c = d
    BY <1>1, <1>2, <1>4, <1>7, <1>a, <2>1 DEF HeldOK
  <2>2. CASE c # d
    BY <1>5, <1>7, <1>8, <1>a, <2>2 DEF HeldOK, HoldInv
  <2> QED
    BY <2>1, <2>2
<1>10. ASSUME NEW c \in Dispatchers, NEW b \in Dispatchers \ {c} PROVE Apart(c, b)'
  <2>1. CASE c = d \/ b = d
    BY <1>7, <1>8, <2>1 DEF Apart, Held
  <2>2. CASE c # d /\ b # d
    BY <1>7, <1>8, <1>a, <2>2 DEF HoldInv, Apart, Held
  <2> QED
    BY <2>1, <2>2
<1>11. NoneSucceeds
  BY <1>4, <1>5 DEF NoneSucceeds
<1> QED
  BY <1>6, <1>7, <1>9, <1>10, <1>11, OrderHolds DEF HoldInv, EventsGoOn

LEMMA CurrentIsHeld ==
  ASSUME HoldInv, NEW d \in Dispatchers, dispatcher[d].step # "IDLE"
  PROVE  /\ Held(d, Current(d)) /\ Current(d) \in Ids
         /\ Calm(Current(d)) => events[Current(d)].status = "PROCESSING"
<1>1. DOMAIN dispatcher[d].batch # {} /\ DOMAIN dispatcher[d].batch \subseteq Ids
  BY DEF HoldInv, HeldOK
<1>2. DOMAIN dispatcher[d].batch \subseteq Nat
  BY <1>1 DEF Ids
<1>3. Current(d) \in DOMAIN dispatcher[d].batch
  BY <1>1, <1>2, MinIsLeast DEF Current
<1> QED
  BY <1>3 DEF HoldInv, HeldOK, Held

\* A dispatcher goes on with the rest of its batch, or with none of it.
LetsGo(d) ==
    /\ DOMAIN dispatcher' = Dispatchers
    /\ \A c \in Dispatchers \ {d} : dispatcher'[c] = dispatcher[c]
    /\ DOMAIN dispatcher'[d].batch \subseteq DOMAIN dispatcher[d].batch
    /\ dispatcher'[d].step # "IDLE" => DOMAIN dispatcher'[d].batch # {}

LEMMA GoesLetsGo ==
  ASSUME HoldInv, NEW d \in Dispatchers, NEW step, NEW read, Goes(d, step, read),
         dispatcher[d].step # "IDLE"
  PROVE  /\ LetsGo(d) /\ dispatcher'[d].batch = dispatcher[d].batch
         /\ dispatcher'[d].step = step /\ dispatcher'[d].read = read
<1>1. DOMAIN dispatcher = Dispatchers /\ DOMAIN dispatcher[d].batch # {}
  BY DEF HoldInv, HeldOK
<1> QED
  BY <1>1 DEF Goes, LetsGo

LEMMA StopsLetsGo ==
  ASSUME HoldInv, NEW d \in Dispatchers, dispatcher' = [dispatcher EXCEPT ![d] = Idle]
  PROVE  LetsGo(d) /\ dispatcher'[d] = Idle /\ DOMAIN dispatcher'[d].batch = {}
<1>1. DOMAIN Idle.batch = {} /\ Idle.step = "IDLE"
  BY DEF Idle
<1>2. DOMAIN dispatcher = Dispatchers
  BY DEF HoldInv
<1> QED
  BY <1>1, <1>2 DEF LetsGo

LEMMA GoesOnLetsGo ==
  ASSUME HoldInv, NEW d \in Dispatchers, GoesOn(d)
  PROVE  /\ LetsGo(d) /\ Current(d) \notin DOMAIN dispatcher'[d].batch
         /\ dispatcher'[d].step \in {"IDLE", "CALL"}
<1> DEFINE rest == DOMAIN dispatcher[d].batch \ {Current(d)}
<1>1. CASE rest = {}
  <2>1. dispatcher' = [dispatcher EXCEPT ![d] = Idle]
    BY <1>1 DEF GoesOn
  <2>2. LetsGo(d) /\ dispatcher'[d] = Idle /\ DOMAIN dispatcher'[d].batch = {}
    BY <2>1, StopsLetsGo
  <2>3. Idle.step = "IDLE"
    BY DEF Idle
  <2> QED
    BY <2>2, <2>3
<1>2. CASE rest # {}
  <2>1. dispatcher' = [dispatcher EXCEPT ![d] =
            [step |-> "CALL", read |-> "NONE", batch |-> [e \in rest |-> dispatcher[d].batch[e]]]]
    BY <1>2 DEF GoesOn
  <2>2. DOMAIN dispatcher = Dispatchers
    BY DEF HoldInv
  <2>3. /\ DOMAIN dispatcher' = Dispatchers /\ dispatcher'[d].step = "CALL"
        /\ \A c \in Dispatchers \ {d} : dispatcher'[c] = dispatcher[c]
        /\ DOMAIN dispatcher'[d].batch = rest
    BY <2>1, <2>2
  <2> QED
    BY <1>2, <2>3 DEF LetsGo
<1> QED
  BY <1>1, <1>2

\* What a dispatcher lets go of was in nobody else's hands.
LEMMA LetsGoHolds ==
  ASSUME HoldInv, NEW d \in Dispatchers, LetsGo(d), EventsGoOn,
         NEW gone, gone \subseteq DOMAIN dispatcher[d].batch,
         gone \cap DOMAIN dispatcher'[d].batch = {},
         \A e \in Ids \ gone : events'[e].status = events[e].status
  PROVE  HoldInv'
<1>1. ASSUME NEW c \in Dispatchers, NEW e \in DOMAIN dispatcher'[c].batch
      PROVE  /\ e \in DOMAIN dispatcher[c].batch
             /\ Calm(e) => events'[e].status = events[e].status
  <2>1. e \in DOMAIN dispatcher[c].batch /\ (Calm(e) => e \notin gone)
    BY DEF LetsGo, HoldInv, Apart, Held
  <2> QED
    BY <2>1 DEF HoldInv, HeldOK
<1>2. ASSUME NEW c \in Dispatchers
      PROVE  dispatcher'[c].step # "IDLE" => DOMAIN dispatcher'[c].batch # {}
  BY DEF LetsGo, HoldInv, HeldOK
<1> QED
  BY <1>1, <1>2, HoldersGoOn DEF LetsGo

\* Steps of a delivery that leave the events alone.
LEMMA GoesHolds ==
  ASSUME HoldInv, NEW d \in Dispatchers, LetsGo(d), UNCHANGED <<events, seized>>
  PROVE  HoldInv' /\ EventsGoOn
<1>1. EventsGoOn
  BY SameEvents
<1> DEFINE gone == {}
<1>2. /\ gone \subseteq DOMAIN dispatcher[d].batch /\ gone \cap DOMAIN dispatcher'[d].batch = {}
      /\ \A e \in Ids \ gone : events'[e].status = events[e].status
  OBVIOUS
<1> HIDE DEF gone
<1> QED
  BY <1>1, <1>2, LetsGoHolds

LEMMA SucceedHolds ==
  ASSUME HoldInv, NEW d \in Dispatchers, Succeed(d)
  PROVE  HoldInv' /\ EventsGoOn
<1>1. /\ Held(d, Current(d)) /\ Current(d) \in Ids
      /\ Calm(Current(d)) => events[Current(d)].status = "PROCESSING"
  BY CurrentIsHeld DEF Succeed, At
<1>2. LetsGo(d) /\ Current(d) \notin DOMAIN dispatcher'[d].batch
  BY GoesOnLetsGo DEF Succeed
<1> DEFINE e == Current(d)
<1>3. events' = [events EXCEPT ![e].status = "SUCCEEDED", ![e].attempts = 0] /\ UNCHANGED seized
  BY DEF Succeed, history
<1>4. 0 \in 0..MaxAttempts
  BY OutboxAssumption
<1> HIDE DEF e
<1>5. EventsGoOn /\ \A f \in Ids \ {e} : events'[f] = events[f]
  BY <1>1, <1>3, <1>4, OneRewritten DEF e
<1> DEFINE gone == {e}
<1>6. /\ gone \subseteq DOMAIN dispatcher[d].batch /\ gone \cap DOMAIN dispatcher'[d].batch = {}
      /\ \A f \in Ids \ gone : events'[f].status = events[f].status
  BY <1>1, <1>2, <1>3, <1>5 DEF Held, e
<1> HIDE DEF gone
<1> QED
  BY <1>2, <1>5, <1>6, LetsGoHolds

\* What is put back was claimed.
LEMMA PutBackIs ==
  ASSUME NEW e \in Event, OutboxAssumption
  PROVE  /\ PutBack(e) \in Event /\ PutBack(e).record = e.record
         /\ PutBack(e).type = e.type /\ PutBack(e).status = "PENDING"
<1> DEFINE n == IF e.attempts = 0 THEN 0 ELSE e.attempts - 1
<1>1. n \in 0..MaxAttempts
  BY OutboxAssumption DEF Event
<1>2. PutBack(e) = [e EXCEPT !.status = "PENDING", !.attempts = n]
  BY DEF PutBack
<1> HIDE DEF n
<1>3. e = [record |-> e.record, type |-> e.type, attempts |-> e.attempts, status |-> e.status]
  BY FieldsOf
<1>4. PICK x : x = PutBack(e)
  OBVIOUS
<1>5. x = [record |-> e.record, type |-> e.type, attempts |-> n, status |-> "PENDING"]
  BY <1>2, <1>3, <1>4
<1> QED
  BY <1>1, <1>4, <1>5, RowIs

\* Some of a batch is put back, and one event is given up or put back too.
LEMMA PutBackHolds ==
  ASSUME HoldInv, NEW d \in Dispatchers, LetsGo(d), DOMAIN dispatcher'[d].batch = {},
         NEW back, back \subseteq DOMAIN dispatcher[d].batch,
         NEW e \in DOMAIN dispatcher[d].batch, UNCHANGED seized,
         events' = [f \in Ids |-> events'[f]],
         \A f \in Ids : \/ f \in back /\ events'[f] = PutBack(events[f])
                        \/ f \notin back \cup {e} /\ events'[f] = events[f]
                        \/ f \notin back /\ f = e
                           /\ events'[f] \in Event /\ events'[f].record = events[f].record
                           /\ events'[f].type = events[f].type
                           /\ events'[f].status \in {"PENDING", "DEAD"}
  PROVE  HoldInv' /\ EventsGoOn /\ NoneSucceeds /\ Len(events') = Len(events)
<1>1. \A f \in DOMAIN dispatcher[d].batch :
         f \in Ids /\ (Calm(f) => events[f].status = "PROCESSING")
  BY DEF HoldInv, HeldOK
<1>2. \A f \in Ids : events[f] \in Event
  BY DEF HoldInv, Ids
<1>3. ASSUME NEW f \in Ids
      PROVE  /\ events'[f] \in Event /\ events'[f].record = events[f].record
             /\ events'[f].type = events[f].type /\ StatusGoesOn(f)
             /\ f \notin back \cup {e} => events'[f].status = events[f].status
             /\ events[f].status = "PROCESSING" => events'[f].status # "SUCCEEDED"
  <2>1. CASE f \in back /\ events'[f] = PutBack(events[f])
    BY <1>1, <1>2, <2>1, PutBackIs, OutboxAssumption DEF StatusGoesOn
  <2>2. CASE f \notin back \cup {e} /\ events'[f] = events[f]
    BY <1>2, <2>2 DEF StatusGoesOn
  <2>3. CASE /\ f \notin back /\ f = e
             /\ events'[f] \in Event /\ events'[f].record = events[f].record
             /\ events'[f].type = events[f].type /\ events'[f].status \in {"PENDING", "DEAD"}
    BY <1>1, <2>3 DEF StatusGoesOn
  <2> QED
    BY <2>1, <2>2, <2>3
<1>4. EventsGoOn /\ Len(events') = Len(events)
  BY <1>3, EventsRewritten
<1> DEFINE gone == back \cup {e}
<1>5. /\ gone \subseteq DOMAIN dispatcher[d].batch /\ gone \cap DOMAIN dispatcher'[d].batch = {}
      /\ \A f \in Ids \ gone : events'[f].status = events[f].status
  BY <1>3
<1> HIDE DEF gone
<1>6. NoneSucceeds
  BY <1>3 DEF NoneSucceeds
<1> QED
  BY <1>4, <1>5, <1>6, LetsGoHolds

LEMMA ReleasedAreHeld ==
  ASSUME HoldInv, NEW d \in Dispatchers, dispatcher[d].step # "IDLE"
  PROVE  Released(d) \subseteq DOMAIN dispatcher[d].batch \ {Current(d)}
<1>1. Current(d) \in Nat
  BY CurrentIsHeld DEF Ids
<1>2. ~(Current(d) > Current(d))
  BY <1>1
<1> QED
  BY <1>2 DEF Released, Rest

LEMMA RecordPauseHolds ==
  ASSUME HoldInv, NEW d \in Dispatchers, RecordPause(d)
  PROVE  HoldInv' /\ EventsGoOn /\ NoneSucceeds
<1>1. Held(d, Current(d)) /\ Current(d) \in Ids
  BY CurrentIsHeld DEF RecordPause, At
<1>2. LetsGo(d) /\ DOMAIN dispatcher'[d].batch = {}
  BY StopsLetsGo DEF RecordPause, Stops
<1>a. UNCHANGED seized
  BY DEF RecordPause, history
<1>3. CASE UNCHANGED events
  BY <1>2, <1>3, <1>a, GoesHolds DEF NoneSucceeds
<1>4. CASE ~UNCHANGED events
  <2> DEFINE back == Released(d) \cup {Current(d)}
             e == Current(d)
  <2>1. events' = [f \in Ids |-> IF f \in back THEN PutBack(events[f]) ELSE events[f]]
    BY <1>4 DEF RecordPause
  <2>2. back \subseteq DOMAIN dispatcher[d].batch /\ e \in back /\ e \in DOMAIN dispatcher[d].batch
    BY <1>1, ReleasedAreHeld DEF Held, RecordPause, At
  <2> HIDE DEF back, e
  <2>3. /\ events' = [f \in Ids |-> events'[f]]
        /\ \A f \in Ids : \/ f \in back /\ events'[f] = PutBack(events[f])
                          \/ f \notin back \cup {e} /\ events'[f] = events[f]
    BY <2>1, <2>2
  <2> QED
    BY <1>2, <1>a, <2>2, <2>3, PutBackHolds
<1> QED
  BY <1>3, <1>4

\* The event that failed, dead or to be tried again.
LEMMA FailedIs ==
  ASSUME HoldInv, NEW e \in Ids, NEW failed,
         \/ failed = [events EXCEPT ![e].status = "DEAD", ![e].attempts = 0]
         \/ failed = [events EXCEPT ![e].status = "PENDING"]
  PROVE  /\ failed[e] \in Event /\ failed[e].record = events[e].record
         /\ failed[e].type = events[e].type /\ failed[e].status \in {"PENDING", "DEAD"}
         /\ \A f \in Ids \ {e} : failed[f] = events[f]
<1>1. events \in [Ids -> Event] /\ events[e] \in Event
  BY DEF HoldInv, Ids
<1>2. CASE failed = [events EXCEPT ![e].status = "DEAD", ![e].attempts = 0]
  <2>1. failed[e] = [events[e] EXCEPT !.status = "DEAD", !.attempts = 0]
    BY <1>1, <1>2
  <2>2. failed[e] = [record |-> events[e].record, type |-> events[e].type, attempts |-> 0,
                     status |-> "DEAD"]
    BY <1>1, <2>1, FieldsOf
  <2>3. 0 \in 0..MaxAttempts
    BY OutboxAssumption
  <2> QED
    BY <1>1, <1>2, <2>2, <2>3, RowIs
<1>3. CASE failed = [events EXCEPT ![e].status = "PENDING"]
  <2>1. failed[e] = [events[e] EXCEPT !.status = "PENDING"]
    BY <1>1, <1>3
  <2> QED
    BY <1>1, <1>3, <2>1, StatusIs
<1> QED
  BY <1>2, <1>3

LEMMA RecordFailureHolds ==
  ASSUME HoldInv, NEW d \in Dispatchers, RecordFailure(d)
  PROVE  HoldInv' /\ EventsGoOn /\ NoneSucceeds
<1> DEFINE e == Current(d)
<1>1. /\ Held(d, e) /\ e \in Ids /\ dispatcher[d].step # "IDLE" /\ UNCHANGED seized
      /\ Calm(e) => events[e].status = "PROCESSING"
  BY CurrentIsHeld DEF RecordFailure, history
<1>2. PICK failed :
        /\ \/ failed = [events EXCEPT ![e].status = "DEAD", ![e].attempts = 0]
           \/ failed = [events EXCEPT ![e].status = "PENDING"]
        /\ \/ Stops(d) /\ UNCHANGED events
           \/ events' = failed /\ GoesOn(d)
           \/ /\ events' = [f \in Ids |-> IF f \in Released(d) THEN PutBack(events[f]) ELSE failed[f]]
              /\ Stops(d)
  <2> DEFINE dead == At(d, "PERMANENT") \/ dispatcher[d].batch[e] >= MaxAttempts
             failed == IF dead THEN [events EXCEPT ![e].status = "DEAD", ![e].attempts = 0]
                       ELSE [events EXCEPT ![e].status = "PENDING"]
  <2>1. \/ Stops(d) /\ UNCHANGED events
        \/ events' = failed /\ GoesOn(d)
        \/ /\ events' = [f \in Ids |-> IF f \in Released(d) THEN PutBack(events[f]) ELSE failed[f]]
           /\ Stops(d)
    BY DEF RecordFailure
  <2>2. \/ failed = [events EXCEPT ![e].status = "DEAD", ![e].attempts = 0]
        \/ failed = [events EXCEPT ![e].status = "PENDING"]
    OBVIOUS
  <2> HIDE DEF failed, e
  <2> QED
    BY <2>1, <2>2
<1>3. CASE Stops(d) /\ UNCHANGED events
  BY <1>1, <1>3, StopsLetsGo, GoesHolds DEF Stops, NoneSucceeds
<1>4. CASE events' = failed /\ GoesOn(d)
  <2>1. LetsGo(d) /\ e \notin DOMAIN dispatcher'[d].batch
    BY <1>4, GoesOnLetsGo
  <2>2. 0 \in 0..MaxAttempts
    BY OutboxAssumption
  <2> HIDE DEF e
  <2>3. EventsGoOn /\ (\A f \in Ids \ {e} : events'[f] = events[f]) /\ events'[e].status # "SUCCEEDED"
    BY <1>1, <1>2, <1>4, <2>2, OneRewritten
  <2> DEFINE gone == {e}
  <2>4. /\ gone \subseteq DOMAIN dispatcher[d].batch /\ gone \cap DOMAIN dispatcher'[d].batch = {}
        /\ \A f \in Ids \ gone : events'[f].status = events[f].status
    BY <1>1, <2>1, <2>3 DEF Held
  <2> HIDE DEF gone
  <2> QED
    BY <2>1, <2>3, <2>4, LetsGoHolds DEF NoneSucceeds
<1>5. CASE /\ events' = [f \in Ids |-> IF f \in Released(d) THEN PutBack(events[f]) ELSE failed[f]]
           /\ Stops(d)
  <2> DEFINE back == Released(d)
  <2>1. LetsGo(d) /\ DOMAIN dispatcher'[d].batch = {}
    BY <1>5, StopsLetsGo DEF Stops
  <2>2. back \subseteq DOMAIN dispatcher[d].batch \ {e}
    BY <1>1, ReleasedAreHeld
  <2> HIDE DEF back, e
  <2>3. /\ failed[e] \in Event /\ failed[e].record = events[e].record
        /\ failed[e].type = events[e].type /\ failed[e].status \in {"PENDING", "DEAD"}
        /\ \A f \in Ids \ {e} : failed[f] = events[f]
    BY <1>1, <1>2, FailedIs
  <2>4. events' = [f \in Ids |-> IF f \in back THEN PutBack(events[f]) ELSE failed[f]]
    BY <1>5 DEF back
  <2>5. events' = [f \in Ids |-> events'[f]]
    BY <2>4
  <2>6. \A f \in Ids : \/ f \in back /\ events'[f] = PutBack(events[f])
                       \/ f \notin back \cup {e} /\ events'[f] = events[f]
                       \/ f \notin back /\ f = e
                           /\ events'[f] \in Event /\ events'[f].record = events[f].record
                           /\ events'[f].type = events[f].type
                           /\ events'[f].status \in {"PENDING", "DEAD"}
    BY <2>3, <2>4
  <2>7. back \subseteq DOMAIN dispatcher[d].batch /\ e \in DOMAIN dispatcher[d].batch
    BY <1>1, <2>2 DEF Held
  <2> QED
    BY <1>1, <2>1, <2>5, <2>6, <2>7, PutBackHolds
<1> QED
  BY <1>2, <1>3, <1>4, <1>5

LEMMA StaffHold ==
  ASSUME HoldInv, NEW e \in Ids, RetryDead(e) \/ DiscardDead(e)
  PROVE  HoldInv' /\ EventsGoOn
<1>1. PICK s \in {"PENDING", "DISCARDED"} : events' = [events EXCEPT ![e].status = s]
  BY DEF RetryDead, DiscardDead
<1>2. events[e].status = "DEAD" /\ UNCHANGED <<seized, dispatcher>>
  BY DEF RetryDead, DiscardDead, history
<1>3. 0 \in 0..MaxAttempts
  BY OutboxAssumption
<1>4. EventsGoOn /\ \A f \in Ids \ {e} : events'[f] = events[f]
  BY <1>1, <1>2, <1>3, OneRewritten
<1>5. \A f \in Ids : events[f].status = "PROCESSING" => events'[f].status = "PROCESSING"
  BY <1>2, <1>4
<1> QED
  BY <1>2, <1>4, <1>5, HoldersStay

\* Business changes, webhooks and the timer that looks after the desk's tickets.
LEMMA BusinessHolds ==
  ASSUME HoldInv,
         \/ \E c \in Cases : OpenCase(c) \/ DeskWebhook(c) \/ SchedulePull(c)
         \/ \E r \in Mirrored : RecordChanges(r)
  PROVE  HoldInv' /\ EventsGoOn
<1>1. PICK r \in Cases \cup Mirrored, type \in Types : Enqueue(r, type) /\ UNCHANGED <<seized, dispatcher>>
  BY DEF OpenCase, DeskWebhook, SchedulePull, RecordChanges, Types, history
<1>2. EventsGoOn /\ \A e \in Ids : events'[e] = events[e]
  BY <1>1, EnqueueGoes
<1> QED
  BY <1>1, <1>2, HoldersStay

LEMMA DeliveryLetsGo ==
  ASSUME HoldInv, NEW d \in Dispatchers,
         \/ LookForTicket(d) \/ SaveLink(d) \/ ReadState(d) \/ ApplyExternalStatus(d) \/ Dies(d)
         \/ \E answered \in BOOLEAN : CreateTicket(d, answered) \/ Upsert(d, answered)
         \/ \E kind \in Failures : DeskFails(d, kind)
  PROVE  LetsGo(d) /\ UNCHANGED <<events, seized>>
<1>1. CASE Dies(d)
  BY <1>1, StopsLetsGo DEF Dies, history
<1>2. CASE ~Dies(d)
  <2>1. UNCHANGED <<events, seized>> /\ dispatcher[d].step # "IDLE"
    BY <1>2 DEF LookForTicket, SaveLink, ReadState, ApplyExternalStatus, CreateTicket, Upsert,
                DeskFails, At, history
  <2>2. \E step, read : Goes(d, step, read)
    BY <1>2 DEF LookForTicket, SaveLink, ReadState, ApplyExternalStatus, CreateTicket, Upsert, DeskFails
  <2> QED
    BY <2>1, <2>2, GoesLetsGo
<1> QED
  BY <1>1, <1>2

LEMMA HoldStep ==
  ASSUME HoldInv, [OutboxNext]_outbox
  PROVE  HoldInv' /\ EventsGoOn
<1>1. CASE UNCHANGED <<events, dispatcher, seized>>
  BY <1>1, SameEvents, HoldersStay
<1>3. ASSUME NEW d \in Dispatchers, GetsOn(d) PROVE HoldInv' /\ EventsGoOn
  <2>1. CASE \E t \in Targets : Claim(d, t)
    BY <2>1, ClaimHolds
  <2>2. CASE Succeed(d)
    BY <2>2, SucceedHolds
  <2>3. CASE RecordPause(d)
    BY <2>3, RecordPauseHolds
  <2>4. CASE RecordFailure(d)
    BY <2>4, RecordFailureHolds
  <2>5. CASE \/ LookForTicket(d) \/ CreateTicket(d, TRUE) \/ SaveLink(d)
             \/ ReadState(d) \/ Upsert(d, TRUE) \/ ApplyExternalStatus(d)
    BY <2>5, DeliveryLetsGo, GoesHolds
  <2> QED
    BY <1>3, <2>1, <2>2, <2>3, <2>4, <2>5 DEF GetsOn
<1>4. ASSUME NEW d \in Dispatchers, Fails(d) PROVE HoldInv' /\ EventsGoOn
  BY <1>4, DeliveryLetsGo, GoesHolds DEF Fails
<1>5. ASSUME \/ \E c \in Cases : ActOnCase(c) \/ TicketChanges(c)
             \/ \E r \in Mirrored : Commits(r) \/ RollsBack(r)
             \/ \E e \in Ids : LeaseExpires(e)
             \/ \E t \in Targets : PauseEnds(t) \/ ResumeTarget(t)
             \/ UNCHANGED outbox
      PROVE  UNCHANGED <<events, dispatcher, seized>>
  BY <1>5 DEF ActOnCase, TicketChanges, Commits, RollsBack, LeaseExpires, PauseEnds, ResumeTarget,
              outbox, history
<1> QED
  BY <1>1, <1>3, <1>4, <1>5, BusinessHolds, StaffHold DEF OutboxNext

LEMMA HoldInitHolds == OutboxInit => HoldInv
<1>1. DOMAIN Idle.batch = {} /\ Idle.step = "IDLE"
  BY DEF Idle
<1>2. <<>> \in Seq(Event) /\ Len(<<>>) = 0
  OBVIOUS
<1> QED
  BY <1>1, <1>2 DEF OutboxInit, HoldInv, HeldOK, Apart, Held, DeliveredInOrder, Ids

\* Events of a record are delivered in order as long as none is taken from a
\* process at work, whatever happens to other records' events, for any numbers of
\* records, events and dispatchers.
THEOREM EventsStayInOrder == OutboxSpec => []DeliveredInOrder
<1>1. HoldInv /\ [OutboxNext]_outbox => HoldInv'
  BY HoldStep
<1>2. HoldInv => DeliveredInOrder
  BY DEF HoldInv
<1> QED
  BY HoldInitHolds, <1>1, <1>2, PTL DEF OutboxSpec

-----------------------------------------------------------------------------
(* Tickets.  A case has one event that creates its ticket, and that event,    *)
(* while calm, is in the hands of one dispatcher, who has looked for the      *)
(* ticket before.                                                            *)

KindOK(e) ==
    /\ events[e].type = "SYNC" <=> events[e].record \in Mirrored
    /\ events[e].type = "CREATE" => case[events[e].record] # "NONE"

OneCreate ==
    \A e, f \in Ids :
        /\ events[e].type = "CREATE" /\ events[f].type = "CREATE"
        /\ events[e].record = events[f].record
        => e = f

TicketOK(c) ==
    /\ c \notin seized => tickets[c] <= 1
    /\ tickets[c] > 0 => ticket[c] # "NONE"
    /\ c \in linked => tickets[c] > 0

DeskOK(d) ==
    /\ At(d, "CREATE") => /\ Delivers(d, "CREATE")
                          /\ RecordOf(d) \notin seized => tickets[RecordOf(d)] = 0
    /\ At(d, "LINK") => Delivers(d, "CREATE") /\ tickets[RecordOf(d)] > 0
    /\ At(d, "WRITE") /\ ~Delivers(d, "SYNC") => dispatcher[d].read \in TicketStatuses

TicketsTypeOK ==
    /\ case \in [Cases -> CaseStatuses \cup {"NONE"}]
    /\ tickets \in [Cases -> Nat]
    /\ ticket \in [Cases -> TicketStatuses \cup {"NONE"}]
    /\ linked \subseteq Cases

DeskInv ==
    /\ TicketsTypeOK
    /\ \A e \in Ids : KindOK(e)
    /\ OneCreate
    /\ \A c \in Cases : TicketOK(c)
    /\ \A d \in Dispatchers : DeskOK(d)

LEMMA EventIs ==
  ASSUME HoldInv, NEW e \in Ids
  PROVE  events[e] \in Event /\ events[e].record \in Cases \cup Mirrored /\ events[e].type \in Types
<1>1. events[e] \in Event
  BY DEF HoldInv, Ids
<1> QED
  BY <1>1 DEF Event

\* What a dispatcher that goes on with its event knows of it stays true.
LEMMA DeskStays ==
  ASSUME HoldInv, EventsGoOn, DeskInv, NEW d \in Dispatchers, dispatcher'[d] = dispatcher[d],
         At(d, "CREATE") /\ RecordOf(d) \notin seized => tickets'[RecordOf(d)] = tickets[RecordOf(d)],
         \A c \in Cases : tickets'[c] >= tickets[c], TicketsTypeOK'
  PROVE  DeskOK(d)'
<1>1. CASE dispatcher[d].step = "IDLE"
  BY <1>1 DEF DeskOK, At
<1>2. CASE dispatcher[d].step # "IDLE"
  <2>1. Current(d) \in Ids /\ Current(d)' = Current(d)
    BY <1>2, CurrentIsHeld DEF Current
  <2>2. /\ RecordOf(d)' = RecordOf(d)
        /\ \A type : Delivers(d, type)' = Delivers(d, type)
        /\ \A step : At(d, step)' = At(d, step)
        /\ dispatcher'[d].read = dispatcher[d].read
    BY <2>1 DEF RecordOf, Delivers, At, EventsGoOn
  <2>3. DeskOK(d)
    BY DEF DeskInv
  <2>4. Delivers(d, "CREATE") => RecordOf(d) \in Cases
    BY <2>1, EventIs DEF DeskInv, KindOK, Delivers, RecordOf
  <2>5. ASSUME At(d, "CREATE")
        PROVE  Delivers(d, "CREATE") /\ (RecordOf(d) \notin seized' => tickets'[RecordOf(d)] = 0)
    BY <2>3, <2>5 DEF DeskOK, EventsGoOn
  <2>6. ASSUME At(d, "LINK") PROVE Delivers(d, "CREATE") /\ tickets'[RecordOf(d)] > 0
    BY <2>3, <2>4, <2>6 DEF DeskOK, DeskInv, TicketsTypeOK
  <2>7. ASSUME At(d, "WRITE"), ~Delivers(d, "SYNC") PROVE dispatcher'[d].read \in TicketStatuses
    BY <2>2, <2>3, <2>7 DEF DeskOK
  <2> QED
    BY <2>2, <2>5, <2>6, <2>7 DEF DeskOK
<1> QED
  BY <1>1, <1>2

\* Steps that add no event.
LEMMA DeskGoesOn ==
  ASSUME HoldInv, EventsGoOn, DeskInv, Len(events') = Len(events), TicketsTypeOK',
         \A c \in Cases : /\ case[c] # "NONE" => case'[c] # "NONE"
                          /\ TicketOK(c)' /\ tickets'[c] >= tickets[c],
         \A d \in Dispatchers :
            \/ /\ dispatcher'[d] = dispatcher[d]
               /\ At(d, "CREATE") /\ RecordOf(d) \notin seized =>
                     tickets'[RecordOf(d)] = tickets[RecordOf(d)]
            \/ dispatcher'[d].step \notin {"CREATE", "LINK", "WRITE"}
            \/ DeskOK(d)'
  PROVE  DeskInv'
<1>1. Ids' = Ids
  BY DEF Ids
<1>2. ASSUME NEW e \in Ids PROVE KindOK(e)'
  BY <1>1, EventIs DEF DeskInv, KindOK, EventsGoOn, Types
<1>3. OneCreate'
  BY <1>1 DEF DeskInv, OneCreate, EventsGoOn
<1>4. ASSUME NEW d \in Dispatchers PROVE DeskOK(d)'
  <2>1. CASE dispatcher'[d].step \notin {"CREATE", "LINK", "WRITE"}
    BY <2>1 DEF DeskOK, At
  <2>2. CASE /\ dispatcher'[d] = dispatcher[d]
             /\ At(d, "CREATE") /\ RecordOf(d) \notin seized =>
                     tickets'[RecordOf(d)] = tickets[RecordOf(d)]
    BY <2>2, DeskStays
  <2> QED
    BY <2>1, <2>2
<1> QED
  BY <1>1, <1>2, <1>3, <1>4 DEF DeskInv

\* A delivery that goes on is still of the same event.
LEMMA SameWork ==
  ASSUME HoldInv, NEW d \in Dispatchers, NEW step, NEW read, Goes(d, step, read),
         dispatcher[d].step # "IDLE", UNCHANGED events
  PROVE  /\ RecordOf(d)' = RecordOf(d) /\ \A type : Delivers(d, type)' = Delivers(d, type)
         /\ \A s : At(d, s)' <=> s = step
         /\ dispatcher'[d].read = read
         /\ \A c \in Dispatchers \ {d} : dispatcher'[c] = dispatcher[c]
<1>1. /\ LetsGo(d) /\ dispatcher'[d].batch = dispatcher[d].batch
      /\ dispatcher'[d].step = step /\ dispatcher'[d].read = read
  BY GoesLetsGo
<1>2. Current(d)' = Current(d)
  BY <1>1 DEF Current
<1> QED
  BY <1>1, <1>2 DEF RecordOf, Delivers, At, LetsGo

LEMMA WorksOnCase ==
  ASSUME HoldInv, DeskInv, NEW d \in Dispatchers, dispatcher[d].step # "IDLE"
  PROVE  /\ Current(d) \in Ids /\ RecordOf(d) \in Cases \cup Mirrored
         /\ ~Delivers(d, "SYNC") => RecordOf(d) \in Cases
         /\ Delivers(d, "SYNC") => RecordOf(d) \in Mirrored
<1>1. Current(d) \in Ids
  BY CurrentIsHeld
<1> QED
  BY <1>1, EventIs DEF RecordOf, Delivers, DeskInv, KindOK

\* Steps of a delivery that change nothing at the desk.
LEMMA DeskReads ==
  ASSUME HoldInv, EventsGoOn, DeskInv, Len(events') = Len(events), NEW d \in Dispatchers, LetsGo(d),
         UNCHANGED <<case, tickets, ticket, linked>>,
         dispatcher'[d].step \notin {"CREATE", "LINK", "WRITE"} \/ DeskOK(d)'
  PROVE  DeskInv'
<1>1. TicketsTypeOK' /\ \A c \in Cases : TicketOK(c)'
  BY DEF DeskInv, TicketsTypeOK, TicketOK, EventsGoOn
<1>2. \A c \in Dispatchers \ {d} :
         /\ dispatcher'[c] = dispatcher[c]
         /\ At(c, "CREATE") /\ RecordOf(c) \notin seized =>
               tickets'[RecordOf(c)] = tickets[RecordOf(c)]
  BY DEF LetsGo
<1>3. \A c \in Cases : tickets'[c] >= tickets[c]
  BY DEF DeskInv, TicketsTypeOK
<1> QED
  BY <1>1, <1>2, <1>3, DeskGoesOn

LEMMA LookForTicketDesk ==
  ASSUME HoldInv, EventsGoOn, DeskInv, NEW d \in Dispatchers, LookForTicket(d)
  PROVE  DeskInv'
<1> DEFINE r == RecordOf(d)
           step == IF r \in linked THEN "DONE" ELSE IF tickets[r] > 0 THEN "LINK" ELSE "CREATE"
<1>1. /\ Goes(d, step, "NONE") /\ dispatcher[d].step # "IDLE" /\ Delivers(d, "CREATE")
      /\ UNCHANGED <<events, case, tickets, ticket, linked>>
  BY DEF LookForTicket, At, records
<1>2. r \in Cases
  BY <1>1, WorksOnCase DEF Delivers
<1>3. tickets[r] \in Nat
  BY <1>2 DEF DeskInv, TicketsTypeOK
<1>4. /\ step = "LINK" => tickets[r] > 0
      /\ step = "CREATE" => tickets[r] = 0
      /\ step \in {"DONE", "LINK", "CREATE"}
  BY <1>3
<1> HIDE DEF r, step
<1>5. /\ RecordOf(d)' = RecordOf(d) /\ \A type : Delivers(d, type)' = Delivers(d, type)
      /\ \A s : At(d, s)' <=> s = step
  BY <1>1, SameWork
<1>6. DeskOK(d)'
  BY <1>1, <1>4, <1>5 DEF DeskOK, r
<1>7. LetsGo(d)
  BY <1>1, GoesLetsGo
<1> QED
  BY <1>1, <1>6, <1>7, DeskReads

\* Whoever else is about to create a ticket does so for another case.
LEMMA CreateTicketDesk ==
  ASSUME HoldInv, EventsGoOn, DeskInv, NEW d \in Dispatchers, NEW answered \in BOOLEAN,
         CreateTicket(d, answered)
  PROVE  DeskInv'
<1> DEFINE r == RecordOf(d)
           step == IF answered THEN "LINK" ELSE "RETRYABLE"
<1>1. /\ Goes(d, step, "NONE") /\ At(d, "CREATE") /\ UNCHANGED <<events, case, linked>>
      /\ tickets' = [tickets EXCEPT ![r] = @ + 1] /\ ticket' = [ticket EXCEPT ![r] = "OPEN"]
      /\ dispatcher[d].step = "CREATE" /\ UNCHANGED seized
  BY DEF CreateTicket, At, history
<1>2. Delivers(d, "CREATE") /\ (r \notin seized => tickets[r] = 0)
  BY <1>1 DEF DeskInv, DeskOK
<1>3. r \in Cases /\ Current(d) \in Ids
  BY <1>1, <1>2, WorksOnCase DEF Delivers
<1>4. TicketsTypeOK
  BY DEF DeskInv
<1> HIDE DEF step
<1>5. /\ RecordOf(d)' = RecordOf(d) /\ \A type : Delivers(d, type)' = Delivers(d, type)
      /\ \A s : At(d, s)' <=> s = step
      /\ \A c \in Dispatchers \ {d} : dispatcher'[c] = dispatcher[c]
  BY <1>1, SameWork
<1>6. ASSUME NEW c \in Dispatchers \ {d}, At(c, "CREATE"), r \notin seized PROVE RecordOf(c) # r
  <2>1. Delivers(c, "CREATE") /\ Current(c) \in Ids /\ Held(c, Current(c))
    BY <1>6, CurrentIsHeld DEF DeskInv, DeskOK, At
  <2>2. Calm(Current(d)) => Current(c) # Current(d)
    BY <1>1, <2>1, CurrentIsHeld DEF HoldInv, Apart, Held
  <2>3. Calm(Current(d))
    BY <1>6 DEF Calm, RecordOf
  <2> QED
    BY <1>2, <1>3, <2>1, <2>2, <2>3 DEF DeskInv, OneCreate, Delivers, RecordOf
<1> HIDE DEF r
<1>7. tickets'[r] = tickets[r] + 1 /\ tickets[r] \in Nat /\ \A c \in Cases \ {r} : tickets'[c] = tickets[c]
  BY <1>1, <1>3, <1>4 DEF TicketsTypeOK
<1>8. ticket'[r] = "OPEN" /\ \A c \in Cases \ {r} : ticket'[c] = ticket[c]
  BY <1>1, <1>3, <1>4 DEF TicketsTypeOK
<1>9. TicketsTypeOK'
  BY <1>1, <1>3, <1>4, <1>7 DEF TicketsTypeOK, TicketStatuses
<1>10. ASSUME NEW c \in Cases PROVE TicketOK(c)' /\ tickets'[c] >= tickets[c]
  <2>1. CASE c = r
    BY <1>1, <1>2, <1>7, <1>8, <2>1 DEF TicketOK
  <2>2. CASE c # r
    BY <1>1, <1>4, <1>7, <1>8, <2>2 DEF TicketOK, DeskInv, TicketsTypeOK
  <2> QED
    BY <2>1, <2>2
<1>11. DeskOK(d)'
  BY <1>2, <1>5, <1>7 DEF DeskOK, step, r
<1>12. ASSUME NEW c \in Dispatchers \ {d}, At(c, "CREATE"), RecordOf(c) \notin seized
       PROVE  tickets'[RecordOf(c)] = tickets[RecordOf(c)]
  <2>1. RecordOf(c) \in Cases
    BY <1>12, WorksOnCase DEF DeskInv, DeskOK, At, Delivers
  <2> QED
    BY <1>3, <1>6, <1>7, <1>12, <2>1
<1>13. Len(events') = Len(events) /\ \A c \in Cases : case[c] # "NONE" => case'[c] # "NONE"
  BY <1>1
<1> QED
  BY <1>5, <1>9, <1>10, <1>11, <1>12, <1>13, DeskGoesOn

LEMMA SaveLinkDesk ==
  ASSUME HoldInv, EventsGoOn, DeskInv, NEW d \in Dispatchers, SaveLink(d)
  PROVE  DeskInv'
<1> DEFINE r == RecordOf(d)
<1>1. /\ Goes(d, "DONE", "NONE") /\ At(d, "LINK") /\ UNCHANGED <<events, case, tickets, ticket>>
      /\ linked' = linked \cup {r} /\ dispatcher[d].step = "LINK"
  BY DEF SaveLink, At
<1>2. Delivers(d, "CREATE") /\ tickets[r] > 0
  BY <1>1 DEF DeskInv, DeskOK
<1>3. r \in Cases
  BY <1>1, <1>2, WorksOnCase DEF Delivers
<1>4. LetsGo(d) /\ dispatcher'[d].step = "DONE"
  BY <1>1, GoesLetsGo
<1> HIDE DEF r
<1>5. TicketsTypeOK' /\ \A c \in Cases : TicketOK(c)' /\ tickets'[c] >= tickets[c]
  BY <1>1, <1>2, <1>3 DEF DeskInv, TicketsTypeOK, TicketOK, EventsGoOn
<1>6. \A c \in Dispatchers \ {d} :
         /\ dispatcher'[c] = dispatcher[c]
         /\ At(c, "CREATE") /\ RecordOf(c) \notin seized =>
               tickets'[RecordOf(c)] = tickets[RecordOf(c)]
  BY <1>1, <1>4 DEF LetsGo
<1>7. Len(events') = Len(events) /\ \A c \in Cases : case[c] # "NONE" => case'[c] # "NONE"
  BY <1>1
<1> QED
  BY <1>4, <1>5, <1>6, <1>7, DeskGoesOn

LEMMA ReadStateDesk ==
  ASSUME HoldInv, EventsGoOn, DeskInv, NEW d \in Dispatchers, ReadState(d)
  PROVE  DeskInv'
<1> DEFINE r == RecordOf(d)
<1>1. /\ dispatcher[d].step # "IDLE" /\ ~Delivers(d, "CREATE")
      /\ UNCHANGED <<events, case, tickets, ticket, linked>>
      /\ \/ Delivers(d, "SYNC") /\ Goes(d, "WRITE", source[r])
         \/ ~Delivers(d, "SYNC") /\ r \in linked /\ Goes(d, "WRITE", ticket[r])
         \/ Goes(d, "DONE", "NONE")
  BY DEF ReadState, At, records
<1>2. PICK step, read : Goes(d, step, read) /\ step \in {"WRITE", "DONE"}
         /\ (step = "WRITE" /\ ~Delivers(d, "SYNC") => r \in linked /\ read = ticket[r])
  BY <1>1
<1>3. ~Delivers(d, "SYNC") /\ r \in linked => ticket[r] \in TicketStatuses
  <2>1. ~Delivers(d, "SYNC") => r \in Cases
    BY <1>1, WorksOnCase
  <2> QED
    BY <2>1 DEF DeskInv, TicketsTypeOK, TicketOK
<1> HIDE DEF r
<1>4. /\ RecordOf(d)' = RecordOf(d) /\ \A type : Delivers(d, type)' = Delivers(d, type)
      /\ \A s : At(d, s)' <=> s = step
      /\ dispatcher'[d].read = read
  BY <1>1, <1>2, SameWork
<1>5. DeskOK(d)'
  BY <1>2, <1>3, <1>4 DEF DeskOK
<1>6. LetsGo(d)
  BY <1>1, <1>2, GoesLetsGo
<1> QED
  BY <1>1, <1>5, <1>6, DeskReads

LEMMA ApplyStatusDesk ==
  ASSUME HoldInv, EventsGoOn, DeskInv, NEW d \in Dispatchers, ApplyExternalStatus(d)
  PROVE  DeskInv'
<1> DEFINE r == RecordOf(d)
           read == dispatcher[d].read
<1>1. /\ Goes(d, "DONE", "NONE") /\ At(d, "WRITE") /\ Delivers(d, "PULL")
      /\ UNCHANGED <<events, tickets, ticket, linked>>
      /\ case' = IF case[r] = "CLOSED" THEN case ELSE [case EXCEPT ![r] = read]
      /\ dispatcher[d].step = "WRITE"
  BY DEF ApplyExternalStatus, At
<1>2. ~Delivers(d, "SYNC")
  BY <1>1 DEF Delivers
<1>3. read \in TicketStatuses /\ r \in Cases
  BY <1>1, <1>2, WorksOnCase DEF DeskInv, DeskOK
<1>4. LetsGo(d) /\ dispatcher'[d].step = "DONE"
  BY <1>1, GoesLetsGo
<1> HIDE DEF r, read
<1>5. TicketsTypeOK' /\ \A c \in Cases : case[c] # "NONE" => case'[c] # "NONE"
  BY <1>1, <1>3 DEF DeskInv, TicketsTypeOK, TicketStatuses, CaseStatuses
<1>6. \A c \in Cases : TicketOK(c)' /\ tickets'[c] >= tickets[c]
  BY <1>1 DEF DeskInv, TicketsTypeOK, TicketOK, EventsGoOn
<1>7. \A c \in Dispatchers \ {d} :
         /\ dispatcher'[c] = dispatcher[c]
         /\ At(c, "CREATE") /\ RecordOf(c) \notin seized =>
               tickets'[RecordOf(c)] = tickets[RecordOf(c)]
  BY <1>1, <1>4 DEF LetsGo
<1>8. Len(events') = Len(events)
  BY <1>1
<1> QED
  BY <1>4, <1>5, <1>6, <1>7, <1>8, DeskGoesOn

\* Claims, failures, outcomes and syncs leave the desk alone.
LEMMA OtherDispatchDesk ==
  ASSUME HoldInv, EventsGoOn, DeskInv, OutboxNext, NEW d \in Dispatchers,
         \/ \E t \in Targets : Claim(d, t)
         \/ Succeed(d) \/ RecordPause(d) \/ RecordFailure(d) \/ Dies(d)
         \/ \E answered \in BOOLEAN : Upsert(d, answered)
         \/ \E kind \in Failures : DeskFails(d, kind)
  PROVE  DeskInv'
<1>1. UNCHANGED <<case, tickets, ticket, linked>>
  BY DEF Claim, Succeed, RecordPause, RecordFailure, Dies, Upsert, DeskFails, records
<1>2. TicketsTypeOK' /\ \A c \in Cases : TicketOK(c)' /\ tickets'[c] >= tickets[c]
  BY <1>1 DEF DeskInv, TicketsTypeOK, TicketOK, EventsGoOn
<1>3. /\ dispatcher'[d].step \notin {"CREATE", "LINK", "WRITE"}
      /\ \A c \in Dispatchers \ {d} : dispatcher'[c] = dispatcher[c]
  <2>1. CASE \E t \in Targets : Claim(d, t)
    <3>1. PICK batch : dispatcher' = [dispatcher EXCEPT ![d] =
                          [step |-> "CALL", read |-> "NONE", batch |-> batch]]
      BY <2>1 DEF Claim
    <3> QED
      BY <3>1 DEF HoldInv
  <2>2. CASE Succeed(d)
    BY <2>2, GoesOnLetsGo DEF Succeed, LetsGo
  <2>3. CASE RecordPause(d) \/ Dies(d)
    BY <2>3, StopsLetsGo DEF RecordPause, Dies, Stops, LetsGo, Idle
  <2>4. CASE RecordFailure(d)
    <3>1. GoesOn(d) \/ Stops(d)
      BY <2>4 DEF RecordFailure
    <3>2. CASE GoesOn(d)
      BY <3>2, GoesOnLetsGo DEF LetsGo
    <3>3. CASE Stops(d)
      BY <3>3, StopsLetsGo DEF Stops, LetsGo, Idle
    <3> QED
      BY <3>1, <3>2, <3>3
  <2>5. CASE \/ \E answered \in BOOLEAN : Upsert(d, answered)
             \/ \E kind \in Failures : DeskFails(d, kind)
    <3>1. /\ dispatcher[d].step # "IDLE"
          /\ \E step \in Failures \cup {"DONE", "RETRYABLE"} : Goes(d, step, "NONE")
      BY <2>5 DEF Upsert, DeskFails, At
    <3> QED
      BY <3>1, GoesLetsGo DEF LetsGo, Failures
  <2> QED
    BY <2>1, <2>2, <2>3, <2>4, <2>5
<1>4. Len(events') = Len(events)
  <2>1. CASE UNCHANGED events
    BY <2>1
  <2>2. CASE DOMAIN events' = DOMAIN events \/ DOMAIN events' = Ids
    BY <2>2 DEF HoldInv, EventsGoOn, Ids
  <2>3. CASE \/ \E t \in Targets : Claim(d, t)
             \/ Succeed(d) \/ RecordPause(d) \/ RecordFailure(d)
    BY <2>1, <2>2, <2>3 DEF Claim, Succeed, RecordPause, RecordFailure
  <2> QED
    BY <2>1, <2>3 DEF Dies, Upsert, DeskFails
<1>5. \A c \in Cases : case[c] # "NONE" => case'[c] # "NONE"
  BY <1>1
<1>6. \A c \in Dispatchers : tickets'[RecordOf(c)] = tickets[RecordOf(c)]
  BY <1>1
<1> QED
  BY <1>2, <1>3, <1>4, <1>5, <1>6, DeskGoesOn

\* A new event: a case's first one creates its ticket.
LEMMA BusinessDesk ==
  ASSUME HoldInv, EventsGoOn, DeskInv,
         \/ \E c \in Cases : OpenCase(c) \/ DeskWebhook(c) \/ SchedulePull(c)
         \/ \E r \in Mirrored : RecordChanges(r)
  PROVE  DeskInv'
<1>1. PICK r \in Cases \cup Mirrored, type \in Types :
        /\ Enqueue(r, type) /\ UNCHANGED <<tickets, ticket, linked, dispatcher, seized>>
        /\ type = "SYNC" <=> r \in Mirrored
        /\ \/ type = "CREATE" /\ case[r] = "NONE" /\ case' = [case EXCEPT ![r] = "OPEN"]
           \/ type # "CREATE" /\ UNCHANGED case
  BY OutboxAssumption DEF OpenCase, DeskWebhook, SchedulePull, RecordChanges, Types, records, history
<1>2. TicketsTypeOK' /\ \A c \in Cases : case[c] # "NONE" => case'[c] # "NONE"
  BY <1>1 DEF DeskInv, TicketsTypeOK, CaseStatuses
<1>3. /\ \A c \in Cases : TicketOK(c)' /\ tickets'[c] >= tickets[c]
      /\ \A d \in Dispatchers : tickets'[RecordOf(d)] = tickets[RecordOf(d)]
  BY <1>1 DEF DeskInv, TicketsTypeOK, TicketOK
<1>4. \A e \in Ids : events'[e] = events[e]
  BY <1>1, EnqueueGoes
<1>5. CASE Len(events') = Len(events)
  BY <1>1, <1>2, <1>3, <1>5, DeskGoesOn
<1>6. CASE Len(events') # Len(events)
  <2> DEFINE k == Len(events) + 1
  <2>1. Len(events) \in Nat /\ events \in Seq(Event)
    BY DEF HoldInv
  <2>2. events' = Append(events, [record |-> r, type |-> type, attempts |-> 0, status |-> "PENDING"])
    BY <1>1, <1>6 DEF Enqueue
  <2>3. /\ Len(events') = k /\ events'[k].record = r /\ events'[k].type = type
        /\ Ids' = Ids \cup {k} /\ k \notin Ids
    BY <2>1, <2>2 DEF Ids
  <2> HIDE DEF k
  <2>4. type = "CREATE" => r \in Cases /\ case'[r] = "OPEN"
    BY <1>1 DEF DeskInv, TicketsTypeOK
  <2>5. ASSUME NEW e \in Ids' PROVE KindOK(e)'
    <3>1. CASE e = k
      BY <1>1, <2>3, <2>4, <3>1 DEF KindOK
    <3>2. CASE e \in Ids
      <4>1. events[e].type = "CREATE" => events[e].record \in Cases
        BY <3>2, EventIs DEF DeskInv, KindOK
      <4> QED
        BY <1>2, <1>4, <3>2, <4>1 DEF DeskInv, KindOK
    <3> QED
      BY <2>3, <3>1, <3>2
  <2>6. \A e \in Ids : events[e].type = "CREATE" /\ type = "CREATE" => events[e].record # r
    BY <1>1 DEF DeskInv, KindOK
  <2>7. OneCreate'
    BY <1>4, <2>3, <2>6 DEF DeskInv, OneCreate
  <2>8. ASSUME NEW d \in Dispatchers PROVE DeskOK(d)'
    BY <1>1, <1>2, <1>3, DeskStays
  <2> QED
    BY <1>2, <1>3, <2>5, <2>7, <2>8 DEF DeskInv
<1> QED
  BY <1>5, <1>6

LEMMA DeskStep ==
  ASSUME HoldInv, DeskInv, [OutboxNext]_outbox
  PROVE  DeskInv'
<1>1. EventsGoOn
  BY HoldStep
<1>2. CASE UNCHANGED outbox
  BY <1>2 DEF outbox, history, DeskInv, TicketsTypeOK, KindOK, OneCreate, TicketOK, DeskOK, Ids, At,
              Delivers, RecordOf, Current
<1>3. ASSUME NEW c \in Cases, ActOnCase(c) \/ TicketChanges(c) PROVE DeskInv'
  <2>1. UNCHANGED <<tickets, linked, events, dispatcher>>
    BY <1>3 DEF ActOnCase, TicketChanges
  <2>2. /\ TicketsTypeOK'
        /\ \A x \in Cases : /\ case[x] # "NONE" => case'[x] # "NONE"
                            /\ ticket[x] # "NONE" => ticket'[x] # "NONE"
    BY <1>3 DEF ActOnCase, TicketChanges, DeskInv, TicketsTypeOK, CaseStatuses, TicketStatuses
  <2>3. \A x \in Cases : TicketOK(x)' /\ tickets'[x] >= tickets[x]
    BY <1>1, <2>1, <2>2 DEF DeskInv, TicketsTypeOK, TicketOK, EventsGoOn
  <2> QED
    BY <1>1, <2>1, <2>2, <2>3, DeskGoesOn
<1>4. ASSUME \/ \E t \in Targets : PauseEnds(t) \/ ResumeTarget(t)
             \/ \E e \in Ids : LeaseExpires(e) \/ RetryDead(e) \/ DiscardDead(e)
             \/ \E r \in Mirrored : Commits(r) \/ RollsBack(r),
             OutboxNext
      PROVE  DeskInv'
  <2>1. UNCHANGED <<case, tickets, ticket, linked, dispatcher>>
    BY <1>4 DEF PauseEnds, ResumeTarget, LeaseExpires, RetryDead, DiscardDead, Commits, RollsBack,
                records
  <2>2. Len(events') = Len(events)
    <3>1. CASE UNCHANGED events
      BY <3>1
    <3>2. CASE DOMAIN events' = DOMAIN events
      BY <1>1, <3>2 DEF HoldInv, EventsGoOn
    <3> QED
      BY <1>4, <3>1, <3>2 DEF PauseEnds, ResumeTarget, LeaseExpires, RetryDead, DiscardDead,
                              Commits, RollsBack
  <2>3. TicketsTypeOK' /\ \A x \in Cases : TicketOK(x)' /\ tickets'[x] >= tickets[x]
    BY <1>1, <2>1 DEF DeskInv, TicketsTypeOK, TicketOK, EventsGoOn
  <2> QED
    BY <1>1, <2>1, <2>2, <2>3, DeskGoesOn
<1>5. ASSUME NEW d \in Dispatchers, GetsOn(d) \/ Fails(d) PROVE DeskInv'
  <2>1. OutboxNext
    BY <1>5 DEF OutboxNext
  <2> QED
    BY <1>1, <1>5, <2>1, OtherDispatchDesk, LookForTicketDesk, CreateTicketDesk, SaveLinkDesk,
       ReadStateDesk, ApplyStatusDesk DEF GetsOn, Fails
<1> QED
  BY <1>1, <1>2, <1>3, <1>4, <1>5, BusinessDesk DEF OutboxNext

LEMMA DeskInitHolds == OutboxInit => DeskInv
BY DEF OutboxInit, DeskInv, TicketsTypeOK, KindOK, OneCreate, TicketOK, DeskOK, Ids, At, Idle

\* However calls fail, processes die and leases expire, a case gets one ticket as
\* long as none of its own events is taken from a process at work, for any number
\* of cases, events and dispatchers.
THEOREM NoSecondTicket == OutboxSpec => []OneTicketUnlessSeized
<1>1. OutboxInit => HoldInv /\ DeskInv
  BY HoldInitHolds, DeskInitHolds
<1>2. HoldInv /\ DeskInv /\ [OutboxNext]_outbox => HoldInv' /\ DeskInv'
  BY HoldStep, DeskStep
<1>3. DeskInv => OneTicketUnlessSeized
  BY DEF DeskInv, TicketOK, OneTicketUnlessSeized
<1> QED
  BY <1>1, <1>2, <1>3, PTL DEF OutboxSpec

-----------------------------------------------------------------------------
(* The mirror.  Events of a calm record are in at most one dispatcher's       *)
(* hands: what it has read is current, or a later event will bring what       *)
(* changed, unless the change had no event left when it was committed.        *)

Waiting(e) == Unfinished(e) \/ events[e].status = "DISCARDED"

Another(d) ==
    \E e \in Ids \ {Current(d)} : events[e].record = RecordOf(d) /\ Waiting(e)

\* Records that promise to be mirrored.
Sure(r) == r \notin overtaken \cup seized

CrmOK(d) ==
    Delivers(d, "SYNC") /\ Sure(RecordOf(d)) =>
        /\ At(d, "WRITE") => dispatcher[d].read = source[RecordOf(d)] \/ Another(d)
        /\ At(d, "DONE") => copy[RecordOf(d)] = source[RecordOf(d)] \/ Another(d)

CrmInv ==
    /\ DOMAIN copy = Mirrored /\ DOMAIN source = Mirrored
    /\ OtherChangesAreKept
    /\ \A d \in Dispatchers : CrmOK(d)

\* Two events of one record are never in two dispatchers' hands.
LEMMA OneOfRecord ==
  ASSUME HoldInv, NEW e \in Ids, NEW f \in Ids, e # f, events[e].record = events[f].record,
         Calm(e), events[e].status = "PROCESSING"
  PROVE  events[f].status # "PROCESSING"
<1>1. e \in Nat /\ f \in Nat
  BY DEF Ids
<1>2. e < f \/ f < e
  BY <1>1
<1> QED
  BY <1>2 DEF HoldInv, DeliveredInOrder, Unfinished, Calm

LEMMA WaitingStays ==
  ASSUME HoldInv, EventsGoOn, NEW e \in Ids, Waiting(e), Calm(e),
         events[e].status = "PROCESSING" => events'[e].status # "SUCCEEDED"
  PROVE  Waiting(e)' /\ e \in Ids' /\ events'[e].record = events[e].record
<1>1. e \in Ids'
  BY DEF EventsGoOn, HoldInv, Ids
<1>2. StatusGoesOn(e) /\ events'[e].record = events[e].record
  BY DEF EventsGoOn
<1> QED
  BY <1>1, <1>2 DEF Waiting, Unfinished, StatusGoesOn

\* A later event of a record waits while an earlier one is delivered.
LEMMA AnotherWaits ==
  ASSUME HoldInv, EventsGoOn, NEW d \in Dispatchers, dispatcher[d].step # "IDLE", Another(d),
         RecordOf(d) \notin seized
  PROVE  \E e \in Ids' \ {Current(d)} :
            events'[e].record = RecordOf(d) /\ Waiting(e)'
<1>1. PICK e \in Ids \ {Current(d)} : events[e].record = RecordOf(d) /\ Waiting(e)
  BY DEF Another
<1>2. Current(d) \in Ids /\ events[Current(d)].status = "PROCESSING" /\ Calm(e) /\ Calm(Current(d))
  BY <1>1, CurrentIsHeld DEF Calm, RecordOf
<1>3. events[e].status # "PROCESSING"
  BY <1>1, <1>2, OneOfRecord DEF RecordOf
<1> QED
  BY <1>1, <1>2, <1>3, WaitingStays

\* The same work, whatever others have done.
LEMMA SameTask ==
  ASSUME HoldInv, EventsGoOn, NEW d \in Dispatchers, dispatcher[d].step # "IDLE",
         dispatcher'[d].batch = dispatcher[d].batch
  PROVE  /\ Current(d)' = Current(d) /\ RecordOf(d)' = RecordOf(d)
         /\ \A type : Delivers(d, type)' = Delivers(d, type)
         /\ Another(d) /\ RecordOf(d) \notin seized => Another(d)'
<1>1. Current(d) \in Ids /\ Current(d)' = Current(d)
  BY CurrentIsHeld DEF Current
<1>2. RecordOf(d)' = RecordOf(d) /\ \A type : Delivers(d, type)' = Delivers(d, type)
  BY <1>1 DEF RecordOf, Delivers, EventsGoOn
<1>3. ASSUME Another(d), RecordOf(d) \notin seized PROVE Another(d)'
  BY <1>1, <1>2, <1>3, AnotherWaits DEF Another
<1> QED
  BY <1>1, <1>2, <1>3

\* A dispatcher that stays, while its record and the record's copy do.
LEMMA CrmStays ==
  ASSUME HoldInv, EventsGoOn, CrmInv, NEW d \in Dispatchers, dispatcher'[d] = dispatcher[d],
         Delivers(d, "SYNC") /\ dispatcher[d].step # "IDLE" =>
            \/ Another(d)' \/ RecordOf(d) \in overtaken' \cup seized'
            \/ /\ source'[RecordOf(d)] = source[RecordOf(d)] /\ copy'[RecordOf(d)] = copy[RecordOf(d)]
               /\ RecordOf(d) \in overtaken => RecordOf(d) \in overtaken'
  PROVE  CrmOK(d)'
<1>1. CASE dispatcher[d].step = "IDLE"
  BY <1>1 DEF CrmOK, At
<1>2. CASE dispatcher[d].step # "IDLE"
  <2>1. /\ RecordOf(d)' = RecordOf(d)
        /\ \A type : Delivers(d, type)' = Delivers(d, type)
        /\ Another(d) /\ RecordOf(d) \notin seized => Another(d)'
    BY <1>2, SameTask
  <2> QED
    BY <1>2, <2>1 DEF CrmInv, CrmOK, At, Sure, EventsGoOn
<1> QED
  BY <1>1, <1>2

\* Steps that change neither a record nor its copy, and finish nothing.
LEMMA CrmGoesOn ==
  ASSUME HoldInv, EventsGoOn, CrmInv, UNCHANGED <<source, copy, overtaken>>,
         \A e \in Ids : events[e].status = "PROCESSING" => events'[e].status # "SUCCEEDED",
         \A d \in Dispatchers : \/ dispatcher'[d] = dispatcher[d]
                                \/ dispatcher'[d].step \notin {"WRITE", "DONE"}
                                \/ CrmOK(d)'
  PROVE  CrmInv'
<1>1. OtherChangesAreKept'
  <2> SUFFICES ASSUME NEW r \in Mirrored, Sure(r), copy[r] # source[r]
               PROVE  \E e \in Ids' : events'[e].record = r /\ Waiting(e)'
    BY DEF OtherChangesAreKept, Mirrors, Waiting, Sure, EventsGoOn
  <2>1. PICK e \in Ids : events[e].record = r /\ Waiting(e) /\ Calm(e)
    BY DEF CrmInv, OtherChangesAreKept, Mirrors, Waiting, Sure, Calm
  <2> QED
    BY <2>1, WaitingStays
<1>2. ASSUME NEW d \in Dispatchers PROVE CrmOK(d)'
  <2>1. CASE dispatcher'[d] = dispatcher[d]
    BY <2>1, CrmStays
  <2>2. CASE dispatcher'[d].step \notin {"WRITE", "DONE"}
    BY <2>2 DEF CrmOK, At
  <2> QED
    BY <2>1, <2>2
<1> QED
  BY <1>1, <1>2 DEF CrmInv

LEMMA ReadStateCrm ==
  ASSUME HoldInv, EventsGoOn, CrmInv, NEW d \in Dispatchers,
         ReadState(d) \/ LookForTicket(d) \/ SaveLink(d) \/ ApplyExternalStatus(d),
         HoldInv, DeskInv
  PROVE  CrmInv'
<1>1. /\ dispatcher[d].step # "IDLE" /\ UNCHANGED <<events, source, copy, overtaken>>
      /\ \E step, read : /\ Goes(d, step, read)
                         /\ Delivers(d, "SYNC") => step = "WRITE" /\ read = source[RecordOf(d)]
  <2>1. CASE ReadState(d)
    BY <2>1 DEF ReadState, At, records, history
  <2>2. CASE LookForTicket(d) \/ ApplyExternalStatus(d)
    BY <2>2 DEF LookForTicket, ApplyExternalStatus, At, Delivers, records, history
  <2>3. CASE SaveLink(d)
    BY <2>3 DEF SaveLink, At, DeskInv, DeskOK, Delivers, history
  <2> QED
    BY <2>1, <2>2, <2>3
<1>2. PICK step, read : /\ Goes(d, step, read)
                        /\ Delivers(d, "SYNC") => step = "WRITE" /\ read = source[RecordOf(d)]
  BY <1>1
<1>3. /\ RecordOf(d)' = RecordOf(d) /\ \A type : Delivers(d, type)' = Delivers(d, type)
      /\ \A s : At(d, s)' <=> s = step
      /\ dispatcher'[d].read = read
      /\ \A c \in Dispatchers \ {d} : dispatcher'[c] = dispatcher[c]
  BY <1>1, <1>2, SameWork
<1>4. CrmOK(d)'
  BY <1>1, <1>2, <1>3 DEF CrmOK
<1>5. \A e \in Ids : events[e].status = "PROCESSING" => events'[e].status # "SUCCEEDED"
  BY <1>1
<1> QED
  BY <1>1, <1>3, <1>4, <1>5, CrmGoesOn

\* The copy that is written is current, or out of date with an event to come.
LEMMA UpsertCrm ==
  ASSUME HoldInv, EventsGoOn, DeskInv, CrmInv, NEW d \in Dispatchers, NEW answered \in BOOLEAN,
         Upsert(d, answered)
  PROVE  CrmInv'
<1> DEFINE r == RecordOf(d)
           step == IF answered THEN "DONE" ELSE "RETRYABLE"
<1>1. /\ Goes(d, step, "NONE") /\ At(d, "WRITE") /\ Delivers(d, "SYNC")
      /\ UNCHANGED <<events, source, overtaken, seized>> /\ dispatcher[d].step = "WRITE"
      /\ copy' = [copy EXCEPT ![r] = dispatcher[d].read]
  BY DEF Upsert, At, history
<1>2. r \in Mirrored
  BY <1>1, WorksOnCase
<1>3. Sure(r) => dispatcher[d].read = source[r] \/ Another(d)
  BY <1>1 DEF CrmInv, CrmOK
<1> HIDE DEF step
<1>4. /\ RecordOf(d)' = RecordOf(d) /\ \A type : Delivers(d, type)' = Delivers(d, type)
      /\ \A s : At(d, s)' <=> s = step
      /\ \A c \in Dispatchers \ {d} : dispatcher'[c] = dispatcher[c]
      /\ dispatcher'[d].batch = dispatcher[d].batch
  BY <1>1, SameWork, GoesLetsGo
<1>5. Another(d) /\ Sure(r) => Another(d)'
  BY <1>1, <1>4, SameTask DEF Sure
<1>6. PICK read : read = dispatcher[d].read /\ copy' = [copy EXCEPT ![r] = read]
  BY <1>1
<1>7. Sure(r) => copy'[r] = source[r] \/ Another(d)'
  BY <1>2, <1>3, <1>5, <1>6 DEF CrmInv
<1>8. CrmOK(d)'
  BY <1>1, <1>4, <1>7 DEF CrmOK, Sure, step
<1>9. ASSUME NEW c \in Dispatchers \ {d} PROVE CrmOK(c)'
  <2>1. Delivers(c, "SYNC") /\ dispatcher[c].step # "IDLE" /\ RecordOf(c) \notin seized => RecordOf(c) # r
    <3> SUFFICES ASSUME dispatcher[c].step # "IDLE", RecordOf(c) = r, r \notin seized PROVE FALSE
      OBVIOUS
    <3>1. /\ Current(c) \in Ids /\ events[Current(c)].status = "PROCESSING" /\ Held(c, Current(c))
          /\ Current(d) \in Ids /\ events[Current(d)].status = "PROCESSING" /\ Held(d, Current(d))
          /\ Calm(Current(c)) /\ Calm(Current(d))
      BY <1>1, CurrentIsHeld DEF Calm, RecordOf
    <3>2. Current(c) # Current(d)
      BY <3>1 DEF HoldInv, Apart, Held
    <3> QED
      BY <3>1, <3>2, OneOfRecord DEF RecordOf
  <2>2. Delivers(c, "SYNC") /\ dispatcher[c].step # "IDLE" => RecordOf(c) \in Mirrored
    BY WorksOnCase
  <2>3. Delivers(c, "SYNC") /\ dispatcher[c].step # "IDLE" /\ RecordOf(c) \notin seized =>
           source'[RecordOf(c)] = source[RecordOf(c)] /\ copy'[RecordOf(c)] = copy[RecordOf(c)]
    BY <1>1, <1>6, <2>1, <2>2 DEF CrmInv
  <2> QED
    BY <1>1, <1>4, <2>3, CrmStays
<1>10. DOMAIN copy' = Mirrored /\ DOMAIN source' = Mirrored
  BY <1>1 DEF CrmInv
<1>11. ASSUME NEW x \in Mirrored, Sure(x), copy'[x] # source'[x]
       PROVE  \E e \in Ids' : events'[e].record = x /\ Waiting(e)'
  <2>1. CASE x = r
    BY <1>1, <1>4, <1>7, <1>11, <2>1 DEF Another, r
  <2>2. CASE x # r
    <3>1. copy[x] # source[x]
      BY <1>1, <1>6, <1>11, <2>2 DEF CrmInv
    <3> QED
      BY <1>1, <1>11, <3>1 DEF CrmInv, OtherChangesAreKept, Mirrors, Sure, Waiting, Unfinished, Ids
  <2> QED
    BY <2>1, <2>2
<1>12. OtherChangesAreKept'
  BY <1>1, <1>11 DEF OtherChangesAreKept, Mirrors, Sure, Waiting
<1>13. \A c \in Dispatchers : CrmOK(c)'
  BY <1>8, <1>9
<1> QED
  BY <1>10, <1>12, <1>13 DEF CrmInv

\* Whoever succeeds has written what there was, or another event will.
LEMMA SucceedCrm ==
  ASSUME HoldInv, EventsGoOn, DeskInv, CrmInv, NEW d \in Dispatchers, Succeed(d)
  PROVE  CrmInv'
<1> DEFINE k == Current(d)
           r == RecordOf(d)
<1>1. /\ At(d, "DONE") /\ GoesOn(d) /\ dispatcher[d].step = "DONE"
      /\ UNCHANGED <<source, copy, overtaken, seized>>
      /\ events' = [events EXCEPT ![k].status = "SUCCEEDED", ![k].attempts = 0]
  BY DEF Succeed, At, records, history
<1>2. k \in Ids
  BY <1>1, CurrentIsHeld
<1>3. \A e \in Ids \ {k} : events'[e] = events[e]
  <2>1. events \in [Ids -> Event]
    BY DEF HoldInv, Ids
  <2> HIDE DEF k
  <2> QED
    BY <1>1, <2>1
<1> HIDE DEF k
<1>4. ASSUME NEW x \in Mirrored, Sure(x), copy[x] # source[x]
      PROVE  \E e \in Ids' : events'[e].record = x /\ Waiting(e)'
  <2>1. PICK e \in Ids : events[e].record = x /\ Waiting(e) /\ Calm(e)
    BY <1>4 DEF CrmInv, OtherChangesAreKept, Mirrors, Waiting, Sure, Calm
  <2>2. CASE e # k
    <3>1. events'[e].status # "SUCCEEDED"
      BY <1>3, <2>1, <2>2 DEF Waiting, Unfinished
    <3> QED
      BY <2>1, <3>1, WaitingStays
  <2>3. CASE e = k
    <3>1. r = x /\ Delivers(d, "SYNC")
      BY <1>1, <2>1, <2>3, EventIs, OutboxAssumption DEF RecordOf, Delivers, DeskInv, KindOK, k
    <3>2. Another(d)
      BY <1>1, <1>4, <3>1 DEF CrmInv, CrmOK
    <3> QED
      BY <1>1, <1>4, <3>1, <3>2, AnotherWaits DEF Sure
  <2> QED
    BY <2>2, <2>3
<1>5. OtherChangesAreKept'
  BY <1>1, <1>4 DEF OtherChangesAreKept, Mirrors, Sure, Waiting
<1>6. /\ dispatcher'[d].step \notin {"WRITE", "DONE"}
      /\ \A c \in Dispatchers \ {d} : dispatcher'[c] = dispatcher[c]
  BY <1>1, GoesOnLetsGo DEF LetsGo
<1>7. CrmOK(d)'
  BY <1>6 DEF CrmOK, At
<1>8. ASSUME NEW c \in Dispatchers \ {d} PROVE CrmOK(c)'
  BY <1>1, <1>6, CrmStays
<1>9. \A c \in Dispatchers : CrmOK(c)'
  BY <1>7, <1>8
<1> QED
  BY <1>1, <1>5, <1>9 DEF CrmInv

\* A change that is committed has an event, its own or one that is still pending,
\* or it is overtaken.
LEMMA ChangeCrm ==
  ASSUME HoldInv, EventsGoOn, CrmInv, NEW r \in Mirrored, NEW state,
         source' = [source EXCEPT ![r] = state], UNCHANGED <<copy, dispatcher, seized>>,
         \A e \in Ids : events'[e] = events[e], overtaken \ {r} \subseteq overtaken',
         \/ r \in overtaken'
         \/ \E k \in Ids' : events'[k].record = r /\ events'[k].status = "PENDING"
  PROVE  CrmInv'
<1>1. ASSUME NEW x \in Mirrored, Sure(x)', copy'[x] # source'[x]
      PROVE  \E e \in Ids' : events'[e].record = x /\ Waiting(e)'
  <2>1. CASE x = r
    BY <1>1, <2>1 DEF Waiting, Unfinished, Sure
  <2>2. CASE x # r
    <3>1. copy[x] # source[x] /\ Sure(x)
      BY <1>1, <2>2 DEF CrmInv, Sure
    <3>2. PICK e \in Ids : events[e].record = x /\ Waiting(e) /\ Calm(e)
      BY <3>1 DEF CrmInv, OtherChangesAreKept, Mirrors, Waiting, Sure, Calm
    <3> QED
      BY <3>2, WaitingStays
  <2> QED
    BY <2>1, <2>2
<1>2. OtherChangesAreKept'
  BY <1>1 DEF OtherChangesAreKept, Mirrors, Sure, Waiting
<1>3. ASSUME NEW d \in Dispatchers PROVE CrmOK(d)'
  <2>1. ASSUME dispatcher[d].step # "IDLE", RecordOf(d) = r, r \notin overtaken' \cup seized'
        PROVE  Another(d)'
    <3>1. Current(d) \in Ids /\ events[Current(d)].status = "PROCESSING"
      BY <2>1, CurrentIsHeld DEF Calm, RecordOf
    <3>2. PICK k \in Ids' : events'[k].record = r /\ events'[k].status = "PENDING"
      BY <2>1
    <3>3. k # Current(d)
      BY <3>1, <3>2
    <3>4. Current(d)' = Current(d) /\ RecordOf(d)' = r
      BY <2>1, SameTask
    <3> QED
      BY <3>2, <3>3, <3>4 DEF Another, Waiting, Unfinished
  <2>2. dispatcher[d].step # "IDLE" /\ RecordOf(d) # r =>
           /\ source'[RecordOf(d)] = source[RecordOf(d)] /\ copy'[RecordOf(d)] = copy[RecordOf(d)]
           /\ RecordOf(d) \in overtaken => RecordOf(d) \in overtaken'
    OBVIOUS
  <2> QED
    BY <2>1, <2>2, CrmStays
<1>4. DOMAIN copy' = Mirrored /\ DOMAIN source' = Mirrored
  BY DEF CrmInv
<1> QED
  BY <1>2, <1>3, <1>4 DEF CrmInv

LEMMA RecordChangesCrm ==
  ASSUME HoldInv, EventsGoOn, CrmInv, NEW r \in Mirrored, RecordChanges(r)
  PROVE  CrmInv'
<1>1. Enqueue(r, "SYNC") /\ UNCHANGED <<copy, dispatcher, seized>>
  BY DEF RecordChanges
<1>2. \A e \in Ids : events'[e] = events[e]
  BY <1>1, EnqueueGoes DEF Types
<1>3. CASE PendingTwin(r, "SYNC")
  <2>1. UNCHANGED <<source, overtaken>>
    BY <1>3 DEF RecordChanges
  <2>2. \A e \in Ids : events[e].status = "PROCESSING" => events'[e].status # "SUCCEEDED"
    BY <1>2
  <2> QED
    BY <1>1, <2>1, <2>2, CrmGoesOn
<1>4. CASE ~PendingTwin(r, "SYNC")
  <2>1. PICK state : source' = [source EXCEPT ![r] = state]
    BY <1>4 DEF RecordChanges
  <2>2. overtaken \ {r} \subseteq overtaken'
    BY <1>4 DEF RecordChanges
  <2> DEFINE new == [record |-> r, type |-> "SYNC", attempts |-> 0, status |-> "PENDING"]
  <2>3. events' = Append(events, new)
    BY <1>1, <1>4 DEF Enqueue
  <2>4. new.record = r /\ new.status = "PENDING"
    OBVIOUS
  <2> HIDE DEF new
  <2>5. Len(events) \in Nat /\ events \in Seq(Event)
    BY DEF HoldInv
  <2>6. /\ events'[Len(events) + 1] = new /\ Len(events) + 1 \in Ids'
    BY <2>3, <2>5 DEF Ids
  <2> QED
    BY <1>1, <1>2, <2>1, <2>2, <2>4, <2>6, ChangeCrm
<1> QED
  BY <1>3, <1>4

LEMMA CommitsCrm ==
  ASSUME HoldInv, EventsGoOn, CrmInv, NEW r \in Mirrored, Commits(r)
  PROVE  CrmInv'
<1>1. PICK state : source' = [source EXCEPT ![r] = state]
  BY DEF Commits
<1>2. UNCHANGED <<copy, dispatcher, seized, events>> /\ overtaken \ {r} \subseteq overtaken'
  BY DEF Commits
<1>3. \/ r \in overtaken'
      \/ \E k \in Ids : events[k].record = r /\ events[k].status = "PENDING"
  BY DEF Commits, PendingTwin
<1>4. \/ r \in overtaken'
      \/ \E k \in Ids' : events'[k].record = r /\ events'[k].status = "PENDING"
  BY <1>2, <1>3 DEF Ids
<1> QED
  BY <1>1, <1>2, <1>4, ChangeCrm

LEMMA CrmStep ==
  ASSUME HoldInv, DeskInv, CrmInv, [OutboxNext]_outbox
  PROVE  CrmInv'
<1>1. EventsGoOn
  BY HoldStep
<1>2. ASSUME UNCHANGED <<source, copy, dispatcher, overtaken>>,
             \A e \in Ids : events[e].status = "PROCESSING" => events'[e].status # "SUCCEEDED"
      PROVE  CrmInv'
  BY <1>1, <1>2, CrmGoesOn
<1>3. CASE UNCHANGED outbox
  BY <1>2, <1>3 DEF outbox, history
<1>4. ASSUME NEW c \in Cases, OpenCase(c) \/ DeskWebhook(c) \/ SchedulePull(c)
      PROVE  CrmInv'
  <2>1. PICK type \in Types : Enqueue(c, type) /\ UNCHANGED <<source, copy, dispatcher, overtaken, seized>>
    BY <1>4 DEF OpenCase, DeskWebhook, SchedulePull, Types, records, history
  <2>2. \A e \in Ids : events'[e] = events[e]
    BY <2>1, EnqueueGoes
  <2> QED
    BY <1>2, <2>1, <2>2
<1>5. ASSUME \/ \E c \in Cases : ActOnCase(c) \/ TicketChanges(c)
             \/ \E t \in Targets : PauseEnds(t) \/ ResumeTarget(t)
             \/ \E e \in Ids : LeaseExpires(e)
             \/ \E r \in Mirrored : RollsBack(r)
      PROVE  CrmInv'
  BY <1>2, <1>5 DEF ActOnCase, TicketChanges, PauseEnds, ResumeTarget, LeaseExpires, RollsBack, records,
                    history
<1>6. ASSUME NEW e \in Ids, RetryDead(e) \/ DiscardDead(e) PROVE CrmInv'
  <2>1. PICK s \in {"PENDING", "DISCARDED"} : events' = [events EXCEPT ![e].status = s]
    BY <1>6 DEF RetryDead, DiscardDead
  <2>2. events[e].status = "DEAD" /\ UNCHANGED <<source, copy, dispatcher, overtaken>>
    BY <1>6 DEF RetryDead, DiscardDead, records, history
  <2> QED
    BY <1>2, <2>1, <2>2
<1>7. ASSUME NEW d \in Dispatchers,
             \/ \E t \in Targets : Claim(d, t)
             \/ RecordPause(d) \/ RecordFailure(d) \/ Dies(d)
             \/ \E answered \in BOOLEAN : CreateTicket(d, answered)
             \/ \E kind \in Failures : DeskFails(d, kind)
      PROVE  CrmInv'
  <2>1. UNCHANGED <<source, copy, overtaken>>
    BY <1>7 DEF Claim, RecordPause, RecordFailure, Dies, CreateTicket, DeskFails, records, history
  <2>2. /\ dispatcher'[d].step \notin {"WRITE", "DONE"}
        /\ \A c \in Dispatchers \ {d} : dispatcher'[c] = dispatcher[c]
    <3>1. CASE \E t \in Targets : Claim(d, t)
      <4>1. PICK batch : dispatcher' = [dispatcher EXCEPT ![d] =
                            [step |-> "CALL", read |-> "NONE", batch |-> batch]]
        BY <3>1 DEF Claim
      <4> QED
        BY <4>1 DEF HoldInv
    <3>2. CASE GoesOn(d) \/ Stops(d)
      BY <3>2, GoesOnLetsGo, StopsLetsGo DEF Stops, LetsGo, Idle
    <3>3. CASE RecordPause(d) \/ RecordFailure(d) \/ Dies(d)
      BY <3>2, <3>3 DEF RecordPause, RecordFailure, Dies, Stops
    <3>4. CASE \/ \E answered \in BOOLEAN : CreateTicket(d, answered)
               \/ \E kind \in Failures : DeskFails(d, kind)
      <4>1. /\ dispatcher[d].step # "IDLE"
            /\ \E step \in Failures \cup {"LINK"} : Goes(d, step, "NONE")
        BY <3>4 DEF CreateTicket, DeskFails, At, Failures
      <4> QED
        BY <4>1, GoesLetsGo DEF LetsGo, Failures
    <3> QED
      BY <1>7, <3>1, <3>3, <3>4
  <2>3. \A e \in Ids : events[e].status = "PROCESSING" => events'[e].status # "SUCCEEDED"
    <3>1. CASE UNCHANGED events
      BY <3>1
    <3>2. CASE \E t \in Targets : Claim(d, t)
      BY <3>2, ClaimHolds DEF NoneSucceeds
    <3>3. CASE RecordPause(d) \/ RecordFailure(d)
      BY <3>3, RecordPauseHolds, RecordFailureHolds DEF NoneSucceeds
    <3> QED
      BY <1>7, <3>1, <3>2, <3>3 DEF Dies, CreateTicket, DeskFails
  <2> QED
    BY <1>1, <2>1, <2>2, <2>3, CrmGoesOn
<1>8. ASSUME NEW d \in Dispatchers, GetsOn(d) \/ Fails(d) PROVE CrmInv'
  BY <1>1, <1>7, <1>8, ReadStateCrm, UpsertCrm, SucceedCrm DEF GetsOn, Fails
<1> QED
  BY <1>1, <1>3, <1>4, <1>5, <1>6, <1>8, RecordChangesCrm, CommitsCrm DEF OutboxNext

LEMMA CrmInitHolds == OutboxInit => CrmInv
BY DEF OutboxInit, CrmInv, CrmOK, OtherChangesAreKept, Mirrors, At, Idle

\* Whatever fails and whoever dies, a record that Zoho CRM does not have as it is has
\* an event that brings it, or staff have discarded one, for any number of records,
\* events and dispatchers, unless its change was overtaken by the delivery of the event
\* it was left to, or one of its events was taken from a process at work.
THEOREM NoOtherChangeGetsLost == OutboxSpec => []OtherChangesAreKept
<1>1. OutboxInit => HoldInv /\ DeskInv /\ CrmInv
  BY HoldInitHolds, DeskInitHolds, CrmInitHolds
<1>2. HoldInv /\ DeskInv /\ CrmInv /\ [OutboxNext]_outbox => HoldInv' /\ DeskInv' /\ CrmInv'
  BY HoldStep, DeskStep, CrmStep
<1>3. CrmInv => OtherChangesAreKept
  BY DEF CrmInv
<1> QED
  BY <1>1, <1>2, <1>3, PTL DEF OutboxSpec
=============================================================================
