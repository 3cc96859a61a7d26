----------------------------- MODULE Documents -----------------------------
(***************************************************************************)
(* The identity documents of one worker: stored_document rows, the objects *)
(* in the bucket, and those who work on them side by side -- requests that *)
(* confirm an upload, runs of the scanning and of the purging job, staff   *)
(* who open a file.  Row and object change in separate steps, and whoever  *)
(* does both can stop in between.                                          *)
(*                                                                         *)
(* A file is known by its content; its hash is the content itself.  A run  *)
(* of a job over a batch is as many runs over one file each.               *)
(***************************************************************************)
CONSTANTS
    Docs,       \* uploads there may be
    Requests,   \* requests that may be confirming one
    Scans,      \* runs of the scanning job: two only when one outlives its lease
    Purges      \* runs of the purging job

VARIABLES
    doc,      \* stored_document
    object,   \* what the bucket has
    link,     \* uploads whose link is still valid
    request,  \* confirmUpload under way
    scan,     \* scanPending under way
    purge,    \* purge under way
    shown     \* contents that staff have been shown of each document

documents == <<doc, object, link, request, scan, purge, shown>>

-----------------------------------------------------------------------------
None == "none"
Valid == {"clean", "infected"}   \* a file of the declared type
Contents == Valid \cup {"invalid"}

\* old: awaiting the upload for a day; retain: retain_until is not set, ahead or
\* passed; found: a scan found the file with this hash to be clean.
NoRow == [status |-> "NONE", sha |-> None, old |-> FALSE, retain |-> "NO", found |-> FALSE]

Idle == [step |-> "NONE", of |-> None, content |-> None]
Takes(who, x, step, d, content) ==
    [who EXCEPT ![x] = [step |-> step, of |-> d, content |-> content]]
Steps(who, x, step) == [who EXCEPT ![x].step = step]
Stops(who, x) == [who EXCEPT ![x] = Idle]

Stored(d) == doc[d].status \notin {"NONE", "DELETED"}
SetStatus(d, status) == doc' = [doc EXCEPT ![d].status = status]
Removes(d) == object' = [object EXCEPT ![d] = None]

-----------------------------------------------------------------------------
(* The worker's app. *)

CreateUpload(d) ==
    /\ doc[d].status = "NONE"
    /\ SetStatus(d, "AWAITING_UPLOAD")
    /\ link' = link \cup {d}
    /\ UNCHANGED <<object, request, scan, purge, shown>>

\* The link can be used again until it expires.
Upload(d, content) ==
    /\ d \in link
    /\ object' = [object EXCEPT ![d] = content]
    /\ UNCHANGED <<doc, link, request, scan, purge, shown>>

LinkExpires(d) ==
    /\ d \in link
    /\ link' = link \ {d}
    /\ UNCHANGED <<doc, object, request, scan, purge, shown>>

\* confirmUpload reads the row and the file; a file already confirmed is taken
\* as it is.
ReadUpload(r, d) ==
    /\ request[r] = Idle
    /\ \/ /\ doc[d].status = "AWAITING_UPLOAD" /\ object[d] # None
          /\ request' = Takes(request, r, "READ", d, object[d])
       \/ /\ doc[d].status \in {"PENDING_SCAN", "CLEAN"}
          /\ request' = Takes(request, r, "CONFIRMED", d, None)
    /\ UNCHANGED <<doc, object, link, scan, purge, shown>>

\* A valid file is queued for the scan unless its row has changed meanwhile.
Confirm(r) ==
    LET d == request[r].of IN
    /\ request[r].step = "READ" /\ request[r].content \in Valid
    /\ doc' = IF doc[d].status = "AWAITING_UPLOAD"
              THEN [doc EXCEPT ![d].status = "PENDING_SCAN", ![d].sha = request[r].content]
              ELSE doc
    /\ request' = Steps(request, r, "CONFIRMED")
    /\ UNCHANGED <<object, link, scan, purge, shown>>

\* An invalid one is deleted, then rejected whatever its row says by now.
DeleteInvalid(r) ==
    /\ request[r].step = "READ" /\ request[r].content \notin Valid
    /\ Removes(request[r].of)
    /\ request' = Steps(request, r, "INVALID")
    /\ UNCHANGED <<doc, link, scan, purge, shown>>

RejectInvalid(r) ==
    LET d == request[r].of IN
    /\ request[r].step = "INVALID"
    /\ IF doc[d].status = "DELETED" THEN UNCHANGED doc ELSE SetStatus(d, "REJECTED")
    /\ request' = Stops(request, r)
    /\ UNCHANGED <<object, link, scan, purge, shown>>

RequestLost(r) ==
    /\ request[r] # Idle
    /\ request' = Stops(request, r)
    /\ UNCHANGED <<doc, object, link, scan, purge, shown>>

-----------------------------------------------------------------------------
(* scanPending. *)

ChooseToScan(s, d) ==
    /\ scan[s] = Idle /\ doc[d].status = "PENDING_SCAN"
    /\ scan' = Takes(scan, s, "CHOSEN", d, None)
    /\ UNCHANGED <<doc, object, link, request, purge, shown>>

\* Mutant: the file that was scanned need not be the one that was confirmed.
MutantTrusted(d) == object[d] = "clean"

\* What a scan passes: the confirmed file, without malware.
Trusted(d) == object[d] = doc[d].sha /\ object[d] = "clean"

ReadAndScan(s) ==
    LET d == scan[s].of IN
    /\ scan[s].step = "CHOSEN" /\ object[d] # None
    /\ scan' = Steps(scan, s, IF Trusted(d) THEN "PASSED" ELSE "FAILED")
    /\ doc' = IF object[d] = doc[d].sha /\ object[d] = "clean"
              THEN [doc EXCEPT ![d].found = TRUE] ELSE doc
    /\ UNCHANGED <<object, link, request, purge, shown>>

MarkClean(s) ==
    LET d == scan[s].of IN
    /\ scan[s].step = "PASSED"
    /\ IF doc[d].status = "PENDING_SCAN" THEN SetStatus(d, "CLEAN") ELSE UNCHANGED doc
    /\ scan' = Stops(scan, s)
    /\ UNCHANGED <<object, link, request, purge, shown>>

\* rejectMalware: the object goes first, the row whatever it says by now.
DeleteInfected(s) ==
    /\ scan[s].step = "FAILED"
    /\ Removes(scan[s].of)
    /\ scan' = Steps(scan, s, "REMOVED")
    /\ UNCHANGED <<doc, link, request, purge, shown>>

RejectMalware(s) ==
    /\ scan[s].step = "REMOVED" /\ doc[scan[s].of].status # "DELETED"
    /\ SetStatus(scan[s].of, "REJECTED")
    /\ scan' = Stops(scan, s)
    /\ UNCHANGED <<object, link, request, purge, shown>>

\* The scanner is down, the object is gone, the row is deleted, the process dies.
ScanEnds(s) ==
    /\ scan[s] # Idle
    /\ scan' = Stops(scan, s)
    /\ UNCHANGED <<doc, object, link, request, purge, shown>>

-----------------------------------------------------------------------------
(* Retention and purging. *)

UploadGrowsOld(d) ==
    /\ doc[d].status = "AWAITING_UPLOAD" /\ ~doc[d].old
    /\ doc' = [doc EXCEPT ![d].old = TRUE]
    /\ UNCHANGED <<object, link, request, scan, purge, shown>>

RetentionEnds(d) ==
    /\ doc[d].retain = "AHEAD"
    /\ doc' = [doc EXCEPT ![d].retain = "PASSED"]
    /\ UNCHANGED <<object, link, request, scan, purge, shown>>

\* scheduleRetention, when a period is configured, and cancelRetention.
RetentionScheduled ==
    [d \in Docs |-> IF Stored(d) /\ doc[d].retain = "NO"
                    THEN [doc[d] EXCEPT !.retain = "AHEAD"] ELSE doc[d]]
RetentionCancelled ==
    [d \in Docs |-> IF Stored(d) THEN [doc[d] EXCEPT !.retain = "NO"] ELSE doc[d]]

Abandoned(d) == doc[d].status = "AWAITING_UPLOAD" /\ doc[d].old
Due(d) == Stored(d) /\ (doc[d].retain = "PASSED" \/ Abandoned(d))

ChooseToPurge(p, d) ==
    /\ purge[p] = Idle /\ Due(d)
    /\ purge' = Takes(purge, p, "CHOSEN", d, None)
    /\ UNCHANGED <<doc, object, link, request, scan, shown>>

PurgeObject(p) ==
    /\ purge[p].step = "CHOSEN"
    /\ Removes(purge[p].of)
    /\ purge' = Steps(purge, p, "REMOVED")
    /\ UNCHANGED <<doc, link, request, scan, shown>>

PurgeRow(p) ==
    /\ purge[p].step = "REMOVED" /\ doc[purge[p].of].status # "DELETED"
    /\ SetStatus(purge[p].of, "DELETED")
    /\ purge' = Stops(purge, p)
    /\ UNCHANGED <<object, link, request, scan, shown>>

PurgeEnds(p) ==
    /\ purge[p] # Idle
    /\ purge' = Stops(purge, p)
    /\ UNCHANGED <<doc, object, link, request, scan, shown>>

-----------------------------------------------------------------------------
\* openClean.
Opens(d) == doc[d].status = "CLEAN" /\ object[d] = doc[d].sha

Show(d) ==
    /\ Opens(d)
    /\ shown' = [shown EXCEPT ![d] = @ \cup {object[d]}]
    /\ UNCHANGED <<doc, object, link, request, scan, purge>>

-----------------------------------------------------------------------------
DocumentsInit ==
    /\ doc = [d \in Docs |-> NoRow]
    /\ object = [d \in Docs |-> None]
    /\ link = {}
    /\ request = [r \in Requests |-> Idle]
    /\ scan = [s \in Scans |-> Idle]
    /\ purge = [p \in Purges |-> Idle]
    /\ shown = [d \in Docs |-> {}]

\* All but what changes worker_verification or comes from a change of status.
DocumentsNext ==
    \/ \E d \in Docs : \/ CreateUpload(d) \/ LinkExpires(d) \/ UploadGrowsOld(d)
                       \/ RetentionEnds(d) \/ Show(d)
                       \/ \E content \in Contents : Upload(d, content)
                       \/ \E r \in Requests : ReadUpload(r, d)
                       \/ \E s \in Scans : ChooseToScan(s, d)
                       \/ \E p \in Purges : ChooseToPurge(p, d)
    \/ \E r \in Requests : Confirm(r) \/ DeleteInvalid(r) \/ RejectInvalid(r) \/ RequestLost(r)
    \/ \E s \in Scans : ReadAndScan(s) \/ MarkClean(s) \/ DeleteInfected(s) \/ ScanEnds(s)
    \/ \E p \in Purges : PurgeObject(p) \/ PurgeRow(p) \/ PurgeEnds(p)

-----------------------------------------------------------------------------
\* What staff see is the very file a scan passed, although its link lets the
\* object be replaced before, between and after the confirmation and the scan
\* (docs/06-security-review.md: "its scan is clean; its hash still matches").
OnlyScannedIsShown ==
    \A d \in Docs : shown[d] \subseteq {c \in Contents : doc[d].found /\ c = doc[d].sha}
=============================================================================
