---------------------------- MODULE PeopleProofs ----------------------------
(***************************************************************************)
(* Proofs about Documents and Onboarding: for any files of a worker, any   *)
(* requests, scans and purges that work on them side by side, and any      *)
(* transactions of staff.                                                  *)
(***************************************************************************)
EXTENDS Onboarding, TLAPS

-----------------------------------------------------------------------------
(* Documents.  The hash of a file is written when its upload is confirmed   *)
(* and never again, and a scan passes only the file with that hash: so what *)
(* a row says of its file stays true however the object is replaced.        *)

DocStatuses ==
    {"NONE", "AWAITING_UPLOAD", "PENDING_SCAN", "CLEAN", "REJECTED", "DELETED"}

DocRows == [status : DocStatuses, sha : Contents \cup {None}, old : BOOLEAN,
            retain : {"NO", "AHEAD", "PASSED"}, found : BOOLEAN]

ScanRows == [step : {"NONE", "CHOSEN", "PASSED", "FAILED", "REMOVED"}, of : Docs \cup {None},
             content : {None}]

DocumentsTypeOK ==
    /\ doc \in [Docs -> DocRows]
    /\ shown \in [Docs -> SUBSET Contents]
    /\ scan \in [Scans -> ScanRows]

\* A row before the confirmation has no hash; what was found was found of the
\* file with the hash; only what was found is CLEAN.
RowOK(d) ==
    /\ doc[d].status \in {"NONE", "AWAITING_UPLOAD"} => doc[d].sha = None
    /\ doc[d].found => doc[d].sha = "clean"
    /\ doc[d].status = "CLEAN" => doc[d].found
    /\ shown[d] \subseteq {c \in Contents : doc[d].found /\ c = doc[d].sha}

\* A scan that has passed a file has noted so.
ScanOK(s) ==
    /\ scan[s].step # "NONE" => scan[s].of \in Docs
    /\ scan[s].step = "PASSED" => doc[scan[s].of].found

DocumentsInv ==
    /\ DocumentsTypeOK
    /\ \A d \in Docs : RowOK(d)
    /\ \A s \in Scans : ScanOK(s)

LEMMA DocumentsInitHolds == PeopleInit => DocumentsInv
<1> SUFFICES ASSUME PeopleInit PROVE DocumentsInv
  OBVIOUS
<1>1. NoRow \in DocRows /\ NoRow.status = "NONE" /\ NoRow.sha = None /\ ~NoRow.found
  BY DEF NoRow, DocRows, DocStatuses
<1>2. scan \in [Scans -> ScanRows] /\ \A s \in Scans : scan[s].step = "NONE"
  BY DEF PeopleInit, DocumentsInit, Idle, ScanRows
<1>3. doc = [d \in Docs |-> NoRow] /\ shown = [d \in Docs |-> {}]
  BY DEF PeopleInit, DocumentsInit
<1> QED
  BY <1>1, <1>2, <1>3 DEF DocumentsInv, DocumentsTypeOK, RowOK, ScanOK

\* Rows keep what was found, and their hash once it is there.
LEMMA RowsGoOn ==
  ASSUME DocumentsInv, doc' \in [Docs -> DocRows], UNCHANGED shown,
         \A d \in Docs :
            /\ doc[d].found => doc'[d].found
            /\ doc'[d].sha = doc[d].sha
            /\ doc'[d].found => doc[d].found \/ doc[d].sha = "clean"
            /\ \/ doc'[d].status = doc[d].status
               \/ doc[d].status = "NONE" /\ doc'[d].status = "AWAITING_UPLOAD"
               \/ doc'[d].status \in {"PENDING_SCAN", "REJECTED", "DELETED"}
               \/ doc'[d].status = "CLEAN" /\ doc[d].found,
         scan' \in [Scans -> ScanRows],
         \A s \in Scans :
            \/ scan'[s] = scan[s] \/ scan'[s].step = "NONE"
            \/ /\ scan'[s].of \in Docs
               /\ scan'[s].step = "PASSED" => doc'[scan'[s].of].found
  PROVE  DocumentsInv'
<1>1. DocumentsTypeOK'
  BY DEF DocumentsInv, DocumentsTypeOK
<1>2. ASSUME NEW d \in Docs PROVE RowOK(d)'
  BY DEF DocumentsInv, RowOK, None
<1>3. ASSUME NEW s \in Scans PROVE ScanOK(s)'
  BY DEF DocumentsInv, DocumentsTypeOK, ScanOK
<1> QED
  BY <1>1, <1>2, <1>3 DEF DocumentsInv

\* Nothing but the status of one row.
LEMMA StatusOnly ==
  ASSUME DocumentsTypeOK, NEW d, NEW s \in DocStatuses, SetStatus(d, s)
  PROVE  /\ doc' \in [Docs -> DocRows]
         /\ \A e \in Docs : /\ doc'[e].sha = doc[e].sha /\ doc'[e].found = doc[e].found
                            /\ doc'[e].status = doc[e].status \/ (e = d /\ doc'[e].status = s)
<1>1. ASSUME NEW e \in Docs
      PROVE  /\ doc'[e] \in DocRows
             /\ doc'[e].sha = doc[e].sha /\ doc'[e].found = doc[e].found
             /\ doc'[e].status = doc[e].status \/ (e = d /\ doc'[e].status = s)
  <2>1. doc[e] \in DocRows
    BY DEF DocumentsTypeOK
  <2>2. CASE e # d
    BY <2>1, <2>2 DEF SetStatus, DocumentsTypeOK
  <2>3. CASE e = d
    <3>1. doc'[e] = [doc[e] EXCEPT !.status = s]
      BY <2>3 DEF SetStatus, DocumentsTypeOK
    <3> QED
      BY <2>1, <2>3, <3>1 DEF DocRows
  <2> QED
    BY <2>2, <2>3
<1>2. doc' = [e \in Docs |-> doc'[e]]
  BY DEF SetStatus, DocumentsTypeOK
<1> QED
  BY <1>1, <1>2

\* A scan at another step, or one that has stopped.
LEMMA ScanMoves ==
  ASSUME DocumentsTypeOK, NEW s \in Scans, NEW step \in {"CHOSEN", "PASSED", "FAILED", "REMOVED"},
         Steps(scan, s, step) = scan'
  PROVE  /\ scan' \in [Scans -> ScanRows]
         /\ scan'[s].step = step /\ scan'[s].of = scan[s].of
         /\ \A r \in Scans \ {s} : scan'[r] = scan[r]
<1>1. scan[s] \in ScanRows
  BY DEF DocumentsTypeOK
<1>2. scan'[s] = [scan[s] EXCEPT !.step = step]
  BY DEF Steps, DocumentsTypeOK
<1>3. scan'[s] \in ScanRows /\ scan'[s].step = step /\ scan'[s].of = scan[s].of
  BY <1>1, <1>2 DEF ScanRows
<1> QED
  BY <1>3 DEF Steps, DocumentsTypeOK

LEMMA ScanStops ==
  ASSUME DocumentsTypeOK, NEW s \in Scans, Stops(scan, s) = scan'
  PROVE  /\ scan' \in [Scans -> ScanRows]
         /\ \A r \in Scans : scan'[r] = scan[r] \/ scan'[r].step = "NONE"
<1>1. Idle \in ScanRows /\ Idle.step = "NONE"
  BY DEF Idle, ScanRows
<1> QED
  BY <1>1 DEF Stops, DocumentsTypeOK

\* Steps that leave rows, scans and what was shown alone.
LEMMA DocumentsStay ==
  ASSUME DocumentsInv, UNCHANGED <<doc, scan, shown>>
  PROVE  DocumentsInv'
BY DEF DocumentsInv, DocumentsTypeOK, RowOK, ScanOK

\* Steps that change the status of one row, by a scan that goes on or ends.
LEMMA StatusHolds ==
  ASSUME DocumentsInv, NEW d, NEW s \in DocStatuses, SetStatus(d, s), UNCHANGED shown,
         \/ d \in Docs => doc[d].status = "NONE" /\ s = "AWAITING_UPLOAD"
         \/ s \in {"PENDING_SCAN", "REJECTED", "DELETED"}
         \/ d \in Docs => s = "CLEAN" /\ doc[d].found,
         scan' \in [Scans -> ScanRows],
         \A r \in Scans : scan'[r] = scan[r] \/ scan'[r].step = "NONE"
  PROVE  DocumentsInv'
<1>1. DocumentsTypeOK
  BY DEF DocumentsInv
<1>2. /\ doc' \in [Docs -> DocRows]
      /\ \A e \in Docs : /\ doc'[e].sha = doc[e].sha /\ doc'[e].found = doc[e].found
                         /\ doc'[e].status = doc[e].status \/ (e = d /\ doc'[e].status = s)
  BY <1>1, StatusOnly
<1> QED
  BY <1>1, <1>2, RowsGoOn DEF DocumentsTypeOK

\* Steps of the other columns of rows, old and retain.
LEMMA ColumnsHold ==
  ASSUME DocumentsInv, doc' = [d \in Docs |-> doc'[d]], UNCHANGED <<scan, shown>>,
         \A d \in Docs : \/ doc'[d] = doc[d]
                         \/ doc'[d] = [doc[d] EXCEPT !.old = TRUE]
                         \/ \E r \in {"NO", "AHEAD", "PASSED"} : doc'[d] = [doc[d] EXCEPT !.retain = r]
  PROVE  DocumentsInv'
<1>1. DocumentsTypeOK
  BY DEF DocumentsInv
<1>2. ASSUME NEW d \in Docs
      PROVE  /\ doc'[d] \in DocRows /\ doc'[d].sha = doc[d].sha
             /\ doc'[d].found = doc[d].found /\ doc'[d].status = doc[d].status
  <2>1. doc[d] \in DocRows
    BY <1>1 DEF DocumentsTypeOK
  <2>2. CASE doc'[d] = doc[d]
    BY <2>1, <2>2
  <2>3. CASE doc'[d] = [doc[d] EXCEPT !.old = TRUE]
    BY <2>1, <2>3 DEF DocRows
  <2>4. ASSUME NEW r \in {"NO", "AHEAD", "PASSED"}, doc'[d] = [doc[d] EXCEPT !.retain = r]
        PROVE  /\ doc'[d] \in DocRows /\ doc'[d].sha = doc[d].sha
               /\ doc'[d].found = doc[d].found /\ doc'[d].status = doc[d].status
    BY <2>1, <2>4 DEF DocRows
  <2> QED
    BY <2>2, <2>3, <2>4
<1>3. doc' \in [Docs -> DocRows]
  BY <1>2
<1> QED
  BY <1>1, <1>2, <1>3, RowsGoOn DEF DocumentsTypeOK

LEMMA RetentionHolds ==
  ASSUME DocumentsInv, UNCHANGED <<scan, shown>>,
         doc' \in {doc, RetentionCancelled, RetentionScheduled}
  PROVE  DocumentsInv'
<1>1. doc' = [d \in Docs |-> doc'[d]]
  BY DEF DocumentsInv, DocumentsTypeOK, RetentionCancelled, RetentionScheduled
<1>2. \A d \in Docs : \/ doc'[d] = doc[d]
                      \/ \E r \in {"NO", "AHEAD", "PASSED"} : doc'[d] = [doc[d] EXCEPT !.retain = r]
  BY DEF RetentionCancelled, RetentionScheduled
<1> QED
  BY <1>1, <1>2, ColumnsHold

\* Confirmation writes the hash of a file that no scan has looked at.
LEMMA ConfirmHolds ==
  ASSUME DocumentsInv, NEW r \in Requests, Confirm(r)
  PROVE  DocumentsInv'
<1> DEFINE d == request[r].of
           sha == request[r].content
<1>1. sha \in Valid /\ UNCHANGED <<scan, shown>> /\ DocumentsTypeOK
  BY DEF Confirm, DocumentsInv
<1>2. CASE UNCHANGED doc
  BY <1>1, <1>2, DocumentsStay
<1>3. CASE /\ doc[d].status = "AWAITING_UPLOAD" /\ d \in Docs
           /\ doc' = [doc EXCEPT ![d].status = "PENDING_SCAN", ![d].sha = sha]
  <2>1. doc[d] \in DocRows /\ doc[d].sha = None
    BY <1>1, <1>3 DEF DocumentsTypeOK, DocumentsInv, RowOK
  <2>2. ~doc[d].found
    BY <1>3, <2>1 DEF DocumentsInv, RowOK, None
  <2> HIDE DEF d, sha
  <2>3. doc'[d] = [doc[d] EXCEPT !.status = "PENDING_SCAN", !.sha = sha]
    BY <1>1, <1>3 DEF DocumentsTypeOK
  <2>4. doc[d] = [status |-> doc[d].status, sha |-> doc[d].sha, old |-> doc[d].old,
                  retain |-> doc[d].retain, found |-> doc[d].found]
    BY <2>1 DEF DocRows
  <2>5. doc'[d] = [status |-> "PENDING_SCAN", sha |-> sha, old |-> doc[d].old,
                   retain |-> doc[d].retain, found |-> doc[d].found]
    BY <2>3, <2>4
  <2>6. doc'[d] \in DocRows /\ doc'[d].status = "PENDING_SCAN" /\ ~doc'[d].found
    BY <1>1, <2>1, <2>2, <2>5 DEF DocRows, DocStatuses, Contents
  <2>7. \A e \in Docs \ {d} : doc'[e] = doc[e]
    BY <1>1, <1>3 DEF DocumentsTypeOK
  <2>8. DocumentsTypeOK'
    BY <1>1, <1>3, <2>6, <2>7 DEF DocumentsTypeOK
  <2>9. \A e \in Docs : RowOK(e)'
    BY <1>1, <2>2, <2>6, <2>7 DEF DocumentsInv, RowOK
  <2>10. \A s \in Scans : ScanOK(s)'
    BY <1>1, <2>2, <2>7 DEF DocumentsInv, ScanOK
  <2> QED
    BY <2>8, <2>9, <2>10 DEF DocumentsInv
<1> QED
  BY <1>1, <1>2, <1>3 DEF Confirm, DocumentsTypeOK

\* A scan passes the file with the hash, and notes that it did.
LEMMA ReadAndScanHolds ==
  ASSUME DocumentsInv, NEW s \in Scans, ReadAndScan(s)
  PROVE  DocumentsInv'
<1> DEFINE d == scan[s].of
           passes == object[d] = doc[d].sha /\ object[d] = "clean"
<1>1. /\ DocumentsTypeOK /\ UNCHANGED shown
      /\ scan' = Steps(scan, s, IF passes THEN "PASSED" ELSE "FAILED")
      /\ doc' = IF passes THEN [doc EXCEPT ![d].found = TRUE] ELSE doc
  BY DEF ReadAndScan, Trusted, DocumentsInv
<1>4. d \in Docs
  BY DEF ReadAndScan, DocumentsInv, ScanOK
<1>2. CASE ~passes
  <2>1. doc' = doc /\ scan' = Steps(scan, s, "FAILED")
    BY <1>1, <1>2
  <2> QED
    BY <1>1, <1>4, <2>1, ScanMoves, RowsGoOn DEF DocumentsTypeOK
<1>3. CASE passes /\ d \in Docs
  <2>1. doc' = [doc EXCEPT ![d].found = TRUE] /\ scan' = Steps(scan, s, "PASSED")
    BY <1>1, <1>3
  <2>2. doc[d] \in DocRows /\ doc[d].sha = "clean"
    BY <1>1, <1>3 DEF DocumentsTypeOK
  <2>3. /\ scan' \in [Scans -> ScanRows] /\ scan'[s].of = d
        /\ \A r \in Scans \ {s} : scan'[r] = scan[r]
    BY <1>1, <2>1, ScanMoves
  <2> HIDE DEF d, passes
  <2>4. doc'[d] = [doc[d] EXCEPT !.found = TRUE] /\ \A e \in Docs \ {d} : doc'[e] = doc[e]
    BY <1>1, <1>3, <2>1 DEF DocumentsTypeOK
  <2>5. /\ doc'[d] \in DocRows /\ doc'[d].found /\ doc'[d].sha = doc[d].sha
        /\ doc'[d].status = doc[d].status
    BY <2>2, <2>4 DEF DocRows
  <2>6. doc' \in [Docs -> DocRows]
    BY <1>1, <2>1, <2>4, <2>5 DEF DocumentsTypeOK
  <2>7. \A r \in Scans : \/ scan'[r] = scan[r] \/ scan'[r].step = "NONE"
                         \/ scan'[r].of \in Docs /\ doc'[scan'[r].of].found
    BY <1>3, <2>3, <2>5
  <2> QED
    BY <1>1, <2>2, <2>3, <2>4, <2>5, <2>6, <2>7, RowsGoOn
<1> QED
  BY <1>2, <1>3, <1>4

LEMMA ShowHolds ==
  ASSUME DocumentsInv, NEW d \in Docs, Show(d)
  PROVE  DocumentsInv'
<1>1. /\ DocumentsTypeOK /\ UNCHANGED <<doc, scan>>
      /\ shown' = [shown EXCEPT ![d] = @ \cup {object[d]}]
      /\ doc[d].status = "CLEAN" /\ object[d] = doc[d].sha
  BY DEF Show, Opens, DocumentsInv
<1>2. doc[d].found /\ object[d] = "clean"
  BY <1>1 DEF DocumentsInv, RowOK
<1>3. /\ shown'[d] = shown[d] \cup {object[d]} /\ object[d] \in Contents
      /\ \A e \in Docs \ {d} : shown'[e] = shown[e]
  BY <1>1, <1>2 DEF DocumentsTypeOK, Contents, Valid
<1>4. DocumentsTypeOK'
  BY <1>1, <1>3 DEF DocumentsTypeOK
<1>5. ASSUME NEW e \in Docs PROVE RowOK(e)'
  BY <1>1, <1>2, <1>3 DEF DocumentsInv, RowOK
<1>6. \A s \in Scans : ScanOK(s)'
  BY <1>1 DEF DocumentsInv, ScanOK
<1> QED
  BY <1>4, <1>5, <1>6 DEF DocumentsInv

LEMMA ChooseHolds ==
  ASSUME DocumentsInv, NEW s \in Scans, NEW d \in Docs, ChooseToScan(s, d)
  PROVE  DocumentsInv'
<1>1. /\ DocumentsTypeOK /\ UNCHANGED <<doc, shown>>
      /\ scan' = [scan EXCEPT ![s] = [step |-> "CHOSEN", of |-> d, content |-> None]]
  BY DEF ChooseToScan, Takes, DocumentsInv
<1>2. scan'[s] = [step |-> "CHOSEN", of |-> d, content |-> None]
  BY <1>1 DEF DocumentsTypeOK
<1>3. scan' \in [Scans -> ScanRows]
  BY <1>1 DEF DocumentsTypeOK, ScanRows
<1>4. \A r \in Scans \ {s} : scan'[r] = scan[r]
  BY <1>1 DEF DocumentsTypeOK
<1>5. \A r \in Scans : \/ scan'[r] = scan[r] \/ scan'[r].step = "NONE"
                       \/ scan'[r].of \in Docs /\ scan'[r].step # "PASSED"
  BY <1>2, <1>4
<1> QED
  BY <1>1, <1>3, <1>5, RowsGoOn DEF DocumentsTypeOK

LEMMA MarkCleanHolds ==
  ASSUME DocumentsInv, NEW s \in Scans, MarkClean(s)
  PROVE  DocumentsInv'
<1>1. /\ DocumentsTypeOK /\ UNCHANGED shown /\ Stops(scan, s) = scan'
      /\ UNCHANGED doc \/ SetStatus(scan[s].of, "CLEAN")
      /\ scan[s].step = "PASSED"
  BY DEF MarkClean, DocumentsInv
<1>2. doc[scan[s].of].found
  BY <1>1 DEF DocumentsInv, ScanOK
<1>3. /\ scan' \in [Scans -> ScanRows]
      /\ \A r \in Scans : scan'[r] = scan[r] \/ scan'[r].step = "NONE"
  BY <1>1, ScanStops
<1>4. CASE UNCHANGED doc
  BY <1>1, <1>3, <1>4, RowsGoOn DEF DocumentsTypeOK
<1>5. CASE SetStatus(scan[s].of, "CLEAN")
  BY <1>1, <1>2, <1>3, <1>5, StatusHolds DEF DocStatuses
<1> QED
  BY <1>1, <1>4, <1>5

\* The file that failed a scan is gone before its row is rejected.
LEMMA ScanGoesOnHolds ==
  ASSUME DocumentsInv, NEW s \in Scans, DeleteInfected(s) \/ ScanEnds(s) \/ RejectMalware(s)
  PROVE  DocumentsInv'
<1>1. DocumentsTypeOK /\ UNCHANGED shown
  BY DEF DeleteInfected, ScanEnds, RejectMalware, DocumentsInv
<1>2. CASE DeleteInfected(s)
  <2>1. UNCHANGED doc /\ scan' = Steps(scan, s, "REMOVED") /\ scan[s].of \in Docs
    BY <1>2 DEF DeleteInfected, DocumentsInv, ScanOK
  <2> QED
    BY <1>1, <2>1, ScanMoves, RowsGoOn DEF DocumentsTypeOK
<1>3. CASE ScanEnds(s)
  <2>1. UNCHANGED doc /\ Stops(scan, s) = scan'
    BY <1>3 DEF ScanEnds
  <2>2. /\ scan' \in [Scans -> ScanRows]
        /\ \A r \in Scans : scan'[r] = scan[r] \/ scan'[r].step = "NONE"
    BY <1>1, <2>1, ScanStops
  <2> QED
    BY <1>1, <2>1, <2>2, RowsGoOn DEF DocumentsTypeOK
<1>4. CASE RejectMalware(s)
  <2>1. SetStatus(scan[s].of, "REJECTED") /\ Stops(scan, s) = scan'
    BY <1>4 DEF RejectMalware
  <2>2. /\ scan' \in [Scans -> ScanRows]
        /\ \A r \in Scans : scan'[r] = scan[r] \/ scan'[r].step = "NONE"
    BY <1>1, <2>1, ScanStops
  <2> QED
    BY <1>1, <2>1, <2>2, StatusHolds DEF DocStatuses
<1> QED
  BY <1>2, <1>3, <1>4

LEMMA OneStatusHolds ==
  ASSUME DocumentsInv, NEW d, NEW s \in {"REJECTED", "DELETED"},
         SetStatus(d, s) \/ UNCHANGED doc, UNCHANGED <<scan, shown>>
  PROVE  DocumentsInv'
BY StatusHolds, DocumentsStay DEF DocStatuses, DocumentsInv, DocumentsTypeOK

\* Steps that change one document, a request or a purge.
LEMMA DocumentsNextHolds ==
  ASSUME DocumentsInv, DocumentsNext
  PROVE  DocumentsInv'
<1>1. ASSUME NEW d \in Docs, CreateUpload(d) PROVE DocumentsInv'
  <2>1. /\ doc[d].status = "NONE" /\ SetStatus(d, "AWAITING_UPLOAD") /\ UNCHANGED <<scan, shown>>
        /\ scan \in [Scans -> ScanRows]
    BY <1>1 DEF CreateUpload, DocumentsInv, DocumentsTypeOK
  <2> QED
    BY <2>1, StatusHolds DEF DocStatuses
<1>2. ASSUME NEW d \in Docs, UploadGrowsOld(d) PROVE DocumentsInv'
  <2>1. /\ doc' = [doc EXCEPT ![d].old = TRUE] /\ UNCHANGED <<scan, shown>>
        /\ doc \in [Docs -> DocRows]
    BY <1>2 DEF UploadGrowsOld, DocumentsInv, DocumentsTypeOK
  <2>2. /\ doc' = [e \in Docs |-> doc'[e]]
        /\ \A e \in Docs : doc'[e] = doc[e] \/ doc'[e] = [doc[e] EXCEPT !.old = TRUE]
    BY <2>1
  <2> QED
    BY <2>1, <2>2, ColumnsHold
<1>3. ASSUME NEW d \in Docs, RetentionEnds(d) PROVE DocumentsInv'
  <2>1. /\ doc' = [doc EXCEPT ![d].retain = "PASSED"] /\ UNCHANGED <<scan, shown>>
        /\ doc \in [Docs -> DocRows]
    BY <1>3 DEF RetentionEnds, DocumentsInv, DocumentsTypeOK
  <2>2. /\ doc' = [e \in Docs |-> doc'[e]]
        /\ \A e \in Docs : \/ doc'[e] = doc[e]
                           \/ \E r \in {"NO", "AHEAD", "PASSED"} : doc'[e] = [doc[e] EXCEPT !.retain = r]
    BY <2>1
  <2> QED
    BY <2>1, <2>2, ColumnsHold
<1>4. ASSUME NEW r \in Requests, RejectInvalid(r) PROVE DocumentsInv'
  BY <1>4, OneStatusHolds DEF RejectInvalid
<1>5. ASSUME NEW p \in Purges, PurgeRow(p) PROVE DocumentsInv'
  BY <1>5, OneStatusHolds DEF PurgeRow
<1>6. ASSUME NEW d \in Docs, LinkExpires(d) \/ \E content \in Contents : Upload(d, content)
      PROVE  DocumentsInv'
  BY <1>6, DocumentsStay DEF LinkExpires, Upload
<1>7. ASSUME NEW r \in Requests, DeleteInvalid(r) \/ RequestLost(r) \/ \E d \in Docs : ReadUpload(r, d)
      PROVE  DocumentsInv'
  BY <1>7, DocumentsStay DEF DeleteInvalid, RequestLost, ReadUpload
<1>8. ASSUME NEW p \in Purges, PurgeObject(p) \/ PurgeEnds(p) \/ \E d \in Docs : ChooseToPurge(p, d)
      PROVE  DocumentsInv'
  BY <1>8, DocumentsStay DEF PurgeObject, PurgeEnds, ChooseToPurge
<1>9. ASSUME NEW s \in Scans,
             \/ ReadAndScan(s) \/ MarkClean(s) \/ DeleteInfected(s) \/ ScanEnds(s)
             \/ \E d \in Docs : ChooseToScan(s, d)
      PROVE  DocumentsInv'
  BY <1>9, ReadAndScanHolds, MarkCleanHolds, ScanGoesOnHolds, ChooseHolds
<1> QED
  BY <1>1, <1>2, <1>3, <1>4, <1>5, <1>6, <1>7, <1>8, <1>9, ConfirmHolds, ShowHolds
     DEF DocumentsNext

LEMMA DocumentsStep == DocumentsInv /\ [PeopleNext]_<<people, documents>> => DocumentsInv'
<1> SUFFICES ASSUME DocumentsInv, [PeopleNext]_<<people, documents>> PROVE DocumentsInv'
  OBVIOUS
<1>1. CASE UNCHANGED documents
  BY <1>1, DocumentsStay DEF documents
<1>2. ASSUME NEW t \in Transactions, NEW r \in Requests, Submit(t, r) PROVE DocumentsInv'
  BY <1>2, DocumentsStay DEF Submit
<1>3. ASSUME NEW t \in Transactions, Commit(t) PROVE DocumentsInv'
  BY <1>3, RetentionHolds DEF Commit
<1>4. ASSUME NEW to \in Decisions, NEW keeps \in BOOLEAN, ChangeStatus(to, keeps) PROVE DocumentsInv'
  BY <1>4, RetentionHolds DEF ChangeStatus
<1>5. ASSUME NEW s \in Scans, WithdrawMalware(s) PROVE DocumentsInv'
  BY <1>5, ScanGoesOnHolds DEF WithdrawMalware
<1>6. CASE DocumentsNext
  BY <1>6, DocumentsNextHolds
<1>7. ASSUME NEW t \in Transactions,
             \/ \E verdict \in Verdicts : \/ \E type \in Required : Record(t, type, verdict)
                                          \/ \E k \in DOMAIN checks : Decide(t, k, verdict)
             \/ \E result \in {"PASSED", "FAILED"} : RecordTraining(t, result)
             \/ Approve(t) \/ GoOnline(t) \/ Undo(t)
      PROVE  UNCHANGED documents
  BY <1>7 DEF Record, Decide, RecordTraining, Approve, GoOnline, Undo
<1>8. ASSUME \/ \E complete \in BOOLEAN : UpdateProfile(complete) \/ RestrictWorker(complete)
             \/ \E k \in DOMAIN checks : CheckLapses(k)
             \/ GoOffline \/ GrantServicePermission
      PROVE  UNCHANGED documents
  BY <1>8 DEF UpdateProfile, RestrictWorker, CheckLapses, GoOffline, GrantServicePermission
<1> QED
  BY <1>1, <1>2, <1>3, <1>4, <1>5, <1>6, <1>7, <1>8 DEF PeopleNext

LEMMA DocumentsInvariant == PeopleSpec => []DocumentsInv
BY DocumentsInitHolds, DocumentsStep, PTL DEF PeopleSpec

\* What staff are shown is the file a scan passed, for any number of uploads
\* whose links let the objects be replaced at any moment.
THEOREM OnlyScannedFilesAreShown == PeopleSpec => []OnlyScannedIsShown
<1>1. DocumentsInv => OnlyScannedIsShown
  BY DEF DocumentsInv, RowOK, OnlyScannedIsShown
<1> QED
  BY DocumentsInvariant, <1>1, PTL

-----------------------------------------------------------------------------
(* Requests that confirm an upload name one that there is. *)

RequestRows == [step : {"NONE", "READ", "CONFIRMED", "INVALID"}, of : Docs \cup {None},
                content : Contents \cup {None}]

RequestsInv ==
    /\ object \in [Docs -> Contents \cup {None}]
    /\ request \in [Requests -> RequestRows]
    /\ \A r \in Requests : request[r].step # "NONE" => request[r].of \in Docs

LEMMA RequestsInitHolds == PeopleInit => RequestsInv
<1>1. Idle \in RequestRows /\ Idle.step = "NONE"
  BY DEF Idle, RequestRows
<1> QED
  BY <1>1 DEF PeopleInit, DocumentsInit, RequestsInv

LEMMA RequestTakes ==
  ASSUME RequestsInv, NEW r \in Requests, NEW d \in Docs, NEW step \in {"READ", "CONFIRMED"},
         NEW content \in Contents \cup {None}, request' = Takes(request, r, step, d, content),
         UNCHANGED object
  PROVE  RequestsInv'
<1> DEFINE row == [step |-> step, of |-> d, content |-> content]
<1>1. row \in RequestRows /\ row.of = d
  BY DEF RequestRows
<1>2. request' = [request EXCEPT ![r] = row]
  BY DEF Takes
<1> HIDE DEF row
<1> QED
  BY <1>1, <1>2 DEF RequestsInv

LEMMA RequestMoves ==
  ASSUME RequestsInv, NEW r \in Requests, request[r].step # "NONE",
         NEW step \in {"CONFIRMED", "INVALID"},
         request' = Steps(request, r, step), object' \in [Docs -> Contents \cup {None}]
  PROVE  RequestsInv'
<1>1. request[r] \in RequestRows /\ request[r].of \in Docs
  BY DEF RequestsInv
<1>2. request'[r] = [request[r] EXCEPT !.step = step]
  BY DEF Steps, RequestsInv
<1>3. request'[r] \in RequestRows /\ request'[r].of \in Docs
  BY <1>1, <1>2 DEF RequestRows
<1> QED
  BY <1>3 DEF Steps, RequestsInv

LEMMA RequestStops ==
  ASSUME RequestsInv, NEW r \in Requests, UNCHANGED request \/ request' = Stops(request, r),
         UNCHANGED object
  PROVE  RequestsInv'
<1>1. Idle \in RequestRows /\ Idle.step = "NONE"
  BY DEF Idle, RequestRows
<1> QED
  BY <1>1 DEF Stops, RequestsInv

LEMMA RequestsStay ==
  ASSUME RequestsInv, UNCHANGED request,
         \/ UNCHANGED object
         \/ \E d : Removes(d)
         \/ \E d \in Docs, content \in Contents : object' = [object EXCEPT ![d] = content]
  PROVE  RequestsInv'
BY DEF RequestsInv, Removes

LEMMA RequestsStep == RequestsInv /\ [PeopleNext]_<<people, documents>> => RequestsInv'
<1> SUFFICES ASSUME RequestsInv, [PeopleNext]_<<people, documents>> PROVE RequestsInv'
  OBVIOUS
<1>1. CASE UNCHANGED <<object, request>>
  BY <1>1, RequestsStay
<1>2. ASSUME NEW r \in Requests, NEW d \in Docs, ReadUpload(r, d) PROVE RequestsInv'
  <2>1. object[d] \in Contents \cup {None}
    BY DEF RequestsInv
  <2> QED
    BY <1>2, <2>1, RequestTakes DEF ReadUpload
<1>3. ASSUME NEW r \in Requests, Confirm(r) \/ DeleteInvalid(r) PROVE RequestsInv'
  <2>1. object' \in [Docs -> Contents \cup {None}]
    BY <1>3 DEF Confirm, DeleteInvalid, Removes, RequestsInv
  <2> QED
    BY <1>3, <2>1, RequestMoves DEF Confirm, DeleteInvalid
<1>4. ASSUME NEW r \in Requests,
             RejectInvalid(r) \/ RequestLost(r) \/ \E t \in Transactions : Submit(t, r)
      PROVE  RequestsInv'
  BY <1>4, RequestStops DEF RejectInvalid, RequestLost, Submit
<1>5. ASSUME NEW d \in Docs, NEW content \in Contents, Upload(d, content) PROVE RequestsInv'
  BY <1>5, RequestsStay DEF Upload
<1>6. ASSUME \/ \E s \in Scans : DeleteInfected(s)
             \/ \E p \in Purges : PurgeObject(p)
      PROVE  RequestsInv'
  BY <1>6, RequestsStay DEF DeleteInfected, PurgeObject
<1>7. ASSUME \/ \E d \in Docs : \/ CreateUpload(d) \/ LinkExpires(d) \/ UploadGrowsOld(d)
                                \/ RetentionEnds(d) \/ Show(d)
                                \/ \E s \in Scans : ChooseToScan(s, d)
                                \/ \E p \in Purges : ChooseToPurge(p, d)
             \/ \E s \in Scans : ReadAndScan(s) \/ MarkClean(s) \/ ScanEnds(s) \/ WithdrawMalware(s)
             \/ \E p \in Purges : PurgeRow(p) \/ PurgeEnds(p)
      PROVE  UNCHANGED <<object, request>>
  BY <1>7 DEF CreateUpload, LinkExpires, UploadGrowsOld, RetentionEnds, Show, ChooseToScan,
              ChooseToPurge, ReadAndScan, MarkClean, ScanEnds, WithdrawMalware, RejectMalware,
              PurgeRow, PurgeEnds
<1>8. CASE DocumentsNext
  BY <1>1, <1>2, <1>3, <1>4, <1>5, <1>6, <1>7, <1>8 DEF DocumentsNext
<1>9. ASSUME NEW t \in Transactions,
             \/ \E verdict \in Verdicts : \/ \E type \in Required : Record(t, type, verdict)
                                          \/ \E k \in DOMAIN checks : Decide(t, k, verdict)
             \/ \E result \in {"PASSED", "FAILED"} : RecordTraining(t, result)
             \/ Approve(t) \/ GoOnline(t) \/ Commit(t) \/ Undo(t)
      PROVE  UNCHANGED <<object, request>>
  BY <1>9 DEF Record, Decide, RecordTraining, Approve, GoOnline, Commit, Undo, documents
<1>10. ASSUME \/ \E complete \in BOOLEAN : UpdateProfile(complete) \/ RestrictWorker(complete)
              \/ \E to \in Decisions, keeps \in BOOLEAN : ChangeStatus(to, keeps)
              \/ \E k \in DOMAIN checks : CheckLapses(k)
              \/ GoOffline \/ GrantServicePermission
              \/ UNCHANGED <<people, documents>>
       PROVE  UNCHANGED <<object, request>>
  BY <1>10 DEF UpdateProfile, RestrictWorker, ChangeStatus, CheckLapses, GoOffline,
               GrantServicePermission, documents
<1> QED
  BY <1>1, <1>4, <1>7, <1>8, <1>9, <1>10 DEF PeopleNext

\* What a scan has found is never forgotten.
LEMMA FoundStays ==
  ASSUME DocumentsInv, [PeopleNext]_<<people, documents>>, NEW d \in Docs, doc[d].found
  PROVE  doc'[d].found
<1>1. doc \in [Docs -> DocRows] /\ doc[d] \in DocRows
  BY DEF DocumentsInv, DocumentsTypeOK
<1>2. ASSUME NEW e, NEW s, SetStatus(e, s) PROVE doc'[d].found
  BY <1>1, <1>2 DEF SetStatus, DocRows
<1>3. ASSUME NEW r \in Requests, Confirm(r) PROVE doc'[d].found
  BY <1>1, <1>3 DEF Confirm, DocRows
<1>4. ASSUME NEW s \in Scans, ReadAndScan(s) PROVE doc'[d].found
  BY <1>1, <1>4 DEF ReadAndScan, DocRows
<1>5. ASSUME doc' \in {doc, RetentionCancelled, RetentionScheduled} PROVE doc'[d].found
  BY <1>1, <1>5 DEF RetentionCancelled, RetentionScheduled, DocRows
<1>6. ASSUME NEW e \in Docs, UploadGrowsOld(e) \/ RetentionEnds(e) PROVE doc'[d].found
  BY <1>1, <1>6 DEF UploadGrowsOld, RetentionEnds, DocRows
<1>7. CASE UNCHANGED doc
  BY <1>7
<1>8. ASSUME \/ \E e \in Docs : CreateUpload(e)
             \/ \E r \in Requests : RejectInvalid(r)
             \/ \E s \in Scans : MarkClean(s) \/ WithdrawMalware(s)
             \/ \E p \in Purges : PurgeRow(p)
      PROVE  UNCHANGED doc \/ \E e, s : SetStatus(e, s)
  BY <1>8 DEF CreateUpload, RejectInvalid, MarkClean, WithdrawMalware, RejectMalware, PurgeRow
<1>9. ASSUME \/ \E e \in Docs : \/ LinkExpires(e) \/ Show(e)
                                \/ \E content \in Contents : Upload(e, content)
                                \/ \E r \in Requests : ReadUpload(r, e)
                                \/ \E s \in Scans : ChooseToScan(s, e)
                                \/ \E p \in Purges : ChooseToPurge(p, e)
             \/ \E r \in Requests : \/ DeleteInvalid(r) \/ RequestLost(r)
                                    \/ \E t \in Transactions : Submit(t, r)
             \/ \E s \in Scans : DeleteInfected(s) \/ ScanEnds(s)
             \/ \E p \in Purges : PurgeObject(p) \/ PurgeEnds(p)
      PROVE  UNCHANGED doc
  BY <1>9 DEF LinkExpires, Show, Upload, ReadUpload, ChooseToScan, ChooseToPurge, DeleteInvalid,
              RequestLost, Submit, DeleteInfected, ScanEnds, PurgeObject, PurgeEnds
<1>10. CASE DocumentsNext
  BY <1>2, <1>3, <1>4, <1>6, <1>7, <1>8, <1>9, <1>10 DEF DocumentsNext
<1>11. ASSUME NEW t \in Transactions,
             \/ \E verdict \in Verdicts : \/ \E type \in Required : Record(t, type, verdict)
                                          \/ \E k \in DOMAIN checks : Decide(t, k, verdict)
             \/ \E result \in {"PASSED", "FAILED"} : RecordTraining(t, result)
             \/ Approve(t) \/ GoOnline(t) \/ Undo(t)
       PROVE  UNCHANGED doc
  BY <1>11 DEF Record, Decide, RecordTraining, Approve, GoOnline, Undo, documents
<1>12. ASSUME \/ \E complete \in BOOLEAN : UpdateProfile(complete) \/ RestrictWorker(complete)
              \/ \E k \in DOMAIN checks : CheckLapses(k)
              \/ GoOffline \/ GrantServicePermission
              \/ UNCHANGED <<people, documents>>
       PROVE  UNCHANGED doc
  BY <1>12 DEF UpdateProfile, RestrictWorker, CheckLapses, GoOffline, GrantServicePermission, documents
<1>13. ASSUME \/ \E t \in Transactions : Commit(t)
              \/ \E to \in Decisions, keeps \in BOOLEAN : ChangeStatus(to, keeps)
       PROVE  doc' \in {doc, RetentionCancelled, RetentionScheduled}
  BY <1>13 DEF Commit, ChangeStatus
<1> QED
  BY <1>2, <1>5, <1>7, <1>8, <1>9, <1>10, <1>11, <1>12, <1>13 DEF PeopleNext

-----------------------------------------------------------------------------
(* Onboarding.  A check that is being decided is locked: it is still open or *)
(* submitted, no other transaction decides it, and if it is about to be      *)
(* accepted its file was found clean when it was read.                       *)

CheckRows == [type : Required, of : Docs \cup {None},
              status : Hidden \cup Verdicts \cup {"SUBMITTED", "WITHDRAWN"}, lapsed : BOOLEAN]

\* A verdict is recorded of a file that a scan has found to be clean.
Vouched(row, status) == status = "VERIFIED" /\ row.of # None => doc[row.of].found

CheckOK(k) == Vouched(checks[k], checks[k].status)

Deciding(t) ==
    LET c == tx[t] IN
    /\ c.row \in 1..Len(checks)
    /\ checks[c.row].status \in {"OPEN", "SUBMITTED"}
    /\ c.status \in Verdicts \cup {"SUBMITTED"}
    /\ Vouched(checks[c.row], c.status)

Apart(t, u) == tx[t].kind = "CHECK" /\ tx[u].kind = "CHECK" => tx[t].row # tx[u].row

ChecksTypeOK ==
    /\ checks \in Seq(CheckRows)
    /\ DOMAIN tx = Transactions

ChecksInv ==
    /\ ChecksTypeOK
    /\ \A k \in 1..Len(checks) : CheckOK(k)
    /\ \A t \in Transactions : tx[t].kind = "CHECK" => Deciding(t)
    /\ \A t \in Transactions : \A u \in Transactions \ {t} : Apart(t, u)

LEMMA ChecksInitHolds == PeopleInit => ChecksInv
BY DEF PeopleInit, ChecksInv, ChecksTypeOK, CheckOK, Apart, NoTx

\* One transaction becomes c; rows keep what they say, but for one that the
\* transaction held and rows nobody decides on.
LEMMA ChecksGoOn ==
  ASSUME ChecksInv, checks' \in Seq(CheckRows), DOMAIN tx' = Transactions,
         Len(checks') >= Len(checks),
         \A d \in Docs : doc[d].found => doc'[d].found,
         NEW T, \A t, u \in T : t = u, \A u \in Transactions \ T : tx'[u] = tx[u],
         \A k \in 1..Len(checks') :
            \/ /\ k \in 1..Len(checks)
               /\ checks'[k].of = checks[k].of
               /\ \/ checks'[k].status = checks[k].status
                  \/ /\ \A u \in Transactions \ T : ~(tx[u].kind = "CHECK" /\ tx[u].row = k)
                     /\ checks'[k].status = "VERIFIED" /\ checks[k].of # None => doc[checks[k].of].found
            \/ k \notin 1..Len(checks) /\ checks'[k].status = "OPEN",
         \A t \in T \cap Transactions : tx'[t].kind = "CHECK" =>
            /\ Deciding(t)'
            /\ \A u \in Transactions \ T : tx[u].kind = "CHECK" => tx[u].row # tx'[t].row
  PROVE  ChecksInv'
<1>1. ASSUME NEW k \in 1..Len(checks') PROVE CheckOK(k)'
  <2>1. checks'[k] \in CheckRows
    OBVIOUS
  <2>2. checks'[k].of \in Docs \cup {None}
    BY <2>1 DEF CheckRows
  <2> QED
    BY <2>2 DEF ChecksInv, CheckOK, Vouched
<1>2. ASSUME NEW u \in Transactions \ T, tx'[u].kind = "CHECK" PROVE Deciding(u)'
  <2>1. Deciding(u) /\ tx'[u] = tx[u] /\ tx[u].kind = "CHECK"
    BY <1>2 DEF ChecksInv
  <2> DEFINE k == tx[u].row
  <2>2. k \in 1..Len(checks) /\ k \in 1..Len(checks')
    BY <2>1 DEF Deciding, ChecksInv, ChecksTypeOK
  <2>3. checks'[k].of = checks[k].of /\ checks'[k].status = checks[k].status
    BY <2>1, <2>2
  <2>4. checks'[k] \in CheckRows
    BY <2>2
  <2>5. checks'[k].of \in Docs \cup {None}
    BY <2>4 DEF CheckRows
  <2> QED
    BY <2>1, <2>2, <2>3, <2>5 DEF Deciding, Vouched
<1>3. ASSUME NEW u \in Transactions, NEW v \in Transactions \ {u} PROVE Apart(u, v)'
  BY DEF ChecksInv, Apart
<1> QED
  BY <1>1, <1>2, <1>3 DEF ChecksInv, ChecksTypeOK

LEMMA OneGoesOn ==
  ASSUME ChecksInv, checks' \in Seq(CheckRows), DOMAIN tx' = Transactions,
         Len(checks') >= Len(checks),
         \A d \in Docs : doc[d].found => doc'[d].found,
         NEW t \in Transactions, \A u \in Transactions \ {t} : tx'[u] = tx[u],
         \A k \in 1..Len(checks') :
            \/ /\ k \in 1..Len(checks)
               /\ checks'[k].of = checks[k].of
               /\ \/ checks'[k].status = checks[k].status
                  \/ /\ \A u \in Transactions \ {t} : ~(tx[u].kind = "CHECK" /\ tx[u].row = k)
                     /\ checks'[k].status = "VERIFIED" /\ checks[k].of # None => doc[checks[k].of].found
            \/ k \notin 1..Len(checks) /\ checks'[k].status = "OPEN",
         tx'[t].kind = "CHECK" =>
            /\ Deciding(t)'
            /\ \A u \in Transactions \ {t} : tx[u].kind = "CHECK" => tx[u].row # tx'[t].row
  PROVE  ChecksInv'
<1> DEFINE T == {t}
<1>1. \A v, u \in T : v = u
  OBVIOUS
<1>2. \A v \in T \cap Transactions : v = t
  OBVIOUS
<1>3. \A v \in T \cap Transactions : tx'[v].kind = "CHECK" =>
         /\ Deciding(v)'
         /\ \A u \in Transactions \ T : tx[u].kind = "CHECK" => tx[u].row # tx'[v].row
  BY <1>2
<1>4. \A u \in Transactions \ T : u \in Transactions \ {t}
  OBVIOUS
<1>5. \A u \in Transactions \ T : tx'[u] = tx[u]
  BY <1>4
<1>6. \A k \in 1..Len(checks') :
            \/ /\ k \in 1..Len(checks)
               /\ checks'[k].of = checks[k].of
               /\ \/ checks'[k].status = checks[k].status
                  \/ /\ \A u \in Transactions \ T : ~(tx[u].kind = "CHECK" /\ tx[u].row = k)
                     /\ checks'[k].status = "VERIFIED" /\ checks[k].of # None => doc[checks[k].of].found
            \/ k \notin 1..Len(checks) /\ checks'[k].status = "OPEN"
  BY <1>4
<1> HIDE DEF T
<1> QED
  BY <1>1, <1>3, <1>5, <1>6, ChecksGoOn

\* Steps that leave checks and transactions alone.
LEMMA ChecksStay ==
  ASSUME ChecksInv, UNCHANGED <<checks, tx>>, \A d \in Docs : doc[d].found => doc'[d].found
  PROVE  ChecksInv'
<1>1. \A k \in 1..Len(checks) : checks[k] \in CheckRows
  BY DEF ChecksInv, ChecksTypeOK
<1>2. \A k \in 1..Len(checks) : checks[k].of \in Docs \cup {None}
  BY <1>1 DEF CheckRows
<1> QED
  BY <1>2 DEF ChecksInv, ChecksTypeOK, CheckOK, Deciding, Vouched, Apart

\* The transaction that begins or ends is the only one that differs.
LEMMA OneTx ==
  ASSUME ChecksTypeOK, NEW t \in Transactions, NEW c, tx' = [tx EXCEPT ![t] = c]
  PROVE  /\ DOMAIN tx' = Transactions /\ tx'[t] = c
         /\ \A u \in Transactions \ {t} : tx'[u] = tx[u]
BY DEF ChecksTypeOK

\* Checks that are neither inserted nor read by the transaction that begins.
LEMMA OtherTxHolds ==
  ASSUME ChecksInv, NEW t \in Transactions, NEW c, c.kind # "CHECK",
         tx' = [tx EXCEPT ![t] = c], UNCHANGED <<checks, doc>>
  PROVE  ChecksInv'
<1>1. /\ DOMAIN tx' = Transactions /\ tx'[t] = c
      /\ \A u \in Transactions \ {t} : tx'[u] = tx[u]
  BY OneTx DEF ChecksInv
<1> QED
  BY <1>1 DEF ChecksInv, ChecksTypeOK, CheckOK, Deciding, Vouched, Apart

\* A new row belongs to the transaction that inserts it.
LEMMA InsertsHolds ==
  ASSUME ChecksInv, NEW t \in Transactions, NEW type \in Required, NEW d \in Docs \cup {None},
         NEW status \in Verdicts \cup {"SUBMITTED"}, status = "VERIFIED" => d = None,
         Inserts(t, type, d, status), UNCHANGED doc
  PROVE  ChecksInv'
<1> DEFINE row == Row(type, d, "OPEN")
           k == Len(checks) + 1
<1>1. checks \in Seq(CheckRows) /\ Len(checks) \in Nat
  BY DEF ChecksInv, ChecksTypeOK
<1>2. row \in CheckRows /\ row.of = d /\ row.status = "OPEN"
  BY DEF Row, CheckRows, Hidden
<1>3. checks' = Append(checks, row)
  BY DEF Inserts, Begins
<1>4. PICK next : tx' = [tx EXCEPT ![t] = [Change("CHECK", k, status) EXCEPT !.next = next]]
  BY DEF Inserts, Begins
<1> HIDE DEF row
<1>5. /\ checks' \in Seq(CheckRows) /\ Len(checks') = k /\ checks'[k] = row
      /\ \A j \in 1..Len(checks) : checks'[j] = checks[j]
  BY <1>1, <1>2, <1>3
<1>6. /\ DOMAIN tx' = Transactions
      /\ tx'[t] = [Change("CHECK", k, status) EXCEPT !.next = next]
      /\ \A u \in Transactions \ {t} : tx'[u] = tx[u]
  BY <1>4, OneTx DEF ChecksInv
<1>7. tx'[t].kind = "CHECK" /\ tx'[t].row = k /\ tx'[t].status = status
  BY <1>6 DEF Change
<1>8. Deciding(t)'
  BY <1>1, <1>2, <1>5, <1>7 DEF Deciding, Vouched
<1>9. \A u \in Transactions \ {t} : tx[u].kind = "CHECK" => tx[u].row # k
  BY <1>1 DEF ChecksInv, Deciding
<1>10. ASSUME NEW j \in 1..Len(checks')
       PROVE  \/ j \in 1..Len(checks) /\ checks'[j] = checks[j]
              \/ j \notin 1..Len(checks) /\ checks'[j].status = "OPEN"
  BY <1>1, <1>2, <1>5
<1>11. Len(checks') >= Len(checks)
  BY <1>1, <1>5
<1>12. \A j \in 1..Len(checks') :
          \/ /\ j \in 1..Len(checks)
             /\ checks'[j].of = checks[j].of
             /\ checks'[j].status = checks[j].status
          \/ j \notin 1..Len(checks) /\ checks'[j].status = "OPEN"
  BY <1>10
<1>13. /\ \A d2 \in Docs : doc[d2].found => doc'[d2].found
       /\ \A u \in Transactions \ {t} : tx[u].kind = "CHECK" => tx[u].row # tx'[t].row
  BY <1>7, <1>9
<1> HIDE DEF k
<1> QED
  BY <1>5, <1>6, <1>8, <1>11, <1>12, <1>13, OneGoesOn

\* A check that nobody decides on is locked by the one who does.
LEMMA DecideHolds ==
  ASSUME ChecksInv, DocumentsInv, NEW t \in Transactions, NEW k \in DOMAIN checks,
         NEW status \in Verdicts, Decide(t, k, status)
  PROVE  ChecksInv'
<1>1. checks \in Seq(CheckRows) /\ Len(checks) \in Nat /\ k \in 1..Len(checks)
  BY DEF ChecksInv, ChecksTypeOK
<1>2. UNCHANGED <<checks, doc>> /\ checks[k].status = "SUBMITTED" /\ ~Locked(k)
  BY DEF Decide, Begins, documents
<1>3. PICK next : tx' = [tx EXCEPT ![t] = [Change("CHECK", k, status) EXCEPT !.next = next]]
  BY DEF Decide, Begins
<1>4. /\ DOMAIN tx' = Transactions
      /\ tx'[t] = [Change("CHECK", k, status) EXCEPT !.next = next]
      /\ \A u \in Transactions \ {t} : tx'[u] = tx[u]
  BY <1>3, OneTx DEF ChecksInv
<1>5. tx'[t].kind = "CHECK" /\ tx'[t].row = k /\ tx'[t].status = status
  BY <1>4 DEF Change
<1>6. checks[k] \in CheckRows
  BY <1>1
<1>7. checks[k].of \in Docs \cup {None}
  BY <1>6 DEF CheckRows
<1>8. status = "VERIFIED" /\ checks[k].of # None => doc[checks[k].of].found
  BY <1>7 DEF Decide, DocumentsInv, RowOK
<1>9. Deciding(t)'
  BY <1>1, <1>2, <1>5, <1>8 DEF Deciding, Vouched
<1>10. \A u \in Transactions \ {t} : tx[u].kind = "CHECK" => tx[u].row # k
  BY <1>2 DEF Locked
<1>11. \A j \in 1..Len(checks') :
          \/ /\ j \in 1..Len(checks)
             /\ checks'[j].of = checks[j].of
             /\ checks'[j].status = checks[j].status
          \/ j \notin 1..Len(checks) /\ checks'[j].status = "OPEN"
  BY <1>2
<1>12. /\ \A d2 \in Docs : doc[d2].found => doc'[d2].found
       /\ \A u \in Transactions \ {t} : tx[u].kind = "CHECK" => tx[u].row # tx'[t].row
  BY <1>2, <1>5, <1>10
<1>13. checks' \in Seq(CheckRows) /\ Len(checks') >= Len(checks)
  BY <1>1, <1>2
<1> QED
  BY <1>4, <1>9, <1>11, <1>12, <1>13, OneGoesOn

\* What a transaction recorded is of a row it alone held, or of none.
LEMMA EndsHolds ==
  ASSUME ChecksInv, NEW t \in Transactions, tx' = [tx EXCEPT ![t] = NoTx],
         \A d \in Docs : doc[d].found => doc'[d].found,
         NEW status, status \in Verdicts \cup {"SUBMITTED", "UNDONE"},
         status \in {"UNDONE", tx[t].status},
         \/ UNCHANGED checks
         \/ tx[t].kind = "CHECK" /\ checks' = [checks EXCEPT ![tx[t].row].status = status]
  PROVE  ChecksInv'
<1>1. checks \in Seq(CheckRows) /\ Len(checks) \in Nat
  BY DEF ChecksInv, ChecksTypeOK
<1>2. /\ DOMAIN tx' = Transactions /\ tx'[t] = NoTx /\ NoTx.kind # "CHECK"
      /\ \A u \in Transactions \ {t} : tx'[u] = tx[u]
  BY OneTx DEF ChecksInv, NoTx
<1>3. CASE UNCHANGED checks
  BY <1>1, <1>2, <1>3, OneGoesOn
<1>4. CASE /\ tx[t].kind = "CHECK" 
           /\ checks' = [checks EXCEPT ![tx[t].row].status = status]
  <2> DEFINE k == tx[t].row
  <2>1. Deciding(t) /\ k \in 1..Len(checks)
    BY <1>4 DEF ChecksInv, Deciding
  <2>2. checks[k] \in CheckRows
    BY <1>1, <2>1
  <2>3. status = "VERIFIED" /\ checks[k].of # None => doc[checks[k].of].found
    BY <2>1 DEF Deciding, Vouched
  <2>4. \A u \in Transactions \ {t} : tx[u].kind = "CHECK" => tx[u].row # k
    BY <1>4 DEF ChecksInv, Apart
  <2> HIDE DEF k
  <2>5. checks'[k] = [checks[k] EXCEPT !.status = status]
    BY <1>1, <1>4, <2>1 DEF k
  <2>6. checks'[k] \in CheckRows /\ checks'[k].of = checks[k].of /\ checks'[k].status = status
    BY <2>2, <2>5 DEF CheckRows, Hidden
  <2>7. \A j \in 1..Len(checks) : j # k => checks'[j] = checks[j]
    BY <1>1, <1>4 DEF k
  <2>8. DOMAIN checks' = 1..Len(checks)
    BY <1>1, <1>4
  <2>9. \A j \in 1..Len(checks) : checks'[j] \in CheckRows
    BY <1>1, <2>6, <2>7
  <2>10. checks' = [j \in 1..Len(checks) |-> checks'[j]]
    BY <1>4, <2>8
  <2>11. checks' \in Seq(CheckRows) /\ Len(checks') = Len(checks)
    BY <1>1, <2>8, <2>9, <2>10
  <2> QED
    BY <1>1, <1>2, <2>3, <2>4, <2>6, <2>7, <2>11, OneGoesOn
<1> QED
  BY <1>3, <1>4

\* Rows that nobody decides on may be withdrawn; a verdict may lapse.
LEMMA RowsChangeHolds ==
  ASSUME ChecksInv, UNCHANGED tx, \A d \in Docs : doc[d].found => doc'[d].found,
         checks' = [k \in DOMAIN checks |-> checks'[k]],
         \A k \in DOMAIN checks :
            \/ checks'[k] = checks[k]
            \/ checks'[k] = [checks[k] EXCEPT !.lapsed = TRUE]
            \/ ~Locked(k) /\ checks'[k] = [checks[k] EXCEPT !.status = "WITHDRAWN"]
  PROVE  ChecksInv'
<1>1. checks \in Seq(CheckRows) /\ Len(checks) \in Nat /\ DOMAIN checks = 1..Len(checks)
  BY DEF ChecksInv, ChecksTypeOK
<1>2. ASSUME NEW k \in DOMAIN checks
      PROVE  /\ checks'[k] \in CheckRows /\ checks'[k].of = checks[k].of
             /\ \/ checks'[k].status = checks[k].status
                \/ ~Locked(k) /\ checks'[k].status = "WITHDRAWN"
  <2>1. checks[k] \in CheckRows
    BY <1>1
  <2>2. CASE checks'[k] = checks[k]
    BY <2>1, <2>2
  <2>3. CASE checks'[k] = [checks[k] EXCEPT !.lapsed = TRUE]
    BY <2>1, <2>3 DEF CheckRows
  <2>4. CASE ~Locked(k) /\ checks'[k] = [checks[k] EXCEPT !.status = "WITHDRAWN"]
    BY <2>1, <2>4 DEF CheckRows
  <2> QED
    BY <2>2, <2>3, <2>4
<1>3. checks' \in Seq(CheckRows) /\ Len(checks') = Len(checks)
  BY <1>1, <1>2
<1> DEFINE T == {}
<1>4. \A k \in 1..Len(checks') :
         /\ k \in 1..Len(checks)
         /\ checks'[k].of = checks[k].of
         /\ \/ checks'[k].status = checks[k].status
            \/ /\ \A u \in Transactions \ T : ~(tx[u].kind = "CHECK" /\ tx[u].row = k)
               /\ checks'[k].status = "VERIFIED" /\ checks[k].of # None => doc[checks[k].of].found
  BY <1>1, <1>2, <1>3 DEF Locked
<1>5. \A t, u \in T : t = u
  OBVIOUS
<1>6. \A t \in T \cap Transactions : tx'[t].kind = "CHECK" =>
            /\ Deciding(t)'
            /\ \A u \in Transactions \ T : tx[u].kind = "CHECK" => tx[u].row # tx'[t].row
  OBVIOUS
<1>7. DOMAIN tx' = Transactions /\ \A u \in Transactions \ T : tx'[u] = tx[u]
  BY DEF ChecksInv, ChecksTypeOK
<1>8. Len(checks') >= Len(checks)
  BY <1>1, <1>3
<1> HIDE DEF T
<1> QED
  BY <1>3, <1>4, <1>5, <1>6, <1>7, <1>8, ChecksGoOn

\* What changes the rows of worker_verification, for whoever does it.
LEMMA WithdrawChanges ==
  ASSUME ChecksTypeOK, NEW s \in Scans, WithdrawMalware(s)
  PROVE  /\ UNCHANGED tx /\ checks' = [k \in DOMAIN checks |-> checks'[k]]
         /\ \A k \in DOMAIN checks :
               \/ checks'[k] = checks[k]
               \/ /\ checks[k].status = "SUBMITTED" /\ ~Locked(k)
                  /\ checks'[k] = [checks[k] EXCEPT !.status = "WITHDRAWN"]
BY DEF WithdrawMalware

LEMMA CommitChanges ==
  ASSUME NEW t \in Transactions, Commit(t)
  PROVE  /\ tx' = [tx EXCEPT ![t] = NoTx]
         /\ \/ UNCHANGED checks
            \/ tx[t].kind = "CHECK" /\ checks' = [checks EXCEPT ![tx[t].row].status = tx[t].status]
BY DEF Commit, RowsWith

LEMMA UndoChanges ==
  ASSUME NEW t \in Transactions, Undo(t)
  PROVE  /\ tx' = [tx EXCEPT ![t] = NoTx]
         /\ \/ UNCHANGED checks
            \/ tx[t].kind = "CHECK" /\ checks' = [checks EXCEPT ![tx[t].row].status = "UNDONE"]
BY DEF Undo

LEMMA ChecksStep ==
  DocumentsInv /\ RequestsInv /\ ChecksInv /\ [PeopleNext]_<<people, documents>> => ChecksInv'
<1> SUFFICES ASSUME DocumentsInv, RequestsInv, ChecksInv, [PeopleNext]_<<people, documents>>
             PROVE  ChecksInv'
  OBVIOUS
<1>1. \A d \in Docs : doc[d].found => doc'[d].found
  BY FoundStays
<1>2. CASE UNCHANGED <<checks, tx>>
  BY <1>1, <1>2, ChecksStay
<1>3. ASSUME NEW t \in Transactions, NEW r \in Requests, Submit(t, r) PROVE ChecksInv'
  <2>1. request[r].of \in Docs
    BY <1>3 DEF Submit, RequestsInv
  <2>2. CheckOf[request[r].of] \in Required
    BY <2>1 DEF Required, Uploaded
  <2> QED
    BY <1>3, <2>1, <2>2, InsertsHolds DEF Submit
<1>4. ASSUME NEW t \in Transactions, NEW type \in Required, NEW verdict \in Verdicts,
             Record(t, type, verdict)
      PROVE  ChecksInv'
  BY <1>4, InsertsHolds DEF Record, documents
<1>5. ASSUME NEW t \in Transactions, NEW k \in DOMAIN checks, NEW verdict \in Verdicts,
             Decide(t, k, verdict)
      PROVE  ChecksInv'
  BY <1>5, DecideHolds
<1>6. ASSUME NEW t \in Transactions, Commit(t) PROVE ChecksInv'
  <2>1. tx[t].kind = "CHECK" => tx[t].status \in Verdicts \cup {"SUBMITTED"}
    BY DEF ChecksInv, Deciding
  <2>2. CASE tx[t].kind = "CHECK"
    BY <1>1, <1>6, <2>1, <2>2, CommitChanges, EndsHolds
  <2>3. CASE tx[t].kind # "CHECK"
    <3>1. UNCHANGED checks /\ tx' = [tx EXCEPT ![t] = NoTx]
      BY <1>6, <2>3, CommitChanges
    <3>2. "UNDONE" \in Verdicts \cup {"SUBMITTED", "UNDONE"} /\ "UNDONE" \in {"UNDONE", tx[t].status}
      OBVIOUS
    <3> QED
      BY <1>1, <3>1, <3>2, EndsHolds
  <2> QED
    BY <2>2, <2>3
<1>7. ASSUME NEW t \in Transactions, Undo(t) PROVE ChecksInv'
  <2>1. "UNDONE" \in Verdicts \cup {"SUBMITTED", "UNDONE"} /\ "UNDONE" \in {"UNDONE", tx[t].status}
    OBVIOUS
  <2> QED
    BY <1>1, <1>7, <2>1, UndoChanges, EndsHolds
<1>8. ASSUME NEW s \in Scans, WithdrawMalware(s) PROVE ChecksInv'
  BY <1>1, <1>8, WithdrawChanges, RowsChangeHolds DEF ChecksInv
<1>9. ASSUME NEW k \in DOMAIN checks, CheckLapses(k) PROVE ChecksInv'
  <2>1. UNCHANGED tx /\ checks' = [checks EXCEPT ![k].lapsed = TRUE]
    BY <1>9 DEF CheckLapses
  <2>2. /\ checks' = [j \in DOMAIN checks |-> checks'[j]]
        /\ \A j \in DOMAIN checks : \/ checks'[j] = checks[j]
                                    \/ checks'[j] = [checks[j] EXCEPT !.lapsed = TRUE]
    BY <2>1 DEF ChecksInv, ChecksTypeOK
  <2> QED
    BY <1>1, <2>1, <2>2, RowsChangeHolds
<1>10. ASSUME NEW t \in Transactions,
              \/ \E result \in {"PASSED", "FAILED"} : RecordTraining(t, result)
              \/ Approve(t) \/ GoOnline(t)
       PROVE  ChecksInv'
  <2>1. ASSUME NEW kind \in {"TRAINING", "STATUS", "ONLINE"}, NEW status, NEW next,
               \/ tx' = [tx EXCEPT ![t] = [Change(kind, 0, status) EXCEPT !.next = next]]
               \/ tx' = [tx EXCEPT ![t] = Change(kind, 0, status)],
               UNCHANGED <<checks, doc>>
        PROVE  ChecksInv'
    <3>1. /\ Change(kind, 0, status).kind # "CHECK"
          /\ [Change(kind, 0, status) EXCEPT !.next = next].kind # "CHECK"
      BY DEF Change
    <3> QED
      BY <2>1, <3>1, OtherTxHolds
  <2>2. CASE \E result \in {"PASSED", "FAILED"} : RecordTraining(t, result)
    BY <2>1, <2>2 DEF RecordTraining, Begins, documents
  <2>3. CASE Approve(t)
    BY <2>1, <2>3 DEF Approve, documents
  <2>4. CASE GoOnline(t)
    BY <2>1, <2>4 DEF GoOnline, documents
  <2> QED
    BY <1>10, <2>2, <2>3, <2>4
<1>11. ASSUME \/ DocumentsNext /\ UNCHANGED people
              \/ \E complete \in BOOLEAN : UpdateProfile(complete) \/ RestrictWorker(complete)
              \/ \E to \in Decisions, keeps \in BOOLEAN : ChangeStatus(to, keeps)
              \/ GoOffline \/ GrantServicePermission
              \/ UNCHANGED <<people, documents>>
       PROVE  UNCHANGED <<checks, tx>>
  BY <1>11 DEF UpdateProfile, RestrictWorker, ChangeStatus, GoOffline, GrantServicePermission, people
<1> QED
  BY <1>2, <1>3, <1>4, <1>5, <1>6, <1>7, <1>8, <1>9, <1>10, <1>11 DEF PeopleNext

PeopleInv == DocumentsInv /\ RequestsInv /\ ChecksInv

LEMMA PeopleInvariant == PeopleSpec => []PeopleInv
<1>1. PeopleInit => PeopleInv
  BY DocumentsInitHolds, RequestsInitHolds, ChecksInitHolds DEF PeopleInv
<1>2. PeopleInv /\ [PeopleNext]_<<people, documents>> => PeopleInv'
  BY DocumentsStep, RequestsStep, ChecksStep DEF PeopleInv
<1> QED
  BY <1>1, <1>2, PTL DEF PeopleSpec

\* Nobody is bookable with a file that no scan has passed, for any uploads, any
\* checks and any transactions side by side.
THEOREM NobodyUnvettedIsBookable == PeopleSpec => []BookableIsVetted
<1>1. PeopleInv => BookableIsVetted
  <2> SUFFICES ASSUME PeopleInv, Verified(checks), NEW type \in Uploaded
               PROVE  Latest(checks, type, LAMBDA row : row.of # None => doc[row.of].found)
    BY DEF BookableIsVetted, Eligible
  <2>1. Latest(checks, type, IsVerified)
    BY DEF Verified, Required
  <2>2. PICK k \in DOMAIN checks :
           /\ checks[k].type = type /\ checks[k].status = "VERIFIED"
           /\ checks[k].status \notin Hidden
           /\ \A j \in DOMAIN checks :
                 checks[j].type = type /\ checks[j].status \notin Hidden => j <= k
    BY <2>1 DEF Latest, IsVerified
  <2>3. k \in 1..Len(checks)
    BY DEF PeopleInv, ChecksInv, ChecksTypeOK
  <2>4. checks[k].of # None => doc[checks[k].of].found
    BY <2>2, <2>3 DEF PeopleInv, ChecksInv, CheckOK, Vouched
  <2> QED
    BY <2>2, <2>4 DEF Latest
<1> QED
  BY <1>1, PeopleInvariant, PTL

\* A verdict once recorded is never replaced, whatever else decides on the same
\* check or withdraws it.
THEOREM VerdictsStand == PeopleSpec => DecisionsStand
<1>1. ASSUME PeopleInv, [PeopleNext]_<<people, documents>>, NEW k \in DOMAIN checks,
             checks[k].status \in Verdicts
      PROVE  checks'[k].status = checks[k].status
  <2>1. checks \in Seq(CheckRows) /\ Len(checks) \in Nat /\ k \in 1..Len(checks) /\ ChecksTypeOK
    BY <1>1 DEF PeopleInv, ChecksInv, ChecksTypeOK
  <2>2. checks[k] \in CheckRows
    BY <2>1
  <2>3. CASE UNCHANGED checks
    BY <2>3
  <2>4. ASSUME NEW t \in Transactions, NEW type, NEW d, NEW status, Inserts(t, type, d, status)
        PROVE  checks'[k] = checks[k]
    BY <2>1, <2>4 DEF Inserts, Begins
  <2>5. ASSUME NEW t \in Transactions, tx[t].kind = "CHECK", NEW status,
               checks' = [checks EXCEPT ![tx[t].row].status = status]
        PROVE  checks'[k] = checks[k]
    <3>1. tx[t].row # k
      BY <1>1, <2>5 DEF PeopleInv, ChecksInv, Deciding, Verdicts
    <3> QED
      BY <2>1, <2>5, <3>1
  <2>6. ASSUME NEW t \in Transactions, Commit(t) \/ Undo(t) PROVE checks'[k] = checks[k]
    BY <2>3, <2>5, <2>6, CommitChanges, UndoChanges
  <2>7. ASSUME NEW s \in Scans, WithdrawMalware(s) PROVE checks'[k] = checks[k]
    BY <1>1, <2>1, <2>7, WithdrawChanges DEF Verdicts
  <2>8. ASSUME NEW j \in DOMAIN checks, CheckLapses(j) PROVE checks'[k].status = checks[k].status
    BY <2>1, <2>2, <2>8 DEF CheckLapses, CheckRows
  <2>9. ASSUME NEW t \in Transactions,
               \/ \E r \in Requests : Submit(t, r)
               \/ \E verdict \in Verdicts, type \in Required : Record(t, type, verdict)
        PROVE  checks'[k] = checks[k]
    BY <2>4, <2>9 DEF Submit, Record
  <2>10. ASSUME \/ DocumentsNext /\ UNCHANGED people
                \/ \E t \in Transactions :
                      \/ \E verdict \in Verdicts, j \in DOMAIN checks : Decide(t, j, verdict)
                      \/ \E result \in {"PASSED", "FAILED"} : RecordTraining(t, result)
                      \/ Approve(t) \/ GoOnline(t)
                \/ \E complete \in BOOLEAN : UpdateProfile(complete) \/ RestrictWorker(complete)
                \/ \E to \in Decisions, keeps \in BOOLEAN : ChangeStatus(to, keeps)
                \/ GoOffline \/ GrantServicePermission
                \/ UNCHANGED <<people, documents>>
         PROVE  UNCHANGED checks
    BY <2>10 DEF Decide, RecordTraining, Begins, Approve, GoOnline, UpdateProfile, RestrictWorker,
                 ChangeStatus, GoOffline, GrantServicePermission, people
  <2> QED
    BY <1>1, <2>3, <2>6, <2>7, <2>8, <2>9, <2>10 DEF PeopleNext
<1>2. PeopleInv /\ [PeopleNext]_<<people, documents>> =>
        [\A k \in DOMAIN checks :
           checks[k].status \in Verdicts => checks'[k].status = checks[k].status]_people
  BY <1>1 DEF people
<1> QED
  BY <1>2, PeopleInvariant, PTL DEF PeopleSpec, DecisionsStand
=============================================================================
