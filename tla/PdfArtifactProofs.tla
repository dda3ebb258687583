-------------------------- MODULE PdfArtifactProofs ---------------------------
(***************************************************************************)
(* Proofs about PdfArtifact for every set of jobs and edits and every      *)
(* retry budget.                                                           *)
(***************************************************************************)
EXTENDS PdfArtifact, FiniteSetTheorems, TLAPS

-------------------------------------------------------------------------------
(* The inductive invariant *)

\* The edits that have committed, or will not: each content and each revision is
\* paid for by one of them.
Over == {e \in Edits : edit[e].pc \in {"cleanup", "done"}}

Counted ==
  /\ doc.content <= Cardinality(Over)
  /\ doc.rev <= Cardinality(Over)
  /\ \A e \in Edits : edit[e].seen.rev <= Cardinality(Over)

\* A job has a row, and a delivery, only once its request is done.
Begun(j) ==
  /\ job[j].status # "absent" => starter[j].pc = "done"
  /\ worker[j].pc # "idle" => starter[j].pc = "done"
  /\ worker[j].pc \in {"snapshot", "context"} => worker[j].pdf = Absent

Shape ==
  /\ TypeOK
  /\ Counted
  /\ \A j \in PdfJobs : Begun(j)

\* The document's revision has an object, unless the store lost it.
Stored == storage[doc.rev] # Absent \/ lost

\* The row points to nothing but its own revision.
RowInv ==
  /\ doc.path \in {Null, doc.rev}
  /\ Published => Stored
  /\ doc.job # NoJob => /\ job[doc.job].rev = doc.rev
                        /\ starter[doc.job].pc = "done"

\* No object is ahead of the row, and the one of its revision shows its content.
StoreInv ==
  /\ \A r \in Revisions : storage[r] # Absent => r <= doc.rev
  /\ storage[doc.rev] = Absent \/ storage[doc.rev].content = doc.content

\* A snapshot was taken of a row that pointed to its own revision.
SeenInv(seen) ==
  /\ seen.rev <= doc.rev
  /\ seen.path \in {Null, seen.rev}

\* What a render for the document's revision has done so far.
RenderInv(j) ==
  job[j].rev = doc.rev =>
    /\ worker[j].pc \in {"logo", "upload"} => worker[j].pdf.content = doc.content
    /\ worker[j].pc \in {"persist", "write"} => Stored
    /\ worker[j].pc = "settle" => doc.path = doc.rev \/ lost
    /\ worker[j].pc = "write" /\ worker[j].seen.path # Null =>
         doc.path = doc.rev \/ lost

\* A render is for no later revision, and deletes objects of earlier ones only.
WorkInv(j) ==
  /\ job[j].rev <= doc.rev
  /\ starter[j].pc = "loaded" => SeenInv(starter[j].seen)
  /\ worker[j].pc = "write" => /\ SeenInv(worker[j].seen)
                               /\ worker[j].seen.rev = job[j].rev
  /\ worker[j].pc = "discard" => job[j].rev < doc.rev
  /\ worker[j].pc # "cleanup"
  /\ RenderInv(j)

\* So do the edits.
EditInv(e) ==
  edit[e].pc = "cleanup" => edit[e].seen.path \in Revisions /\ edit[e].seen.path < doc.rev

DownloadInv ==
  download.pc \in {"fetched", "missed"} =>
    /\ SeenInv(download.seen)
    /\ download.seen.path # Null
    /\ download.seen.rev = doc.rev =>
         IF download.pc = "missed" THEN lost ELSE Stored

\* What may be shown for the profile as it is.
Shown == {NoLogo, IF logo.path THEN logo.object ELSE NoLogo}

\* What is shown under the document's revision, and what will be.
LogoInv ==
  ~LogoChanging /\ ~torn =>
    /\ storage[doc.rev].logo \in Shown
    /\ \A j \in PdfJobs : job[j].rev = doc.rev =>
         /\ worker[j].pc = "upload" => worker[j].pdf.logo \in Shown
         /\ worker[j].pc = "logo" => logo.path

CleanInv ==
  /\ RowInv
  /\ StoreInv
  /\ \A j \in PdfJobs : WorkInv(j)
  /\ \A e \in Edits : EditInv(e)
  /\ DownloadInv
  /\ LogoInv

IInv == Shape /\ (~overlapped => CleanInv)
-------------------------------------------------------------------------------
(* The session and the counts *)

\* What a flush leaves in the row has the row's type, and unless a row was
\* overlapped it is the row wanted, or the row as it was and nothing changed.
LEMMA Flushed ==
  ASSUME TypeOK, NEW seen \in Doc, NEW wanted \in Doc, Flush(seen, wanted)
  PROVE  /\ doc' \in Doc
         /\ overlapped' \in BOOLEAN
         /\ doc'.rev = IF wanted.rev = seen.rev THEN doc.rev ELSE wanted.rev
         /\ doc'.content = IF wanted.content = seen.content THEN doc.content
                                                            ELSE wanted.content
         /\ ~overlapped' =>
              /\ ~overlapped
              /\ \/ wanted = seen /\ doc' = doc
                 \/ seen = doc /\ doc' = wanted
<1>1. /\ DOMAIN doc = {"content", "rev", "path", "job"}
      /\ doc \in Doc
  BY DEF TypeOK, Doc
<1>2. doc' = [content |-> IF wanted.content = seen.content THEN doc.content ELSE wanted.content,
              rev |-> IF wanted.rev = seen.rev THEN doc.rev ELSE wanted.rev,
              path |-> IF wanted.path = seen.path THEN doc.path ELSE wanted.path,
              job |-> IF wanted.job = seen.job THEN doc.job ELSE wanted.job]
  BY <1>1 DEF Flush
<1>3. doc' \in Doc
  BY <1>1, <1>2 DEF Doc
<1>4. ASSUME wanted = seen
      PROVE  doc' = doc
  BY <1>1, <1>4 DEF Flush, Doc
<1>5. ASSUME seen = doc
      PROVE  doc' = wanted
  BY <1>1, <1>5 DEF Flush, Doc
<1> QED BY <1>1, <1>2, <1>3, <1>4, <1>5 DEF Flush, TypeOK

\* The edits that are over are among the edits.
LEMMA OverBounded ==
  ASSUME TypeOK
  PROVE  /\ IsFiniteSet(Over)
         /\ Cardinality(Over) \in Nat
         /\ Cardinality(Edits) \in Nat
         /\ Cardinality(Over) <= Cardinality(Edits)
<1>1. Over \subseteq Edits
  BY DEF Over
<1> QED BY <1>1, ArtifactAssumption, FS_Subset, FS_CardinalityType

\* One more edit is over.
LEMMA OneMoreOver ==
  ASSUME TypeOK, TypeOK', NEW e \in Edits, e \notin Over, Over' = Over \cup {e}
  PROVE  Cardinality(Over') = Cardinality(Over) + 1
BY OverBounded, FS_AddElement

-------------------------------------------------------------------------------
(* Types *)

\* The values a record starts from are of its type.
LEMMA TypeEmpty ==
  /\ Cardinality(Edits) \in Nat
  /\ NewDoc \in Doc
  /\ Absent \in PDF
  /\ NoRequest \in Request
  /\ Done \in Request
  /\ NoEdit \in EditRequest
  /\ Edited \in EditRequest
  /\ NoWork \in Worker
  /\ \A pc \in {"snapshot", "discard"} : [NoWork EXCEPT !.pc = pc] \in Worker
  /\ \A pc \in {"write", "cleanup"}, seen \in Doc :
       [NoWork EXCEPT !.pc = pc, !.seen = seen] \in Worker
<1>1. Cardinality(Edits) \in Nat
  BY ArtifactAssumption, FS_CardinalityType
<1>2. NewDoc \in Doc
  BY <1>1 DEF NewDoc, Doc, Contents, Revisions
<1>3. Absent \in PDF
  BY DEF Absent, PDF, Logos
<1>4. NoRequest \in Request /\ Done \in Request
  BY <1>2 DEF NoRequest, Done, Request
<1>5. NoEdit \in EditRequest /\ Edited \in EditRequest
  BY <1>2 DEF NoEdit, Edited, EditRequest
<1>6. NoWork \in Worker
  BY <1>2, <1>3 DEF NoWork, Worker
<1>7. /\ \A pc \in {"snapshot", "discard"} : [NoWork EXCEPT !.pc = pc] \in Worker
      /\ \A pc \in {"write", "cleanup"}, seen \in Doc :
           [NoWork EXCEPT !.pc = pc, !.seen = seen] \in Worker
  BY <1>6 DEF Worker
<1> QED BY <1>1, <1>2, <1>3, <1>4, <1>5, <1>6, <1>7

\* The initial state has its types.
LEMMA TypeInit == Init => TypeOK
<1> SUFFICES ASSUME Init PROVE TypeOK
  OBVIOUS
<1>1. storage \in [Revisions -> PDF]
  BY TypeEmpty DEF Init
<1>2. logo \in [path : BOOLEAN, object : Logos]
  BY DEF Init, Logos
<1>3. [status |-> "absent", rev |-> 0, tries |-> 0] \in PdfJob
  <2>1. 0 \in Revisions
    BY ArtifactAssumption, FS_CardinalityType DEF Revisions
  <2>2. 0 \in 0 .. MaxTries
    BY ArtifactAssumption
  <2> QED BY <2>1, <2>2 DEF PdfJob, JobStatuses
<1>4. job \in [PdfJobs -> PdfJob]
  BY <1>3 DEF Init
<1> QED BY <1>1, <1>2, <1>4, TypeEmpty DEF Init, TypeOK

\* The request that starts a render keeps the types.
LEMMA TypeStart ==
  ASSUME TypeOK, NEW j \in PdfJobs, Start(j)
  PROVE  TypeOK'
<1> DEFINE seen == starter[j].seen
<1>1. seen \in Doc
  BY DEF TypeOK, Request
<1>2. CASE StartLoad(j)
  <2>1. [pc |-> "loaded", seen |-> doc] \in Request
    BY DEF TypeOK, Request
  <2> QED BY <1>2, <2>1 DEF StartLoad, TypeOK, logoVars
<1>3. ASSUME NEW status \in {"pending", "terminal"}, NEW to \in {j, NoJob},
             job' = [job EXCEPT ![j].status = status, ![j].rev = seen.rev],
             Flush(seen, IF seen.path = Null THEN [seen EXCEPT !.job = to] ELSE seen),
             starter' = [starter EXCEPT ![j] = Done],
             UNCHANGED <<storage, worker, edit, logoVars, download, lost>>
      PROVE  TypeOK'
  <2> HIDE DEF seen
  <2>1. [job[j] EXCEPT !.status = status, !.rev = seen.rev] \in PdfJob
    <3>1. job[j] \in PdfJob /\ seen.rev \in Revisions
      BY <1>1 DEF TypeOK, Doc
    <3> QED BY <3>1 DEF PdfJob, JobStatuses
  <2>2. job' \in [PdfJobs -> PdfJob]
    BY <1>3, <2>1 DEF TypeOK
  <2>3. (IF seen.path = Null THEN [seen EXCEPT !.job = to] ELSE seen) \in Doc
    BY <1>1 DEF Doc
  <2>4. doc' \in Doc /\ overlapped' \in BOOLEAN
    BY <1>1, <1>3, <2>3, Flushed
  <2>5. starter' \in [PdfJobs -> Request]
    BY <1>3, TypeEmpty DEF TypeOK
  <2> QED BY <1>3, <2>2, <2>4, <2>5 DEF TypeOK, logoVars
<1> QED BY <1>2, <1>3 DEF Start, StartCommit, StartRefused

\* A render's row settles.
LEMMA TypeSettles ==
  ASSUME TypeOK, NEW j \in PdfJobs, NEW status \in JobStatuses, Settles(j, status)
  PROVE  /\ job' \in [PdfJobs -> PdfJob]
         /\ worker' \in [PdfJobs -> Worker]
BY TypeEmpty DEF Settles, TypeOK, PdfJob

\* A deletion keeps the store's type.
LEMMA TypeTryDelete ==
  ASSUME TypeOK, NEW path, TryDelete(path)
  PROVE  storage' \in [Revisions -> PDF]
BY TypeEmpty DEF TryDelete, TypeOK

\* A running render keeps the types.
LEMMA TypeWork ==
  ASSUME TypeOK, NEW j \in PdfJobs, Work(j)
  PROVE  TypeOK'
<1> USE DEF logoVars
<1>1. CASE Begin(j)
  <2>1. job' \in [PdfJobs -> PdfJob]
    BY <1>1, ArtifactAssumption DEF Begin, TypeOK, PdfJob, JobStatuses
  <2>2. worker' \in [PdfJobs -> Worker]
    BY <1>1, TypeEmpty DEF Begin, TypeOK
  <2> QED BY <1>1, <2>1, <2>2 DEF Begin, TypeOK
<1>2. CASE Redeliver(j)
  <2>1. job' \in [PdfJobs -> PdfJob]
    BY <1>2 DEF Redeliver, TypeOK, PdfJob, JobStatuses
  <2> QED BY <1>2, <2>1 DEF Redeliver, TypeOK
<1>3. CASE Snapshot(j)
  <2>1. CASE Settles(j, "terminal")
    BY <1>3, <2>1, TypeSettles DEF Snapshot, TypeOK, JobStatuses
  <2>2. ASSUME UNCHANGED job, NEW pc \in {"context", "settle"},
               worker' = [worker EXCEPT ![j].pc = pc]
        PROVE  TypeOK'
    <3>1. worker' \in [PdfJobs -> Worker]
      BY <2>2 DEF TypeOK, Worker
    <3> QED BY <1>3, <2>2, <3>1 DEF Snapshot, TypeOK
  <2> QED BY <1>3, <2>1, <2>2 DEF Snapshot
<1>4. CASE ReadContext(j)
  <2>1. worker[j].pdf \in PDF /\ doc.content \in Contents
    BY DEF TypeOK, Worker, Doc
  <2>2. [worker[j].pdf EXCEPT !.content = doc.content] \in PDF
    BY <2>1 DEF PDF
  <2>3. \A pc \in {"logo", "upload"} :
          [worker[j] EXCEPT !.pc = pc, !.pdf.content = doc.content] \in Worker
    BY <2>2 DEF TypeOK, Worker
  <2>4. worker' \in [PdfJobs -> Worker]
    BY <1>4, <2>3 DEF ReadContext, TypeOK
  <2> QED BY <1>4, <2>4 DEF ReadContext, TypeOK
<1>5. CASE AttachLogo(j)
  <2>1. PICK shown \in {logo.object, NoLogo} :
          worker' = [worker EXCEPT ![j].pc = "upload", ![j].pdf.logo = shown]
    BY <1>5 DEF AttachLogo
  <2>2. [worker[j].pdf EXCEPT !.logo = shown] \in PDF
    BY DEF TypeOK, Worker, PDF, Logos
  <2>3. [worker[j] EXCEPT !.pc = "upload", !.pdf.logo = shown] \in Worker
    BY <2>2 DEF TypeOK, Worker
  <2>4. worker' \in [PdfJobs -> Worker]
    BY <2>1, <2>3 DEF TypeOK
  <2> QED BY <1>5, <2>4 DEF AttachLogo, TypeOK
<1>6. CASE Upload(j)
  <2>1. worker[j].pdf \in PDF
    BY DEF TypeOK, Worker
  <2>2. storage' \in [Revisions -> PDF]
    BY <1>6, <2>1 DEF Upload, TypeOK
  <2>3. [worker[j] EXCEPT !.pc = "persist", !.pdf = Absent] \in Worker
    BY TypeEmpty DEF TypeOK, Worker
  <2>4. worker' \in [PdfJobs -> Worker]
    BY <1>6, <2>3 DEF Upload, TypeOK
  <2> QED BY <1>6, <2>2, <2>4 DEF Upload, TypeOK
<1>7. CASE RenderFails(j)
  BY <1>7, TypeSettles DEF RenderFails, TypeOK, JobStatuses
<1>8. CASE PersistLoad(j)
  <2>1. worker' \in [PdfJobs -> Worker]
    BY <1>8, TypeEmpty DEF PersistLoad, TypeOK
  <2> QED BY <1>8, <2>1 DEF PersistLoad, TypeOK
<1>9. CASE PersistWrite(j)
  <2> DEFINE seen == worker[j].seen
             wanted == [seen EXCEPT !.path = job[j].rev, !.job = IF @ = j THEN NoJob ELSE @]
  <2>1. seen \in Doc /\ job[j].rev \in Revisions
    BY DEF TypeOK, Worker, PdfJob
  <2>2. wanted \in Doc
    BY <2>1 DEF Doc
  <2>3. Flush(seen, wanted)
    BY <1>9 DEF PersistWrite
  <2>4. doc' \in Doc /\ overlapped' \in BOOLEAN
    BY <2>1, <2>2, <2>3, Flushed
  <2>5. worker' \in [PdfJobs -> Worker]
    BY <1>9, <2>1, TypeEmpty DEF PersistWrite, TypeOK
  <2>6. job' \in [PdfJobs -> PdfJob]
    BY <1>9 DEF PersistWrite, TypeOK, PdfJob, JobStatuses
  <2> QED BY <1>9, <2>4, <2>5, <2>6 DEF PersistWrite, TypeOK
<1>10. CASE Cleanup(j)
  <2>1. worker' \in [PdfJobs -> Worker]
    BY <1>10, TypeEmpty DEF Cleanup, TypeOK
  <2> QED BY <1>10, <2>1, TypeTryDelete DEF Cleanup, TypeOK
<1>11. CASE Discard(j)
  BY <1>11, TypeTryDelete, TypeSettles DEF Discard, TypeOK, JobStatuses
<1>12. CASE Settle(j)
  BY <1>12, TypeSettles DEF Settle, TypeOK, JobStatuses
<1>13. CASE HandlerRaises(j)
  BY <1>13, TypeSettles DEF HandlerRaises, TypeOK, JobStatuses
<1>14. CASE Crash(j)
  <2>1. worker' \in [PdfJobs -> Worker]
    BY <1>14, TypeEmpty DEF Crash, TypeOK
  <2> QED BY <1>14, <2>1 DEF Crash, TypeOK
<1> QED BY <1>1, <1>2, <1>3, <1>4, <1>5, <1>6, <1>7, <1>8, <1>9, <1>10, <1>11,
           <1>12, <1>13, <1>14 DEF Work

\* An edit that is loaded is not over, and neither is one that has stored a logo.
LEMMA RoomForOne ==
  ASSUME TypeOK, NEW e \in Edits, e \notin Over
  PROVE  Cardinality(Over) < Cardinality(Edits)
<1>1. Over \subseteq Edits \ {e}
  BY DEF Over
<1>2. /\ IsFiniteSet(Edits \ {e})
      /\ Cardinality(Edits \ {e}) = Cardinality(Edits) - 1
  BY ArtifactAssumption, FS_RemoveElement
<1> QED BY <1>1, <1>2, ArtifactAssumption, FS_Subset, FS_CardinalityType

\* An edit that commits has room for the content and the revision it writes.
LEMMA EditWrites ==
  ASSUME TypeOK, Counted, NEW e \in Edits, edit[e].pc = "loaded"
  PROVE  /\ ContentAfter(e) \in Contents
         /\ ContentAfter(e) <= Cardinality(Over) + 1
         /\ edit[e].seen \in Doc
         /\ edit[e].seen.rev + 1 \in Revisions
         /\ edit[e].seen.rev + 1 <= Cardinality(Over) + 1
         /\ [content |-> ContentAfter(e), rev |-> edit[e].seen.rev + 1,
             path |-> Null, job |-> NoJob] \in Doc
<1>1. Cardinality(Over) < Cardinality(Edits)
  BY RoomForOne DEF Over
<1>2. Cardinality(Over) \in Nat /\ Cardinality(Edits) \in Nat
  BY OverBounded
<1>3. edit[e].seen \in Doc
  BY DEF TypeOK, EditRequest
<1>4. doc.content \in Contents /\ edit[e].seen.rev \in Revisions
  BY <1>3 DEF TypeOK, Doc
<1>5. /\ ContentAfter(e) \in Contents
      /\ ContentAfter(e) <= Cardinality(Over) + 1
  BY <1>1, <1>2, <1>4 DEF Counted, ContentAfter, Contents
<1>6. /\ edit[e].seen.rev + 1 \in Revisions
      /\ edit[e].seen.rev + 1 <= Cardinality(Over) + 1
  BY <1>1, <1>2, <1>4 DEF Counted, Revisions
<1> QED BY <1>3, <1>5, <1>6 DEF Doc

\* An edit keeps the types.
LEMMA TypeEdit ==
  ASSUME TypeOK, Counted, NEW e \in Edits, Edit(e)
  PROVE  TypeOK'
<1> USE DEF logoVars
<1>1. ASSUME NEW what \in {"fields", "customer", "profile"} \cup LogoChanges, Loads(e, what)
      PROVE  TypeOK'
  <2>1. [pc |-> "loaded", seen |-> doc, writes |-> what] \in EditRequest
    BY DEF TypeOK, EditRequest
  <2>2. edit' \in [Edits -> EditRequest]
    BY <1>1, <2>1 DEF Loads, TypeOK
  <2> QED BY <1>1, <2>2 DEF Loads, TypeOK
<1>2. CASE EditLoad(e) \/ CustomerLoad(e) \/ ProfileLoad(e)
  BY <1>1, <1>2 DEF EditLoad, CustomerLoad, ProfileLoad
<1>3. CASE LogoLoad(e)
  <2>1. edit[e].writes \in {"fields", "customer", "profile"} \cup LogoChanges
    BY DEF TypeOK, EditRequest
  <2> QED BY <1>1, <1>3, <2>1 DEF LogoLoad
<1>4. ASSUME NEW what \in LogoChanges, NEW object \in Logos, ChangesObject(e, what, object)
      PROVE  TypeOK'
  <2>1. [edit[e] EXCEPT !.pc = "stored", !.writes = what] \in EditRequest
    BY DEF TypeOK, EditRequest
  <2>2. edit' \in [Edits -> EditRequest]
    BY <1>4, <2>1 DEF ChangesObject, TypeOK
  <2>3. logo' \in [path : BOOLEAN, object : Logos]
    BY <1>4 DEF ChangesObject, TypeOK
  <2> QED BY <1>4, <2>2, <2>3 DEF ChangesObject, TypeOK
<1>5. CASE UploadLogo(e)
  BY <1>4, <1>5 DEF UploadLogo, LogoChanges, Logos
<1>6. CASE RemoveLogo(e)
  BY <1>4, <1>6 DEF RemoveLogo, LogoChanges, Logos
<1>7. CASE LogoChangeStops(e)
  BY <1>7, TypeEmpty DEF LogoChangeStops, TypeOK
<1>8. CASE EditCommit(e)
  <2>1. doc' \in Doc /\ overlapped' \in BOOLEAN
    BY <1>8, EditWrites, Flushed DEF EditCommit
  <2>2. logo' \in [path : BOOLEAN, object : Logos]
    BY <1>8 DEF EditCommit, Written, TypeOK
  <2>3. [edit[e] EXCEPT !.pc = "cleanup", !.writes = "fields"] \in EditRequest
    BY DEF TypeOK, EditRequest
  <2>4. edit' \in [Edits -> EditRequest]
    BY <1>8, <2>3, TypeEmpty DEF EditCommit, Written, TypeOK
  <2> QED BY <1>8, <2>1, <2>2, <2>4 DEF EditCommit, Written, TypeOK
<1>9. CASE EditCleanup(e)
  <2>1. edit' \in [Edits -> EditRequest]
    BY <1>9, TypeEmpty DEF EditCleanup, TypeOK
  <2> QED BY <1>9, <2>1, TypeTryDelete DEF EditCleanup, TypeOK
<1> QED BY <1>2, <1>3, <1>5, <1>6, <1>7, <1>8, <1>9 DEF Edit

\* Downloads and losses keep the types.
LEMMA TypeDownload ==
  ASSUME TypeOK, DownloadLoad \/ DownloadFetch \/ DownloadClears \/ StorageLoses
  PROVE  TypeOK'
<1> USE DEF logoVars
<1>1. CASE DownloadLoad
  <2>1. download' \in Request
    BY <1>1 DEF DownloadLoad, TypeOK, Request
  <2> QED BY <1>1, <2>1 DEF DownloadLoad, TypeOK
<1>2. CASE DownloadFetch
  <2>1. download' \in Request
    BY <1>2, TypeEmpty DEF DownloadFetch, TypeOK, Request
  <2> QED BY <1>2, <2>1 DEF DownloadFetch, TypeOK
<1>3. CASE DownloadClears
  <2> DEFINE seen == download.seen
             wanted == [seen EXCEPT !.path = Null, !.job = NoJob]
  <2>1. seen \in Doc
    BY DEF TypeOK, Request
  <2>2. wanted \in Doc
    BY <2>1 DEF Doc
  <2>3. Flush(seen, wanted)
    BY <1>3 DEF DownloadClears
  <2>4. doc' \in Doc /\ overlapped' \in BOOLEAN
    BY <2>1, <2>2, <2>3, Flushed
  <2> QED BY <1>3, <2>4, TypeEmpty DEF DownloadClears, TypeOK
<1>4. CASE StorageLoses
  BY <1>4, TypeEmpty DEF StorageLoses, TypeOK
<1> QED BY <1>1, <1>2, <1>3, <1>4

-------------------------------------------------------------------------------
(* Counts *)

\* Only an edit changes the content or the revision.
LEMMA OnlyEditsBump ==
  ASSUME TypeOK,
         \/ \E j \in PdfJobs : Start(j) \/ Work(j)
         \/ DownloadLoad \/ DownloadFetch \/ DownloadClears \/ StorageLoses
  PROVE  /\ doc'.content = doc.content
         /\ doc'.rev = doc.rev
         /\ UNCHANGED edit
<1>1. ASSUME NEW j \in PdfJobs, Start(j)
      PROVE  doc'.content = doc.content /\ doc'.rev = doc.rev /\ UNCHANGED edit
  <2> DEFINE seen == starter[j].seen
  <2>1. seen \in Doc
    BY DEF TypeOK, Request
  <2>2. ASSUME NEW to \in {j, NoJob},
               Flush(seen, IF seen.path = Null THEN [seen EXCEPT !.job = to] ELSE seen)
        PROVE  doc'.content = doc.content /\ doc'.rev = doc.rev
    <3> DEFINE wanted == IF seen.path = Null THEN [seen EXCEPT !.job = to] ELSE seen
    <3>1. /\ wanted \in Doc
          /\ wanted.content = seen.content
          /\ wanted.rev = seen.rev
      BY <2>1 DEF Doc
    <3> HIDE DEF wanted, seen
    <3>2. Flush(seen, wanted)
      BY <2>2 DEF wanted
    <3> QED BY <2>1, <3>1, <3>2, Flushed
  <2>3. CASE StartLoad(j)
    BY <2>3 DEF StartLoad
  <2>4. CASE StartCommit(j)
    BY <2>2, <2>4 DEF StartCommit
  <2>5. CASE StartRefused(j)
    BY <2>2, <2>5 DEF StartRefused
  <2> QED BY <1>1, <2>3, <2>4, <2>5 DEF Start
<1>2. ASSUME NEW j \in PdfJobs, Work(j)
      PROVE  doc'.content = doc.content /\ doc'.rev = doc.rev /\ UNCHANGED edit
  <2>1. CASE PersistWrite(j)
    <3> DEFINE seen == worker[j].seen
               wanted == [seen EXCEPT !.path = job[j].rev, !.job = IF @ = j THEN NoJob ELSE @]
    <3>1. seen \in Doc /\ job[j].rev \in Revisions
      BY DEF TypeOK, Worker, PdfJob
    <3>2. /\ wanted \in Doc
          /\ wanted.content = seen.content
          /\ wanted.rev = seen.rev
      BY <3>1 DEF Doc
    <3>3. Flush(seen, wanted) /\ UNCHANGED edit
      BY <2>1 DEF PersistWrite
    <3> HIDE DEF wanted, seen
    <3> QED BY <3>1, <3>2, <3>3, Flushed
  <2>2. CASE ~PersistWrite(j)
    BY <1>2, <2>2 DEF Work, Begin, Redeliver, Snapshot, ReadContext, AttachLogo, Upload,
       RenderFails, PersistLoad, Cleanup, Discard, Settle, HandlerRaises, Crash
  <2> QED BY <2>1, <2>2
<1>3. CASE DownloadClears
  <2> DEFINE seen == download.seen
             wanted == [seen EXCEPT !.path = Null, !.job = NoJob]
  <2>1. seen \in Doc
    BY DEF TypeOK, Request
  <2>2. /\ wanted \in Doc
        /\ wanted.content = seen.content
        /\ wanted.rev = seen.rev
    BY <2>1 DEF Doc
  <2>3. Flush(seen, wanted) /\ UNCHANGED edit
    BY <1>3 DEF DownloadClears
  <2> HIDE DEF wanted, seen
  <2> QED BY <2>1, <2>2, <2>3, Flushed
<1>4. CASE DownloadLoad \/ DownloadFetch \/ StorageLoses
  BY <1>4 DEF DownloadLoad, DownloadFetch, StorageLoses
<1> QED BY <1>1, <1>2, <1>3, <1>4

\* What is loaded is bounded by the edits that are over, and a revision or a
\* content is added only by an edit that is over from then on.
LEMMA CountedStep ==
  ASSUME TypeOK, TypeOK', Counted, [Next]_vars
  PROVE  Counted'
<1>1. /\ Cardinality(Over) \in Nat
      /\ doc.rev \in Nat /\ doc.content \in Nat
      /\ \A e \in Edits : edit[e].seen.rev \in Nat
  BY OverBounded DEF TypeOK, Doc, Contents, Revisions, EditRequest
<1>2. ASSUME doc'.content = doc.content, doc'.rev = doc.rev, UNCHANGED edit
      PROVE  Counted'
  BY <1>2 DEF Counted, Over
<1>3. ASSUME NEW e \in Edits, Edit(e)
      PROVE  Counted'
  <2>1. ASSUME UNCHANGED doc, Over' = Over,
               edit'[e].seen.rev \in {0, doc.rev, edit[e].seen.rev},
               \A f \in Edits \ {e} : edit'[f] = edit[f]
        PROVE  Counted'
    BY <1>1, <2>1 DEF Counted
  <2>2. ASSUME NEW what, Loads(e, what), edit[e].pc \in {"idle", "stored"}
        PROVE  Counted'
    BY <2>1, <2>2 DEF Loads, Over, TypeOK
  <2>3. CASE EditLoad(e) \/ CustomerLoad(e) \/ ProfileLoad(e) \/ LogoLoad(e)
    BY <2>2, <2>3 DEF EditLoad, CustomerLoad, ProfileLoad, LogoLoad
  <2>4. ASSUME NEW what, NEW object, ChangesObject(e, what, object), edit[e].pc = "idle"
        PROVE  Counted'
    <3>1. edit'[e].seen = edit[e].seen /\ edit'[e].pc = "stored"
      BY <2>4 DEF ChangesObject, TypeOK, EditRequest
    <3>2. \A f \in Edits \ {e} : edit'[f] = edit[f]
      BY <2>4 DEF ChangesObject, TypeOK
    <3>3. Over' = Over
      BY <2>4, <3>1, <3>2 DEF Over
    <3> QED BY <2>1, <2>4, <3>1, <3>2, <3>3 DEF ChangesObject
  <2>5. CASE UploadLogo(e) \/ RemoveLogo(e)
    BY <2>4, <2>5 DEF UploadLogo, RemoveLogo
  <2>6. ASSUME edit[e].pc \in {"stored", "loaded"},
               edit'[e].pc \in {"cleanup", "done"},
               edit'[e].seen.rev \in {0, edit[e].seen.rev},
               \A f \in Edits \ {e} : edit'[f] = edit[f],
               doc'.rev <= Cardinality(Over) + 1,
               doc'.content <= Cardinality(Over) + 1
        PROVE  Counted'
    <3>1. e \notin Over /\ Over' = Over \cup {e}
      BY <2>6 DEF Over
    <3>2. Cardinality(Over') = Cardinality(Over) + 1
      BY <3>1, OneMoreOver
    <3> QED BY <1>1, <2>6, <3>2 DEF Counted
  <2>7. CASE LogoChangeStops(e)
    <3>1. edit'[e] = Edited /\ \A f \in Edits \ {e} : edit'[f] = edit[f]
      BY <2>7 DEF LogoChangeStops, TypeOK
    <3>2. /\ doc'.rev <= Cardinality(Over) + 1
          /\ doc'.content <= Cardinality(Over) + 1
      BY <1>1, <2>7 DEF LogoChangeStops, Counted
    <3> QED BY <2>6, <2>7, <3>1, <3>2 DEF LogoChangeStops, Edited, NoEdit, NewDoc
  <2>8. CASE EditCommit(e)
    <3> DEFINE seen == edit[e].seen
               wanted == [content |-> ContentAfter(e), rev |-> seen.rev + 1,
                          path |-> Null, job |-> NoJob]
    <3>1. edit[e].pc = "loaded" /\ Flush(seen, wanted) /\ Written(e)
      BY <2>8 DEF EditCommit
    <3>2. /\ seen \in Doc /\ wanted \in Doc
          /\ wanted.rev <= Cardinality(Over) + 1
          /\ wanted.content <= Cardinality(Over) + 1
      BY <3>1, EditWrites
    <3>3. doc'.rev \in {doc.rev, wanted.rev} /\ doc'.content \in {doc.content, wanted.content}
      BY <3>1, <3>2, Flushed
    <3>4. /\ doc'.rev <= Cardinality(Over) + 1
          /\ doc'.content <= Cardinality(Over) + 1
      BY <1>1, <3>2, <3>3 DEF Counted
    <3>5. \/ edit'[e] = Edited
          \/ edit'[e] = [edit[e] EXCEPT !.pc = "cleanup", !.writes = "fields"]
      BY <3>1 DEF Written, TypeOK
    <3>6. /\ edit'[e].pc \in {"cleanup", "done"}
          /\ edit'[e].seen.rev \in {0, edit[e].seen.rev}
      <4>1. CASE edit'[e] = Edited
        BY <4>1 DEF Edited, NoEdit, NewDoc
      <4>2. CASE edit'[e] = [edit[e] EXCEPT !.pc = "cleanup", !.writes = "fields"]
        <5>1. edit[e] \in EditRequest
          BY DEF TypeOK
        <5> QED BY <4>2, <5>1 DEF EditRequest
      <4> QED BY <3>5, <4>1, <4>2
    <3>7. \A f \in Edits \ {e} : edit'[f] = edit[f]
      BY <3>1 DEF Written, TypeOK
    <3> QED BY <2>6, <3>1, <3>4, <3>6, <3>7
  <2>9. CASE EditCleanup(e)
    <3>1. edit'[e] = Edited /\ \A f \in Edits \ {e} : edit'[f] = edit[f]
      BY <2>9 DEF EditCleanup, TypeOK
    <3>2. Over' = Over
      BY <2>9, <3>1 DEF EditCleanup, Over, Edited, NoEdit
    <3> QED BY <2>1, <2>9, <3>1, <3>2 DEF EditCleanup, Edited, NoEdit, NewDoc
  <2> QED BY <1>3, <2>3, <2>5, <2>7, <2>8, <2>9 DEF Edit
<1>4. CASE UNCHANGED vars
  BY <1>2, <1>4 DEF vars
<1> QED BY <1>2, <1>3, <1>4, OnlyEditsBump DEF Next

\* No row and no delivery without a request that is done, and nothing rendered
\* before the render.
LEMMA BegunStep ==
  ASSUME TypeOK, [Next]_vars, \A j \in PdfJobs : Begun(j)
  PROVE  \A j \in PdfJobs : Begun(j)'
<1> SUFFICES ASSUME NEW k \in PdfJobs PROVE Begun(k)'
  OBVIOUS
<1>1. ASSUME UNCHANGED <<job, starter, worker>>
      PROVE  Begun(k)'
  BY <1>1 DEF Begun
<1>2. ASSUME NEW j \in PdfJobs, j # k, Start(j) \/ Work(j)
      PROVE  Begun(k)'
  <2>1. job'[k] = job[k] /\ starter'[k] = starter[k] /\ worker'[k] = worker[k]
    BY <1>2 DEF TypeOK, Start, StartLoad, StartCommit, StartRefused, Work, Begin, Redeliver,
       Snapshot, ReadContext, AttachLogo, Upload, RenderFails, PersistLoad, PersistWrite,
       Cleanup, Discard, Settle, HandlerRaises, Crash, Settles
  <2> QED BY <2>1 DEF Begun
<1>3. CASE Start(k)
  <2>1. CASE StartLoad(k)
    BY <2>1 DEF StartLoad, Begun, TypeOK
  <2>2. CASE StartCommit(k) \/ StartRefused(k)
    <3>1. starter'[k].pc = "done" /\ UNCHANGED worker
      BY <2>2 DEF StartCommit, StartRefused, TypeOK, Done, NoRequest
    <3> QED BY <3>1 DEF Begun
  <2> QED BY <1>3, <2>1, <2>2 DEF Start
<1>4. CASE Work(k)
  <2>1. UNCHANGED starter
    BY <1>4 DEF Work, Begin, Redeliver, Snapshot, ReadContext, AttachLogo, Upload,
       RenderFails, PersistLoad, PersistWrite, Cleanup, Discard, Settle, HandlerRaises, Crash
  <2>2. starter[k].pc = "done"
    BY <1>4 DEF Begun, Work, Begin, Redeliver, Snapshot, ReadContext, AttachLogo, Upload,
       RenderFails, PersistLoad, PersistWrite, Cleanup, Discard, Settle, HandlerRaises, Crash
  <2>3. worker[k] \in Worker
    BY DEF TypeOK
  <2>4. worker'[k].pc \in {"snapshot", "context"} => worker'[k].pdf = Absent
    <3>1. CASE Begin(k)
      BY <3>1 DEF Begin, TypeOK, NoWork
    <3>2. CASE Redeliver(k)
      BY <3>2 DEF Redeliver, Begun
    <3>3. ASSUME NEW status, Settles(k, status)
          PROVE  worker'[k].pc = "idle"
      BY <3>3 DEF Settles, TypeOK, NoWork
    <3>4. CASE Snapshot(k)
      <4>1. CASE Settles(k, "terminal")
        BY <3>3, <4>1
      <4>2. CASE worker' = [worker EXCEPT ![k].pc = IF doc.path = Null THEN "context"
                                                                       ELSE "settle"]
        <5>1. worker'[k].pdf = worker[k].pdf
          BY <2>3, <4>2 DEF TypeOK, Worker
        <5> QED BY <3>4, <5>1 DEF Snapshot, Begun
      <4> QED BY <3>4, <4>1, <4>2 DEF Snapshot
    <3>5. CASE ReadContext(k) \/ AttachLogo(k) \/ Upload(k)
      <4>1. worker'[k].pc \in {"logo", "upload", "persist"}
        <5>1. CASE ReadContext(k)
          BY <2>3, <5>1 DEF ReadContext, TypeOK, Worker
        <5>2. CASE AttachLogo(k)
          BY <2>3, <5>2 DEF AttachLogo, TypeOK, Worker
        <5>3. CASE Upload(k)
          BY <2>3, <5>3 DEF Upload, TypeOK, Worker
        <5> QED BY <3>5, <5>1, <5>2, <5>3
      <4> QED BY <4>1
    <3>6. CASE PersistLoad(k) \/ PersistWrite(k)
      <4>1. worker'[k].pc \in {"idle", "write", "discard", "cleanup"}
        <5>1. CASE PersistLoad(k)
          BY <5>1 DEF PersistLoad, TypeOK, NoWork
        <5>2. CASE PersistWrite(k)
          BY <5>2 DEF PersistWrite, TypeOK, NoWork
        <5> QED BY <3>6, <5>1, <5>2
      <4> QED BY <4>1
    <3>7. CASE Cleanup(k) \/ Crash(k)
      BY <3>7 DEF Cleanup, Crash, TypeOK, NoWork
    <3>8. CASE RenderFails(k) \/ Discard(k) \/ Settle(k) \/ HandlerRaises(k)
      BY <3>3, <3>8 DEF RenderFails, Discard, Settle, HandlerRaises
    <3> QED BY <1>4, <3>1, <3>2, <3>4, <3>5, <3>6, <3>7, <3>8 DEF Work
  <2> QED BY <2>1, <2>2, <2>4 DEF Begun
<1>5. ASSUME NEW e \in Edits, Edit(e)
      PROVE  UNCHANGED <<job, starter, worker>>
  BY <1>5 DEF Edit, EditLoad, CustomerLoad, ProfileLoad, UploadLogo, RemoveLogo, LogoLoad,
     LogoChangeStops, EditCommit, EditCleanup, Loads, ChangesObject
<1>6. CASE DownloadLoad \/ DownloadFetch \/ DownloadClears \/ StorageLoses
  BY <1>1, <1>6 DEF DownloadLoad, DownloadFetch, DownloadClears, StorageLoses
<1>7. CASE UNCHANGED vars
  BY <1>1, <1>7 DEF vars
<1> QED BY <1>1, <1>2, <1>3, <1>4, <1>5, <1>6, <1>7 DEF Next

\* The types, the counts and the order of a job's steps hold together.
LEMMA ShapeStep ==
  ASSUME Shape, [Next]_vars
  PROVE  Shape'
<1>1. TypeOK'
  <2>1. CASE UNCHANGED vars
    BY <2>1 DEF vars, Shape, TypeOK
  <2> QED BY <2>1, TypeStart, TypeWork, TypeEdit, TypeDownload DEF Next, Shape
<1> QED BY <1>1, CountedStep, BegunStep DEF Shape

-------------------------------------------------------------------------------
(* While no row was overlapped *)

\* Nothing that the invariant speaks of is negative, and a row points to an
\* object only of a revision.
LEMMA Ranges ==
  ASSUME TypeOK
  PROVE  /\ doc \in Doc
         /\ doc.rev \in Revisions
         /\ doc.content \in Contents
         /\ Revisions \subseteq Nat /\ Contents \subseteq Nat
         /\ Null \notin Revisions /\ Null \notin Contents
         /\ \A j \in PdfJobs : /\ job[j].rev \in Revisions
                                /\ starter[j].seen \in Doc
                                /\ worker[j].seen \in Doc
                                /\ job[j] \in PdfJob
                                /\ worker[j] \in Worker
                                /\ worker[j].pdf \in PDF
         /\ \A e \in Edits : edit[e].seen \in Doc
         /\ download.seen \in Doc
<1>1. /\ Revisions \subseteq Nat /\ Contents \subseteq Nat
      /\ Null \notin Revisions /\ Null \notin Contents
  BY ArtifactAssumption, FS_CardinalityType DEF Revisions, Contents, Null
<1> QED BY <1>1 DEF TypeOK, Doc, PdfJob, Request, Worker, EditRequest

\* What holds of the logo needs no more than that nothing it speaks of changes.
LEMMA LogoKept ==
  ASSUME LogoInv, doc'.rev = doc.rev, storage'[doc.rev] = storage[doc.rev],
         UNCHANGED <<logo, torn, edit>>,
         \A j \in PdfJobs : job'[j].rev = doc.rev /\ worker'[j].pc \in {"logo", "upload"} =>
           job[j].rev = doc.rev /\ worker'[j] = worker[j]
  PROVE  LogoInv'
<1>1. (LogoChanging <=> LogoChanging') /\ Shown' = Shown
  BY DEF LogoChanging, Shown
<1> QED BY <1>1 DEF LogoInv

\* Requests that start a render.
LEMMA CleanStart ==
  ASSUME Shape, ~overlapped', NEW j \in PdfJobs, Start(j), ~overlapped => CleanInv
  PROVE  CleanInv'
<1> DEFINE seen == starter[j].seen
<1>1. /\ ~overlapped
      /\ doc'.rev = doc.rev /\ doc'.content = doc.content /\ doc'.path = doc.path
      /\ \/ doc'.job = doc.job
         \/ doc'.job = NoJob
         \/ /\ doc'.job = j /\ job'[j].rev = doc.rev
            /\ starter'[j].pc = "done"
      /\ UNCHANGED <<storage, worker, edit, logo, torn, download, lost>>
      /\ starter[j].pc # "done"
      /\ starter'[j].pc = "loaded" => starter'[j].seen = doc
      /\ \/ job'[j].rev = job[j].rev
         \/ starter[j].pc = "loaded" /\ job'[j].rev = seen.rev
      /\ \A k \in PdfJobs \ {j} : job'[k] = job[k] /\ starter'[k] = starter[k]
  <2>1. CASE StartLoad(j)
    BY <2>1 DEF StartLoad, Shape, TypeOK, logoVars
  <2>2. ASSUME NEW status, NEW to \in {j, NoJob}, starter[j].pc = "loaded",
               job' = [job EXCEPT ![j].status = status, ![j].rev = seen.rev],
               Flush(seen, IF seen.path = Null THEN [seen EXCEPT !.job = to] ELSE seen),
               starter' = [starter EXCEPT ![j] = Done],
               UNCHANGED <<storage, worker, edit, logoVars, download, lost>>
        PROVE  <1>1!:
    <3> DEFINE wanted == IF seen.path = Null THEN [seen EXCEPT !.job = to] ELSE seen
    <3>1. seen \in Doc
      BY Ranges DEF Shape
    <3>2. /\ wanted \in Doc
          /\ wanted.content = seen.content
          /\ wanted.rev = seen.rev
          /\ wanted.path = seen.path
          /\ wanted.job \in {seen.job, to}
      BY <3>1 DEF Doc
    <3>3. Flush(seen, wanted)
      BY <2>2
    <3>4. starter'[j].pc = "done" /\ job'[j].rev = seen.rev
      BY <2>2 DEF Shape, TypeOK, PdfJob, Done, NoRequest
    <3>5. \A k \in PdfJobs \ {j} : job'[k] = job[k] /\ starter'[k] = starter[k]
      BY <2>2 DEF Shape, TypeOK
    <3> HIDE DEF wanted, seen
    <3>6. ~overlapped /\ ((wanted = seen /\ doc' = doc) \/ (seen = doc /\ doc' = wanted))
      <4>1. TypeOK
        BY DEF Shape
      <4> QED BY <3>1, <3>2, <3>3, <4>1, Flushed
    <3> QED BY <2>2, <3>2, <3>4, <3>5, <3>6 DEF logoVars
  <2>3. CASE StartCommit(j) \/ StartRefused(j)
    BY <2>2, <2>3 DEF StartCommit, StartRefused
  <2> QED BY <2>1, <2>3 DEF Start
<1> HIDE DEF seen
<1>2. CleanInv
  BY <1>1
<1>3. worker[j].pc = "idle"
  BY <1>1 DEF Shape, Begun
<1>4. /\ SeenInv(doc)
      /\ starter[j].pc = "loaded" => seen.rev <= doc.rev
  BY <1>2, Ranges DEF CleanInv, RowInv, SeenInv, WorkInv, Shape, seen
<1>5. RowInv'
  <2>1. doc.job # NoJob => doc.job \in PdfJobs \ {j}
    BY <1>1, <1>2, Ranges DEF CleanInv, RowInv, Shape, Doc
  <2>2. doc'.job # NoJob => job'[doc'.job].rev = doc.rev /\ starter'[doc'.job].pc = "done"
    BY <1>1, <1>2, <2>1 DEF CleanInv, RowInv
  <2> QED BY <1>1, <1>2, <2>2 DEF CleanInv, RowInv, Published, Stored
<1>6. StoreInv'
  BY <1>1, <1>2 DEF CleanInv, StoreInv
<1>7. ASSUME NEW k \in PdfJobs
      PROVE  WorkInv(k)'
  <2>1. WorkInv(k)
    BY <1>2 DEF CleanInv
  <2>2. CASE k = j
    BY <1>1, <1>3, <1>4, <2>1, <2>2, Ranges DEF WorkInv, RenderInv, SeenInv, Shape
  <2>3. CASE k # j
    BY <1>1, <2>1, <2>3 DEF WorkInv, RenderInv, SeenInv, Stored
  <2> QED BY <2>2, <2>3
<1>8. ASSUME NEW e \in Edits
      PROVE  EditInv(e)'
  BY <1>1, <1>2 DEF CleanInv, EditInv
<1>9. DownloadInv'
  BY <1>1, <1>2 DEF CleanInv, DownloadInv, SeenInv, Stored
<1>10. LogoInv'
  BY <1>1, <1>2, <1>3, LogoKept DEF CleanInv
<1> QED BY <1>5, <1>6, <1>7, <1>8, <1>9, <1>10 DEF CleanInv

\* A step that leaves the revision alone disturbs only what it touches.
LEMMA CleanKept ==
  ASSUME CleanInv, UNCHANGED starter,
         doc'.rev = doc.rev, doc'.content = doc.content,
         doc.path = doc.rev => doc'.path = doc.rev \/ lost',
         lost => lost', Stored => Stored',
         \A k \in PdfJobs : job'[k].rev = job[k].rev,
         \A k \in PdfJobs : worker'[k] = worker[k] \/ WorkInv(k)',
         \A e \in Edits : edit'[e] = edit[e] \/ EditInv(e)',
         UNCHANGED download \/ DownloadInv',
         RowInv', StoreInv', LogoInv'
  PROVE  CleanInv'
<1>1. ASSUME NEW k \in PdfJobs
      PROVE  WorkInv(k)'
  BY <1>1 DEF CleanInv, WorkInv, RenderInv, SeenInv
<1>2. ASSUME NEW e \in Edits
      PROVE  EditInv(e)'
  BY <1>2 DEF CleanInv, EditInv
<1>3. DownloadInv'
  BY DEF CleanInv, DownloadInv, SeenInv
<1> QED BY <1>1, <1>2, <1>3 DEF CleanInv

\* The row is as good as it was if it is the same and so are the revisions.
LEMMA RowKept ==
  ASSUME TypeOK, RowInv, UNCHANGED <<doc, starter>>, Stored => Stored',
         \A k \in PdfJobs : job'[k].rev = job[k].rev
  PROVE  RowInv'
<1>1. doc.job \in PdfJobs \cup {NoJob}
  BY DEF TypeOK, Doc
<1> QED BY <1>1 DEF RowInv, Published

\* A step of one render that writes neither the row nor the revision's object.
LEMMA CleanRender ==
  ASSUME Shape, CleanInv, NEW j \in PdfJobs,
         UNCHANGED <<doc, starter, edit, logo, torn, download, lost>>,
         \A k \in PdfJobs : job'[k].rev = job[k].rev,
         \A k \in PdfJobs \ {j} : worker'[k] = worker[k],
         storage'[doc.rev] = storage[doc.rev],
         \A r \in Revisions : storage'[r] # Absent => r <= doc.rev,
         WorkInv(j)',
         \/ worker'[j].pc \notin {"logo", "upload"}
         \/ LogoInv'
  PROVE  CleanInv'
<1>1. Stored => Stored'
  BY DEF Stored
<1>2. RowInv'
  BY <1>1, RowKept DEF CleanInv, Shape
<1>3. StoreInv'
  BY DEF CleanInv, StoreInv
<1>4. LogoInv'
  <2>1. CASE worker'[j].pc \notin {"logo", "upload"}
    BY <2>1, LogoKept DEF CleanInv
  <2> QED BY <2>1
<1> QED BY <1>1, <1>2, <1>3, <1>4, CleanKept

\* What a settled render leaves.
LEMMA CleanSettles ==
  ASSUME Shape, CleanInv, NEW j \in PdfJobs,
         worker' = [worker EXCEPT ![j] = NoWork],
         \A k \in PdfJobs : job'[k].rev = job[k].rev,
         UNCHANGED <<doc, starter, edit, logo, torn, download, lost>>,
         storage'[doc.rev] = storage[doc.rev],
         \A r \in Revisions : storage'[r] # Absent => r <= doc.rev
  PROVE  CleanInv'
<1>1. worker'[j] = NoWork /\ \A k \in PdfJobs \ {j} : worker'[k] = worker[k]
  BY DEF Shape, TypeOK
<1>2. worker'[j].pc = "idle"
  BY <1>1 DEF NoWork
<1>3. WorkInv(j)'
  BY <1>2 DEF CleanInv, WorkInv, RenderInv, SeenInv
<1> QED BY <1>1, <1>2, <1>3, CleanRender

\* Settling changes no revision.
LEMMA SettlesKeepsRevisions ==
  ASSUME TypeOK, NEW j \in PdfJobs, NEW status, Settles(j, status)
  PROVE  \A k \in PdfJobs : job'[k].rev = job[k].rev
BY DEF Settles, TypeOK, PdfJob

\* An object of another revision is deleted.
LEMMA DeletesOther ==
  ASSUME TypeOK, StoreInv, NEW path, path # doc.rev, TryDelete(path)
  PROVE  /\ storage'[doc.rev] = storage[doc.rev]
         /\ \A r \in Revisions : storage'[r] # Absent => r <= doc.rev
BY Ranges DEF TryDelete, TypeOK, StoreInv

\* Renders.
LEMMA CleanWork ==
  ASSUME Shape, ~overlapped', NEW j \in PdfJobs, Work(j), ~overlapped => CleanInv
  PROVE  CleanInv'
<1> USE DEF logoVars
<1>t. TypeOK
  BY DEF Shape
<1>w. worker[j] \in Worker /\ job[j] \in PdfJob
  BY <1>t, Ranges
<1>s. ASSUME CleanInv, UNCHANGED storage
      PROVE  \A r \in Revisions : storage'[r] # Absent => r <= doc.rev
  BY <1>s DEF CleanInv, StoreInv
<1>1. CASE Begin(j)
  <2>1. CleanInv /\ WorkInv(j)
    BY <1>1 DEF Begin, CleanInv
  <2>2. worker'[j].pc = "snapshot" /\ \A k \in PdfJobs \ {j} : worker'[k] = worker[k]
    BY <1>1, <1>t DEF Begin, TypeOK, NoWork
  <2>3. \A k \in PdfJobs : job'[k].rev = job[k].rev
    BY <1>1, <1>t DEF Begin, TypeOK, PdfJob
  <2>4. UNCHANGED <<doc, starter, storage, edit, logo, torn, download, lost>>
    BY <1>1 DEF Begin
  <2>5. WorkInv(j)'
    BY <2>1, <2>2, <2>3, <2>4 DEF WorkInv, RenderInv, SeenInv
  <2> QED BY <1>s, <2>1, <2>2, <2>3, <2>4, <2>5, CleanRender
<1>2. CASE Redeliver(j)
  <2>1. CleanInv /\ WorkInv(j)
    BY <1>2 DEF Redeliver, CleanInv
  <2>2. UNCHANGED <<doc, starter, storage, worker, edit, logo, torn, download, lost>>
    BY <1>2 DEF Redeliver
  <2>3. \A k \in PdfJobs : job'[k].rev = job[k].rev
    BY <1>2, <1>t DEF Redeliver, TypeOK, PdfJob
  <2>4. worker[j].pc = "idle"
    BY <1>2 DEF Redeliver
  <2>5. WorkInv(j)'
    BY <2>1, <2>2, <2>3, <2>4 DEF WorkInv, RenderInv, SeenInv
  <2> QED BY <1>s, <2>1, <2>2, <2>3, <2>4, <2>5, CleanRender
<1>3. CASE Snapshot(j)
  <2>1. CleanInv /\ WorkInv(j) /\ RowInv
    BY <1>3 DEF Snapshot, CleanInv
  <2>2. UNCHANGED <<doc, starter, storage, edit, logo, torn, download, lost>>
    BY <1>3 DEF Snapshot
  <2>3. CASE Settles(j, "terminal")
    BY <1>s, <1>t, <2>1, <2>2, <2>3, SettlesKeepsRevisions, CleanSettles DEF Settles
  <2>4. CASE /\ worker' = [worker EXCEPT ![j].pc = IF doc.path = Null THEN "context"
                                                                      ELSE "settle"]
             /\ UNCHANGED job
    <3>1. /\ worker'[j].pc \in {"context", "settle"}
          /\ worker'[j].pc = "settle" => doc.path # Null
          /\ \A k \in PdfJobs \ {j} : worker'[k] = worker[k]
      BY <1>t, <1>w, <2>4 DEF TypeOK, Worker
    <3>2. WorkInv(j)'
      BY <2>1, <2>2, <2>4, <3>1 DEF WorkInv, RenderInv, SeenInv, RowInv
    <3> QED BY <1>s, <2>1, <2>2, <2>4, <3>1, <3>2, CleanRender
  <2> QED BY <1>3, <2>3, <2>4 DEF Snapshot
<1>4. CASE ReadContext(j)
  <2>1. CleanInv /\ WorkInv(j) /\ LogoInv
    BY <1>4 DEF ReadContext, CleanInv
  <2>2. UNCHANGED <<doc, starter, storage, job, edit, logo, torn, download, lost>>
    BY <1>4 DEF ReadContext
  <2>3. worker[j].pc = "context" /\ worker[j].pdf = Absent
    BY <1>4 DEF ReadContext, Shape, Begun
  <2>4. /\ worker'[j].pc = IF logo.path THEN "logo" ELSE "upload"
        /\ worker'[j].pdf.content = doc.content
        /\ worker'[j].pdf.logo = NoLogo
        /\ \A k \in PdfJobs \ {j} : worker'[k] = worker[k]
    BY <1>4, <1>t, <1>w, <2>3 DEF ReadContext, TypeOK, Worker, PDF, Absent
  <2>5. WorkInv(j)'
    BY <2>1, <2>2, <2>4 DEF WorkInv, RenderInv, SeenInv
  <2>6. LogoInv'
    BY <2>1, <2>2, <2>4 DEF LogoInv, LogoChanging, Shown
  <2> QED BY <1>s, <2>1, <2>2, <2>4, <2>5, <2>6, CleanRender
<1>5. CASE AttachLogo(j)
  <2>1. CleanInv /\ WorkInv(j) /\ LogoInv
    BY <1>5 DEF AttachLogo, CleanInv
  <2>2. UNCHANGED <<doc, starter, storage, job, edit, logo, torn, download, lost>>
    BY <1>5 DEF AttachLogo
  <2>3. worker[j].pc = "logo"
    BY <1>5 DEF AttachLogo
  <2>4. /\ worker'[j].pc = "upload"
        /\ worker'[j].pdf.content = worker[j].pdf.content
        /\ worker'[j].pdf.logo \in {logo.object, NoLogo}
        /\ \A k \in PdfJobs \ {j} : worker'[k] = worker[k]
    <3>1. PICK shown \in {logo.object, NoLogo} :
            worker' = [worker EXCEPT ![j].pc = "upload", ![j].pdf.logo = shown]
      BY <1>5 DEF AttachLogo
    <3> QED BY <1>t, <1>w, <3>1 DEF TypeOK, Worker, PDF
  <2>5. WorkInv(j)'
    BY <2>1, <2>2, <2>3, <2>4 DEF WorkInv, RenderInv, SeenInv
  <2>6. LogoInv'
    BY <2>1, <2>2, <2>3, <2>4 DEF LogoInv, LogoChanging, Shown
  <2> QED BY <1>s, <2>1, <2>2, <2>4, <2>5, <2>6, CleanRender
<1>6. CASE Upload(j)
  <2>1. CleanInv /\ WorkInv(j) /\ LogoInv /\ StoreInv /\ RowInv
    BY <1>6 DEF Upload, CleanInv
  <2>2. UNCHANGED <<doc, starter, job, edit, logo, torn, download, lost>>
    BY <1>6 DEF Upload
  <2>3. worker[j].pc = "upload"
    BY <1>6 DEF Upload
  <2>4. /\ worker'[j].pc = "persist"
        /\ \A k \in PdfJobs \ {j} : worker'[k] = worker[k]
    BY <1>6, <1>t, <1>w DEF Upload, TypeOK, Worker
  <2>5. \A r \in Revisions :
          storage'[r] = IF r = job[j].rev THEN worker[j].pdf ELSE storage[r]
    BY <1>6, <1>t DEF Upload, TypeOK
  <2>6. doc.rev = job[j].rev => worker[j].pdf.content = doc.content /\ worker[j].pdf # Absent
    BY <1>t, <2>1, <2>3, Ranges DEF WorkInv, RenderInv, Absent
  <2>7. /\ Stored => Stored'
        /\ job[j].rev = doc.rev => Stored'
    BY <1>t, <2>2, <2>5, <2>6, Ranges DEF Stored
  <2>8. StoreInv'
    BY <1>t, <2>1, <2>2, <2>5, <2>6, Ranges DEF StoreInv, WorkInv
  <2>9. RowInv'
    BY <1>t, <2>1, <2>2, <2>7, RowKept
  <2>10. WorkInv(j)'
    BY <2>1, <2>2, <2>3, <2>4, <2>7 DEF WorkInv, RenderInv, SeenInv
  <2>11. LogoInv'
    BY <1>t, <2>1, <2>2, <2>3, <2>4, <2>5, Ranges DEF LogoInv, LogoChanging, Shown
  <2> QED BY <2>1, <2>2, <2>4, <2>7, <2>8, <2>9, <2>10, <2>11, CleanKept
<1>7. CASE RenderFails(j) \/ Settle(j) \/ HandlerRaises(j)
  <2>1. CleanInv
    BY <1>7 DEF RenderFails, Settle, HandlerRaises
  <2>2. UNCHANGED <<doc, starter, storage, edit, logo, torn, download, lost>>
    BY <1>7 DEF RenderFails, Settle, HandlerRaises
  <2>3. ASSUME NEW status, Settles(j, status)
        PROVE  CleanInv'
    BY <1>s, <1>t, <2>1, <2>2, <2>3, SettlesKeepsRevisions, CleanSettles DEF Settles
  <2> QED BY <1>7, <2>3 DEF RenderFails, Settle, HandlerRaises
<1>8. CASE PersistLoad(j)
  <2>1. CleanInv /\ WorkInv(j) /\ RowInv
    BY <1>8 DEF PersistLoad, CleanInv
  <2>2. UNCHANGED <<doc, starter, storage, job, edit, logo, torn, download, lost>>
    BY <1>8 DEF PersistLoad
  <2>3. /\ worker[j].pc = "persist"
        /\ \A k \in PdfJobs \ {j} : worker'[k] = worker[k]
    BY <1>8, <1>t DEF PersistLoad, TypeOK
  <2>4. \/ /\ doc.rev = job[j].rev
           /\ worker'[j].pc = "write" /\ worker'[j].seen = doc
        \/ /\ doc.rev # job[j].rev
           /\ worker'[j].pc = "discard"
    BY <1>8, <1>t DEF PersistLoad, TypeOK, NoWork
  <2>5. WorkInv(j)'
    BY <1>t, <2>1, <2>2, <2>3, <2>4, Ranges
       DEF WorkInv, RenderInv, SeenInv, RowInv, Stored
  <2> QED BY <1>s, <2>1, <2>2, <2>3, <2>4, <2>5, CleanRender
<1>9. CASE PersistWrite(j)
  <2> DEFINE seen == worker[j].seen
             wanted == [seen EXCEPT !.path = job[j].rev, !.job = IF @ = j THEN NoJob ELSE @]
  <2>1. seen \in Doc /\ job[j].rev \in Revisions
    BY <1>t, Ranges
  <2>2. /\ wanted \in Doc
        /\ wanted.content = seen.content
        /\ wanted.rev = seen.rev
        /\ wanted.path = job[j].rev
        /\ wanted.job \in {seen.job, NoJob}
    BY <2>1 DEF Doc
  <2>3. Flush(seen, wanted) /\ worker[j].pc = "write"
    BY <1>9 DEF PersistWrite
  <2> HIDE DEF wanted
  <2>4. ~overlapped /\ ((wanted = seen /\ doc' = doc) \/ (seen = doc /\ doc' = wanted))
    BY <1>t, <2>1, <2>2, <2>3, Flushed
  <2>5. CleanInv /\ WorkInv(j) /\ RowInv
    BY <2>4 DEF CleanInv
  <2>6. UNCHANGED <<starter, storage, edit, logo, torn, download, lost>>
    BY <1>9 DEF PersistWrite
  <2>7. seen.path \in {Null, job[j].rev} /\ seen.rev = job[j].rev
    BY <2>3, <2>5 DEF WorkInv, SeenInv
  <2>8. worker'[j].pc = "idle" /\ \A k \in PdfJobs \ {j} : worker'[k] = worker[k]
    <3>1. ~Superseded(j)
      BY <2>7 DEF Superseded
    <3> QED BY <1>9, <1>t, <3>1 DEF PersistWrite, TypeOK, NoWork
  <2>9. \A k \in PdfJobs : job'[k].rev = job[k].rev
    BY <1>9, <1>t DEF PersistWrite, TypeOK, PdfJob
  <2>10. /\ doc'.rev = doc.rev /\ doc'.content = doc.content
         /\ doc'.path = doc.path \/ (doc'.path = doc.rev /\ job[j].rev = doc.rev)
         /\ doc'.job \in {doc.job, NoJob}
    BY <2>2, <2>4, <2>7
  <2>11. Stored' = Stored
    BY <2>6, <2>10 DEF Stored
  <2>12. job[j].rev = doc.rev => Stored
    BY <2>3, <2>5 DEF WorkInv, RenderInv
  <2>13. RowInv'
    <3>1. doc.job \in PdfJobs \cup {NoJob}
      BY <1>t DEF TypeOK, Doc
    <3>2. Published' => Stored'
      BY <2>5, <2>10, <2>11, <2>12 DEF RowInv, Published
    <3> QED BY <2>5, <2>6, <2>9, <2>10, <3>1, <3>2 DEF RowInv
  <2>14. StoreInv'
    BY <2>5, <2>6, <2>10 DEF CleanInv, StoreInv
  <2>15. WorkInv(j)'
    BY <2>5, <2>6, <2>8, <2>9, <2>10 DEF WorkInv, RenderInv, SeenInv
  <2>16. LogoInv'
    BY <2>5, <2>6, <2>8, <2>9, <2>10, LogoKept DEF CleanInv
  <2>17. doc.path = doc.rev => doc'.path = doc.rev
    BY <2>10
  <2> QED BY <2>5, <2>6, <2>8, <2>9, <2>10, <2>11, <2>13, <2>14, <2>15, <2>16, <2>17, CleanKept
<1>10. CASE Cleanup(j)
  BY <1>10 DEF Cleanup, CleanInv, WorkInv
<1>11. CASE Discard(j)
  <2>1. CleanInv /\ StoreInv /\ WorkInv(j)
    BY <1>11 DEF Discard, CleanInv
  <2>2. UNCHANGED <<doc, starter, edit, logo, torn, download, lost>>
    BY <1>11 DEF Discard
  <2>3. job[j].rev # doc.rev
    BY <1>11, <1>t, <2>1, Ranges DEF Discard, WorkInv
  <2>4. TryDelete(job[j].rev) /\ Settles(j, "terminal")
    BY <1>11 DEF Discard
  <2>5. /\ storage'[doc.rev] = storage[doc.rev]
        /\ \A r \in Revisions : storage'[r] # Absent => r <= doc.rev
    BY <1>t, <2>1, <2>3, <2>4, DeletesOther
  <2> QED BY <1>t, <2>1, <2>2, <2>4, <2>5, SettlesKeepsRevisions, CleanSettles DEF Settles
<1>12. CASE Crash(j)
  <2>1. CleanInv
    BY <1>12 DEF Crash
  <2> QED BY <1>12, <1>s, <2>1, CleanSettles DEF Crash
<1> QED BY <1>1, <1>2, <1>3, <1>4, <1>5, <1>6, <1>7, <1>8, <1>9, <1>10, <1>11, <1>12 DEF Work

\* Edits.  Only a commit, which makes a revision that nothing was rendered for,
\* settles what a logo change unsettled.
LEMMA CleanEdit ==
  ASSUME Shape, ~overlapped', NEW e \in Edits, Edit(e), ~overlapped => CleanInv
  PROVE  CleanInv'
<1> USE DEF logoVars
<1>t. TypeOK
  BY DEF Shape
<1>1. ASSUME CleanInv, UNCHANGED <<doc, storage, job, starter, worker, download, lost>>,
             EditInv(e)', \A f \in Edits \ {e} : edit'[f] = edit[f], LogoInv'
      PROVE  CleanInv'
  <2>1. RowInv' /\ StoreInv' /\ Stored' = Stored
    BY <1>1 DEF CleanInv, RowInv, StoreInv, Stored, Published
  <2> QED BY <1>1, <2>1, CleanKept
<1>2. ASSUME NEW what, Loads(e, what), edit[e].pc = "idle" \/ what = edit[e].writes,
             edit[e].pc \in {"idle", "stored"}, what \notin LogoChanges \/ edit[e].pc = "stored"
      PROVE  CleanInv'
  <2>1. /\ edit'[e].pc = "loaded" /\ edit'[e].writes = what
        /\ \A f \in Edits \ {e} : edit'[f] = edit[f]
    BY <1>2, <1>t DEF Loads, TypeOK
  <2>2. CleanInv /\ LogoInv
    BY <1>2 DEF Loads, CleanInv
  <2>3. UNCHANGED <<doc, storage, logo, torn, job, starter, worker, download, lost>>
    BY <1>2 DEF Loads
  <2>4. LogoChanging' <=> LogoChanging
    BY <1>2, <2>1 DEF LogoChanging
  <2>5. LogoInv'
    BY <2>2, <2>3, <2>4 DEF LogoInv, Shown
  <2>6. EditInv(e)'
    BY <2>1 DEF EditInv
  <2> QED BY <1>1, <2>1, <2>2, <2>3, <2>5, <2>6
<1>3. CASE EditLoad(e) \/ CustomerLoad(e) \/ ProfileLoad(e)
  BY <1>2, <1>3 DEF EditLoad, CustomerLoad, ProfileLoad, LogoChanges
<1>4. CASE LogoLoad(e)
  BY <1>2, <1>4 DEF LogoLoad
<1>5. ASSUME NEW what \in LogoChanges, NEW object, ChangesObject(e, what, object)
      PROVE  CleanInv'
  <2>1. /\ edit'[e].pc = "stored" /\ edit'[e].writes = what
        /\ \A f \in Edits \ {e} : edit'[f] = edit[f]
    BY <1>5, <1>t DEF ChangesObject, TypeOK, EditRequest
  <2>2. CleanInv /\ UNCHANGED <<doc, storage, job, starter, worker, download, lost>>
    BY <1>5 DEF ChangesObject
  <2>3. LogoInv' /\ EditInv(e)'
    BY <2>1 DEF LogoInv, LogoChanging, EditInv
  <2> QED BY <1>1, <2>1, <2>2, <2>3
<1>6. CASE UploadLogo(e) \/ RemoveLogo(e)
  BY <1>5, <1>6 DEF UploadLogo, RemoveLogo, LogoChanges
<1>7. CASE LogoChangeStops(e)
  <2>1. /\ edit'[e].pc = "done"
        /\ \A f \in Edits \ {e} : edit'[f] = edit[f]
    BY <1>7, <1>t DEF LogoChangeStops, TypeOK, Edited, NoEdit
  <2>2. CleanInv /\ UNCHANGED <<doc, storage, job, starter, worker, download, lost>>
    BY <1>7 DEF LogoChangeStops
  <2>3. LogoInv' /\ EditInv(e)'
    BY <1>7, <2>1 DEF LogoChangeStops, LogoInv, EditInv
  <2> QED BY <1>1, <2>1, <2>2, <2>3
<1>8. CASE EditCommit(e)
  <2> DEFINE seen == edit[e].seen
             wanted == [content |-> ContentAfter(e), rev |-> seen.rev + 1,
                        path |-> Null, job |-> NoJob]
  <2>1. edit[e].pc = "loaded" /\ Flush(seen, wanted) /\ Written(e)
    BY <1>8 DEF EditCommit
  <2>2. seen \in Doc /\ wanted \in Doc /\ wanted # seen
    <3>1. seen \in Doc /\ wanted \in Doc
      BY <2>1, EditWrites DEF Shape
    <3>2. seen.rev \in Nat
      BY <1>t, <3>1, Ranges DEF Doc
    <3> QED BY <3>1, <3>2
  <2>3. ~overlapped /\ seen = doc /\ doc' = wanted
    BY <1>t, <2>1, <2>2, Flushed
  <2>4. CleanInv
    BY <2>3
  <2>5. /\ doc'.rev = doc.rev + 1 /\ doc'.rev \in Revisions
        /\ doc'.path = Null /\ doc'.job = NoJob
    BY <2>2, <2>3 DEF Doc
  <2>6. UNCHANGED <<storage, job, starter, worker, download, lost>>
    BY <1>8 DEF EditCommit
  <2>7. doc.rev \in Nat /\ \A k \in PdfJobs : job[k].rev \in Nat
    BY <1>t, Ranges
  <2>8. storage'[doc'.rev] = Absent
    BY <2>4, <2>5, <2>6, <2>7 DEF CleanInv, StoreInv
  <2>9. RowInv'
    BY <2>5 DEF RowInv, Published
  <2>10. StoreInv'
    BY <1>t, <2>4, <2>5, <2>6, <2>7, <2>8, Ranges DEF CleanInv, StoreInv
  <2>11. \A k \in PdfJobs : job'[k].rev # doc'.rev
    BY <2>4, <2>5, <2>6, <2>7 DEF CleanInv, WorkInv
  <2>12. ASSUME NEW s \in Doc, SeenInv(s)
         PROVE  s.rev <= doc'.rev /\ s.rev # doc'.rev
    BY <1>t, <2>5, <2>7, <2>12, Ranges DEF SeenInv, Doc
  <2>13. ASSUME NEW k \in PdfJobs
         PROVE  WorkInv(k)'
    <3>1. WorkInv(k)
      BY <2>4 DEF CleanInv
    <3>2. starter[k].seen \in Doc /\ worker[k].seen \in Doc
      BY <1>t, Ranges
    <3>3. job[k].rev < doc'.rev /\ job[k].rev <= doc'.rev
      BY <2>5, <2>7, <3>1 DEF WorkInv
    <3>4. RenderInv(k)'
      BY <2>11 DEF RenderInv
    <3>5. /\ starter[k].pc = "loaded" => SeenInv(starter[k].seen)'
          /\ worker[k].pc = "write" => /\ SeenInv(worker[k].seen)'
                                       /\ worker[k].seen.rev = job[k].rev
      BY <2>6, <2>12, <3>1, <3>2 DEF WorkInv, SeenInv
    <3> QED BY <2>6, <3>1, <3>3, <3>4, <3>5 DEF WorkInv, SeenInv
  <2>14. ASSUME NEW f \in Edits
         PROVE  EditInv(f)'
    <3>1. CASE f = e
      <4>1. /\ edit'[e].pc = "cleanup" => seen.path # Null
            /\ edit'[e].seen = seen \/ edit'[e].pc = "done"
        BY <1>t, <2>1 DEF Written, TypeOK, EditRequest, Edited, NoEdit
      <4>2. seen.path \in {Null, doc.rev} /\ doc.rev \in Revisions
        BY <1>t, <2>3, <2>4, Ranges DEF CleanInv, RowInv
      <4> QED BY <2>5, <2>7, <3>1, <4>1, <4>2 DEF EditInv
    <3>2. CASE f # e
      <4>1. edit'[f] = edit[f]
        BY <1>t, <2>1, <3>2 DEF Written, TypeOK
      <4> QED BY <1>t, <2>4, <2>5, <2>7, <4>1, Ranges DEF CleanInv, EditInv
    <3> QED BY <3>1, <3>2
  <2>15. DownloadInv'
    <3>1. download.seen \in Doc
      BY <1>t, Ranges
    <3> QED BY <2>4, <2>6, <2>12, <3>1 DEF CleanInv, DownloadInv, SeenInv
  <2>16. LogoInv'
    BY <2>8, <2>11 DEF LogoInv, Absent, Shown
  <2> QED BY <2>9, <2>10, <2>13, <2>14, <2>15, <2>16 DEF CleanInv
<1>9. CASE EditCleanup(e)
  <2>1. CleanInv /\ StoreInv /\ EditInv(e) /\ RowInv
    BY <1>9 DEF EditCleanup, CleanInv
  <2>2. /\ edit'[e].pc = "done" /\ edit[e].pc = "cleanup"
        /\ \A f \in Edits \ {e} : edit'[f] = edit[f]
    BY <1>9, <1>t DEF EditCleanup, TypeOK, Edited, NoEdit
  <2>3. UNCHANGED <<doc, job, starter, worker, logo, torn, download, lost>>
    BY <1>9 DEF EditCleanup
  <2>4. edit[e].seen.path # doc.rev
    BY <1>t, <2>1, <2>2, Ranges DEF EditInv
  <2>5. /\ storage'[doc.rev] = storage[doc.rev]
        /\ \A r \in Revisions : storage'[r] # Absent => r <= doc.rev
    BY <1>9, <1>t, <2>1, <2>4, DeletesOther DEF EditCleanup
  <2>6. Stored' = Stored
    BY <2>3, <2>5 DEF Stored
  <2>7. RowInv' /\ StoreInv' /\ EditInv(e)'
    BY <2>1, <2>2, <2>3, <2>5, <2>6 DEF RowInv, StoreInv, EditInv, Published
  <2>8. LogoChanging' <=> LogoChanging
    BY <2>2 DEF LogoChanging
  <2>9. LogoInv'
    BY <2>1, <2>3, <2>5, <2>8 DEF CleanInv, LogoInv, Shown
  <2> QED BY <2>1, <2>2, <2>3, <2>6, <2>7, <2>9, CleanKept
<1> QED BY <1>3, <1>4, <1>6, <1>7, <1>8, <1>9 DEF Edit

\* Downloads and the loss of an object.
LEMMA CleanDownload ==
  ASSUME Shape, ~overlapped', ~overlapped => CleanInv,
         DownloadLoad \/ DownloadFetch \/ DownloadClears \/ StorageLoses
  PROVE  CleanInv'
<1> USE DEF logoVars
<1>t. TypeOK
  BY DEF Shape
<1>1. CASE DownloadLoad
  <2>1. CleanInv /\ RowInv
    BY <1>1 DEF DownloadLoad, CleanInv
  <2>2. UNCHANGED <<doc, storage, job, starter, worker, edit, logo, torn, lost>>
    BY <1>1 DEF DownloadLoad
  <2>3. RowInv' /\ StoreInv' /\ LogoInv' /\ Stored' = Stored
    BY <2>1, <2>2 DEF CleanInv, RowInv, StoreInv, LogoInv, Stored, Published, Shown, LogoChanging
  <2>4. DownloadInv'
    <3>1. download'.pc = "fetched" /\ download'.seen = doc /\ doc.path # Null
      BY <1>1 DEF DownloadLoad
    <3> QED BY <1>t, <2>1, <2>2, <3>1, Ranges
            DEF DownloadInv, SeenInv, RowInv, Published, Stored
  <2> QED BY <2>1, <2>2, <2>3, <2>4, CleanKept
<1>2. CASE DownloadFetch
  <2>1. CleanInv /\ DownloadInv
    BY <1>2 DEF DownloadFetch, CleanInv
  <2>2. UNCHANGED <<doc, storage, job, starter, worker, edit, logo, torn, lost>>
    BY <1>2 DEF DownloadFetch
  <2>3. RowInv' /\ StoreInv' /\ LogoInv' /\ Stored' = Stored
    BY <2>1, <2>2 DEF CleanInv, RowInv, StoreInv, LogoInv, Stored, Published, Shown, LogoChanging
  <2>4. DownloadInv'
    <3>1. \/ /\ storage[download.seen.path] = Absent
             /\ download'.pc = "missed" /\ download'.seen = download.seen
          \/ download'.pc = "idle"
      BY <1>2, <1>t DEF DownloadFetch, TypeOK, Request, NoRequest
    <3>2. download.pc = "fetched"
      BY <1>2 DEF DownloadFetch
    <3> QED BY <2>1, <2>2, <3>1, <3>2 DEF DownloadInv, SeenInv, Stored
  <2> QED BY <2>1, <2>2, <2>3, <2>4, CleanKept
<1>3. CASE DownloadClears
  <2> DEFINE seen == download.seen
             wanted == [seen EXCEPT !.path = Null, !.job = NoJob]
  <2>1. seen \in Doc
    BY <1>t, Ranges
  <2>2. /\ wanted \in Doc
        /\ wanted.content = seen.content
        /\ wanted.rev = seen.rev
        /\ wanted.path = Null
        /\ wanted.job = NoJob
    BY <2>1 DEF Doc
  <2>3. Flush(seen, wanted) /\ download.pc = "missed"
    BY <1>3 DEF DownloadClears
  <2> HIDE DEF wanted
  <2>4. ~overlapped /\ ((wanted = seen /\ doc' = doc) \/ (seen = doc /\ doc' = wanted))
    BY <1>t, <2>1, <2>2, <2>3, Flushed
  <2>5. CleanInv /\ RowInv /\ DownloadInv
    BY <2>4 DEF CleanInv
  <2>6. UNCHANGED <<starter, storage, job, worker, edit, logo, torn, lost>>
    BY <1>3 DEF DownloadClears
  <2>7. /\ doc'.rev = doc.rev /\ doc'.content = doc.content
        /\ doc' = doc \/ (doc'.path = Null /\ doc'.job = NoJob)
        /\ doc' = doc \/ lost
    BY <2>2, <2>3, <2>4, <2>5 DEF DownloadInv
  <2>8. RowInv' /\ StoreInv' /\ Stored' = Stored
    BY <2>5, <2>6, <2>7 DEF CleanInv, RowInv, StoreInv, Stored, Published
  <2>9. LogoInv'
    BY <2>5, <2>6, <2>7, LogoKept DEF CleanInv
  <2>10. DownloadInv'
    BY <1>3 DEF DownloadClears, DownloadInv, NoRequest
  <2> QED BY <2>5, <2>6, <2>7, <2>8, <2>9, <2>10, CleanKept
<1>4. CASE StorageLoses
  <2>1. CleanInv /\ RowInv /\ StoreInv /\ LogoInv
    BY <1>4 DEF StorageLoses, CleanInv
  <2>2. UNCHANGED <<doc, job, starter, worker, edit, logo, torn, download>> /\ lost'
    BY <1>4 DEF StorageLoses
  <2>3. \A r \in Revisions : storage'[r] \in {storage[r], Absent}
    BY <1>4, <1>t DEF StorageLoses, TypeOK
  <2>4. Stored'
    BY <2>2 DEF Stored
  <2>5. RowInv' /\ StoreInv'
    BY <1>t, <2>1, <2>2, <2>3, <2>4, Ranges DEF RowInv, StoreInv, Published
  <2>6. LogoInv'
    BY <1>t, <2>1, <2>2, <2>3, Ranges DEF LogoInv, LogoChanging, Shown, Absent
  <2> QED BY <2>1, <2>2, <2>4, <2>5, <2>6, CleanKept
<1> QED BY <1>1, <1>2, <1>3, <1>4

-------------------------------------------------------------------------------
(* The theorems *)

\* The invariant holds at first.
THEOREM InitInv == Init => IInv
<1> SUFFICES ASSUME Init PROVE IInv
  OBVIOUS
<1>1. TypeOK
  BY TypeInit
<1>2. Over = {} /\ Cardinality(Over) = 0
  BY FS_EmptySet DEF Init, Over, NoEdit
<1>3. Counted
  BY <1>2 DEF Init, Counted, NewDoc, NoEdit
<1>4. Shape
  BY <1>1, <1>3 DEF Init, Shape, Begun, NoWork
<1>5. doc.rev \in Revisions
  BY <1>1, Ranges
<1>6. /\ doc.path = Null /\ doc.job = NoJob /\ doc.rev = 0
      /\ \A r \in Revisions : storage[r] = Absent
      /\ \A j \in PdfJobs : /\ worker[j].pc = "idle"
                             /\ starter[j].pc = "idle"
                             /\ job[j].rev = 0
      /\ \A e \in Edits : edit[e].pc = "idle"
      /\ download.pc = "idle"
  BY DEF Init, NewDoc, NoWork, NoRequest, NoEdit
<1>7. RowInv /\ StoreInv
  BY <1>5, <1>6 DEF RowInv, StoreInv, Published
<1>8. \A j \in PdfJobs : WorkInv(j)
  BY <1>6 DEF WorkInv, RenderInv
<1>9. (\A e \in Edits : EditInv(e)) /\ DownloadInv
  BY <1>6 DEF EditInv, DownloadInv
<1>10. LogoInv
  BY <1>5, <1>6 DEF LogoInv, Shown, Absent
<1> QED BY <1>4, <1>7, <1>8, <1>9, <1>10 DEF IInv, CleanInv

\* Every step keeps the invariant.
THEOREM NextInv == IInv /\ [Next]_vars => IInv'
<1> SUFFICES ASSUME IInv, [Next]_vars PROVE IInv'
  OBVIOUS
<1>1. Shape'
  BY ShapeStep DEF IInv
<1>2. ASSUME ~overlapped'
      PROVE  CleanInv'
  <2>1. CASE UNCHANGED vars
    <3>1. CleanInv
      BY <1>2, <2>1 DEF vars, IInv
    <3> QED BY <2>1, <3>1 DEF vars, CleanInv, RowInv, StoreInv, WorkInv, RenderInv, SeenInv,
               EditInv, DownloadInv, LogoInv, LogoChanging, Shown, Stored, Published
  <2>2. CASE Next
    BY <1>2, <2>2, CleanStart, CleanWork, CleanEdit, CleanDownload DEF Next, IInv
  <2> QED BY <2>1, <2>2
<1> QED BY <1>1, <1>2 DEF IInv

\* The inductive invariant holds in every behaviour.
THEOREM Invariance == Spec => []IInv
BY InitInv, NextInv, PTL DEF Spec

\* Every record keeps its type, and the counts of the document never outrun the
\* edits.
THEOREM TypeCorrectness == Spec => []TypeOK
<1>1. IInv => TypeOK
  BY DEF IInv, Shape
<1> QED BY <1>1, Invariance, PTL

\* What a document points to shows its current content, unless the store lost it
\* or a row was overlapped: no late, repeated or concurrent render gets past the
\* comparison of revisions.
THEOREM ContentIsCurrent == Spec => []CurrentWithoutOverlap
<1>1. IInv => CurrentWithoutOverlap
  BY DEF IInv, CleanInv, RowInv, StoreInv, Published, Stored, CurrentWithoutOverlap
<1> QED BY <1>1, Invariance, PTL

\* The attached job is for the current revision.
THEOREM AttachedJobIsCurrent == Spec => []AttachedIsCurrent
<1>1. IInv => AttachedIsCurrent
  BY DEF IInv, CleanInv, RowInv, AttachedIsCurrent
<1> QED BY <1>1, Invariance, PTL

\* No published artifact shows a logo that was replaced or removed.
THEOREM NoOldLogoShown == Spec => []ShowsNoOldLogo
<1>1. IInv => ShowsNoOldLogo
  BY DEF IInv, CleanInv, RowInv, LogoInv, Shown, Published, ShowsNoOldLogo
<1> QED BY <1>1, Invariance, PTL

\* A job that succeeds without an overlap leaves an artifact, unless an edit took
\* its revision or the store lost the object: a job succeeds by the write itself,
\* or because a document of its revision had one.
THEOREM SuccessIsPublished == Spec => SuccessMeansPublished
<1> DEFINE Succeeds ==
      \A j \in PdfJobs :
        /\ job[j].status # "success"
        /\ job'[j].status = "success"
        /\ ~overlapped'
        => \/ doc'.path = job[j].rev
           \/ doc'.rev # job[j].rev
           \/ lost
<1>1. IInv /\ [Next]_vars => [Succeeds]_vars
  <2> SUFFICES ASSUME IInv, Next, NEW j \in PdfJobs,
                      job[j].status # "success", job'[j].status = "success", ~overlapped',
                      doc'.rev = job[j].rev
               PROVE  doc'.path = job[j].rev \/ lost
    BY DEF vars
  <2>t. TypeOK
    BY DEF IInv, Shape
  <2>1. PersistWrite(j) \/ Settle(j)
    <3>1. job[j] \in PdfJob
      BY <2>t, Ranges
    <3>2. ASSUME NEW k \in PdfJobs, NEW status, Settles(k, status), status # "success"
          PROVE  FALSE
      BY <2>t, <3>1, <3>2 DEF Settles, TypeOK, PdfJob
    <3>3. ASSUME NEW k \in PdfJobs, Start(k)
          PROVE  FALSE
      BY <2>t, <3>1, <3>3 DEF Start, StartLoad, StartCommit, StartRefused, TypeOK, PdfJob
    <3>4. ASSUME NEW k \in PdfJobs, Begin(k) \/ Redeliver(k)
          PROVE  FALSE
      BY <2>t, <3>1, <3>4 DEF Begin, Redeliver, TypeOK, PdfJob
    <3>5. ASSUME NEW k \in PdfJobs, Work(k)
          PROVE  PersistWrite(k) \/ Settle(k)
      BY <3>2, <3>4, <3>5 DEF Work, Snapshot, ReadContext, AttachLogo, Upload, RenderFails,
         PersistLoad, Cleanup, Discard, HandlerRaises, Crash
    <3>6. ASSUME NEW k \in PdfJobs, PersistWrite(k) \/ Settle(k)
          PROVE  k = j
      BY <2>t, <3>6 DEF PersistWrite, Settle, Settles, TypeOK
    <3>7. ASSUME NEW e \in Edits, Edit(e)
          PROVE  FALSE
      BY <3>7 DEF Edit, EditLoad, CustomerLoad, ProfileLoad, UploadLogo, RemoveLogo, LogoLoad,
         LogoChangeStops, EditCommit, EditCleanup, Loads, ChangesObject
    <3>8. ~(DownloadLoad \/ DownloadFetch \/ DownloadClears \/ StorageLoses)
      BY DEF DownloadLoad, DownloadFetch, DownloadClears, StorageLoses
    <3> QED BY <3>3, <3>5, <3>6, <3>7, <3>8 DEF Next
  <2>2. CASE PersistWrite(j)
    <3> DEFINE seen == worker[j].seen
               wanted == [seen EXCEPT !.path = job[j].rev, !.job = IF @ = j THEN NoJob ELSE @]
    <3>1. seen \in Doc /\ job[j].rev \in Revisions
      BY <2>t, Ranges
    <3>2. wanted \in Doc /\ wanted.path = job[j].rev
      BY <3>1 DEF Doc
    <3>3. Flush(seen, wanted) /\ worker[j].pc = "write"
      BY <2>2 DEF PersistWrite
    <3> HIDE DEF wanted
    <3>4. ~overlapped /\ ((wanted = seen /\ doc' = doc) \/ doc' = wanted)
      BY <2>t, <3>1, <3>2, <3>3, Flushed
    <3>5. WorkInv(j)
      BY <3>4 DEF IInv, CleanInv
    <3>6. ASSUME wanted = seen, doc' = doc
          PROVE  doc.path = job[j].rev \/ lost
      <4>1. seen.path # Null /\ job[j].rev = doc.rev
        BY <2>t, <3>1, <3>2, <3>6, Ranges
      <4> QED BY <3>3, <3>5, <4>1 DEF WorkInv, RenderInv
    <3> QED BY <3>2, <3>4, <3>6
  <2>3. CASE Settle(j)
    <3>1. worker[j].pc = "settle" /\ UNCHANGED <<doc, overlapped>>
      BY <2>3 DEF Settle
    <3>2. WorkInv(j)
      BY <3>1 DEF IInv, CleanInv
    <3> QED BY <3>1, <3>2 DEF WorkInv, RenderInv
  <2> QED BY <2>1, <2>2, <2>3
<1>2. SuccessMeansPublished <=> [][Succeeds]_vars
  BY DEF SuccessMeansPublished
<1> QED BY <1>1, <1>2, Invariance, PTL DEF Spec
===============================================================================
