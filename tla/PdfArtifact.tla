----------------------------- MODULE PdfArtifact ------------------------------
(***************************************************************************)
(* The PDF artifact of one document: the requests that start a render, the *)
(* worker that renders, uploads and publishes it, the edits of the         *)
(* document, its customer and the user's profile and logo that invalidate  *)
(* it, the download, and the object store.                                 *)
(*                                                                         *)
(* Quotes and invoices have a pdf_artifacts service each; the two take the *)
(* same steps.                                                             *)
(*                                                                         *)
(* Every actor loads the document row and writes it later, in the same     *)
(* transaction but without a lock: the session writes, by UPDATE ... WHERE *)
(* id, only the columns it changed since its load (Flush).  The status of  *)
(* a job moves in one step here; JobLifecycle takes those steps apart.     *)
(***************************************************************************)
EXTENDS Integers, FiniteSets

CONSTANTS
  PdfJobs,   \* job ids, one for each request that may start a render
  NoJob,     \* pdf_artifact_job_id is NULL
  Edits,     \* edits that change something the PDF shows
  FirstLogo, \* the logo the user has at first; an upload is named by its edit
  NoLogo,    \* there is no logo object, or a PDF shows none
  MaxTries   \* DEFAULT_MAX_TRIES

ASSUME ArtifactAssumption ==
  /\ IsFiniteSet(Edits)
  /\ NoJob \notin PdfJobs
  /\ FirstLogo \notin Edits /\ NoLogo \notin Edits \cup {FirstLogo}
  /\ MaxTries \in Nat \ {0}

VARIABLES
  doc,        \* the committed document row
  storage,    \* the object store: the PDF held under each revision's path
  logo,       \* the profile's logo_path and the object under it
  job,        \* the pdf rows of job_records
  starter,    \* the requests that start a render
  worker,     \* the running process_job calls
  edit,       \* the requests that edit what the PDF shows
  torn,       \* a logo change stopped between the object and its commit
  download,   \* the request that fetches the artifact
  lost,       \* the store has lost an object
  overlapped  \* auxiliary: a row was written that changed since it was loaded

vars == <<doc, storage, logo, job, starter, worker, edit, torn, download, lost, overlapped>>
logoVars == <<logo, torn>>

-------------------------------------------------------------------------------
(* Types *)

Null == -1

\* Each edit commits one new content and at most one new revision.  A content is
\* all that a render takes from the document, its customer and its user.
Contents  == 0 .. Cardinality(Edits)
Revisions == 0 .. Cardinality(Edits)

\* A path is named by the revision in its file name, r<revision>.pdf.
Doc == [content : Contents, rev : Revisions,
        path : Revisions \cup {Null}, job : PdfJobs \cup {NoJob}]

NewDoc == [content |-> 0, rev |-> 0, path |-> Null, job |-> NoJob]

Logos == Edits \cup {FirstLogo, NoLogo}

PDF == [content : Contents \cup {Null}, logo : Logos]
Absent == [content |-> Null, logo |-> NoLogo]

JobStatuses == {"absent", "pending", "running", "failed", "success", "terminal"}

PdfJob == [status : JobStatuses, rev : Revisions, tries : 0 .. MaxTries]

Request == [pc : {"idle", "loaded", "fetched", "missed", "done"}, seen : Doc]

\* What an edit writes: fields of the document, of its customer, of the user, or
\* the logo.
LogoChanges == {"upload", "remove"}
EditRequest == [pc : {"idle", "stored", "loaded", "cleanup", "done"}, seen : Doc,
                writes : {"fields", "customer", "profile"} \cup LogoChanges]

Worker == [pc : {"idle", "snapshot", "settle", "context", "logo", "upload",
                 "persist", "write", "discard", "cleanup"},
           pdf : PDF, seen : Doc]

NoRequest == [pc |-> "idle", seen |-> NewDoc]
NoWork == [pc |-> "idle", pdf |-> Absent, seen |-> NewDoc]
NoEdit == [pc |-> "idle", seen |-> NewDoc, writes |-> "fields"]
Done == [NoRequest EXCEPT !.pc = "done"]
Edited == [NoEdit EXCEPT !.pc = "done"]

TypeOK ==
  /\ doc \in Doc
  /\ storage \in [Revisions -> PDF]
  /\ logo \in [path : BOOLEAN, object : Logos]
  /\ job \in [PdfJobs -> PdfJob]
  /\ starter \in [PdfJobs -> Request]
  /\ worker \in [PdfJobs -> Worker]
  /\ edit \in [Edits -> EditRequest]
  /\ torn \in BOOLEAN
  /\ download \in Request
  /\ lost \in BOOLEAN
  /\ overlapped \in BOOLEAN

-------------------------------------------------------------------------------
(* The session *)

\* Flush the row loaded as seen and modified to wanted: unchanged columns are
\* not written.
Flush(seen, wanted) ==
  /\ doc' = [c \in DOMAIN doc |-> IF wanted[c] = seen[c] THEN doc[c] ELSE wanted[c]]
  /\ overlapped' = (overlapped \/ (wanted # seen /\ seen # doc))

\* Object deletion is best effort: a failure is logged and ignored.
TryDelete(path) ==
  \/ UNCHANGED storage
  \/ path # Null /\ storage' = [storage EXCEPT ![path] = Absent]

-------------------------------------------------------------------------------
(* start_pdf_generation *)

\* _get_reusable_pdf_job: the attached job is active and for this revision.
Reusable(d) ==
  /\ d.job # NoJob
  /\ job[d.job].rev = d.rev
  /\ job[d.job].status \in {"pending", "running"}

\* The document is loaded and there is no job to reuse.  With one, the request
\* returns it and changes nothing.
StartLoad(j) ==
  /\ starter[j].pc = "idle"
  /\ ~Reusable(doc)
  /\ starter' = [starter EXCEPT ![j] = [pc |-> "loaded", seen |-> doc]]
  /\ UNCHANGED <<doc, storage, job, worker, edit, logoVars, download, lost, overlapped>>

\* The job row for the loaded revision is committed; it is attached to the
\* document only when the loaded document had no artifact.
StartCommit(j) ==
  LET seen == starter[j].seen
  IN  /\ starter[j].pc = "loaded"
      /\ job' = [job EXCEPT ![j].status = "pending", ![j].rev = seen.rev]
      /\ Flush(seen, IF seen.path = Null THEN [seen EXCEPT !.job = j] ELSE seen)
      /\ starter' = [starter EXCEPT ![j] = Done]
      /\ UNCHANGED <<storage, worker, edit, logoVars, download, lost>>

\* The queue refuses the job: the row is committed terminal, and detached.
StartRefused(j) ==
  LET seen == starter[j].seen
  IN  /\ starter[j].pc = "loaded"
      /\ job' = [job EXCEPT ![j].status = "terminal", ![j].rev = seen.rev]
      /\ Flush(seen, IF seen.path = Null THEN [seen EXCEPT !.job = NoJob] ELSE seen)
      /\ starter' = [starter EXCEPT ![j] = Done]
      /\ UNCHANGED <<storage, worker, edit, logoVars, download, lost>>

Start(j) == StartLoad(j) \/ StartCommit(j) \/ StartRefused(j)

-------------------------------------------------------------------------------
(* The worker *)

\* A delivery of a pending or failed job: set_running.
Begin(j) ==
  /\ worker[j].pc = "idle"
  /\ job[j].status \in {"pending", "failed"}
  /\ job[j].tries < MaxTries
  /\ job' = [job EXCEPT ![j].status = "running", ![j].tries = @ + 1]
  /\ worker' = [worker EXCEPT ![j] = [NoWork EXCEPT !.pc = "snapshot"]]
  /\ UNCHANGED <<doc, storage, starter, edit, logoVars, download, lost, overlapped>>

\* Mutation: a redelivery that finds the row running takes the work for done.
RedeliverAsDone(j) ==
  /\ worker[j].pc = "idle"
  /\ job[j].status = "running"
  /\ job' = [job EXCEPT ![j].status = "success"]
  /\ UNCHANGED <<doc, storage, starter, worker, edit, logoVars, download, lost, overlapped>>

\* A redelivery after a crash finds the row running: set_running refuses it.
Redeliver(j) ==
  /\ worker[j].pc = "idle"
  /\ job[j].status = "running"
  /\ job' = [job EXCEPT ![j].status = "terminal"]
  /\ UNCHANGED <<doc, storage, starter, worker, edit, logoVars, download, lost, overlapped>>

Settles(j, status) ==
  /\ job' = [job EXCEPT ![j].status = status]
  /\ worker' = [worker EXCEPT ![j] = NoWork]

\* _render_pdf, first part.  A job for another revision is stale; a document
\* that has an artifact needs none.
Snapshot(j) ==
  /\ worker[j].pc = "snapshot"
  /\ \/ /\ doc.rev # job[j].rev
        /\ Settles(j, "terminal")
     \/ /\ doc.rev = job[j].rev
        /\ worker' = [worker EXCEPT ![j].pc = IF doc.path = Null THEN "context"
                                                                 ELSE "settle"]
        /\ UNCHANGED job
  /\ UNCHANGED <<doc, storage, starter, edit, logoVars, download, lost, overlapped>>

\* get_render_context: a later statement, which reads what is committed by then.
ReadContext(j) ==
  /\ worker[j].pc = "context"
  /\ worker' = [worker EXCEPT ![j].pc = IF logo.path THEN "logo" ELSE "upload",
                              ![j].pdf.content = doc.content]
  /\ UNCHANGED <<doc, storage, job, starter, edit, logoVars, download, lost, overlapped>>

\* _attach_logo_data_uri: the object as it is by now, or none if it is missing or
\* cannot be read.
AttachLogo(j) ==
  /\ worker[j].pc = "logo"
  /\ \E shown \in {logo.object, NoLogo} :
       worker' = [worker EXCEPT ![j].pc = "upload", ![j].pdf.logo = shown]
  /\ UNCHANGED <<doc, storage, job, starter, edit, logoVars, download, lost, overlapped>>

\* Rendered and uploaded, over whatever the revision's path held.
Upload(j) ==
  /\ worker[j].pc = "upload"
  /\ storage' = [storage EXCEPT ![job[j].rev] = worker[j].pdf]
  /\ worker' = [worker EXCEPT ![j].pc = "persist", ![j].pdf = Absent]
  /\ UNCHANGED <<doc, job, starter, edit, logoVars, download, lost, overlapped>>

\* Rendering or the upload fails in a way worth retrying.
RenderFails(j) ==
  /\ worker[j].pc = "upload"
  /\ Settles(j, IF job[j].tries < MaxTries THEN "failed" ELSE "terminal")
  /\ UNCHANGED <<doc, storage, starter, edit, logoVars, download, lost, overlapped>>

\* Mutation: the revision is not compared when the artifact is persisted.
PersistUnchecked(j) ==
  /\ worker[j].pc = "persist"
  /\ worker' = [worker EXCEPT ![j].pc = "write", ![j].seen = doc]
  /\ UNCHANGED <<doc, storage, job, starter, edit, logoVars, download, lost, overlapped>>

\* persist_generated_artifact loads the document and compares the revision.
PersistLoad(j) ==
  /\ worker[j].pc = "persist"
  /\ worker' = [worker EXCEPT ![j] =
                  IF doc.rev = job[j].rev THEN [NoWork EXCEPT !.pc = "write", !.seen = doc]
                                          ELSE [NoWork EXCEPT !.pc = "discard"]]
  /\ UNCHANGED <<doc, storage, job, starter, edit, logoVars, download, lost, overlapped>>

\* The object of a superseded path is to be deleted after the commit.
Superseded(j) == worker[j].seen.path \notin {Null, job[j].rev}

\* The path is published, the job detached if it is still the attached one, and
\* the job succeeds, in one commit.  (The same UPDATE promotes a draft quote to
\* ready: QuoteLifecycle.)
PersistWrite(j) ==
  LET seen == worker[j].seen
  IN  /\ worker[j].pc = "write"
      /\ Flush(seen, [seen EXCEPT !.path = job[j].rev,
                                  !.job = IF @ = j THEN NoJob ELSE @])
      /\ job' = [job EXCEPT ![j].status = "success"]
      /\ worker' = [worker EXCEPT ![j] = IF Superseded(j)
                                         THEN [NoWork EXCEPT !.pc = "cleanup", !.seen = seen]
                                         ELSE NoWork]
      /\ UNCHANGED <<storage, starter, edit, logoVars, download, lost>>

Cleanup(j) ==
  /\ worker[j].pc = "cleanup"
  /\ TryDelete(worker[j].seen.path)
  /\ worker' = [worker EXCEPT ![j] = NoWork]
  /\ UNCHANGED <<doc, job, starter, edit, logoVars, download, lost, overlapped>>

\* Stale by the time of persistence: the upload is deleted, the job terminal.
Discard(j) ==
  /\ worker[j].pc = "discard"
  /\ TryDelete(job[j].rev)
  /\ Settles(j, "terminal")
  /\ UNCHANGED <<doc, starter, edit, logoVars, download, lost, overlapped>>

\* The artifact was already there: set_success and nothing else.
Settle(j) ==
  /\ worker[j].pc = "settle"
  /\ Settles(j, "success")
  /\ UNCHANGED <<doc, storage, starter, edit, logoVars, download, lost, overlapped>>

\* Any other exception before the job has succeeded.
HandlerRaises(j) ==
  /\ worker[j].pc \notin {"idle", "cleanup"}
  /\ Settles(j, "terminal")
  /\ UNCHANGED <<doc, storage, starter, edit, logoVars, download, lost, overlapped>>

\* The worker stops: nothing is recorded.
Crash(j) ==
  /\ worker[j].pc # "idle"
  /\ worker' = [worker EXCEPT ![j] = NoWork]
  /\ UNCHANGED <<doc, storage, job, starter, edit, logoVars, download, lost, overlapped>>

Work(j) == \/ Begin(j) \/ Redeliver(j) \/ Snapshot(j) \/ ReadContext(j)
           \/ AttachLogo(j) \/ Upload(j) \/ RenderFails(j) \/ PersistLoad(j) \/ PersistWrite(j)
           \/ Cleanup(j) \/ Discard(j) \/ Settle(j) \/ HandlerRaises(j) \/ Crash(j)

-------------------------------------------------------------------------------
(* Edits and downloads *)

\* The document is selected to be changed or invalidated.
Loads(e, what) ==
  /\ edit' = [edit EXCEPT ![e] = [pc |-> "loaded", seen |-> doc, writes |-> what]]
  /\ UNCHANGED <<doc, storage, logoVars, job, starter, worker, download, lost, overlapped>>

\* An edit of the document.
EditLoad(e) == edit[e].pc = "idle" /\ Loads(e, "fields")

\* Writing a row locks it until the transaction ends.
Writing(whats) == \E e \in Edits : edit[e].pc = "loaded" /\ edit[e].writes \in whats
UserLocked == Writing({"profile"} \cup LogoChanges)

\* update_customer: the customer is changed, then its documents are selected.
CustomerLoad(e) ==
  edit[e].pc = "idle" /\ ~Writing({"customer"}) /\ Loads(e, "customer")

\* update_profile: the user is changed, then all documents are selected.
ProfileLoad(e) == edit[e].pc = "idle" /\ ~UserLocked /\ Loads(e, "profile")

ChangesObject(e, what, object) ==
  /\ logo' = [logo EXCEPT !.object = object]
  /\ edit' = [edit EXCEPT ![e].pc = "stored", ![e].writes = what]
  /\ UNCHANGED <<doc, storage, job, starter, worker, torn, download, lost, overlapped>>

\* upload_logo writes the object first, over the last one: one path per user.
UploadLogo(e) == edit[e].pc = "idle" /\ ChangesObject(e, "upload", e)

\* delete_logo deletes the object first.
RemoveLogo(e) == edit[e].pc = "idle" /\ logo.path /\ ChangesObject(e, "remove", NoLogo)

\* update_logo_path or clear_logo_path, then the documents are selected.
LogoLoad(e) ==
  /\ edit[e].pc = "stored"
  /\ ~UserLocked
  /\ Loads(e, edit[e].writes)

\* The request stops after the object changed and before its commit.
LogoChangeStops(e) ==
  /\ edit[e].pc = "stored"
  /\ edit' = [edit EXCEPT ![e] = Edited]
  /\ torn' = TRUE
  /\ UNCHANGED <<doc, storage, logo, job, starter, worker, download, lost, overlapped>>

\* What an edit commits beside the invalidation.
Written(e) ==
  /\ logo' = CASE edit[e].writes = "upload" -> [logo EXCEPT !.path = TRUE]
               [] edit[e].writes = "remove" -> [logo EXCEPT !.path = FALSE]
               [] OTHER -> logo
  /\ torn' = FALSE
  /\ edit' = [edit EXCEPT ![e] = IF @.seen.path = Null THEN Edited
                                 ELSE [@ EXCEPT !.pc = "cleanup", !.writes = "fields"]]

\* An update that changes nothing a PDF shows invalidates nothing, and is no edit
\* here (_profile_render_inputs_changed, _customer_render_inputs_changed).
ContentAfter(e) == IF edit[e].writes \in LogoChanges THEN doc.content ELSE doc.content + 1

\* Mutation: the service and the repository both bump the revision.
EditBumpsTwice(e) ==
  LET seen == edit[e].seen
  IN  /\ edit[e].pc = "loaded"
      /\ Flush(seen, [content |-> ContentAfter(e), rev |-> seen.rev + 2,
                      path |-> Null, job |-> NoJob])
      /\ Written(e)
      /\ UNCHANGED <<storage, job, starter, worker, download, lost>>

\* Mutation: the invalidation leaves the job attached.
EditKeepsJob(e) ==
  LET seen == edit[e].seen
  IN  /\ edit[e].pc = "loaded"
      /\ Flush(seen, [seen EXCEPT !.content = ContentAfter(e),
                                  !.rev = @ + 1, !.path = Null])
      /\ Written(e)
      /\ UNCHANGED <<storage, job, starter, worker, download, lost>>

\* Mutation: only a published artifact is invalidated, and a render on its way
\* keeps its revision.
EditSparesUnpublished(e) ==
  LET seen == edit[e].seen
  IN  /\ edit[e].pc = "loaded"
      /\ Flush(seen, IF seen.path = Null /\ edit[e].writes \in LogoChanges THEN seen
                     ELSE [content |-> ContentAfter(e), rev |-> seen.rev + 1,
                           path |-> Null, job |-> NoJob])
      /\ Written(e)
      /\ UNCHANGED <<storage, job, starter, worker, download, lost>>

\* What was changed and the invalidation are one commit: the path and the job
\* are cleared and the revision is the loaded one plus one.
EditCommit(e) ==
  LET seen == edit[e].seen
  IN  /\ edit[e].pc = "loaded"
      /\ Flush(seen, [content |-> ContentAfter(e), rev |-> seen.rev + 1,
                      path |-> Null, job |-> NoJob])
      /\ Written(e)
      /\ UNCHANGED <<storage, job, starter, worker, download, lost>>

\* The object of the artifact is deleted, after the commit.
EditCleanup(e) ==
  /\ edit[e].pc = "cleanup"
  /\ TryDelete(edit[e].seen.path)
  /\ edit' = [edit EXCEPT ![e] = Edited]
  /\ UNCHANGED <<doc, job, starter, worker, logoVars, download, lost, overlapped>>

Edit(e) == \/ EditLoad(e) \/ CustomerLoad(e) \/ ProfileLoad(e)
           \/ UploadLogo(e) \/ RemoveLogo(e) \/ LogoLoad(e) \/ LogoChangeStops(e)
           \/ EditCommit(e) \/ EditCleanup(e)

\* get_pdf_artifact: without a path it answers 409 and changes nothing.
DownloadLoad ==
  /\ download.pc = "idle"
  /\ doc.path # Null
  /\ download' = [pc |-> "fetched", seen |-> doc]
  /\ UNCHANGED <<doc, storage, job, starter, worker, edit, logoVars, lost, overlapped>>

DownloadFetch ==
  /\ download.pc = "fetched"
  /\ download' = IF storage[download.seen.path] = Absent
                 THEN [download EXCEPT !.pc = "missed"]
                 ELSE NoRequest
  /\ UNCHANGED <<doc, storage, job, starter, worker, edit, logoVars, lost, overlapped>>

\* The object is gone: the path is cleared, the revision kept.
DownloadClears ==
  /\ download.pc = "missed"
  /\ Flush(download.seen, [download.seen EXCEPT !.path = Null, !.job = NoJob])
  /\ download' = NoRequest
  /\ UNCHANGED <<storage, job, starter, worker, edit, logoVars, lost>>

\* The object store loses one object, once.
StorageLoses ==
  /\ ~lost
  /\ lost' = TRUE
  /\ \E r \in Revisions : /\ storage[r] # Absent
                          /\ storage' = [storage EXCEPT ![r] = Absent]
  /\ UNCHANGED <<doc, job, starter, worker, edit, logoVars, download, overlapped>>

-------------------------------------------------------------------------------
Init ==
  /\ doc = NewDoc
  /\ storage = [r \in Revisions |-> Absent]
  /\ job = [j \in PdfJobs |-> [status |-> "absent", rev |-> 0, tries |-> 0]]
  /\ starter = [j \in PdfJobs |-> NoRequest]
  /\ worker = [j \in PdfJobs |-> NoWork]
  /\ edit = [e \in Edits |-> NoEdit]
  /\ logo = [path |-> TRUE, object |-> FirstLogo]
  /\ torn = FALSE
  /\ download = NoRequest
  /\ lost = FALSE
  /\ overlapped = FALSE

Next ==
  \/ \E j \in PdfJobs : Start(j) \/ Work(j)
  \/ \E e \in Edits : Edit(e)
  \/ DownloadLoad \/ DownloadFetch \/ DownloadClears
  \/ StorageLoses

Spec == Init /\ [][Next]_vars

-------------------------------------------------------------------------------
(* Properties *)

Published == doc.path # Null

\* The artifact a document points to shows the document's current content,
\* unless the store lost it: comparing revisions keeps every late, repeated or
\* concurrent render out.  It needs that no row changed between a load and the
\* write that depended on it: an edit that commits between the worker's
\* comparison and its write breaks it, although the revisions were compared.
CurrentWithoutOverlap ==
  (Published /\ ~overlapped) =>
    \/ storage[doc.path].content = doc.content
    \/ storage[doc.path] = Absent /\ lost

LogoChanging ==
  \E e \in Edits : edit[e].pc \in {"stored", "loaded"} /\ edit[e].writes \in LogoChanges

\* A published artifact never shows a logo the user has replaced or removed,
\* although the object changes before the profile and the documents do, and is
\* read after the document was: what was rendered meanwhile has an old revision.
\* (It may show none: a logo that cannot be read is left out.)  A change that
\* stopped half way is made good by the next invalidation.
ShowsNoOldLogo ==
  Published /\ ~overlapped /\ ~LogoChanging /\ ~torn =>
    storage[doc.path].logo \in {NoLogo, IF logo.path THEN logo.object ELSE NoLogo}

\* A client that saw its job succeed finds an artifact, unless an edit
\* superseded the job's revision or the store lost the object.
SuccessMeansPublished ==
  [][\A j \in PdfJobs :
       /\ job[j].status # "success"
       /\ job'[j].status = "success"
       /\ ~overlapped'
       => \/ doc'.path = job[j].rev
          \/ doc'.rev # job[j].rev
          \/ lost]_vars

\* The job attached to the document is one for its current revision: a client
\* is never told to wait for a render that will be thrown away.
AttachedIsCurrent ==
  ~overlapped => (doc.job # NoJob => job[doc.job].rev = doc.rev)
===============================================================================
