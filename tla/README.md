# Verification of Stima

TLA+ models of the parts of Stima where the order of events decides whether the
program is right, the TLC runs that check them on small instances, and proofs,
checked by TLAPS, of what matters most for every size of the system.

Stima turns a contractor's spoken or typed notes into a quote. A phone captures
notes and audio (`src/frontend`), an API on FastAPI and PostgreSQL stores
documents (`src/backend/app`), an ARQ worker on Redis extracts drafts, renders
PDFs and sends emails, and customers open a public link. Paths below are
relative to `src/backend/app` or `src/frontend/src`.

## 1. The system

| Component | State | Operations | What makes it correct |
|---|---|---|---|
| Durable jobs: `features/jobs`, `worker/runtime.py` | `job_records` rows, ARQ's queue and its try counts | create under the user lock, enqueue, set running, failed, success, terminal; retry; reap | one draft for a job, success with its draft and only then, a bounded number of tries, capacity that comes back |
| PDF artifacts: `features/quotes/pdf_artifacts`, `worker/pdf_repository.py`, `integrations/storage.py` | path, revision and job on the document; objects in the bucket | start or reuse a render, render, upload, publish, invalidate, download | the published artifact shows the current content |
| Idempotent submission: `shared/idempotency.py`, the extract and send-email endpoints | one Redis record per key | begin, complete, abort | one accepted job for a key; only genuine replays |
| Capture outbox: `features/quotes/offline`, the capture screen | IndexedDB sessions and outbox jobs; the engine's map of passes | extract online or offline, retry, poll, settle, delete, pass | no capture is lost, none is drafted twice |
| Quote lifecycle: `features/quotes/{share,outcomes,deletion,mutation}`, conversion in `features/invoices/creation` | status, customer, token, type, linked invoice | share, regenerate, revoke, view, mark outcome, reassign, retype, convert, delete | a status that does not go back, a link that shows the right quote or nothing |
| Documents: `features/quotes/{creation,mutation,deletion,service.py}`, `features/invoices`, `features/customers` | the `documents` table and its unique index over number and type | create, copy, convert, retype, reassign, share, view, pay, void, archive, delete alone, in bulk and with the customer | a number a customer has seen is not given twice; an invoice keeps its quote and its outcome; one first view |
| Extraction calls: `integrations/extraction.py`, `features/quotes/extraction_service.py`, `shared/rate_limit.py` | Redis counters with a TTL (or counters in memory); the metadata of the last call | acquire, reserve, call a tier, retry, fall back, repair, release | never more calls than slots; slots come back; calls that were made were charged; degrade only when every tier failed and no try is left |
| Draft content: `integrations/extraction.py`, `features/quotes/{creation,mutation}`, `shared/pricing.py` | pricing columns, line items and the review sidecar of a document | coerce, guard, correct, price, create, patch, review | no amount misheard silently, none invented, none lost; rows that add up; edits that leave the rest alone |
| Auth: `features/auth`, `shared/lib/http.ts` | `refresh_tokens`, the reset link, cookies, the CSRF token and the refresh in flight of a tab | register, log in, refresh, log out, reset, expire | a token is used once, a replay ends every session, an undisturbed browser keeps its own |
| Email delivery: `features/quotes/email_delivery_service.py`, `features/invoices/email_delivery_service.py`, `integrations/email.py`, the email job | the `email_sent` event, a fallback in memory, what the provider took | prepare, guard, share, deliver, record | no second email of one job but after a lost answer; the guard holds for its window; no link that was dead before the request |
| Profile: `features/profile` | the user's row, the logo object | edit, upload, remove | no published PDF with a logo that is gone |
| Catalog, support, admin, events | rows | single-row operations, logging | |

How they meet: the capture screen and the outbox submit through the idempotent
endpoint; the endpoint inserts a job row and enqueues it; the worker moves the
row, commits a quote draft or an artifact; the polling client reads the row.
A share makes a token, an email job sends it, and the public view moves the
status. Database actors share rows without locks, except the user row that
admission locks: a session loads a row, decides, and writes the columns it
changed by `UPDATE ... WHERE id` (READ COMMITTED). What is hard is what can
come between the load and the write, between the commit and the queue, or
between a step and a crash. `PROJECT.json` lists these hazards line by line.

## 2. The modules

| Module | Models | Checked by |
|---|---|---|
| `JobStatusMachine` | abstract: the transition table of `JobRepository` as a state machine | refined by `JobLifecycle` |
| `JobLifecycle` | request, row, queue, worker wrapper, reaper | `JobsExtraction`, `JobsMixed` |
| `JobLifecycleProofs` | the theorems about `JobLifecycle` | TLAPS |
| `PdfArtifact` | one document's artifact and the logo it shows | `PdfArtifact` |
| `PdfArtifactProofs` | the theorems about `PdfArtifact` | TLAPS |
| `SubmissionPromise` | abstract: what the extraction endpoint promises about a key | implemented by `IdempotentSubmit`, the server of `CaptureOutbox` |
| `IdempotentSubmit` | two endpoints over the idempotency store | `IdempotentSubmit` |
| `CaptureOutbox` | one local capture, its screen and its outbox | `CaptureOutbox`, `OutboxSyncs` |
| `SubmissionProofs` | the theorems about `IdempotentSubmit` and `CaptureOutbox` | TLAPS |
| `QuoteLifecycle` | one quote from draft to outcome | `QuoteLifecycle` |
| `QuoteLifecycleProofs` | the theorems about `QuoteLifecycle` | TLAPS |
| `Documents` | all documents of a user: numbers, sources, outcomes, deletion | `Documents` |
| `DocumentsProofs` | the theorems about `Documents` | TLAPS |
| `DraftContent` | one document's content from the capture through partial edits; EXTENDS the three operator modules below | `DraftContent` |
| `EditHistory` | `DraftContent` with the history of its edits: what an answer has promised | `DraftContent` |
| `ExtractionResult` | operators: tool output to result, result to pricing, notes and sidecar | `DraftContent` |
| `SpokenMoney` | operators: the amounts heard in a transcript | `DraftContent` |
| `Pricing` | operators: validation, totals, the subtotal computed back, the rows of a breakdown | `DraftContent` |
| `ExtractionCalls` | slots, quota, tiers, retries, repair | `ExtractionCalls` |
| `ExtractionProofs` | the theorems about `ExtractionCalls`, `DraftContent` and `EditHistory` | TLAPS |
| `AuthSession` | the sessions of one account in its browsers and tabs | `AuthSession` |
| `AuthSessionProofs` | the theorems about `AuthSession` | TLAPS |
| `EmailDelivery` | emails about one quote: guard, share, job, provider, event | `EmailDelivery` |
| `EmailDeliveryProofs` | the theorems about `EmailDelivery` | TLAPS |

Each has an `MC` module that names the model values and the symmetry. Modules
meet at a promise one checks and another assumes: `SubmissionPromise` is what
`IdempotentSubmit` keeps and what the server of `CaptureOutbox` is an instance of;
`PdfArtifact` moves a job's status in one step where `JobLifecycle` takes two;
`QuoteLifecycle` takes a render for the promotion of a draft to ready and `PdfArtifact` an edit
for the change of revision; `ExtractionCalls` takes a job for its tries;
`Documents` keeps of a document what tells its rows apart, `QuoteLifecycle` its
tokens, `DraftContent` its money. `IdempotentSubmit` and `DraftContent` prefix the
names every module has (`SubmitInit`, `DraftSpec`), since their proofs extend another
module beside them.

Quotes and invoices have services of the same shape (share, artifacts, emails,
mutation, creation). Where the two take the same steps one definition stands for
both, and `map` names one of them; `Documents` has both types.

**A session without locks.** `Flush` in `PdfArtifact`, `QuoteLifecycle` and `Documents` is
SQLAlchemy's flush: the columns that differ between the loaded and the wanted
row are written over whatever the row holds by then. `JobLifecycle` splits each
transition into `Load` (`_get_required`, `_ensure_transition`) and one `Store...`
action. The auxiliary variables `overlapped`, `race` and `stale` record that a write was
based on a row that had changed; a property that needs the absence of such
overlaps says so.

**JobLifecycle.** `row` is `job_records`: status, attempts, terminal error,
document and, as `aged`, whether `updated_at` is past the stale TTL. `request`
follows the API transaction: `CreateJob` (insert and flush; an extraction only
under the user lock and below the cap), `Enqueue` or `EnqueueFails`, then
`CommitRequest` or `AbandonRequest`. The enqueue comes before the commit, as in
the code. `queue` and `tries` are ARQ: `Deliver` counts `job_try`, `GiveUp`
drops a job beyond `max_tries`, `WorkerCrash` leaves it queued, `JobTimeout`
finishes it. `attempt` is the running `process_job`: its `goal` is the status it
heads for, and `Unwind` is the exception path. `Reap` is one bulk UPDATE.
`DeleteDraft` is the foreign key's ON DELETE SET NULL.

**PdfArtifact.** The content of a document is numbered, and a path is the
revision in its file name. A starter loads and commits (`StartLoad`,
`StartCommit`, `StartRefused`); a worker takes a snapshot, reads the render
context in a later statement, uploads, compares the revision and publishes; an
edit bumps the revision it loaded; a download clears a path whose object is
gone. Removal of objects is best effort. An edit is one of the document, of its
customer (`CustomerLoad`), of the profile (`ProfileLoad`) or of the logo. The last
changes the object first (`UploadLogo`, `RemoveLogo`), then loads the documents
(`LogoLoad`), then commits profile and invalidation together, and may stop
between (`LogoChangeStops`, remembered in `torn`). The worker reads the logo
object (`AttachLogo`) after the rest of the render context, so a logo may be newer
than its revision, and `ShowsNoOldLogo` is what remains true.

**IdempotentSubmit.** Each command to Redis is a step, so SET NX and GET of
`begin`, and GET and DEL of `abort`, can interleave with other requests. A
request may fail anywhere the endpoint's code can raise; send-email has no
handler around `create_job` and the commit, and leaves its key. `doubt` records
the two events the store cannot see: a request that started without a record
because the record expired or was released between SET NX and GET, and a commit
whose reply was lost. `Promise` is `SubmissionPromise` over the key of the outbox: a
key is free, reserved for a content, or has its job for ever.

**CaptureOutbox.** `capture` and `jobs` are IndexedDB, `client` is what a pass
or a screen is doing, `visit` what a screen holds (`isMountedRef`, the key ref),
`paused` the engine's `authPausedUsers`. Passes may overlap because tabs share
the database and not the map of passes. `server` is the endpoint and the worker,
as `SubmissionPromise` has them. A retry time is left out: a pass that comes too early
finds nothing. A screen whose job is done marks the session synced and then reads the
draft (`HydrateDraft`). If that read fails, the code treats the synced capture like one
that was never sent: it becomes `extract_failed`, and with a retryable error it is
queued again under its old key. `EndsAreEarned` holds of such a capture too.

**QuoteLifecycle.** `doc` is the row; owner requests load, decide and write;
views and outcomes are conditional UPDATEs. A token is a number, so its expiry
is a set; `issuedFor` remembers whose quote it was made for.

**EmailDelivery.** A request is prepared (`Prepare`: the checks and the
duplicate-send guard), shared on the row loaded by then (`Share`) and enqueued; the
job's tries are `Start` (set_running and the context), the provider's three
answers `Accept`, `Reject` and `ReplyLost`, `Record` or `RecordFails`, and `Finish`.
`mail[r][n]` is what the provider took from try `n` of request `r`. A crashed try
leaves its row running, so its redelivery is refused by the transition table
(`Redelivered`). An event is dated by the start of its transaction, as
`event_logs.created_at` is. Keys and the steps of a job's row are left to
`IdempotentSubmit` and `JobLifecycle`, expiry and regeneration of a link to
`QuoteLifecycle`.

**Documents.** `rows` is the table of one user. A creation reads the highest
number of its type (`TakeNumber`) and inserts it (`Insert`); when the unique index
refuses it (`InsertCollides`), it takes a number again, and the second time the
request is refused. A customer or a source that is gone, or a source that has an
invoice by now, refuses it too (`InsertFails`). A conversion and a duplicate are
creations that load a source. Share, revocation, payment, reassignment and change of
type load a row, decide and write what they changed (`Flush`). `View` and `MarkViewed`
are the public page: it is read, then one conditional UPDATE marks the quote viewed or
sets `first_viewed_at` of the invoice, and its row count decides on the event. Bulk requests walk over ids, each with the
statements the code has for it. `DeleteCustomer` takes the documents along.
The table starts empty or with one of `FirstRows`, a document with a status and a
link that earlier requests can have left.

**ExtractionCalls.** `slots` and `used` are the two counters in each store:
Redis, or the memory of a process that started without it. A guarded call
acquires, reserves and then runs the tiers; `releasing` is the `finally` that gives
the slot back. A key expires when its TTL passes (`KeyExpires`), under a running
call too (`late`, `overruns`). A call asks a tier up to `MaxAttempts` times, repairs
an invalid answer once, goes on to the next tier on any failure, and ends in one of
`Results`, which its caller stores, retries as a job or turns into an error.

**DraftContent** and the operators under it. A capture has words and the tool
outputs of the provider, valid or not. `AnswerFits`, `AskRepair`, `RepairInvalid` and
`RepairEscapes` are how an output becomes a result; `CreateExtractedDraft` prices it
and seeds the sidecar, `CreateFromRequest` takes the body of a request. Partial
edits load, compute every column and write those their request touches whose value
changed. A request for the review sidecar that changes nothing writes nothing and is left
out; one may dismiss an id that the sidecar does not have (`UnknownId`), since the
endpoint takes any text and stores it. Phrases are matched word by word where the code
looks for a substring of the text, and prices are whole mills, so that the code's
tolerance of less than a cent is equality. `SpokenMoney` is checked against a list of the ways to say an amount
(`HintsMeanWhatTheySay`, `DollarsAreHeard`); `Pricing` by what its results mean to
a reader of the document. Amounts are in cents and prices in mills, so that each
rounding of the code is a rounding of the model.

**EditHistory.** Every action of `DraftContent` with what it adds to a history that no
action reads: `log` has the committed edits in their order, each with its request and
with the place in the log where it had read the row (`began` until then), and `made` the
row as it was made. A copy begins a history of its own. `AnsweredEditsStand` is what a
client can rely on without any lock, overlaps included. An edit of the tax, of the
discount's value or of the deposit decides its column unless another edit of *that
column* was committed after it had read the row. A review is in effect unless a later one
that had not read it wrote the sidecar over, which is how one of two dismissals is lost.
Nothing is dismissed, cleared or changed that no edit asked for. The total and the type
of a discount are not said to stand: they are computed from several columns.

**AuthSession.** `rows` are the refresh tokens, `jar` the cookies a browser shares
between its tabs, `csrf` what a tab remembers. A refresh opens with SELECT FOR
UPDATE (`RefreshOpen`) and commits later (`RotateCommit`), or finds the token
revoked and revokes all (`SweepBegin`, `SweepCommit`): one UPDATE that works on the
rows committed when it begins and waits for locked ones (PostgreSQL locks them one by
one as it scans; a token rotated in between is one that `spared` names). A tab shares one refresh
between its calls (`CallUnauthorized`); answers may be lost after the server
committed (`AnswerLost`). `trace` remembers which browsers were `disturbed` (two
auth requests at once, or a lost answer) and which tokens overlapped a sweep.

## 3. The runs

Properties are conjunctions of named parts where the parts speak of one thing:
`GuardHolds`, for one, is `TypeOK`, `CapacityRespected`, `MemoryLosesNoSlot` and
`WorkIsCharged`, each with its own comment. `TypeOK` is a part of such an invariant
in every run of a module without proofs (on its own in `PdfArtifact`); of the
modules with proofs it is a theorem, alone or in such a conjunction.

All runs check deadlock off: requests, tabs and jobs end, and every model may
come to rest. Bounds are constants of the modules.

| Run | Instance | What it shows |
|---|---|---|
| `JobsExtraction` | 2 extractions of one user, cap 1, 2 tries | draft and status together; admission; success final; capacity comes back |
| `JobsMixed` | 1 extraction, 1 pdf or email job, 3 tries | retry budget; `JobStatusMachine` is implemented |
| `PdfArtifact` | 2 renders, 2 edits of any kind, 2 tries, 1 lost object | published content and logo, attached job, success of a job |
| `IdempotentSubmit` | 4 captures under one key, 2 contents, 1 email key | one job per key, genuine replays, the promise about a key kept step by step |
| `CaptureOutbox` | 2 passes, 1 screen, 2 attempts, 1 job, 1 key, 1 edit, closing tabs | synced means drafted; attempts are really spent |
| `OutboxSyncs` | 1 pass, 1 screen, 2 attempts, 2 jobs, no closing tab | a queued capture ends |
| `QuoteLifecycle` | 2 requests, 1 viewer, 2 customers, 2 tokens | status, link, customer and invoice |
| `EmailDelivery` | 2 requests, 2 tries, 3 ticks, a window of 1 | guard, repeated emails, truthful row, fresh link |
| `Documents` | 3 documents, 2 requests at once of 3, 2 customers | numbers, sources, first views, outcomes, deletion |
| `DraftContent` | transcripts of up to 4 words over 6 and longer ones, a grid of pricing hints, odd and repaired outputs; 4 requests; 9 patches and every patch of the sidecar, 3 edits of which 2 overlap | spoken amounts, corrections, totals, discount, rows; what answered edits may rely on |
| `ExtractionCalls` | 2 clients, 3 calls, 1 slot, quota 2, 2 tiers of 2 requests, 2 tries, 1 crash, 1 outage, 1 overrun | slots, quota, outcome, metadata; slots come back |
| `AuthSession` | 2 browsers, 2 tabs in one or two of them, 3 calls, 2 reset forms, 4 auth requests, 5 events | one live token, revocation, logout, replay, waiting calls |

Why these bounds are enough for the cases that matter: a race here is between a
load and a write of one row, so two writers (and a reader) show it; a cap of one
with two requests is the boundary of admission; two tries give a retry and an
exhaustion, three a retry between them; two revisions after the first give a
render that is stale, one that is current and one that is stale again; two
tokens give a link that is replaced; three ticks and a window of one give a
second request inside the window, at its end and after it. Three documents give a
creation, the one it collides with and the source of either, and two rivals
refuse a creation. Four auth requests are a login, a rotation, a rival of either
and what follows. Transcripts of four words reach every rule that looks at
neighbours, the longer ones every rule for two amounts in a row. Of three
edits two overlap, so that one may write the other over, and the third comes before
or after them, or overlaps the second of them.

`PdfArtifact` is explored under the constraint `Explored`: its properties say
nothing once a row was overlapped, so what follows an overlap is followed only
without a lost object or a download, as far as the clean-up that an overlap makes
necessary.

### Where the code does not do what a document says

Met while modelling; each is allowed by a model, and the properties are stated so
that they name the exception.

Jobs, artifacts, captures, links:
- `docs/runbooks/worker-startup-monitoring.md:21` expects pending rows to be taken.
  A job is enqueued before its row is committed; a fast worker finds no row and
  forgets the delivery. An extraction is reaped later; a pdf job is reused by every
  later request for its revision.
- `docs/adr/005-durable-arq-job-pipeline.md:144` wants stale renders kept out. The
  worker compares revisions, an edit commits, the worker publishes the old content.
- `docs/roadmaps/P0_FIELD_RESILIENT_CAPTURE.md:270`, `:301` want one draft for a
  capture. Its key goes when the job is accepted; a repeated extraction makes a
  new key. `:298` and `:300` want a queued capture synced or recoverable; a tab that
  closes during a pass leaves the job running, where nothing looks for it.
- `docs/analogs/stateful-action-matrix.md:32` wants a share not to go back. A share
  that loaded the quote before it was approved writes `shared`; one that loaded an
  invoice before it was first sent writes `sent` over `paid`.
- `docs/analogs/transactional-email-flow.md:37` wants the throttle preserved when
  an event cannot be stored. The fallback is a dictionary in the worker, the guard
  runs in the API and reads its own; `ThrottleHolds` is stated for stored events.
- A logo upload that stops after the object was written leaves published PDFs with
  the old logo until the next invalidation; an upload that overlaps a removal can
  leave `logo_path` at an object that is gone (`features/profile/service.py:221`).

Documents:
- Numbers are the maximum plus one, so a deletion gives the highest number away
  again (`ShownNumberStays` holds since only unshared documents can be deleted, up
  to stale deletions and deleted customers). A stale deletion can delete a quote
  that has become an invoice.
- A conversion whose insert is rolled back reads `quote.id` of an expired row, and
  two rivals end it with 500 and not with the 409 meant for it.
- Deleting a customer runs into the RESTRICT of a document inserted meanwhile, an
  IntegrityError nothing catches; its artifacts are gone by then.

Extraction and pricing:
- `shared/rate_limit.py:522`: a slot is lost when the store fails before the `try`
  that releases it; `:232`: a release after the TTL takes the slot of another call.
- `integrations/extraction.py:352` says the metadata is that of the most recent call;
  a repair without tool output (`:663`) leaves `not_attempted`. Whether a job is
  retried follows the last tier's error alone.
- `integrations/extraction.py:742`: the result of a repaired output is built outside
  the `try`; a blank text in it escapes as an error of the whole call
  (`RepairEscapes`). `features/quotes/creation/service.py:157`: captured pricing that
  breaks the rules is a 422 outside every handler that keeps the capture.
- A tax, deposit or discount captured without a total is dropped unless line items
  have prices. Where two readings of spoken words overlap ("twenty two hundred
  fifty") both are hints. A sidecar from older layouts numbers its segments per
  list, so two may share an id and be dismissed together.
- `shared/pricing.py:345` computes the subtotal back from a rounded total: under a
  percent discount it drifts by up to a cent and a half over one minus the
  discount (`SubtotalSurvivesEdits`). The rows a customer reads then miss the total by
  up to a cent, and by two with a percentage off and a tax above one half (33 percent
  off and 90 percent tax on 9.61), so a deposit that was covered may be a cent or two
  above what is left (`BackwardError`). Overlapping edits write columns that do not
  fit each other: a discount type without a value makes later edits 422, and a
  review sidecar is written whole, so one of two dismissals is lost; what cannot be lost
  is `AnsweredEditsStand`.

Auth:
- ADR-002 takes a replay for theft. Two tabs that refresh at once, or a refresh
  repeated since its answer was lost, are taken for one, and every session of the
  user is revoked (`ReplayMeansDisturbed` says that nothing else is). A tab that
  holds the CSRF token of an answer another tab has since replaced is signed out.
- A rotation or login whose row is not yet committed when a password reset revokes
  all tokens escapes it (`RevocationReachesAll` names these in `spared`).

### Fairness

Safety runs use `Spec`, without fairness, and so does `AuthSession`.
`ReapingSpec` assumes that time passes and that the API's reaper loop runs
(`features/jobs/reaper.py` loops for the life of the process and survives a failed
pass), and nothing about the worker: that is the point of `CapacityComesBack`.
`SyncSpec` assumes that the app is opened again and passes run to their end, that
requests end and the worker finishes jobs. It does not assume that a network
answer ever comes: passes end by their timeout and their budget. `OutboxSyncs` also
takes `TabsClose = FALSE`; with it true TLC refutes the same formula.
`ExtractionCalls` assumes that a call goes on (each request to a provider has a
timeout, each caller continues from its answer) and that the key of a full counter
runs out of time, as only a successful acquire extends it; it assumes neither that
Redis comes back nor that a lost slot is ever released.

## 4. What is proved

`JobLifecycleProofs` proves, for every finite set of jobs, every owner, cap and
`MaxTries > 0` (assumptions `JobsAssumption` and `BoundsAssumption`):

- `DraftCorrectness` and `RetryBudgetKept`: `Spec => []...` for the invariants
  `DraftMatchesStatus` and `RetryBudget` of the runs, from a theorem for each of
  their parts, and `TypeCorrectness` for `TypeOK`;
- `AdmissionIsAtomic`: `Spec => []WaitingWithinLimit`;
- `SuccessFinality`: the action property `SuccessIsFinal`;
- `Refinement`: pdf and email rows implement `JobStatusMachine`.

None of these invariants is inductive. `AtMostOneDraft` may be broken by a store
of success over a row that already is a success; that cannot be because a
transition that passed its load is heading away from `pending`, `running` or
`failed` and only the reaper, which never writes success, can move the row in
between. So the inductive invariant `IInv` says of each job (`JobInv`):

- the row is absent until its request is done;
- an attempt about to write loaded the row's present attempts, and the row is
  neither absent nor a success; outside extractions its transition is still
  allowed, since the reaper leaves such rows alone;
- drafts is one for a successful extraction and zero otherwise, and a document
  is named by successes only;
- attempts is at most tries, and strictly less while set_running is under way;
- `retry_exhausted`, in the row or on its way there, means that the tries are
  used up.

`InitInv` and `NextInv` are the induction, the latter by one lemma for each group
of actions; the properties follow from `IInv`, the two action properties through
`RowSteps`, which bounds what one step does to a status. `WaitingWithinLimit` is
inductive together with `IInv`: `WaitingSteps` shows that no step but a creation adds
to the jobs that count against the cap (a job that is absent stays so until its
request creates it, and one that has ended stays ended), and `AdmissionLeavesRoom`
that a creation, which counted under the user lock, adds one below the cap.

`SubmissionProofs` proves, about `IdempotentSubmit`, for every finite set of requests,
all keys, contents and assignments of them (assumption `SubmitAssumption`):

- `OneJob` and `Genuineness`: `SubmitSpec => []...` for `OneJobPerKey` and
  `ReplayIsGenuine`;
- `Promised`: the action property `PromiseKept`, every step does what
  `SubmissionPromise` allows for its key or nothing a client could tell, and no stored
  answer is replaced or deleted;
- `SubmitImplements`: a run without `doubt` implements `SubmissionPromise`.

The argument is ownership (`Owns`). Between `begin` and its answer a request owns
the record under its key: the record is its own reservation, no other request of
the key is in that span, and the key has no accepted job but its own. SET NX
gives ownership to one request, so the GET and DEL of `abort`, which are not
atomic in the code, delete nothing but the owner's reservation, and a request
that crashes leaves a reservation nobody else gets past. `Exclusive` states this,
together with the fact that a key without a record has no accepted job; it holds
while `doubt` is empty. `Genuine`, which needs no such condition, says that
completed records name committed jobs. The mapping to the promise reads the record and
the jobs of a key: a key is reserved while its owner has not committed, so a step of
a request that owns nothing is a stutter.

About `CaptureOutbox`, for every number of passes, screens, jobs, keys, attempts and
edits, it proves `EndsEarned` (`Spec => []EndsAreEarned`) and that what the device
sees of the server is a run of `SubmissionPromise`. A pass takes its job for
granted long after it read it, so `OutboxInv` says of each client what backs it
(`Backed`): a pass that is about to report success has its draft on the server, and
the attempts it counts are fewer than the tries of its row, or the row has had all of
them (`SoundRow`). Since drafts stay and tries only grow (`DraftsStay`, `TriesStay`),
no step of another pass, tab or worker takes this away; each action is left with what
it does to its own client and row.

`EmailDeliveryProofs` proves, for every set of requests, all positive
`MaxTries`, every window and length of time (assumption `EmailAssumption`):

- `TypeCorrectness`, `ThrottleSoundness`, `ResendSoundness`, `OutcomeSoundness`
  and `LinkSoundness`: `Spec => []...` for `TypeOK` and the four properties of
  the run.

The inductive invariant has three parts for each request. `JobInv` ties the row
to its try: a try runs over a row in `running`, it knows of no email until the
provider answers, and a row that will be tried again knows of none, so a second
email can only follow an answer that was lost; a row left in `running` without a
try was cut off. `Dated`: a recorded email has its event in the table, and
neither admissions nor records lie in the future; with it the guard's look at
the table speaks of every recorded email. `Linked` follows a revocation: a
request whose share loaded a live link, or whose job is open, and that meets a
revoked link saw the owner revoke it. Its hard case is `LinkShare`: a share that
acts on the row it loaded can leave a link dead, but only one revoked since.

`PdfArtifactProofs` proves, for every finite set of renders and edits and every
number of tries, `TypeCorrectness`, `ContentIsCurrent`, `AttachedJobIsCurrent` and
`NoOldLogoShown` (`Spec => []...` for the four invariants of the run) and the action
property `SuccessMeansPublished`. What is true of the row speaks of states in which no
write was based on a row that had changed, so the invariant is a `Shape` that always
holds and a `CleanInv` that holds unless `overlapped`. Its core: while rows do not
overlap, a revision determines its content. The row points to its own revision or
to nothing (`RowInv`); no object is ahead of the row, and the object of its revision
shows its content (`StoreInv`); a render for the present revision carries that content
from its snapshot to the bucket, and later ones are for older revisions (`WorkInv`);
what an edit or a stale render deletes is older than the row (`EditInv`). The logo needs
a part of its own (`LogoInv`), since the worker reads the object after the revision:
outside a logo change no render of the present revision has a logo but the present
one in hand.

`QuoteLifecycleProofs` proves, for every set of requests, viewers and customers and
every number of tokens, `RowsAgree` (`Spec => []ColumnsAgree`) and the action
properties `NeverGoesBack` and `DeadLinkStaysDead`. A request that is about to write
holds the row it loaded and the row it wants; `Decided` says what the first allowed and
the second changes (a share, a revocation, an update or a render) and that a new token
was made for the customer of the loaded row. `TokensStay` adds that a row that had a
token when a request loaded it has one still, so a write of the columns that differ
cannot revive an old one. `ColumnsAgree` then follows from `SharedAsMade`, which holds
while no write raced: a token means a public status and the customer it was made for,
and an invoice has none.

`ExtractionProofs` proves, about `ExtractionCalls`, for every finite set of clients,
every limit, quota, number of tiers, attempts and tries, `GuardAlwaysHolds` and
`CallersTold` (`Spec => []...` for
`GuardHolds` and `CallersLearnTheOutcome`). `SlotsCover` counts: the calls that hold a
slot are at most the counter of the store plus the leases that were outlived, and
those whose key has expired since are at most the latter; a release that decrements
the slot of another call is paid for by its own overrun. `Placed` says who may be where
and what the metadata says while a tier is asked, `Told` what a result has to do with
the tiers once they are done.

About `DraftContent` it proves all the properties of the run, for all captures, answers,
requests and patches that fit their schemas (`DraftContentAssumption`), every tax scale,
every set of edits and every bound: `ColumnsAlwaysFit`, `AmountsAlwaysHeard`,
`GuardFlagsWhatItMends` (`DraftSpec => []...` for `ColumnsFit`, `AmountsAreHeardRight`,
`CorrectionsAreVisible`), `DraftsTellTheirCaptures` and `EditsKeepTheRest` (the action
properties), and about `EditHistory`, from the same assumption, `AnswersStand`
(`HistorySpec => []AnsweredEditsStand`). The schema is what Pydantic has checked
when these steps run: amounts are numbers or null, a discount type is one of two, texts
are texts. It does not bound an amount or a length, so the runs' grid of values is
one instance.

- The inductive invariant `DraftInv` says of the row what any edit leaves (`RowFits`)
  and, unless an edit was committed over a row it had not loaded, that it is `Whole`:
  both or none of a discount's columns, a percentage of at most a hundred, a deposit
  the total covers. The properties alone are not inductive: an edit writes what it
  computed from the row it *loaded*, so `CallFits` says that this row fitted too, and
  `Whole` must hold of the pricing the rules let pass (`Passed`) and of what a partial
  write makes of it (`UpdatedWhole`). `ResultTellsAnswer` keeps the answer a result was
  made from.
- The money: `HalfUp` is within half a unit (`WholeError`), so the subtotal computed back
  from a total (`BackAgain`) makes that total again but for `BackwardError`, of which
  `DiscountedBack` and `TaxedBack` are the two halves. A total moves no more than
  its subtotal (`TotalMoves`), which is why rounding each price when it is stored costs
  at most half a cent an item (`KeptSums`).
- The history: a step of `EditHistory` is one of `DraftContent` (`HistoryLooksOn`), so
  `DraftInv` is inherited. What breaks a promise is the row an edit still holds, so
  `Knows` says of each edit under way which reviews its sidecar shows, namely all up to
  the place where it read (`ReviewsStand` of that part of the log), and which of its
  columns are as it read them, namely those that no later entry sets (`ColumnsKnown`).
  The lemmas about a log that grows by one entry (`StandsOn`, `StandsReviewed`,
  `ColumnsOn`) are about any log.
- The semantic guard folds the words of a transcript over the items. `Corrections` is
  a recursive function, and what it does after n words is proved by the least n at
  which it fails (`StepByStep`, from the well-foundedness of the naturals): `Owned`
  gives each mended item a word of its own that said its amount, an injection into
  the hints, which bounds how many items one amount mends.
- The reader of spoken amounts: `Spoken` says word by word what an amount is. The reader
  finds one whenever there is one, and the longest (`PhraseReads`); a phrase is `Spoken`
  exactly when it is in the list of the ways to say an amount (`ListedIsSpoken`,
  `SpokenIsListed`). `"dollars"` is in no table, so a phrase before it cannot be read on.

The proofs found `RowsAddUp` too strong as it first stood. The rows were said to add
up to a cent; with a percentage off and a tax above one half they need two. And a
balance was said never to be below zero by more than a cent: that is so for what a
deposit leaves, with the same error, but a total may itself be negative, since
nothing in the code keeps a price or a total above zero. A first grid of amounts met
neither; that of the run (`MCRequests`) has the first.

`AuthSessionProofs` proves, for every set of browsers, tabs, calls and reset forms
and every number of requests and events (assumption `AuthAssumption`), `SpentOnce`,
`AllRevoked`, `LogoutHolds` and `QuietBrowser` (`Spec => []...` for the four invariants of
the run). The parts of the invariant, in the order in which they carry each other:

- `LaneInv` and `Numbered`: a request under way has a token that exists and a number
  whose row does not, until it is granted; no two have the same number;
- `OwnerInv` and `LockInv`: of each login at most one token can be gone on with, a live
  one or the one a rotation has locked (which may expire meanwhile), and none of a
  login that a logout ended; the row lock makes the rotation its only owner;
- `SweepInv`: while a statement over all rows runs, every live row is one that it saw,
  or is spared; it waits for rows that are being rotated, so none of them is revoked
  under its rotation;
- `Homes`: no token is in two browsers, so what one browser spends is not what another
  holds;
- `UndisturbedInv`: a browser that lost no answer has one request at a time and a token
  that works with it, and only once the request is granted may the one in the jar be
  spent. `QuietBrowserKeepsSession` is what is left of this between two requests.

`DocumentsProofs` proves, for every set of requests and customers and every number of
documents and of requests (assumption `DocumentsAssumption`), `NumbersAreKept`,
`SourcesAreKept` and `FirstViewIsOne` (`Spec => []...` for `NumbersHold`, `SourceStays` and
`FirstViewOnce`) and `InvoicesAreKept` (the action properties of `InvoicesStay`). None of
the three invariants is inductive: each speaks of rows, and what breaks a row is in the
hands of a request. The parts of the invariant:

- `Decided` says of each request what the row it loaded allowed it to want: a creation
  carries the quote it was made from (`Creates`), a change keeps source and number, or
  takes a new number for a document that was never shared (`Changes`), and a deletion
  loaded a quote that was neither shared nor linked;
- `Known` says what of that row is still so, whoever wrote since: its source, that it
  has a customer and, while a page is shown, its number and that it has a link;
- `RowInv` ties status and link of a row to its type, unless it was written over on the
  strength of an old row (`stale`): a write that was not decided on an old row writes
  the row as it was wanted, since what it leaves alone is as it was loaded (`Flushing`);
- `UniqueNumbers` is the index, and `ShownInv` keeps what a customer saw in place, since
  a document with a link changes neither type nor number and is not deleted;
- `Rivalled` counts: a request that finds its number taken has lost it to a document
  numbered since, as `NextNumber` is above every number in use when it is taken. That
  needs a maximum of a finite set (`Greatest`), which is proved by well-foundedness.

Numbers have no bound in terms of the documents, since a change of type back and forth
raises them; so `Sequences` is `Nat`.

TLC checked each of these invariants on the run's instance.
`AuthAssumption` tells tabs from reset forms, since `sweep.by` names either.

Every invariant and every action property of the runs is proved, so what is only
model-checked are the liveness properties `CapacityComesBack`, `QueuedCaptureSyncs`
and `CapacityReturns`, since TLAPS does not reason about fairness and ENABLED. No
module uses a RECURSIVE operator: recursion is by functions on the naturals.

## 5. Not modelled, and the plan

Not modelled: audio clips, local drafts, clean-up of captures by age and retry
delays of the browser; prompts and request bodies of the providers; the request
limiter, which is a library; titles, addresses, due dates and other text of a
document, which is part of the content number in `PdfArtifact`; the append of an
extraction to an existing quote, which no endpoint reaches; lists, searches and the
pricing display in the browser. The catalog is single-row. Adapters, logging,
configuration, administration and deployment keep no state that interacts.

Four hazards have no property: ARQ's job timeout leaves a pdf row running, a tab
that closes leaves an outbox job running, a key is dropped before its draft
exists, and captured pricing that breaks the rules loses the draft. In each the
code does go wrong, by the models above, so there is nothing that holds to state;
the properties next to them say what still does.

What a next step could be: splitting the invoice services from those of the quote
where they take the same steps today, and the two liveness properties of the outbox
and of capacity under a proof system that knows fairness.
