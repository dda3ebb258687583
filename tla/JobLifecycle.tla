----------------------------- MODULE JobLifecycle -----------------------------
(***************************************************************************)
(* The durable job pipeline: one job_records row per job, the API request  *)
(* that inserts and enqueues it, the ARQ queue, the worker's process_job   *)
(* wrapper and the stale-extraction reaper.                                *)
(*                                                                         *)
(* A status transition of the worker is two steps, as in the code: the row *)
(* is loaded and checked against the transition table (Load), and later    *)
(* the changed columns are written by UPDATE ... WHERE id and committed    *)
(* (Store).  Nothing locks the row between them, so the reaper's bulk      *)
(* UPDATE may fall in between.                                             *)
(***************************************************************************)
EXTENDS Naturals, FiniteSets

CONSTANTS
  Jobs,            \* job ids; each belongs to one API request
  ExtractionJobs,  \* the jobs of type extraction; the others are pdf or email
  Users,
  Owner,           \* the user of each job
  MaxTries,        \* DEFAULT_MAX_TRIES
  Limit            \* extraction_concurrency_limit

ASSUME JobsAssumption ==
  /\ IsFiniteSet(Jobs)
  /\ ExtractionJobs \subseteq Jobs
  /\ Owner \in [Jobs -> Users]

ASSUME BoundsAssumption ==
  /\ MaxTries \in Nat \ {0}
  /\ Limit \in Nat \ {0}

VARIABLES
  row,      \* committed contents of job_records
  request,  \* progress of the API request that creates the job
  queue,    \* what ARQ knows of the job
  tries,    \* ARQ's job_try: deliveries started so far
  attempt,  \* the running process_job call, if any
  drafts    \* quote drafts committed for the job

vars == <<row, request, queue, tries, attempt, drafts>>

-------------------------------------------------------------------------------
(* Types *)

Statuses == {"pending", "running", "success", "failed", "terminal"}

ActiveStatuses == {"pending", "running"}

Reasons == {"none", "enqueue_failed", "job_not_picked_up", "retry_exhausted",
            "unexpected_error", "draft_persistence_failed"}

\* error is the terminal_error column, doc is document_id as a finished
\* extraction sets it, aged says that updated_at is older than the stale TTL.
Row == [status : Statuses \cup {"absent"}, attempts : Nat, error : Reasons,
        doc : {"null", "quote"}, aged : BOOLEAN]

NoRow == [status |-> "absent", attempts |-> 0, error |-> "none",
          doc |-> "null", aged |-> FALSE]

RequestStates == {"idle", "created", "queued", "enqueue_failed", "done", "gone"}

\* created, queued and enqueue_failed: the insert is flushed and not committed.
OpenTransaction == {"created", "queued", "enqueue_failed"}

QueueStates == {"none", "queued", "active", "finished"}

\* goal is the status a transition is heading for, seen the columns it loaded.
Attempt == [pc : {"idle", "read", "write", "work", "ack"}, goal : Statuses,
            reason : Reasons, seenAttempts : Nat, seenError : Reasons]

NoAttempt == [pc |-> "idle", goal |-> "running", reason |-> "none",
              seenAttempts |-> 0, seenError |-> "none"]

\* The attempt is about to load the row for a transition to goal.
Heading(goal, reason) == [NoAttempt EXCEPT !.pc = "read", !.goal = goal,
                                           !.reason = reason]

\* The coroutine is between transitions, or has returned to ARQ.
At(pc) == [NoAttempt EXCEPT !.pc = pc]

TypeOK ==
  /\ row \in [Jobs -> Row]
  /\ request \in [Jobs -> RequestStates]
  /\ queue \in [Jobs -> QueueStates]
  /\ tries \in [Jobs -> 0 .. MaxTries]
  /\ attempt \in [Jobs -> Attempt]
  /\ drafts \in [Jobs -> Nat]

-------------------------------------------------------------------------------
(* The transition table *)

AllowedTransitions ==
  [s \in Statuses \cup {"absent"} |->
     CASE s = "pending" -> {"running", "terminal"}
       [] s = "running" -> {"success", "failed", "terminal"}
       [] s = "failed"  -> {"running", "terminal"}
       [] OTHER         -> {}]

\* Mutation: _ensure_transition is not called.
NoTransitionCheck(from, to) == from # "absent"

\* _get_required and _ensure_transition: a missing row has no transition.
TransitionAllowed(from, to) == to \in AllowedTransitions[from]

-------------------------------------------------------------------------------
(* The API request *)

\* count_active_for_user: committed rows only; a failed row is not counted.
CountActive(u) ==
  Cardinality({j \in ExtractionJobs : /\ Owner[j] = u
                                      /\ row[j].status \in ActiveStatuses})

\* Mutation: admission reads the user without FOR UPDATE.
NeverLocked(u) == u \notin Users

\* The user row is locked FOR UPDATE until the admitting transaction ends.
UserLocked(u) ==
  \E j \in ExtractionJobs : Owner[j] = u /\ request[j] \in OpenTransaction

\* The row is inserted and flushed: admission for an extraction, unconditional
\* for a pdf or email job.
CreateJob(j) ==
  /\ request[j] = "idle"
  /\ j \in ExtractionJobs => /\ ~UserLocked(Owner[j])
                             /\ CountActive(Owner[j]) < Limit
  /\ request' = [request EXCEPT ![j] = "created"]
  /\ UNCHANGED <<row, queue, tries, attempt, drafts>>

\* The user is at the cap: the request answers 429 and leaves nothing behind.
RejectJob(j) ==
  /\ request[j] = "idle"
  /\ j \in ExtractionJobs
  /\ ~UserLocked(Owner[j])
  /\ CountActive(Owner[j]) >= Limit
  /\ request' = [request EXCEPT ![j] = "gone"]
  /\ UNCHANGED <<row, queue, tries, attempt, drafts>>

\* enqueue_job returns before the transaction that holds the row commits.
Enqueue(j) ==
  /\ request[j] = "created"
  /\ request' = [request EXCEPT ![j] = "queued"]
  /\ queue' = [queue EXCEPT ![j] = "queued"]
  /\ UNCHANGED <<row, tries, attempt, drafts>>

\* enqueue_job raises; Redis may have taken the job and only the reply is lost.
EnqueueFails(j) ==
  /\ request[j] = "created"
  /\ request' = [request EXCEPT ![j] = "enqueue_failed"]
  /\ \E q \in {"none", "queued"} : queue' = [queue EXCEPT ![j] = q]
  /\ UNCHANGED <<row, tries, attempt, drafts>>

\* The commit makes the row visible: pending, or already terminal when
\* mark_enqueue_failed ran in the same transaction.
CommitRequest(j) ==
  /\ request[j] \in {"queued", "enqueue_failed"}
  /\ row' = [row EXCEPT ![j] =
               IF request[j] = "queued"
               THEN [NoRow EXCEPT !.status = "pending"]
               ELSE [NoRow EXCEPT !.status = "terminal", !.error = "enqueue_failed"]]
  /\ request' = [request EXCEPT ![j] = "done"]
  /\ UNCHANGED <<queue, tries, attempt, drafts>>

\* The process stops or the commit fails: the insert is rolled back.
AbandonRequest(j) ==
  /\ request[j] \in OpenTransaction
  /\ request' = [request EXCEPT ![j] = "gone"]
  /\ UNCHANGED <<row, queue, tries, attempt, drafts>>

Request(j) == \/ CreateJob(j) \/ RejectJob(j) \/ Enqueue(j) \/ EnqueueFails(j)
              \/ CommitRequest(j) \/ AbandonRequest(j)

-------------------------------------------------------------------------------
(* ARQ, as the worker uses it *)

\* A delivery: job_try is counted first, then process_job is entered.
Deliver(j) ==
  /\ queue[j] = "queued"
  /\ tries[j] < MaxTries
  /\ queue' = [queue EXCEPT ![j] = "active"]
  /\ tries' = [tries EXCEPT ![j] = @ + 1]
  /\ attempt' = [attempt EXCEPT ![j] = Heading("running", "none")]
  /\ UNCHANGED <<row, request, drafts>>

\* job_try would exceed max_tries: ARQ drops the job without calling the function.
GiveUp(j) ==
  /\ queue[j] = "queued"
  /\ tries[j] = MaxTries
  /\ queue' = [queue EXCEPT ![j] = "finished"]
  /\ UNCHANGED <<row, request, tries, attempt, drafts>>

\* process_job returned or raised something other than Retry.
Acknowledge(j) ==
  /\ attempt[j].pc = "ack"
  /\ queue' = [queue EXCEPT ![j] = "finished"]
  /\ attempt' = [attempt EXCEPT ![j] = NoAttempt]
  /\ UNCHANGED <<row, request, tries, drafts>>

\* The worker dies or shuts down: no handler runs, ARQ keeps the job queued.
WorkerCrash(j) ==
  /\ attempt[j].pc # "idle"
  /\ queue' = [queue EXCEPT ![j] = "queued"]
  /\ attempt' = [attempt EXCEPT ![j] = NoAttempt]
  /\ UNCHANGED <<row, request, tries, drafts>>

\* ARQ's job_timeout cancels the coroutine and finishes the job.
JobTimeout(j) ==
  /\ attempt[j].pc \notin {"idle", "ack"}
  /\ queue' = [queue EXCEPT ![j] = "finished"]
  /\ attempt' = [attempt EXCEPT ![j] = NoAttempt]
  /\ UNCHANGED <<row, request, tries, drafts>>

-------------------------------------------------------------------------------
(* process_job *)

\* An exception of the running statement: inside the try body it leads to
\* set_terminal, inside an except clause it leaves process_job.
Unwind(j, reason) ==
  attempt' = [attempt EXCEPT ![j] =
                IF attempt[j].goal \in {"running", "success"}
                THEN Heading("terminal", reason)
                ELSE At("ack")]

\* The row is loaded and the table allows the transition.
Load(j) ==
  /\ attempt[j].pc = "read"
  /\ TransitionAllowed(row[j].status, attempt[j].goal)
  /\ attempt' = [attempt EXCEPT ![j].pc = "write",
                                ![j].seenAttempts = row[j].attempts,
                                ![j].seenError = row[j].error]
  /\ UNCHANGED <<row, request, queue, tries, drafts>>

\* The row is missing or the table refuses: ValueError.
Refuse(j) ==
  /\ attempt[j].pc = "read"
  /\ ~TransitionAllowed(row[j].status, attempt[j].goal)
  /\ Unwind(j, "unexpected_error")
  /\ UNCHANGED <<row, request, queue, tries, drafts>>

\* The database fails while a transition loads, flushes or commits.
DatabaseFails(j) ==
  /\ attempt[j].pc \in {"read", "write"}
  /\ Unwind(j, "unexpected_error")
  /\ UNCHANGED <<row, request, queue, tries, drafts>>

\* The session writes the columns whose value differs from the loaded one: a
\* terminal_error set since the load survives a transition that meant to clear it.
WrittenError(j) ==
  LET wanted == attempt[j].reason
  IN  IF wanted = attempt[j].seenError THEN row[j].error ELSE wanted

Written(j) ==
  [row[j] EXCEPT !.status = attempt[j].goal,
                 !.error = WrittenError(j),
                 !.aged = FALSE]

\* set_running: the try is counted and the previous outcome cleared.
StoreRunning(j) ==
  /\ attempt[j].pc = "write"
  /\ attempt[j].goal = "running"
  /\ row' = [row EXCEPT ![j] = [Written(j) EXCEPT
                                  !.attempts = attempt[j].seenAttempts + 1]]
  /\ attempt' = [attempt EXCEPT ![j] = At("work")]
  /\ UNCHANGED <<request, queue, tries, drafts>>

\* A pdf or email job: set_success.  An extraction: the quote draft and
\* set_extraction_success in one commit.
StoreSuccess(j) ==
  /\ attempt[j].pc = "write"
  /\ attempt[j].goal = "success"
  /\ row' = [row EXCEPT ![j] = IF j \in ExtractionJobs
                                THEN [Written(j) EXCEPT !.doc = "quote"]
                                ELSE Written(j)]
  /\ drafts' = [drafts EXCEPT ![j] = IF j \in ExtractionJobs THEN @ + 1 ELSE @]
  /\ attempt' = [attempt EXCEPT ![j] = At("ack")]
  /\ UNCHANGED <<request, queue, tries>>

\* The draft cannot be persisted: rollback, then set_terminal.
DraftPersistenceFails(j) ==
  /\ j \in ExtractionJobs
  /\ attempt[j].pc = "write"
  /\ attempt[j].goal = "success"
  /\ Unwind(j, "draft_persistence_failed")
  /\ UNCHANGED <<row, request, queue, tries, drafts>>

\* A retryable failure with tries left: set_failed, then ARQ's Retry.
StoreFailedAndRetry(j) ==
  /\ attempt[j].pc = "write"
  /\ attempt[j].goal = "failed"
  /\ tries[j] < MaxTries
  /\ row' = [row EXCEPT ![j] = Written(j)]
  /\ attempt' = [attempt EXCEPT ![j] = NoAttempt]
  /\ queue' = [queue EXCEPT ![j] = "queued"]
  /\ UNCHANGED <<request, tries, drafts>>

\* Mutation: the retry budget is compared one try too early.
ExhaustTooEarly(j) ==
  /\ attempt[j].pc = "write"
  /\ attempt[j].goal = "failed"
  /\ tries[j] + 1 >= MaxTries
  /\ row' = [row EXCEPT ![j] = Written(j)]
  /\ attempt' = [attempt EXCEPT ![j] = Heading("terminal", "retry_exhausted")]
  /\ UNCHANGED <<request, queue, tries, drafts>>

\* The last try: set_failed, then set_terminal in a transaction of its own.
StoreFailedAndExhaust(j) ==
  /\ attempt[j].pc = "write"
  /\ attempt[j].goal = "failed"
  /\ tries[j] >= MaxTries
  /\ row' = [row EXCEPT ![j] = Written(j)]
  /\ attempt' = [attempt EXCEPT ![j] = Heading("terminal", "retry_exhausted")]
  /\ UNCHANGED <<request, queue, tries, drafts>>

StoreTerminal(j) ==
  /\ attempt[j].pc = "write"
  /\ attempt[j].goal = "terminal"
  /\ row' = [row EXCEPT ![j] = Written(j)]
  /\ attempt' = [attempt EXCEPT ![j] = At("ack")]
  /\ UNCHANGED <<request, queue, tries, drafts>>

\* The handler ends: with a result, a retryable error or any other exception.
\* An extraction also stores last_model_id, whatever the row's status is by
\* then; the UPDATE is issued only when the id changed.
HandlerEnds(j) ==
  /\ attempt[j].pc = "work"
  /\ \E next \in {Heading("success", "none"), Heading("failed", "none"),
                  Heading("terminal", "unexpected_error")} :
       attempt' = [attempt EXCEPT ![j] = next]
  /\ \/ UNCHANGED row
     \/ /\ j \in ExtractionJobs
        /\ row' = [row EXCEPT ![j].aged = FALSE]
  /\ UNCHANGED <<request, queue, tries, drafts>>

Transition(j) == \/ Load(j) \/ Refuse(j) \/ DatabaseFails(j)
                 \/ StoreRunning(j) \/ StoreSuccess(j) \/ DraftPersistenceFails(j)
                 \/ StoreFailedAndRetry(j) \/ StoreFailedAndExhaust(j)
                 \/ StoreTerminal(j)

Worker(j) == Deliver(j) \/ GiveUp(j) \/ Transition(j) \/ HandlerEnds(j) \/ Acknowledge(j)

Disruption(j) == WorkerCrash(j) \/ JobTimeout(j)

-------------------------------------------------------------------------------
(* Time, the reaper and the user *)

\* The stale TTL passes without a write to an active row.
Age(j) ==
  /\ j \in ExtractionJobs
  /\ row[j].status \in ActiveStatuses
  /\ ~row[j].aged
  /\ row' = [row EXCEPT ![j].aged = TRUE]
  /\ UNCHANGED <<request, queue, tries, attempt, drafts>>

\* Mutation: the reaper does not filter on the job type.
StaleOfAnyType == {j \in Jobs : row[j].status \in ActiveStatuses}

\* Mutation: the reaper looks at pending rows only.
StalePending == {j \in ExtractionJobs : row[j].status = "pending" /\ row[j].aged}

\* The rows the reaper's WHERE matches.
Stale == {j \in ExtractionJobs : row[j].status \in ActiveStatuses /\ row[j].aged}

\* One pass of the reaper: a single UPDATE over every stale active extraction.
Reap ==
  /\ Stale # {}
  /\ row' = [j \in Jobs |->
               IF j \in Stale
               THEN [row[j] EXCEPT !.status = "terminal",
                                   !.error = "job_not_picked_up", !.aged = FALSE]
               ELSE row[j]]
  /\ UNCHANGED <<request, queue, tries, attempt, drafts>>

\* The user deletes the extracted draft: document_id is ON DELETE SET NULL.
DeleteDraft(j) ==
  /\ row[j].doc = "quote"
  /\ row' = [row EXCEPT ![j].doc = "null"]
  /\ UNCHANGED <<request, queue, tries, attempt, drafts>>

-------------------------------------------------------------------------------
Init ==
  /\ row = [j \in Jobs |-> NoRow]
  /\ request = [j \in Jobs |-> "idle"]
  /\ queue = [j \in Jobs |-> "none"]
  /\ tries = [j \in Jobs |-> 0]
  /\ attempt = [j \in Jobs |-> NoAttempt]
  /\ drafts = [j \in Jobs |-> 0]

Next ==
  \/ \E j \in Jobs : \/ Request(j) \/ Worker(j) \/ Disruption(j)
                     \/ Age(j) \/ DeleteDraft(j)
  \/ Reap

Spec == Init /\ [][Next]_vars

\* The API process keeps reaping and time keeps passing; the worker need not run.
ReaperFairness == WF_vars(Reap) /\ \A j \in Jobs : WF_vars(Age(j))

ReapingSpec == Spec /\ ReaperFairness

-------------------------------------------------------------------------------
(* Properties *)

\* A job commits at most one quote draft, however often it is redelivered
\* after a crash or a lost acknowledgement.
AtMostOneDraft == \A j \in Jobs : drafts[j] <= 1

\* An extraction's row says success exactly when its draft was committed, and it
\* names a document only then: the two are one transaction, and neither a
\* redelivery nor a reaper pass separates them afterwards.
SuccessIffDraft ==
  \A j \in ExtractionJobs :
    /\ row[j].status = "success" <=> drafts[j] = 1
    /\ row[j].doc = "quote" => row[j].status = "success"

\* _store_extraction_result and the draft it commits: one transaction, one draft.
DraftMatchesStatus == AtMostOneDraft /\ SuccessIffDraft

\* attempts counts set_running commits: at most one for each delivery, so the
\* retry budget bounds it even when deliveries crash.
AttemptsWithinTries == \A j \in Jobs : row[j].attempts <= tries[j]

\* Success is final, for every kind of job and whatever the reaper does.
SuccessIsFinal ==
  [][\A j \in Jobs : row[j].status = "success" => row'[j].status = "success"]_vars

\* The user-row lock makes admission atomic: extractions that never started
\* cannot exceed the cap, counting those whose insert is not committed yet.
Waiting(u) ==
  {j \in ExtractionJobs : /\ Owner[j] = u
                          /\ \/ request[j] \in {"created", "queued"}
                             \/ row[j].status = "pending"}

WaitingWithinLimit == \A u \in Users : Cardinality(Waiting(u)) <= Limit

\* retry_exhausted is only ever recorded once the whole retry budget was used.
ExhaustedMeansAllTries ==
  \A j \in Jobs : row[j].error = "retry_exhausted" => tries[j] = MaxTries

\* The retry budget is spent by deliveries and by nothing else: no delivery counts
\* twice, and a job is given up only when none is left.
RetryBudget == AttemptsWithinTries /\ ExhaustedMeansAllTries

\* Pdf and email rows follow the status table: nothing but their one running
\* attempt writes them between a load and its store.
NonExtractionJobs == Jobs \ ExtractionJobs

Contract == INSTANCE JobStatusMachine
              WITH Jobs <- NonExtractionJobs,
                   status <- [j \in NonExtractionJobs |-> row[j].status]

FollowsStatusTable == Contract!Spec

\* The reaper gives capacity back whatever happens to the worker: an extraction
\* that counts against the cap does not count for ever.
CapacityComesBack ==
  \A j \in ExtractionJobs :
    row[j].status \in ActiveStatuses ~> row[j].status \notin ActiveStatuses
===============================================================================
