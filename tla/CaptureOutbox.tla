----------------------------- MODULE CaptureOutbox -----------------------------
(***************************************************************************)
(* One local capture on a device: the capture screen that submits it, the  *)
(* outbox that submits it again, the extraction endpoint and the worker    *)
(* behind it.  Everything local is in IndexedDB; what a screen or a pass   *)
(* remembers besides is lost when its tab closes.                          *)
(*                                                                         *)
(* Passes may overlap: two tabs share the database and not the engine's    *)
(* map of passes, and clearOutboxEngineStateForUser forgets a running one. *)
(* The endpoint and the worker are those of SubmissionPromise, which       *)
(* IdempotentSubmit implements.  Retry times are not modelled: a pass that *)
(* comes before nextRetryAt finds nothing to do.                           *)
(***************************************************************************)
EXTENDS Naturals, FiniteSets

CONSTANTS
  Passes,       \* calls of runOutboxPass that may overlap
  Screens,      \* capture screens that may be open on the capture
  MaxAttempts,  \* DEFAULT_MAX_ATTEMPTS
  MaxJobs,      \* bound: outbox jobs created for the capture
  MaxKeys,      \* bound: idempotency keys made for the capture
  MaxEdits,     \* bound: edits of the capture's content
  TabsClose     \* whether a tab may close while a pass or a screen is at work

ASSUME OutboxAssumption ==
  /\ Passes \cap Screens = {}
  /\ {MaxAttempts, MaxJobs, MaxKeys} \subseteq Nat \ {0}
  /\ MaxEdits \in Nat
  /\ TabsClose \in BOOLEAN

VARIABLES
  capture,  \* the capture session record
  jobs,     \* the outbox jobs of the capture
  client,   \* the submission each pass or screen is working on
  visit,    \* what each screen holds besides
  server,   \* what the server has under each key
  issued,   \* how many keys were made
  paused    \* authPausedUsers: the passes whose tab waits for a sign-in

vars == <<capture, jobs, client, visit, server, issued, paused>>

-------------------------------------------------------------------------------
(* Types *)

Clients == Passes \cup Screens
Jobs == 1 .. MaxJobs
Keys == 1 .. MaxKeys
NoKey == 0

Capture == [status : {"local_only", "ready_to_extract", "submitting",
                      "extract_failed", "synced", "deleted"},
            key : Keys \cup {NoKey}, content : 0 .. MaxEdits]

\* kind is lastFailureKind, tries (auxiliary) counts the passes that took
\* the job, up to the attempts it has.
Kinds == {"none", "retryable", "auth", "terminal"}

OutboxJob == [status : {"absent", "queued", "running", "succeeded",
                        "failed_retryable", "failed_terminal", "deleted"},
              attempts : 0 .. MaxAttempts, key : Keys \cup {NoKey},
              kind : Kinds, tries : 0 .. MaxAttempts]

NoJob == [status |-> "absent", attempts |-> 0, key |-> NoKey,
          kind |-> "none", tries |-> 0]

\* attempts is the job's attempt count as the pass listed it.
Client == [pc : {"idle", "listed", "send", "waiting", "polling", "succeeded",
                 "mark_synced", "failed", "mark_failed", "hydrating", "settle"},
           key : Keys \cup {NoKey}, job : Jobs \cup {0},
           attempts : 0 .. MaxAttempts, kind : Kinds]

NoWork == [pc |-> "idle", key |-> NoKey, job |-> 0, attempts |-> 0, kind |-> "none"]

\* ref is extractionIdempotencyKeyRef.
Visit == [at : {"away", "here"}, ref : Keys \cup {NoKey}]

Endpoint == INSTANCE SubmissionPromise WITH Contents <- 0 .. MaxEdits, NoContent <- 0

TypeOK ==
  /\ capture \in Capture
  /\ jobs \in [Jobs -> OutboxJob]
  /\ client \in [Clients -> Client]
  /\ visit \in [Screens -> Visit]
  /\ server \in [Keys -> Endpoint!Submission]
  /\ issued \in 0 .. MaxKeys
  /\ paused \subseteq Passes

-------------------------------------------------------------------------------
(* The outbox store *)

Active == {j \in Jobs : jobs[j].status \in {"queued", "running", "failed_retryable"}}

Stored == {j \in Jobs : jobs[j].status \notin {"absent", "deleted"}}

\* getJobForSession: an active job, or one of the others.
JobsForSession == IF Active # {} THEN Active ELSE Stored

\* enqueueJob: an active job is kept as it is, whatever key it carries.
Enqueued(key) ==
  IF Active # {} THEN {jobs}
  ELSE {[jobs EXCEPT ![j] = [NoJob EXCEPT !.status = "queued", !.key = key]] :
          j \in {i \in Jobs : /\ jobs[i].status = "absent"
                              /\ \A h \in 1 .. i - 1 : jobs[h].status # "absent"}}

\* Mutation: only new jobs are listed.
ListableOnce(j) == jobs[j].status = "queued"

\* listPendingJobs
Listable(j) ==
  \/ jobs[j].status = "queued"
  \/ jobs[j].status = "failed_retryable" /\ jobs[j].kind # "auth"

Goto(c, place) == client' = [client EXCEPT ![c].pc = place]

Finish(c) == client' = [client EXCEPT ![c] = NoWork]

FailWith(c, kind) == client' = [client EXCEPT ![c].pc = "failed", ![c].kind = kind]

-------------------------------------------------------------------------------
(* A submission *)

\* The endpoint has answered with a job.  The screen drops its key, which throws
\* without a session, and marks the session again if it is still mounted.
Answered(c) ==
  IF c \in Passes
  THEN Goto(c, "polling") /\ UNCHANGED <<capture, visit>>
  ELSE /\ visit' = [visit EXCEPT ![c].ref = NoKey]
       /\ \/ /\ capture.status = "deleted"
             /\ Finish(c)
             /\ UNCHANGED capture
          \/ /\ capture.status # "deleted" /\ visit[c].at = "away"
             /\ capture' = [capture EXCEPT !.key = NoKey]
             /\ Finish(c)
          \/ /\ capture.status # "deleted" /\ visit[c].at = "here"
             /\ capture' = [capture EXCEPT !.key = NoKey, !.status = "submitting"]
             /\ Goto(c, "polling")

\* The request reaches the endpoint with the capture's content of the moment.
Send(c) ==
  LET k == client[c].key
      same == server[k].content = capture.content
  IN  /\ client[c].pc = "send"
      /\ \/ /\ Endpoint!Reserve(k, capture.content)
            /\ Goto(c, "waiting")
            /\ UNCHANGED <<capture, visit>>
         \/ /\ server[k].state # "free" /\ ~same
            /\ FailWith(c, "terminal")
            /\ UNCHANGED <<capture, visit, server>>
         \/ /\ server[k].state = "reserved" /\ same
            /\ FailWith(c, "retryable")
            /\ UNCHANGED <<capture, visit, server>>
         \/ /\ server[k].state \in {"pending", "done", "dead"} /\ same
            /\ Answered(c)
            /\ UNCHANGED server
      /\ UNCHANGED <<jobs, issued, paused>>

Waiting(k) == {c \in Clients : client[c].pc = "waiting" /\ client[c].key = k}

\* The job is committed, and the request answered.
Accept(k) ==
  /\ Endpoint!Accept(k)
  /\ \/ Waiting(k) = {} /\ UNCHANGED <<capture, client, visit>>
     \/ \E c \in Waiting(k) : Answered(c)
  /\ UNCHANGED <<jobs, issued, paused>>

\* The request fails.
Refuse(k) ==
  /\ Endpoint!Refuse(k)
  /\ \/ Waiting(k) = {} /\ UNCHANGED client
     \/ \E c \in Waiting(k), kind \in {"retryable", "auth", "terminal"} : FailWith(c, kind)
  /\ UNCHANGED <<capture, jobs, visit, issued, paused>>

\* The worker finishes the job.
Extract(k) ==
  /\ Endpoint!Extract(k)
  /\ UNCHANGED <<capture, jobs, client, visit, issued, paused>>

\* Offline, no answer within the timeout, or one poll too many.
NoAnswer(c) ==
  /\ client[c].pc \in {"send", "waiting", "polling"}
  /\ FailWith(c, "retryable")
  /\ UNCHANGED <<capture, jobs, visit, server, issued, paused>>

\* A poll is refused: the session has expired, or the job is not to be seen.
PollRefused(c) ==
  /\ client[c].pc = "polling"
  /\ \E kind \in {"auth", "terminal"} : FailWith(c, kind)
  /\ UNCHANGED <<capture, jobs, visit, server, issued, paused>>

-------------------------------------------------------------------------------
(* runOutboxPass *)

\* The pending jobs are read; the pass keeps the attempt count it saw.
StartPass(p) ==
  /\ client[p].pc = "idle"
  /\ p \notin paused
  /\ \E j \in Jobs :
       /\ Listable(j)
       /\ client' = [client EXCEPT ![p] =
                       [NoWork EXCEPT !.pc = "listed", !.job = j, !.key = jobs[j].key,
                                      !.attempts = jobs[j].attempts]]
  /\ UNCHANGED <<capture, jobs, visit, server, issued, paused>>

\* A sign-in is asked for: the tab pauses before the failure is recorded.
Pausing(p) ==
  IF client[p].pc = "failed" /\ client[p].kind = "auth" THEN paused \cup {p} ELSE paused

\* The listed job is deleted by now: updateJobStatus throws and the pass ends.
PassAborts(p) ==
  /\ client[p].pc \in {"listed", "succeeded", "failed"}
  /\ jobs[client[p].job].status = "deleted"
  /\ Finish(p)
  /\ paused' = Pausing(p)
  /\ UNCHANGED <<capture, jobs, visit, server, issued>>

\* processJob: the job is marked running, whatever its status is by now.
ProcessJob(p) ==
  LET j == client[p].job
  IN  /\ client[p].pc = "listed"
      /\ jobs[j].status # "deleted"
      /\ jobs' = [jobs EXCEPT ![j].status = "running",
                              ![j].tries = IF @ < MaxAttempts THEN @ + 1 ELSE @]
      /\ Goto(p, "send")
      /\ UNCHANGED <<capture, visit, server, issued, paused>>

\* Mutation: an accepted job is taken for a draft.
PollTakesAnyJob(p) ==
  /\ client[p].pc = "polling"
  /\ Goto(p, "succeeded")
  /\ UNCHANGED <<capture, jobs, visit, server, issued, paused>>

\* pollForPersistedQuote
PollForPersistedQuote(p) ==
  LET state == server[client[p].key].state
  IN  /\ client[p].pc = "polling"
      /\ \/ state = "done" /\ Goto(p, "succeeded")
         \/ state = "dead" /\ FailWith(p, "retryable")
      /\ UNCHANGED <<capture, jobs, visit, server, issued, paused>>

MarkSuccess(p) ==
  LET j == client[p].job
  IN  /\ client[p].pc = "succeeded"
      /\ jobs[j].status # "deleted"
      /\ jobs' = [jobs EXCEPT ![j].status = "succeeded", ![j].kind = "none"]
      /\ Goto(p, "mark_synced")
      /\ UNCHANGED <<capture, visit, server, issued, paused>>

\* markRetryableFailure, or markTerminalFailure when the failure is final or
\* the attempts are used up.
MarkFailure(p) ==
  LET j == client[p].job
      kind == client[p].kind
      spent == client[p].attempts + 1
  IN  /\ client[p].pc = "failed"
      /\ jobs[j].status # "deleted"
      /\ \/ /\ kind = "terminal" \/ spent >= MaxAttempts
            /\ jobs' = [jobs EXCEPT ![j].status = "failed_terminal", ![j].kind = kind,
                          ![j].attempts = IF spent < MaxAttempts THEN spent ELSE MaxAttempts]
            /\ Goto(p, "mark_failed")
         \/ /\ kind # "terminal" /\ spent < MaxAttempts
            /\ jobs' = [jobs EXCEPT ![j].status = "failed_retryable", ![j].kind = kind,
                                    ![j].attempts = spent]
            /\ Finish(p)
      /\ paused' = Pausing(p)
      /\ UNCHANGED <<capture, visit, server, issued>>

\* markCaptureStatus, in a transaction of its own; it throws without a session.
MarkCapture(p) ==
  /\ client[p].pc \in {"mark_synced", "mark_failed"}
  /\ capture' = IF capture.status = "deleted" THEN capture
                ELSE [capture EXCEPT !.status = IF client[p].pc = "mark_synced"
                                                THEN "synced" ELSE "extract_failed"]
  /\ Finish(p)
  /\ UNCHANGED <<jobs, visit, server, issued, paused>>

Pass(p) == \/ StartPass(p) \/ PassAborts(p) \/ ProcessJob(p) \/ PollForPersistedQuote(p)
           \/ MarkSuccess(p) \/ MarkFailure(p) \/ MarkCapture(p)

-------------------------------------------------------------------------------
(* The capture screen *)

Open(s) ==
  /\ visit[s].at = "away" /\ client[s].pc = "idle"
  /\ capture.status \notin {"synced", "deleted"}
  /\ visit' = [visit EXCEPT ![s] = [at |-> "here", ref |-> NoKey]]
  /\ UNCHANGED <<capture, jobs, client, server, issued, paused>>

\* The user leaves; what the screen awaits goes on.
Leave(s) ==
  /\ visit[s].at = "here"
  /\ visit' = [visit EXCEPT ![s].at = "away"]
  /\ UNCHANGED <<capture, jobs, client, server, issued, paused>>

\* The content changes; the key is dropped if this screen has resolved one.
Edit(s) ==
  /\ visit[s].at = "here" /\ client[s].pc = "idle"
  /\ capture.status # "deleted" /\ capture.content < MaxEdits
  /\ capture' = [capture EXCEPT !.content = @ + 1,
                                !.key = IF visit[s].ref = NoKey THEN @ ELSE NoKey]
  /\ visit' = [visit EXCEPT ![s].ref = NoKey]
  /\ UNCHANGED <<jobs, client, server, issued, paused>>

\* resolveExtractionRequestIdempotencyKey: the screen's key, the session's or a
\* new one, which both hold afterwards.
Resolved(s, k) ==
  /\ \/ visit[s].ref # NoKey /\ k = visit[s].ref /\ UNCHANGED issued
     \/ visit[s].ref = NoKey /\ capture.key # NoKey /\ k = capture.key /\ UNCHANGED issued
     \/ /\ visit[s].ref = NoKey /\ capture.key = NoKey
        /\ k = issued + 1 /\ issued' = issued + 1
  /\ visit' = [visit EXCEPT ![s].ref = k]

CanExtract(s) ==
  visit[s].at = "here" /\ client[s].pc = "idle" /\ capture.status # "deleted"

\* onExtract while the device is online.
ExtractOnline(s) ==
  /\ CanExtract(s)
  /\ \E k \in Keys :
       /\ Resolved(s, k)
       /\ capture' = [capture EXCEPT !.status = "submitting", !.key = k]
       /\ client' = [client EXCEPT ![s] = [NoWork EXCEPT !.pc = "send", !.key = k]]
  /\ UNCHANGED <<jobs, server, paused>>

\* onExtract while it is offline: the capture is left to the outbox.
ExtractOffline(s) ==
  /\ CanExtract(s)
  /\ \E k \in Keys :
       /\ Resolved(s, k)
       /\ capture' = [capture EXCEPT !.status = "ready_to_extract", !.key = k]
       /\ jobs' \in Enqueued(k)
  /\ UNCHANGED <<client, server, paused>>

\* pollExtractionJobUntilQuote returns because the screen is gone, or has the
\* quote: the session is marked synced, which throws if it was deleted.
PollUntilQuote(s) ==
  LET state == server[client[s].key].state
  IN  /\ client[s].pc = "polling"
      /\ \/ /\ visit[s].at = "away"
            /\ Goto(s, "settle")
            /\ UNCHANGED capture
         \/ /\ visit[s].at = "here" /\ state = "done" /\ capture.status = "deleted"
            /\ Finish(s)
            /\ UNCHANGED capture
         \/ /\ visit[s].at = "here" /\ state = "done" /\ capture.status # "deleted"
            /\ capture' = [capture EXCEPT !.status = "synced"]
            /\ Goto(s, "hydrating")
         \/ /\ visit[s].at = "here" /\ state = "dead"
            /\ FailWith(s, "retryable")
            /\ UNCHANGED capture
      /\ UNCHANGED <<jobs, visit, server, issued, paused>>

\* hydrateCaptureDraftFromQuote reads the draft, which the screen then opens; if
\* the read fails, a synced capture is treated like one that was not.
HydrateDraft(s) ==
  /\ client[s].pc = "hydrating"
  /\ \/ Goto(s, "settle") /\ visit' = [visit EXCEPT ![s].at = "away"]
     \/ /\ \E kind \in {"retryable", "auth", "terminal"} : FailWith(s, kind)
        /\ UNCHANGED visit
  /\ UNCHANGED <<capture, jobs, server, issued, paused>>

\* markOutboxJobSucceeded
SettleOutbox(s) ==
  /\ client[s].pc = "settle"
  /\ \/ JobsForSession = {} /\ UNCHANGED jobs
     \/ \E j \in JobsForSession :
          jobs' = [jobs EXCEPT ![j].status = "succeeded", ![j].kind = "none"]
  /\ Finish(s)
  /\ UNCHANGED <<capture, visit, server, issued, paused>>

\* The submission failed: a mounted screen records it, and hands what may be
\* retried to the outbox under the key it was sent with.
ScreenFails(s) ==
  LET noted == visit[s].at = "here" /\ capture.status # "deleted"
  IN  /\ client[s].pc = "failed"
      /\ capture' = IF noted THEN [capture EXCEPT !.status = "extract_failed"] ELSE capture
      /\ IF noted /\ client[s].kind # "terminal"
         THEN jobs' \in Enqueued(client[s].key)
         ELSE UNCHANGED jobs
      /\ Finish(s)
      /\ UNCHANGED <<visit, server, issued, paused>>

Screen(s) == \/ Open(s) \/ Leave(s) \/ Edit(s) \/ ExtractOnline(s) \/ ExtractOffline(s)
             \/ PollUntilQuote(s) \/ HydrateDraft(s) \/ SettleOutbox(s) \/ ScreenFails(s)

-------------------------------------------------------------------------------
(* The user and the device *)

\* onRetryCapture: any job that is not running is queued again, its attempt
\* count as it was.
RetryCapture ==
  /\ capture.status \notin {"synced", "deleted"}
  /\ \E j \in JobsForSession :
       /\ jobs[j].status # "running"
       /\ jobs' = [jobs EXCEPT ![j].status = "queued"]
  /\ UNCHANGED <<capture, client, visit, server, issued, paused>>

\* A pass with forceAfterAuth, once the user is verified again:
\* unpauseAuthRequiredJobs, and the tab goes on.
Reauthenticate(p) ==
  LET waiting == {j \in Jobs : jobs[j].status = "failed_retryable" /\ jobs[j].kind = "auth"}
  IN  /\ p \in paused \/ waiting # {}
      /\ jobs' = [j \in Jobs |-> IF j \in waiting
                                 THEN [jobs[j] EXCEPT !.status = "queued"] ELSE jobs[j]]
      /\ paused' = paused \ {p}
      /\ UNCHANGED <<capture, client, visit, server, issued>>

\* deleteCaptureSession takes the outbox jobs with it.
DeleteCapture ==
  /\ capture.status \notin {"synced", "deleted"}
  /\ capture' = [capture EXCEPT !.status = "deleted"]
  /\ jobs' = [j \in Jobs |-> IF j \in Stored
                             THEN [jobs[j] EXCEPT !.status = "deleted"] ELSE jobs[j]]
  /\ UNCHANGED <<client, visit, server, issued, paused>>

\* A tab closes or reloads: what it was doing is forgotten.
CloseTab(c) ==
  /\ TabsClose
  /\ client[c].pc # "idle" \/ c \in paused
  /\ Finish(c)
  /\ paused' = paused \ {c}
  /\ visit' = [s \in Screens |-> IF s = c THEN [visit[s] EXCEPT !.at = "away"] ELSE visit[s]]
  /\ UNCHANGED <<capture, jobs, server, issued>>

-------------------------------------------------------------------------------
Init ==
  /\ capture = [status |-> "local_only", key |-> NoKey, content |-> 0]
  /\ jobs = [j \in Jobs |-> NoJob]
  /\ client = [c \in Clients |-> NoWork]
  /\ visit = [s \in Screens |-> [at |-> "away", ref |-> NoKey]]
  /\ Endpoint!Init
  /\ issued = 0
  /\ paused = {}

Next ==
  \/ \E p \in Passes : Pass(p) \/ Reauthenticate(p)
  \/ \E s \in Screens : Screen(s)
  \/ \E c \in Clients : Send(c) \/ NoAnswer(c) \/ PollRefused(c) \/ CloseTab(c)
  \/ \E k \in Keys : Accept(k) \/ Refuse(k) \/ Extract(k)
  \/ RetryCapture \/ DeleteCapture

Spec == Init /\ [][Next]_vars

\* The app is opened again and again, requests end and the worker works.
SyncSpec ==
  /\ Spec
  /\ \A p \in Passes : WF_vars(Pass(p)) /\ WF_vars(Send(p))
  /\ \A k \in Keys : WF_vars(Accept(k) \/ Refuse(k)) /\ WF_vars(Extract(k))

-------------------------------------------------------------------------------
(* Properties *)

Drafted == {k \in Keys : server[k].state = "done"}

\* A capture leaves the list of recoverable captures as synced only when the
\* server has a draft of it: no order of passes, screens, lost answers and closed
\* tabs drops one (its audio is deleted some days later).
SyncedMeansDraft == capture.status = "synced" => Drafted # {}

\* A failure that could be retried becomes final only after MaxAttempts passes
\* really took the job, although each counts from the value it listed.
GivesUpOnlyWhenSpent ==
  \A j \in Jobs :
    /\ jobs[j].status = "failed_terminal"
    /\ jobs[j].kind # "terminal"
    => jobs[j].tries >= MaxAttempts

\* How a capture and its jobs end is earned: as synced by a draft, as failed by the
\* whole budget, whichever tabs overlap or close.
EndsAreEarned == TypeOK /\ SyncedMeansDraft /\ GivesUpOnlyWhenSpent

\* A queued job ends: it succeeds, fails for good or goes with its capture, unless
\* the outbox waits for a sign-in.  It holds while no tab closes in the middle of
\* a pass.
QueuedCaptureSyncs ==
  \A j \in Jobs :
    jobs[j].status = "queued" ~>
      \/ jobs[j].status \in {"succeeded", "failed_terminal", "deleted"}
      \/ paused # {}
      \/ jobs[j].status = "failed_retryable" /\ jobs[j].kind = "auth"
===============================================================================
