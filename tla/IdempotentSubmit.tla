--------------------------- MODULE IdempotentSubmit ---------------------------
(***************************************************************************)
(* Requests that carry an Idempotency-Key and create a durable job: POST   *)
(* /quotes/extract and POST .../send-email, the same for quotes and        *)
(* invoices, over the shared idempotency store.  A client that loses an    *)
(* answer sends the same key again, also while the first request is still  *)
(* being served.                                                           *)
(*                                                                         *)
(* Every command to the store is one step; begin and abort take two.  The  *)
(* model covers a span shorter than the records' 24 hour TTL.              *)
(***************************************************************************)
EXTENDS Naturals, FiniteSets

CONSTANTS
  Requests,
  StorageKeys,  \* storage keys: one endpoint, user and client key
  EmailKeys,    \* the keys of send-email requests; the others submit captures
  Contents,     \* what is submitted, as far as the fingerprint tells it apart
  KeyOf,
  ContentOf,
  NoRequest,
  LostReplies   \* whether the reply to a database commit may be lost

ASSUME SubmitAssumption ==
  /\ IsFiniteSet(Requests)
  /\ EmailKeys \subseteq StorageKeys
  /\ KeyOf \in [Requests -> StorageKeys]
  /\ ContentOf \in [Requests -> Contents]
  /\ NoRequest \notin Requests
  /\ LostReplies \in BOOLEAN

VARIABLES
  store,   \* the record under each key
  pc,      \* where each request is
  answer,  \* what each finished request answered
  job,     \* the job row each request committed
  doubt    \* auxiliary: what happened that the store cannot see

submitVars == <<store, pc, answer, job, doubt>>

-------------------------------------------------------------------------------
(* Types *)

NoRecord == [status |-> "none", content |-> NoRequest, job |-> NoRequest]

\* job is the request whose job the completed response names.
Record ==
  {NoRecord}
  \cup [status : {"in_progress"}, content : Contents, job : {NoRequest}]
  \cup [status : {"completed"}, content : Contents, job : Requests]

Places == {"idle", "lookup", "started", "created", "queued", "committed",
           "failing", "deleting", "done"}

Answers == {"none", "accepted", "replayed", "busy", "conflict", "failed", "crashed"}

\* A refused job was committed terminal: the queue did not take it.
JobStates == {"absent", "accepted", "refused"}

SubmitTypeOK ==
  /\ store \in [StorageKeys -> Record]
  /\ pc \in [Requests -> Places]
  /\ answer \in [Requests -> Answers]
  /\ job \in [Requests -> JobStates]
  /\ doubt \subseteq {"unreserved", "commit_unknown"}

GoOn(r, place) == /\ pc' = [pc EXCEPT ![r] = place]
                  /\ UNCHANGED answer

Answer(r, a) == /\ pc' = [pc EXCEPT ![r] = "done"]
                /\ answer' = [answer EXCEPT ![r] = a]

Pending(r) == [status |-> "in_progress", content |-> ContentOf[r], job |-> NoRequest]

-------------------------------------------------------------------------------
(* begin *)

\* Mutation: the key is read and set in two commands, without NX.
ClaimAlways(r) ==
  /\ pc[r] = "idle"
  /\ store' = [store EXCEPT ![KeyOf[r]] = Pending(r)]
  /\ GoOn(r, "started")
  /\ UNCHANGED <<job, doubt>>

\* put_if_absent: SET NX.
Claim(r) ==
  /\ pc[r] = "idle"
  /\ IF store[KeyOf[r]].status = "none"
     THEN /\ store' = [store EXCEPT ![KeyOf[r]] = Pending(r)]
          /\ GoOn(r, "started")
     ELSE /\ UNCHANGED store
          /\ GoOn(r, "lookup")
  /\ UNCHANGED <<job, doubt>>

\* The store does not answer; it may have taken the claim all the same.
ClaimFails(r) ==
  /\ pc[r] = "idle"
  /\ \/ UNCHANGED store
     \/ /\ store[KeyOf[r]].status = "none"
        /\ store' = [store EXCEPT ![KeyOf[r]] = Pending(r)]
  /\ Answer(r, "failed")
  /\ UNCHANGED <<job, doubt>>

\* The record that beat the claim is gone by now: the request starts without one.
LookupMissing(r) ==
  /\ pc[r] = "lookup"
  /\ store[KeyOf[r]].status = "none"
  /\ doubt' = doubt \cup {"unreserved"}
  /\ GoOn(r, "started")
  /\ UNCHANGED <<store, job>>

\* Mutation: the refusal of a busy key is cleaned up like any failure.
LookupThenAbort(r) ==
  LET record == store[KeyOf[r]]
  IN  /\ pc[r] = "lookup"
      /\ record.status # "none"
      /\ IF record.status = "completed" THEN Answer(r, "replayed") ELSE GoOn(r, "failing")
      /\ UNCHANGED <<store, job, doubt>>

\* The record answers for the request.
Lookup(r) ==
  LET record == store[KeyOf[r]]
  IN  /\ pc[r] = "lookup"
      /\ record.status # "none"
      /\ Answer(r, IF record.content # ContentOf[r] THEN "conflict"
                   ELSE IF record.status = "completed" THEN "replayed"
                   ELSE "busy")
      /\ UNCHANGED <<store, job, doubt>>

-------------------------------------------------------------------------------
(* The endpoint *)

\* An exception that the endpoint turns into abort.
Fail(r) == GoOn(r, "failing")

\* Validation, transcription, the share or the capacity check fails.
PrepareFails(r) ==
  /\ pc[r] = "started"
  /\ Fail(r)
  /\ UNCHANGED <<store, job, doubt>>

\* The row is inserted and flushed.
CreateJob(r) ==
  /\ pc[r] = "started"
  /\ GoOn(r, "created")
  /\ UNCHANGED <<store, job, doubt>>

\* An unexpected database error: send-email has no handler around it.
DatabaseFails(r) ==
  /\ pc[r] \in {"started", "created", "queued"}
  /\ IF KeyOf[r] \in EmailKeys THEN Answer(r, "failed") ELSE Fail(r)
  /\ UNCHANGED <<store, job, doubt>>

Enqueue(r) ==
  /\ pc[r] = "created"
  /\ GoOn(r, "queued")
  /\ UNCHANGED <<store, job, doubt>>

\* mark_enqueue_failed and commit, then abort.
EnqueueFails(r) ==
  /\ pc[r] = "created"
  /\ job' = [job EXCEPT ![r] = "refused"]
  /\ Fail(r)
  /\ UNCHANGED <<store, doubt>>

Commit(r) ==
  /\ pc[r] = "queued"
  /\ job' = [job EXCEPT ![r] = "accepted"]
  /\ GoOn(r, "committed")
  /\ UNCHANGED <<store, doubt>>

\* The commit took effect and its reply was lost: to the endpoint it failed.
CommitUnknown(r) ==
  /\ LostReplies
  /\ pc[r] = "queued"
  /\ job' = [job EXCEPT ![r] = "accepted"]
  /\ doubt' = doubt \cup {"commit_unknown"}
  /\ IF KeyOf[r] \in EmailKeys THEN Answer(r, "failed") ELSE Fail(r)
  /\ UNCHANGED store

\* Mutation: the response is stored before the job is committed.
CompleteEarly(r) ==
  /\ pc[r] = "queued"
  /\ store' = [store EXCEPT ![KeyOf[r]] =
                 [status |-> "completed", content |-> ContentOf[r], job |-> r]]
  /\ Answer(r, "accepted")
  /\ UNCHANGED <<job, doubt>>

\* complete: SET, whatever the key holds.
Complete(r) ==
  /\ pc[r] = "committed"
  /\ store' = [store EXCEPT ![KeyOf[r]] =
                 [status |-> "completed", content |-> ContentOf[r], job |-> r]]
  /\ Answer(r, "accepted")
  /\ UNCHANGED <<job, doubt>>

\* complete fails: logged, and the client is answered all the same.
CompleteFails(r) ==
  /\ pc[r] = "committed"
  /\ Answer(r, "accepted")
  /\ UNCHANGED <<store, job, doubt>>

-------------------------------------------------------------------------------
(* abort *)

\* The record is read: only a reservation for the same content is released.
AbortRead(r) ==
  /\ pc[r] = "failing"
  /\ IF store[KeyOf[r]] = Pending(r) THEN GoOn(r, "deleting") ELSE Answer(r, "failed")
  /\ UNCHANGED <<store, job, doubt>>

\* The key is deleted, whatever it holds by then.
AbortDelete(r) ==
  /\ pc[r] = "deleting"
  /\ store' = [store EXCEPT ![KeyOf[r]] = NoRecord]
  /\ Answer(r, "failed")
  /\ UNCHANGED <<job, doubt>>

\* The store fails during abort: logged, the key stays.
AbortFails(r) ==
  /\ pc[r] \in {"failing", "deleting"}
  /\ Answer(r, "failed")
  /\ UNCHANGED <<store, job, doubt>>

\* The process stops: an uncommitted row is rolled back, the key stays.
Crash(r) ==
  /\ pc[r] \notin {"idle", "done"}
  /\ Answer(r, "crashed")
  /\ UNCHANGED <<store, job, doubt>>

-------------------------------------------------------------------------------
SubmitInit ==
  /\ store = [k \in StorageKeys |-> NoRecord]
  /\ pc = [r \in Requests |-> "idle"]
  /\ answer = [r \in Requests |-> "none"]
  /\ job = [r \in Requests |-> "absent"]
  /\ doubt = {}

Begin(r) == Claim(r) \/ ClaimFails(r) \/ LookupMissing(r) \/ Lookup(r)

Serve(r) == \/ PrepareFails(r) \/ CreateJob(r) \/ DatabaseFails(r) \/ Enqueue(r)
            \/ EnqueueFails(r) \/ Commit(r) \/ CommitUnknown(r)
            \/ Complete(r) \/ CompleteFails(r)

Abort(r) == AbortRead(r) \/ AbortDelete(r) \/ AbortFails(r)

SubmitNext == \E r \in Requests : Begin(r) \/ Serve(r) \/ Abort(r) \/ Crash(r)

SubmitSpec == SubmitInit /\ [][SubmitNext]_submitVars

-------------------------------------------------------------------------------
(* Properties *)

Accepted(k) == {r \in Requests : KeyOf[r] = k /\ job[r] = "accepted"}

\* However often a key is retried, and whenever the requests crash or fail, one
\* job at most is accepted for it: one draft, one email.  Two things escape the
\* store: a request that started without a reservation, and a lost commit reply.
OneJobPerKey == doubt = {} => \A k \in StorageKeys : Cardinality(Accepted(k)) <= 1

\* A stored response names a job that was committed and queued, and it is only
\* ever replayed to requests that submit what that job was created from.
ReplayIsGenuine ==
  /\ \A k \in StorageKeys :
       LET record == store[k]
       IN  record.status = "completed" =>
             /\ KeyOf[record.job] = k
             /\ job[record.job] = "accepted"
             /\ ContentOf[record.job] = record.content
  /\ \A r \in Requests :
       answer[r] = "replayed" =>
         \E q \in Accepted(KeyOf[r]) : ContentOf[q] = ContentOf[r]

\* What a client can tell of each key: its accepted job, or its reservation.
Served ==
  [k \in StorageKeys |->
     IF Accepted(k) # {}
       THEN [state |-> "pending", content |-> ContentOf[CHOOSE r \in Accepted(k) : TRUE]]
       ELSE IF store[k].status = "none"
         THEN [state |-> "free", content |-> NoRequest]
         ELSE [state |-> "reserved", content |-> store[k].content]]

Promise == INSTANCE SubmissionPromise
             WITH Keys <- StorageKeys, NoContent <- NoRequest, server <- Served

\* A response once stored is not taken away by the clean-up of another request.
CompletedStays ==
  [][\A k \in StorageKeys :
       (store[k].status = "completed" /\ doubt' = {}) => store'[k] = store[k]]_submitVars

\* No retry, failure or crash takes a key from its accepted job or gives it other
\* content: each step does what the promise to the client allows or nothing it could
\* tell, and a stored response stays.
PromiseKept ==
  /\ Promise!Init
  /\ [][doubt' = {} => Promise!Next \/ UNCHANGED Served]_submitVars
  /\ CompletedStays
===============================================================================
