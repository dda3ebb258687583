------------------------- MODULE EmailDeliveryProofs --------------------------
(***************************************************************************)
(* Proofs about EmailDelivery for every set of requests, every retry       *)
(* budget, window and length of time.                                      *)
(***************************************************************************)
EXTENDS EmailDelivery, TLAPS

-------------------------------------------------------------------------------
(* The inductive invariant *)

\* The worker has learned of no email of r.
Unanswered(r) == \A n \in Sent(r) : ~mail[r][n].answered

\* A job exists once its request is done, its row is open while ARQ holds it, and
\* the tries to come have sent nothing.
Begun(r) ==
  /\ job[r].status # "none" => request[r].pc = "done"
  /\ job[r].queued => job[r].status \in {"pending", "failed", "running"}
  /\ \A n \in Sent(r) : n <= job[r].tries

\* A try runs with the row running; it has learned of nothing until the
\* provider answers, and then of its own email alone.
Trying(r) ==
  /\ delivery[r].pc # "idle" => /\ job[r].status = "running"
                                /\ job[r].tries >= 1
  /\ delivery[r].pc = "sending" => /\ Unanswered(r)
                                   /\ ~mail[r][job[r].tries].sent
  /\ delivery[r].pc \in {"recording", "finishing"} =>
       mail[r][job[r].tries].sent /\ mail[r][job[r].tries].answered

\* A row at rest: nothing is known of an email before a retry.
Resting(r) ==
  /\ job[r].status \in {"none", "pending", "failed"} => Unanswered(r)
  /\ job[r].status = "running" /\ delivery[r].pc = "idle" => job[r].interrupted

Repeats(r) == \A n, m \in Sent(r) : n < m => ~mail[r][n].answered

Truthful(r) ==
  /\ job[r].status = "success" => \E n \in Sent(r) : mail[r][n].answered
  /\ job[r].status = "terminal" /\ ~job[r].interrupted => Unanswered(r)

JobInv(r) == Begun(r) /\ Trying(r) /\ Resting(r) /\ Repeats(r) /\ Truthful(r)

\* Stored events are in the table, and nothing lies in the future.
Dated(r) ==
  /\ request[r].admitted # Never => request[r].admitted <= clock
  /\ \A n \in Tries : mail[r][n].recorded # Never =>
       /\ mail[r][n].recorded <= clock
       /\ mail[r][n].at \in events

\* A link that is dead although r has looked at it was revoked since.
Linked(r) ==
  /\ request[r].pc = "idle" => ~request[r].revoked
  /\ request[r].pc = "checked" /\ doc.link = "revoked" /\ request[r].seen.link # "revoked"
       => request[r].revoked
  /\ (request[r].pc = "shared" \/ job[r].status \in {"pending", "failed", "running"})
     /\ doc.link = "revoked" => request[r].revoked
  /\ delivery[r].pc # "idle" /\ delivery[r].dead => request[r].revoked
  /\ \A n \in Sent(r) : mail[r][n].dead => request[r].revoked

IInv ==
  /\ TypeOK
  /\ \A r \in Requests : JobInv(r) /\ Dated(r) /\ Linked(r)
  /\ ThrottleHolds

-------------------------------------------------------------------------------
(* Types *)

\* The initial state is well typed.
LEMMA TypeInit == Init => TypeOK
BY EmailAssumption
   DEF Init, TypeOK, Times, Never, Tries, Doc, NewDoc, Request, NoRequest, Job, NoJob,
       Delivery, NoDelivery, Mail, NoMail, Processes

\* A request moves on.
LEMMA TypeMove ==
  ASSUME TypeOK, NEW r \in Requests,
         NEW pc \in {"checked", "shared", "done"}
  PROVE  /\ [request[r] EXCEPT !.pc = pc] \in Request
         /\ [request[r] EXCEPT !.pc = pc, !.seen = NewDoc] \in Request
<1>1. NewDoc \in Doc
  BY DEF NewDoc, Doc
<1>2. request[r] \in Request
  BY DEF TypeOK
<1> QED BY <1>1, <1>2 DEF Request

\* The steps of a request keep the types.
LEMMA TypeSendEmail ==
  ASSUME TypeOK, NEW r \in Requests, SendEmail(r)
  PROVE  TypeOK'
<1>1. CASE Prepare(r)
  <2>1. request' \in [Requests -> Request]
    BY <1>1 DEF Prepare, TypeOK, Request
  <2> QED BY <1>1, <2>1 DEF Prepare, TypeOK
<1>2. CASE Refuse(r)
  <2>1. request' \in [Requests -> Request]
    BY <1>2, TypeMove DEF Refuse, TypeOK
  <2> QED BY <1>2, <2>1 DEF Refuse, TypeOK
<1>3. CASE Share(r)
  <2>1. request' \in [Requests -> Request]
    BY <1>3, TypeMove DEF Share, TypeOK
  <2>2. doc' \in Doc
    BY <1>3 DEF Share, TypeOK, Doc
  <2> QED BY <1>3, <2>1, <2>2 DEF Share, TypeOK
<1>4. CASE Enqueue(r)
  <2>1. request' \in [Requests -> Request]
    BY <1>4, TypeMove DEF Enqueue, TypeOK
  <2>2. /\ [job[r] EXCEPT !.status = "pending", !.queued = TRUE] \in Job
        /\ [job[r] EXCEPT !.status = "terminal"] \in Job
    BY DEF TypeOK, Job
  <2>3. job' \in [Requests -> Job]
    BY <1>4, <2>2 DEF Enqueue, TypeOK
  <2> QED BY <1>4, <2>1, <2>3 DEF Enqueue, TypeOK
<1>5. CASE Abandon(r)
  <2>1. request' \in [Requests -> Request]
    BY <1>5, TypeMove DEF Abandon, TypeOK
  <2> QED BY <1>5, <2>1 DEF Abandon, TypeOK
<1> QED BY <1>1, <1>2, <1>3, <1>4, <1>5 DEF SendEmail

\* A job's row is retried, or ends.
LEMMA TypeRetryOrEnd ==
  ASSUME TypeOK, NEW r \in Requests, RetryOrEnd(r)
  PROVE  /\ job' \in [Requests -> Job]
         /\ delivery' \in [Requests -> Delivery]
<1>1. job' \in [Requests -> Job]
  BY DEF RetryOrEnd, Settle, TypeOK, Job
<1>2. NoDelivery \in Delivery
  BY EmailAssumption DEF NoDelivery, Delivery, Times
<1>3. delivery' \in [Requests -> Delivery]
  BY <1>2 DEF RetryOrEnd, Settle, TypeOK
<1> QED BY <1>1, <1>3

\* The provider takes one email.
LEMMA TypeTaken ==
  ASSUME TypeOK, NEW r \in Requests, NEW answered \in BOOLEAN, Taken(r, answered)
  PROVE  mail' \in [Requests -> [Tries -> Mail]]
<1> DEFINE taken == [NoMail EXCEPT !.sent = TRUE, !.answered = answered,
                                   !.dead = delivery[r].dead]
<1>1. taken \in Mail
  BY DEF TypeOK, Delivery, Mail, NoMail
<1> QED BY <1>1 DEF Taken, TypeOK

\* The steps of a delivery keep the types.
LEMMA TypeDeliver ==
  ASSUME TypeOK, NEW r \in Requests, Deliver(r),
         delivery[r].pc # "idle" => job[r].tries >= 1
  PROVE  TypeOK'
<1>0. NoDelivery \in Delivery
  BY EmailAssumption DEF NoDelivery, Delivery, Times
<1>1. CASE Start(r)
  <2>1. job' \in [Requests -> Job]
    BY <1>1, EmailAssumption DEF Start, Deliverable, TypeOK, Job
  <2>2. delivery' \in [Requests -> Delivery]
    BY <1>1 DEF Start, TypeOK, Delivery
  <2> QED BY <1>1, <2>1, <2>2 DEF Start, TypeOK
<1>2. CASE Unsendable(r) \/ Redelivered(r)
  <2>1. job' \in [Requests -> Job]
    BY <1>2, EmailAssumption DEF Unsendable, Redelivered, Deliverable, TypeOK, Job
  <2> QED BY <1>2, <2>1 DEF Unsendable, Redelivered, TypeOK
<1>3. CASE GiveUp(r)
  <2>1. job' \in [Requests -> Job]
    BY <1>3 DEF GiveUp, TypeOK, Job
  <2> QED BY <1>3, <2>1 DEF GiveUp, TypeOK
<1>4. CASE Accept(r)
  <2>1. mail' \in [Requests -> [Tries -> Mail]]
    BY <1>4, TypeTaken DEF Accept
  <2>2. delivery' \in [Requests -> Delivery]
    BY <1>4 DEF Accept, TypeOK, Delivery
  <2> QED BY <1>4, <2>1, <2>2 DEF Accept, TypeOK
<1>5. CASE Reject(r)
  BY <1>5, TypeRetryOrEnd DEF Reject, TypeOK
<1>6. CASE ReplyLost(r)
  BY <1>6, TypeRetryOrEnd, TypeTaken DEF ReplyLost, TypeOK
<1>7. CASE Record(r)
  <2>1. delivery' \in [Requests -> Delivery]
    BY <1>7 DEF Record, TypeOK, Delivery
  <2>2. /\ delivery[r].at \in Times /\ clock \in Times
        /\ job[r].tries \in Tries
    BY <1>7, EmailAssumption DEF Record, TypeOK, Delivery, Job, Tries
  <2> DEFINE stored == [mail[r][job[r].tries] EXCEPT !.at = delivery[r].at,
                                                     !.recorded = clock]
  <2>3. stored \in Mail
    <3>1. mail[r][job[r].tries] \in Mail
      BY <2>2 DEF TypeOK
    <3> QED BY <2>2, <3>1 DEF Mail
  <2>4. mail' = [mail EXCEPT ![r][job[r].tries] = stored]
    BY <1>7, <2>2 DEF Record, TypeOK
  <2>5. mail' \in [Requests -> [Tries -> Mail]]
    BY <2>3, <2>4 DEF TypeOK
  <2> QED BY <1>7, <2>1, <2>2, <2>5 DEF Record, TypeOK
<1>8. CASE RecordFails(r)
  <2>1. delivery' \in [Requests -> Delivery]
    BY <1>8 DEF RecordFails, TypeOK, Delivery
  <2> QED BY <1>8, <2>1 DEF RecordFails, TypeOK
<1>9. CASE Finish(r) \/ FinishFails(r) \/ JobTimeout(r)
  <2>1. /\ [job[r] EXCEPT !.status = "success", !.queued = FALSE] \in Job
        /\ [job[r] EXCEPT !.status = "terminal", !.queued = FALSE,
                          !.interrupted = TRUE] \in Job
        /\ [job[r] EXCEPT !.queued = FALSE, !.interrupted = TRUE] \in Job
    BY DEF TypeOK, Job
  <2>2. job' \in [Requests -> Job]
    BY <1>9, <2>1 DEF Finish, Settle, FinishFails, JobTimeout, TypeOK
  <2>3. delivery' \in [Requests -> Delivery]
    BY <1>0, <1>9 DEF Finish, Settle, FinishFails, JobTimeout, TypeOK
  <2> QED BY <1>9, <2>2, <2>3 DEF Finish, FinishFails, JobTimeout, TypeOK
<1> QED BY <1>1, <1>2, <1>3, <1>4, <1>5, <1>6, <1>7, <1>8, <1>9 DEF Deliver

\* So do a crash, the owner and time.
LEMMA TypeOthers ==
  ASSUME TypeOK, WorkerCrash \/ Render \/ EditContact \/ Revoke \/ Tick
  PROVE  TypeOK'
<1>1. CASE WorkerCrash
  <2>1. job' \in [Requests -> Job]
    BY <1>1 DEF WorkerCrash, TypeOK, Job
  <2>2. delivery' \in [Requests -> Delivery]
    BY <1>1, EmailAssumption DEF WorkerCrash, NoDelivery, Delivery, Times
  <2> QED BY <1>1, <2>1, <2>2 DEF WorkerCrash, TypeOK
<1>2. CASE Render \/ EditContact
  <2>1. doc' \in Doc
    BY <1>2 DEF Render, EditContact, TypeOK, Doc
  <2> QED BY <1>2, <2>1 DEF Render, EditContact, TypeOK
<1>3. CASE Revoke
  <2>1. doc' \in Doc
    BY <1>3 DEF Revoke, TypeOK, Doc
  <2>2. request' \in [Requests -> Request]
    BY <1>3 DEF Revoke, TypeOK, Request
  <2> QED BY <1>3, <2>1, <2>2 DEF Revoke, TypeOK
<1>4. CASE Tick
  <2>1. clock' \in Times
    BY <1>4, EmailAssumption DEF Tick, TypeOK, Times
  <2> QED BY <1>4, <2>1 DEF Tick, TypeOK
<1> QED BY <1>1, <1>2, <1>3, <1>4

-------------------------------------------------------------------------------
(* Jobs *)

\* A request without a job has sent nothing, and no try is under way.
LEMMA JobInit ==
  ASSUME Init, NEW r \in Requests
  PROVE  JobInv(r)
<1>1. Sent(r) = {}
  BY DEF Init, Sent, NoMail
<1>2. job[r] = NoJob /\ delivery[r].pc = "idle"
  BY DEF Init, NoDelivery
<1> QED BY <1>1, <1>2
        DEF JobInv, Begun, Trying, Resting, Repeats, Truthful, Unanswered, NoJob

\* What a step leaves alone keeps JobInv.
LEMMA JobSame ==
  ASSUME NEW r \in Requests, JobInv(r),
         job'[r] = job[r], delivery'[r] = delivery[r], mail'[r] = mail[r],
         request[r].pc = "done" => request'[r].pc = "done"
  PROVE  JobInv(r)'
BY DEF JobInv, Begun, Trying, Resting, Repeats, Truthful, Unanswered, Sent

\* The steps of a request touch a job only when it is created.
LEMMA JobSendEmail ==
  ASSUME TypeOK, \A q \in Requests : JobInv(q), NEW r \in Requests, SendEmail(r),
         NEW q \in Requests
  PROVE  JobInv(q)'
<1>1. CASE Prepare(r) \/ Refuse(r) \/ Share(r) \/ Abandon(r)
  <2>1. request[q].pc = "done" => request'[q].pc = "done"
    BY <1>1 DEF Prepare, Refuse, Share, Abandon, TypeOK
  <2> QED BY <1>1, <2>1, JobSame DEF Prepare, Refuse, Share, Abandon
<1>2. CASE Enqueue(r)
  <2>1. CASE q # r
    BY <1>2, <2>1, JobSame DEF Enqueue, TypeOK
  <2>2. CASE q = r
    <3>1. job[r].status = "none" /\ ~job[r].queued
      BY <1>2 DEF Enqueue, JobInv, Begun
    <3>2. Unanswered(r) /\ delivery[r].pc = "idle"
      BY <3>1 DEF JobInv, Resting, Trying, TypeOK, Delivery
    <3>3. /\ job'[r].status \in {"pending", "terminal"}
          /\ job'[r].tries = job[r].tries
          /\ job'[r].queued => job'[r].status = "pending"
          /\ request'[r].pc = "done"
      BY <1>2, <3>1 DEF Enqueue, TypeOK, Job
    <3>4. delivery' = delivery /\ mail' = mail
      BY <1>2 DEF Enqueue
    <3> QED BY <2>2, <3>2, <3>3, <3>4
            DEF JobInv, Begun, Trying, Resting, Repeats, Truthful, Unanswered, Sent
  <2> QED BY <2>1, <2>2
<1> QED BY <1>1, <1>2 DEF SendEmail

\* A try starts on a row of which nothing is known to have been sent.
LEMMA JobStart ==
  ASSUME TypeOK, NEW r \in Requests, JobInv(r),
         Start(r) \/ Unsendable(r) \/ Redelivered(r) \/ GiveUp(r)
  PROVE  JobInv(r)'
<1>1. mail' = mail /\ request' = request /\ job[r].tries \in Nat
  BY EmailAssumption DEF Start, Unsendable, Redelivered, GiveUp, TypeOK, Job
<1>2. CASE Start(r)
  <2>1. /\ job'[r].status = "running" /\ job'[r].tries = job[r].tries + 1
        /\ delivery'[r].pc = "sending"
        /\ job[r].status \in {"pending", "failed"}
    BY <1>2 DEF Start, Startable, TypeOK, Job
  <2>2. Unanswered(r)
    BY <2>1 DEF JobInv, Resting
  <2>3. ~mail[r][job[r].tries + 1].sent
    <3>1. job[r].tries + 1 \in Tries
      BY <1>1, <1>2, EmailAssumption DEF Start, Deliverable, Tries, TypeOK, Job
    <3> QED BY <1>1, <3>1 DEF JobInv, Begun, Sent
  <2> QED BY <1>1, <2>1, <2>2, <2>3
          DEF JobInv, Begun, Trying, Resting, Repeats, Truthful, Unanswered, Sent, Tries
<1>3. CASE Unsendable(r) \/ Redelivered(r)
  <2>1. /\ job'[r].status = "terminal" /\ job'[r].tries = job[r].tries + 1
        /\ ~job'[r].queued /\ job'[r].interrupted = job[r].interrupted
        /\ delivery' = delivery /\ delivery[r].pc = "idle"
        /\ job[r].queued
    BY <1>3 DEF Unsendable, Redelivered, Deliverable, TypeOK, Job
  <2>2. Unanswered(r) \/ job[r].interrupted
    BY <1>3, <2>1 DEF Unsendable, Redelivered, Startable, JobInv, Begun, Resting
  <2>3. request[r].pc = "done"
    BY <2>1 DEF JobInv, Begun
  <2> QED BY <1>1, <2>1, <2>2, <2>3
          DEF JobInv, Begun, Trying, Resting, Repeats, Truthful, Unanswered, Sent, Tries
<1>4. CASE GiveUp(r)
  <2>1. /\ job'[r].status = job[r].status /\ job'[r].tries = job[r].tries
        /\ ~job'[r].queued /\ job'[r].interrupted = job[r].interrupted
        /\ delivery' = delivery
    BY <1>4 DEF GiveUp, TypeOK, Job
  <2> QED BY <1>1, <2>1
          DEF JobInv, Begun, Trying, Resting, Repeats, Truthful, Unanswered, Sent
<1> QED BY <1>2, <1>3, <1>4

\* What RetryOrEnd does to a job whose try is under way.
LEMMA Retried ==
  ASSUME TypeOK, NEW r \in Requests, RetryOrEnd(r), job[r].status = "running"
  PROVE  /\ job'[r].status \in {"failed", "terminal"}
         /\ job'[r].queued => job'[r].status = "failed"
         /\ job'[r].tries = job[r].tries
         /\ delivery'[r].pc = "idle"
         /\ \A q \in Requests \ {r} : job'[q] = job[q] /\ delivery'[q] = delivery[q]
BY EmailAssumption DEF RetryOrEnd, Settle, TypeOK, Job, NoDelivery

\* An email the provider takes is one more email of its job.
LEMMA TakenMail ==
  ASSUME TypeOK, NEW r \in Requests, NEW answered \in BOOLEAN,
         job[r].tries \in Tries, Taken(r, answered)
  PROVE  /\ mail'[r][job[r].tries].sent
         /\ mail'[r][job[r].tries].answered = answered
         /\ mail'[r][job[r].tries].dead = delivery[r].dead
         /\ mail'[r][job[r].tries].recorded = Never
         /\ \A n \in Tries \ {job[r].tries} : mail'[r][n] = mail[r][n]
         /\ \A q \in Requests \ {r} : mail'[q] = mail[q]
BY DEF Taken, TypeOK, NoMail

\* While a try is under way its number is one of Tries.
LEMMA TryNumber ==
  ASSUME TypeOK, NEW r \in Requests, JobInv(r), delivery[r].pc # "idle"
  PROVE  job[r].tries \in Tries /\ job[r].status = "running"
BY EmailAssumption DEF TypeOK, Job, Tries, JobInv, Trying

\* The provider answers, or does not.
LEMMA JobProvider ==
  ASSUME TypeOK, NEW r \in Requests, JobInv(r),
         Accept(r) \/ Reject(r) \/ ReplyLost(r)
  PROVE  JobInv(r)'
<1>1. /\ delivery[r].pc = "sending" /\ request' = request
      /\ job[r].status = "running" /\ job[r].tries \in Tries
      /\ request[r].pc = "done"
      /\ Unanswered(r)
      /\ \A n \in Sent(r) : n < job[r].tries
  <2>1. delivery[r].pc = "sending" /\ request' = request
    BY DEF Accept, Reject, ReplyLost
  <2>2. job[r].tries \in Tries /\ job[r].status = "running"
    BY <2>1, TryNumber
  <2> QED BY <2>1, <2>2 DEF JobInv, Trying, Begun, Sent, Tries
<1>2. CASE Accept(r)
  <2>1. /\ job' = job /\ delivery'[r].pc = "recording"
        /\ Taken(r, TRUE)
    BY <1>2 DEF Accept, TypeOK, Delivery
  <2>2. /\ mail'[r][job[r].tries].sent /\ mail'[r][job[r].tries].answered
        /\ \A n \in Tries \ {job[r].tries} : mail'[r][n] = mail[r][n]
    BY <1>1, <2>1, TakenMail
  <2>3. \A n \in Sent(r)' : n = job[r].tries \/ (n \in Sent(r) /\ n < job[r].tries)
    BY <1>1, <2>2 DEF Sent
  <2>4. Repeats(r)'
    BY <1>1, <2>2, <2>3 DEF Repeats, Unanswered, Sent, Tries
  <2>5. Begun(r)'
    BY <1>1, <2>1, <2>3 DEF JobInv, Begun, Tries
  <2> QED BY <1>1, <2>1, <2>2, <2>4, <2>5 DEF JobInv, Trying, Resting, Truthful, Tries
<1>3. CASE Reject(r)
  <2>1. mail' = mail /\ RetryOrEnd(r)
    BY <1>3 DEF Reject
  <2>2. Unanswered(r)' /\ Sent(r)' = Sent(r)
    BY <1>1, <2>1 DEF Unanswered, Sent
  <2> QED BY <1>1, <2>1, <2>2, Retried
          DEF JobInv, Begun, Trying, Resting, Repeats, Truthful
<1>4. CASE ReplyLost(r)
  <2>1. Taken(r, FALSE) /\ RetryOrEnd(r)
    BY <1>4 DEF ReplyLost
  <2>2. /\ mail'[r][job[r].tries].sent /\ ~mail'[r][job[r].tries].answered
        /\ \A n \in Tries \ {job[r].tries} : mail'[r][n] = mail[r][n]
    BY <1>1, <2>1, TakenMail
  <2>3. \A n \in Sent(r)' : n = job[r].tries \/ (n \in Sent(r) /\ n < job[r].tries)
    BY <1>1, <2>2 DEF Sent
  <2>4. Unanswered(r)' /\ Repeats(r)'
    BY <1>1, <2>2, <2>3 DEF Repeats, Unanswered, Sent, Tries
  <2>5. /\ job'[r].status \in {"failed", "terminal"}
        /\ job'[r].queued => job'[r].status = "failed"
        /\ job'[r].tries = job[r].tries
        /\ delivery'[r].pc = "idle"
    BY <1>1, <2>1, Retried
  <2>6. Begun(r)'
    BY <1>1, <2>3, <2>5, EmailAssumption DEF Begun, Sent, Tries
  <2> QED BY <2>4, <2>5, <2>6 DEF JobInv, Trying, Resting, Truthful
<1> QED BY <1>2, <1>3, <1>4

\* The try ends after an answer, or is cut off.
LEMMA JobEnd ==
  ASSUME TypeOK, NEW r \in Requests, JobInv(r),
         Record(r) \/ RecordFails(r) \/ Finish(r) \/ FinishFails(r) \/ JobTimeout(r)
  PROVE  JobInv(r)'
<1>1. /\ delivery[r].pc # "idle" /\ request' = request
      /\ job[r].status = "running" /\ job[r].tries \in Tries
      /\ request[r].pc = "done"
  <2>1. delivery[r].pc # "idle" /\ request' = request
    BY DEF Record, RecordFails, Finish, FinishFails, JobTimeout
  <2> QED BY <2>1, TryNumber DEF JobInv, Begun
<1>2. CASE Record(r)
  <2>1. /\ job' = job /\ delivery[r].pc = "recording"
        /\ delivery'[r].pc = "finishing"
    BY <1>2 DEF Record, TypeOK, Delivery
  <2>2. \A n \in Tries : /\ mail'[r][n].sent = mail[r][n].sent
                         /\ mail'[r][n].answered = mail[r][n].answered
    BY <1>1, <1>2 DEF Record, TypeOK, Mail
  <2>3. Sent(r)' = Sent(r)
    BY <2>2 DEF Sent
  <2> QED BY <1>1, <2>1, <2>2, <2>3
          DEF JobInv, Begun, Trying, Resting, Repeats, Truthful, Unanswered, Sent
<1>3. CASE RecordFails(r)
  <2>1. /\ job' = job /\ mail' = mail /\ delivery[r].pc = "recording"
        /\ delivery'[r].pc = "finishing"
    BY <1>3 DEF RecordFails, TypeOK, Delivery
  <2> QED BY <1>1, <2>1
          DEF JobInv, Begun, Trying, Resting, Repeats, Truthful, Unanswered, Sent
<1>4. CASE Finish(r)
  <2>1. /\ job'[r].status = "success" /\ ~job'[r].queued
        /\ job'[r].tries = job[r].tries
        /\ mail' = mail /\ delivery[r].pc = "finishing"
        /\ delivery'[r].pc = "idle"
    BY <1>4 DEF Finish, Settle, TypeOK, Job, NoDelivery
  <2>2. \E n \in Sent(r) : mail[r][n].answered
    BY <1>1, <2>1 DEF JobInv, Trying, Sent
  <2> QED BY <1>1, <2>1, <2>2
          DEF JobInv, Begun, Trying, Resting, Repeats, Truthful, Unanswered, Sent
<1>5. CASE FinishFails(r) \/ JobTimeout(r)
  <2>1. /\ job'[r].status \in {"terminal", "running"} /\ ~job'[r].queued
        /\ job'[r].interrupted
        /\ job'[r].tries = job[r].tries
        /\ mail' = mail
        /\ delivery'[r].pc = "idle"
    BY <1>1, <1>5 DEF FinishFails, JobTimeout, TypeOK, Job, NoDelivery
  <2> QED BY <1>1, <2>1
          DEF JobInv, Begun, Trying, Resting, Repeats, Truthful, Unanswered, Sent
<1> QED BY <1>2, <1>3, <1>4, <1>5

\* A crash leaves the row of a running try behind, marked as cut off; the owner
\* and time touch no job.
LEMMA JobOthers ==
  ASSUME TypeOK, NEW r \in Requests, JobInv(r),
         WorkerCrash \/ Render \/ EditContact \/ Revoke \/ Tick
  PROVE  JobInv(r)'
<1>1. CASE WorkerCrash
  <2>1. /\ mail' = mail /\ request' = request
        /\ delivery'[r].pc = "idle"
        /\ job'[r].status = job[r].status /\ job'[r].tries = job[r].tries
        /\ job'[r].queued = job[r].queued
    BY <1>1 DEF WorkerCrash, NoDelivery, TypeOK, Job
  <2>2. CASE delivery[r].pc = "idle"
    <3>1. job'[r] = job[r]
      BY <1>1, <2>2 DEF WorkerCrash
    <3> QED BY <2>1, <2>2, <3>1
            DEF JobInv, Begun, Trying, Resting, Repeats, Truthful, Unanswered, Sent
  <2>3. CASE delivery[r].pc # "idle"
    <3>1. job'[r].interrupted /\ job[r].status = "running"
      BY <1>1, <2>3, TryNumber DEF WorkerCrash, TypeOK, Job
    <3> QED BY <2>1, <3>1
            DEF JobInv, Begun, Trying, Resting, Repeats, Truthful, Unanswered, Sent
  <2> QED BY <2>2, <2>3
<1>2. CASE Render \/ EditContact \/ Revoke \/ Tick
  <2>1. request[r].pc = "done" => request'[r].pc = "done"
    BY <1>2 DEF Render, EditContact, Revoke, Tick, TypeOK, Request
  <2> QED BY <1>2, <2>1, JobSame DEF Render, EditContact, Revoke, Tick
<1> QED BY <1>1, <1>2

\* What a delivery leaves alone: every other request's job, try and emails.
LEMMA DeliverOthers ==
  ASSUME TypeOK, NEW r \in Requests, Deliver(r), NEW q \in Requests \ {r}
  PROVE  /\ job'[q] = job[q] /\ delivery'[q] = delivery[q] /\ mail'[q] = mail[q]
         /\ request' = request /\ doc' = doc /\ clock' = clock
<1>1. CASE Start(r) \/ Unsendable(r) \/ Redelivered(r) \/ GiveUp(r)
  BY <1>1 DEF Start, Unsendable, Redelivered, GiveUp, TypeOK
<1>2. CASE Accept(r) \/ Reject(r) \/ ReplyLost(r)
  BY <1>2 DEF Accept, Reject, ReplyLost, RetryOrEnd, Settle, Taken, TypeOK
<1>3. CASE Record(r) \/ RecordFails(r)
  BY <1>3 DEF Record, RecordFails, TypeOK
<1>4. CASE Finish(r) \/ FinishFails(r) \/ JobTimeout(r)
  BY <1>4 DEF Finish, FinishFails, JobTimeout, Settle, TypeOK
<1> QED BY <1>1, <1>2, <1>3, <1>4 DEF Deliver

\* The steps of a delivery keep JobInv of every request.
LEMMA JobDeliver ==
  ASSUME TypeOK, \A q \in Requests : JobInv(q), NEW r \in Requests, Deliver(r),
         NEW q \in Requests
  PROVE  JobInv(q)'
<1>1. CASE q = r
  BY <1>1, JobStart, JobProvider, JobEnd DEF Deliver
<1>2. CASE q # r
  BY <1>2, DeliverOthers, JobSame
<1> QED BY <1>1, <1>2

-------------------------------------------------------------------------------
(* Dates *)

\* The clock, the events, the emails and the admissions stay as they are.
DatesSame ==
  /\ clock' = clock /\ events' = events /\ mail' = mail
  /\ \A q \in Requests : request'[q].admitted = request[q].admitted

AllDated == \A q \in Requests : Dated(q)

\* Nothing is dated in the initial state.
LEMMA DatesInit == Init => AllDated /\ ThrottleHolds
BY DEF Init, AllDated, Dated, ThrottleHolds, Sent, NoRequest, NoMail

\* Most steps leave the dates alone.
LEMMA QuietSteps ==
  ASSUME TypeOK,
         \/ \E r \in Requests :
              \/ Refuse(r) \/ Share(r) \/ Enqueue(r) \/ Abandon(r)
              \/ Start(r) \/ Unsendable(r) \/ Redelivered(r) \/ GiveUp(r)
              \/ Reject(r) \/ RecordFails(r)
              \/ Finish(r) \/ FinishFails(r) \/ JobTimeout(r)
         \/ WorkerCrash \/ Render \/ EditContact \/ Revoke
  PROVE  DatesSame
<1>1. ASSUME NEW r \in Requests, Refuse(r) \/ Share(r) \/ Enqueue(r) \/ Abandon(r)
      PROVE  DatesSame
  <2>1. clock' = clock /\ events' = events /\ mail' = mail
    BY <1>1 DEF Refuse, Share, Enqueue, Abandon
  <2>2. \E pc \in {"done", "shared"} :
          \/ request' = [request EXCEPT ![r].pc = pc]
          \/ request' = [request EXCEPT ![r].pc = pc, ![r].seen = NewDoc]
    BY <1>1 DEF Refuse, Share, Enqueue, Abandon
  <2>3. \A q \in Requests : request'[q].admitted = request[q].admitted
    BY <2>2 DEF TypeOK, Request
  <2> QED BY <2>1, <2>3 DEF DatesSame
<1>2. ASSUME NEW r \in Requests,
             \/ Start(r) \/ Unsendable(r) \/ Redelivered(r) \/ GiveUp(r)
             \/ Reject(r) \/ RecordFails(r)
             \/ Finish(r) \/ FinishFails(r) \/ JobTimeout(r)
      PROVE  DatesSame
  BY <1>2 DEF Start, Unsendable, Redelivered, GiveUp, Reject, RecordFails,
              Finish, FinishFails, JobTimeout, DatesSame
<1>3. CASE WorkerCrash \/ Render \/ EditContact
  BY <1>3 DEF WorkerCrash, Render, EditContact, DatesSame
<1>4. CASE Revoke
  BY <1>4 DEF Revoke, DatesSame, TypeOK, Request
<1> QED BY <1>1, <1>2, <1>3, <1>4

\* Then the dates stay sound.
LEMMA DatesQuiet ==
  ASSUME AllDated, ThrottleHolds, DatesSame
  PROVE  AllDated' /\ ThrottleHolds'
BY DEF DatesSame, AllDated, Dated, ThrottleHolds, Sent

\* The guard admits a request only when every stored event is out of the
\* window.
LEMMA DatesPrepare ==
  ASSUME TypeOK, AllDated, ThrottleHolds, NEW r \in Requests, Prepare(r)
  PROVE  AllDated' /\ ThrottleHolds'
<1>1. /\ clock' = clock /\ events' = events /\ mail' = mail
      /\ request'[r].admitted = clock
      /\ \A q \in Requests \ {r} : request'[q] = request[q]
  BY DEF Prepare, TypeOK
<1>2. clock \in Nat
  BY EmailAssumption DEF TypeOK, Times
<1>3. AllDated'
  BY <1>1, <1>2 DEF AllDated, Dated
<1>4. \A t \in events : t + Window < clock
  <2> TAKE t \in events
  <2>1. ~Recent(t)
    BY DEF Prepare, Refused, SentRecently
  <2>2. t \in Times
    BY DEF TypeOK
  <2> QED BY <2>1, <2>2, <1>2, EmailAssumption DEF Recent, Never, Times
<1>5. ThrottleHolds'
  <2> SUFFICES ASSUME NEW q \in Requests, NEW s \in Requests, NEW n \in Sent(q)',
                      mail'[q][n].recorded # Never, request'[s].admitted # Never
               PROVE  \/ request'[s].admitted <= mail'[q][n].recorded
                      \/ request'[s].admitted > mail'[q][n].at + Window
    BY DEF ThrottleHolds
  <2>1. n \in Sent(q) /\ n \in Tries
    BY <1>1 DEF Sent
  <2>2. CASE s # r
    BY <1>1, <2>1, <2>2 DEF ThrottleHolds
  <2>3. CASE s = r
    <3>1. mail[q][n].at \in events
      BY <1>1, <2>1 DEF AllDated, Dated
    <3>2. mail[q][n].at + Window < clock /\ mail[q][n].at \in Times
      BY <1>4, <3>1 DEF TypeOK
    <3> QED BY <1>1, <1>2, <2>3, <3>2, EmailAssumption DEF Times
  <2> QED BY <2>2, <2>3
<1> QED BY <1>3, <1>5

\* An email that goes out has no stored event yet.
LEMMA DatesTaken ==
  ASSUME TypeOK, AllDated, ThrottleHolds, NEW r \in Requests, NEW answered \in BOOLEAN,
         job[r].tries \in Tries, Taken(r, answered),
         clock' = clock, events' = events, request' = request
  PROVE  AllDated' /\ ThrottleHolds'
<1>1. \A q \in Requests, n \in Tries :
        mail'[q][n].recorded # Never => mail'[q][n] = mail[q][n]
  BY TakenMail
<1>2. AllDated'
  BY <1>1 DEF AllDated, Dated
<1>3. ThrottleHolds'
  <2> SUFFICES ASSUME NEW q \in Requests, NEW s \in Requests, NEW n \in Sent(q)',
                      mail'[q][n].recorded # Never, request'[s].admitted # Never
               PROVE  \/ request'[s].admitted <= mail'[q][n].recorded
                      \/ request'[s].admitted > mail'[q][n].at + Window
    BY DEF ThrottleHolds
  <2>1. n \in Tries /\ mail'[q][n].sent
    BY DEF Sent
  <2>2. mail'[q][n] = mail[q][n]
    BY <1>1, <2>1
  <2> QED BY <2>1, <2>2 DEF ThrottleHolds, Sent
<1> QED BY <1>2, <1>3

\* What Record writes into the emails.
LEMMA RecordedMail ==
  ASSUME TypeOK, NEW r \in Requests, Record(r), job[r].tries \in Tries
  PROVE  /\ mail'[r][job[r].tries].sent = mail[r][job[r].tries].sent
         /\ mail'[r][job[r].tries].dead = mail[r][job[r].tries].dead
         /\ mail'[r][job[r].tries].at = delivery[r].at
         /\ mail'[r][job[r].tries].recorded = clock
         /\ \A n \in Tries \ {job[r].tries} : mail'[r][n] = mail[r][n]
         /\ \A q \in Requests \ {r} : mail'[q] = mail[q]
BY DEF Record, TypeOK, Mail

\* An event is stored after every request admitted so far.
LEMMA DatesRecord ==
  ASSUME TypeOK, AllDated, ThrottleHolds, NEW r \in Requests, Record(r),
         job[r].tries \in Tries
  PROVE  AllDated' /\ ThrottleHolds'
<1>1. /\ clock' = clock /\ request' = request
      /\ events' = events \cup {delivery[r].at}
  BY DEF Record
<1>2. clock \in Nat
  BY EmailAssumption DEF TypeOK, Times
<1>3. \A q \in Requests, n \in Tries :
        \/ mail'[q][n] = mail[q][n]
        \/ mail'[q][n].recorded = clock /\ mail'[q][n].at = delivery[r].at
  BY RecordedMail
<1>4. \A q \in Requests, n \in Tries :
        mail'[q][n].recorded # Never => /\ mail'[q][n].recorded <= clock
                                        /\ mail'[q][n].at \in events'
  BY <1>1, <1>2, <1>3 DEF AllDated, Dated
<1>5. AllDated'
  BY <1>1, <1>4 DEF AllDated, Dated
<1>6. ThrottleHolds'
  <2> SUFFICES ASSUME NEW q \in Requests, NEW s \in Requests, NEW n \in Sent(q)',
                      mail'[q][n].recorded # Never, request'[s].admitted # Never
               PROVE  \/ request'[s].admitted <= mail'[q][n].recorded
                      \/ request'[s].admitted > mail'[q][n].at + Window
    BY DEF ThrottleHolds
  <2>1. n \in Tries /\ mail'[q][n].sent
    BY DEF Sent
  <2>2. CASE mail'[q][n] = mail[q][n]
    BY <1>1, <2>1, <2>2 DEF ThrottleHolds, Sent
  <2>3. CASE mail'[q][n].recorded = clock
    BY <1>1, <2>3 DEF AllDated, Dated
  <2> QED BY <1>3, <2>1, <2>2, <2>3
<1> QED BY <1>5, <1>6

\* Time passes.
LEMMA DatesTick ==
  ASSUME TypeOK, AllDated, ThrottleHolds, Tick
  PROVE  AllDated' /\ ThrottleHolds'
<1>1. clock' = clock + 1 /\ UNCHANGED <<events, mail, request>>
  BY DEF Tick
<1>2. clock \in Nat
  BY EmailAssumption DEF TypeOK, Times
<1>3. \A q \in Requests : request[q].admitted \in Nat
  BY EmailAssumption DEF TypeOK, Request, Times, Never
<1>4. \A q \in Requests, n \in Tries : mail[q][n].recorded \in Nat
  BY EmailAssumption DEF TypeOK, Mail, Times, Never
<1>5. AllDated'
  BY <1>1, <1>2, <1>3, <1>4 DEF AllDated, Dated
<1>6. ThrottleHolds'
  BY <1>1 DEF ThrottleHolds, Sent
<1> QED BY <1>5, <1>6

\* Every step keeps the dates sound and the throttle.
LEMMA DatesNext ==
  ASSUME TypeOK, \A q \in Requests : JobInv(q), AllDated, ThrottleHolds, Next
  PROVE  AllDated' /\ ThrottleHolds'
<1>1. ASSUME NEW r \in Requests, Prepare(r)
      PROVE  AllDated' /\ ThrottleHolds'
  BY <1>1, DatesPrepare
<1>2. ASSUME NEW r \in Requests, Accept(r) \/ ReplyLost(r)
      PROVE  AllDated' /\ ThrottleHolds'
  <2>1. job[r].tries \in Tries
    BY <1>2, TryNumber DEF Accept, ReplyLost
  <2>2. UNCHANGED <<clock, events, request>> /\ (Taken(r, TRUE) \/ Taken(r, FALSE))
    BY <1>2 DEF Accept, ReplyLost
  <2> QED BY <2>1, <2>2, DatesTaken
<1>3. ASSUME NEW r \in Requests, Record(r)
      PROVE  AllDated' /\ ThrottleHolds'
  <2>1. job[r].tries \in Tries
    BY <1>3, TryNumber DEF Record
  <2> QED BY <1>3, <2>1, DatesRecord
<1>4. CASE Tick
  BY <1>4, DatesTick
<1> QED BY <1>1, <1>2, <1>3, <1>4, QuietSteps, DatesQuiet
        DEF Next, SendEmail, Deliver

-------------------------------------------------------------------------------
(* Links *)

\* There is no link in the initial state.
LEMMA LinkInit ==
  ASSUME Init, NEW r \in Requests
  PROVE  Linked(r)
<1>1. Sent(r) = {}
  BY DEF Init, Sent, NoMail
<1>2. /\ request[r] = NoRequest /\ job[r] = NoJob
      /\ delivery[r].pc = "idle" /\ doc.link = "none"
  BY DEF Init, NoDelivery, NewDoc
<1> QED BY <1>1, <1>2 DEF Linked, NoRequest, NoJob

\* What a step leaves alone keeps Linked, also when the link is renewed.
LEMMA LinkSame ==
  ASSUME NEW r \in Requests, Linked(r),
         request'[r] = request[r], job'[r] = job[r],
         delivery'[r] = delivery[r], mail'[r] = mail[r],
         doc'.link \in {doc.link, "live"}
  PROVE  Linked(r)'
BY DEF Linked, Sent

\* Before its request is done there is no job, and nothing was sent over a link.
LEMMA NoJobYet ==
  ASSUME NEW r \in Requests, TypeOK, JobInv(r), request[r].pc # "done"
  PROVE  job[r].status = "none" /\ delivery[r].pc = "idle"
BY DEF JobInv, Begun, Trying

\* A share leaves a revoked link dead only when the owner revoked it after the
\* row was loaded.
LEMMA LinkShare ==
  ASSUME TypeOK, NEW r \in Requests, JobInv(r), Linked(r), Share(r)
  PROVE  Linked(r)'
<1>1. /\ request[r].pc = "checked" /\ request'[r].pc = "shared"
      /\ request'[r].revoked = request[r].revoked
      /\ UNCHANGED <<job, delivery, mail>>
  BY DEF Share, TypeOK, Request
<1>2. doc'.link = "revoked" => doc.link = "revoked" /\ request[r].seen.link # "revoked"
  BY DEF Share, NeedsToken, TypeOK, Doc
<1> QED BY <1>1, <1>2, NoJobYet DEF Linked, Sent

\* The steps of a request keep every request's link sound.
LEMMA LinkSendEmail ==
  ASSUME TypeOK, \A q \in Requests : JobInv(q) /\ Linked(q),
         NEW r \in Requests, SendEmail(r), NEW q \in Requests
  PROVE  Linked(q)'
<1>1. CASE q # r
  <2>1. CASE Prepare(r) \/ Refuse(r) \/ Abandon(r)
    BY <1>1, <2>1, LinkSame DEF Prepare, Refuse, Abandon, TypeOK
  <2>2. CASE Enqueue(r)
    BY <1>1, <2>2, LinkSame DEF Enqueue, TypeOK
  <2>3. CASE Share(r)
    BY <1>1, <2>3, LinkSame DEF Share, TypeOK, Doc
  <2> QED BY <2>1, <2>2, <2>3 DEF SendEmail
<1>2. CASE q = r
  <2>1. CASE Prepare(r)
    <3>1. /\ request[r].pc = "idle" /\ ~request[r].revoked
          /\ request'[r].pc = "checked" /\ request'[r].seen = doc
          /\ UNCHANGED <<doc, job, delivery, mail>>
      BY <2>1 DEF Prepare, Linked, TypeOK
    <3> QED BY <1>2, <3>1, NoJobYet DEF Linked, Sent
  <2>2. CASE Refuse(r) \/ Abandon(r)
    <3>1. /\ request[r].pc # "done" /\ request'[r].pc = "done"
          /\ request'[r].revoked = request[r].revoked
          /\ UNCHANGED <<doc, job, delivery, mail>>
      BY <2>2 DEF Refuse, Abandon, TypeOK, Request
    <3> QED BY <1>2, <3>1, NoJobYet DEF Linked, Sent
  <2>3. CASE Enqueue(r)
    <3>1. /\ request[r].pc = "shared" /\ request'[r].pc = "done"
          /\ request'[r].revoked = request[r].revoked
          /\ UNCHANGED <<doc, delivery, mail>>
      BY <2>3 DEF Enqueue, TypeOK, Request
    <3> QED BY <1>2, <3>1 DEF Linked, Sent
  <2>4. CASE Share(r)
    BY <1>2, <2>4, LinkShare
  <2> QED BY <2>1, <2>2, <2>3, <2>4 DEF SendEmail
<1> QED BY <1>1, <1>2

\* A try takes the link as it finds it, and an email carries it.
LEMMA LinkDeliver ==
  ASSUME TypeOK, \A q \in Requests : JobInv(q) /\ Linked(q),
         NEW r \in Requests, Deliver(r), NEW q \in Requests
  PROVE  Linked(q)'
<1>1. CASE q # r
  BY <1>1, DeliverOthers, LinkSame
<1>2. CASE q = r
  <2>1. CASE Start(r)
    <3>1. /\ job[r].status \in {"pending", "failed"}
          /\ UNCHANGED <<doc, request, mail>>
          /\ delivery'[r].dead <=> doc.link = "revoked"
      BY <2>1 DEF Start, Startable, TypeOK
    <3> QED BY <1>2, <3>1 DEF Linked, Sent
  <2>2. CASE Unsendable(r) \/ Redelivered(r) \/ GiveUp(r)
    <3>1. /\ UNCHANGED <<doc, request, mail, delivery>>
          /\ job'[r].status \in {"terminal", job[r].status}
      BY <2>2 DEF Unsendable, Redelivered, GiveUp, TypeOK, Job
    <3> QED BY <1>2, <3>1 DEF Linked, Sent
  <2>3. CASE Accept(r) \/ ReplyLost(r)
    <3>1. /\ delivery[r].pc # "idle"
          /\ UNCHANGED <<doc, request>>
          /\ Taken(r, TRUE) \/ Taken(r, FALSE)
      BY <2>3 DEF Accept, ReplyLost
    <3>2. job[r].tries \in Tries /\ job[r].status = "running"
      BY <3>1, TryNumber
    <3>3. /\ mail'[r][job[r].tries].dead = delivery[r].dead
          /\ \A n \in Tries \ {job[r].tries} : mail'[r][n] = mail[r][n]
      BY <3>1, <3>2, TakenMail
    <3>4. \A n \in Sent(r)' : mail'[r][n].dead => request[r].revoked
      <4> SUFFICES ASSUME NEW n \in Tries, mail'[r][n].sent, mail'[r][n].dead
                   PROVE  request[r].revoked
        BY DEF Sent
      <4>1. CASE n = job[r].tries
        BY <3>1, <3>3, <4>1 DEF Linked
      <4>2. CASE n # job[r].tries
        BY <3>3, <4>2 DEF Linked, Sent
      <4> QED BY <4>1, <4>2
    <3>5. delivery'[r].pc # "idle" => delivery'[r].dead = delivery[r].dead
      <4>1. CASE Accept(r)
        BY <4>1 DEF Accept, TypeOK, Delivery
      <4>2. CASE ReplyLost(r)
        BY <3>2, <4>2, Retried DEF ReplyLost
      <4> QED BY <2>3, <4>1, <4>2
    <3> QED BY <1>2, <3>1, <3>2, <3>4, <3>5 DEF Linked
  <2>4. CASE Reject(r)
    <3>1. delivery[r].pc # "idle" /\ UNCHANGED <<doc, request, mail>> /\ RetryOrEnd(r)
      BY <2>4 DEF Reject
    <3>2. job[r].status = "running"
      BY <3>1, TryNumber
    <3>3. delivery'[r].pc = "idle"
      BY <3>1, <3>2, Retried
    <3> QED BY <1>2, <3>1, <3>2, <3>3 DEF Linked, Sent
  <2>5. CASE Record(r) \/ RecordFails(r)
    <3>1. /\ delivery[r].pc # "idle" /\ delivery'[r].dead = delivery[r].dead
          /\ UNCHANGED <<doc, request, job>>
      BY <2>5 DEF Record, RecordFails, TypeOK, Delivery
    <3>2. job[r].tries \in Tries
      BY <3>1, TryNumber
    <3>3. \A n \in Tries : /\ mail'[r][n].sent = mail[r][n].sent
                           /\ mail'[r][n].dead = mail[r][n].dead
      BY <2>5, <3>2, RecordedMail DEF RecordFails
    <3> QED BY <1>2, <3>1, <3>3 DEF Linked, Sent
  <2>6. CASE Finish(r) \/ FinishFails(r) \/ JobTimeout(r)
    <3>1. delivery[r].pc # "idle" /\ UNCHANGED <<doc, request, mail>>
      BY <2>6 DEF Finish, FinishFails, JobTimeout
    <3>2. job[r].status = "running"
      BY <3>1, TryNumber
    <3>3. delivery'[r].pc = "idle"
      BY <2>6 DEF Finish, FinishFails, JobTimeout, Settle, NoDelivery, TypeOK
    <3> QED BY <1>2, <3>1, <3>2, <3>3 DEF Linked, Sent
  <2> QED BY <2>1, <2>2, <2>3, <2>4, <2>5, <2>6 DEF Deliver
<1> QED BY <1>1, <1>2

\* The owner's revocation is seen by every request that has begun.
LEMMA LinkOthers ==
  ASSUME TypeOK, NEW r \in Requests, JobInv(r), Linked(r),
         WorkerCrash \/ Render \/ EditContact \/ Revoke \/ Tick
  PROVE  Linked(r)'
<1>1. CASE WorkerCrash
  <2>1. /\ UNCHANGED <<doc, request, mail>>
        /\ delivery'[r].pc = "idle" /\ job'[r].status = job[r].status
    BY <1>1 DEF WorkerCrash, NoDelivery, TypeOK, Job
  <2> QED BY <2>1 DEF Linked, Sent
<1>2. CASE Render \/ EditContact \/ Tick
  <2>1. doc'.link = doc.link
    BY <1>2 DEF Render, EditContact, Tick, TypeOK, Doc
  <2> QED BY <1>2, <2>1, LinkSame DEF Render, EditContact, Tick
<1>3. CASE Revoke
  <2>1. /\ UNCHANGED <<job, delivery, mail>>
        /\ request'[r].pc = request[r].pc
        /\ request'[r].revoked <=> request[r].pc # "idle"
    BY <1>3 DEF Revoke, TypeOK, Request
  <2>2. delivery[r].pc # "idle" => request[r].pc # "idle"
    BY NoJobYet
  <2>3. job[r].status # "none" => request[r].pc # "idle"
    BY NoJobYet
  <2>4. request[r].revoked => request[r].pc # "idle"
    BY DEF Linked
  <2> QED BY <2>1, <2>2, <2>3, <2>4 DEF Linked, Sent
<1> QED BY <1>1, <1>2, <1>3

-------------------------------------------------------------------------------
(* The invariant *)

\* The initial state satisfies the inductive invariant.
LEMMA InitInv == Init => IInv
BY TypeInit, JobInit, DatesInit, LinkInit DEF IInv, AllDated

\* Every step keeps it.
LEMMA NextInv == IInv /\ [Next]_vars => IInv'
<1> SUFFICES ASSUME IInv, [Next]_vars
             PROVE  IInv'
  OBVIOUS
<1>0. TypeOK /\ AllDated /\ ThrottleHolds /\ \A q \in Requests : JobInv(q) /\ Linked(q)
  BY DEF IInv, AllDated
<1>1. CASE UNCHANGED vars
  BY <1>0, <1>1
     DEF IInv, vars, TypeOK, JobInv, Begun, Trying, Resting, Repeats, Truthful,
         Unanswered, Sent, AllDated, Dated, Linked, ThrottleHolds
<1>2. CASE Next
  <2>1. AllDated' /\ ThrottleHolds'
    BY <1>0, <1>2, DatesNext
  <2>2. ASSUME NEW r \in Requests, SendEmail(r)
        PROVE  TypeOK' /\ \A q \in Requests : JobInv(q)' /\ Linked(q)'
    BY <1>0, <2>2, TypeSendEmail, JobSendEmail, LinkSendEmail
  <2>3. ASSUME NEW r \in Requests, Deliver(r)
        PROVE  TypeOK' /\ \A q \in Requests : JobInv(q)' /\ Linked(q)'
    <3>1. delivery[r].pc # "idle" => job[r].tries >= 1
      BY <1>0 DEF JobInv, Trying
    <3> QED BY <1>0, <2>3, <3>1, TypeDeliver, JobDeliver, LinkDeliver
  <2>4. ASSUME WorkerCrash \/ Render \/ EditContact \/ Revoke \/ Tick
        PROVE  TypeOK' /\ \A q \in Requests : JobInv(q)' /\ Linked(q)'
    BY <1>0, <2>4, TypeOthers, JobOthers, LinkOthers
  <2> QED BY <1>2, <2>1, <2>2, <2>3, <2>4 DEF Next, IInv, AllDated
<1> QED BY <1>1, <1>2

\* It holds in every reachable state.
LEMMA Invariance == Spec => []IInv
BY InitInv, NextInv, PTL DEF Spec

-------------------------------------------------------------------------------
(* Theorems *)

\* Every reachable state is well typed.
THEOREM TypeCorrectness == Spec => []TypeOK
<1>1. IInv => TypeOK
  BY DEF IInv
<1> QED BY Invariance, <1>1, PTL

\* The duplicate-send guard is sound: no request is admitted between the commit
\* of an email's event and the end of its window (email_delivery_service.py).
THEOREM ThrottleSoundness == Spec => []ThrottleHolds
<1>1. IInv => ThrottleHolds
  BY DEF IInv
<1> QED BY Invariance, <1>1, PTL

\* A job that sends twice never knew of the first email: retries, lost events,
\* timeouts and dying workers included.
THEOREM ResendSoundness == Spec => []ResendsOnlyUnanswered
<1>1. IInv => ResendsOnlyUnanswered
  BY DEF IInv, JobInv, Repeats, ResendsOnlyUnanswered
<1> QED BY Invariance, <1>1, PTL

\* The status the client polls agrees with what the provider answered.
THEOREM OutcomeSoundness == Spec => []OutcomeIsTruthful
<1>1. IInv => OutcomeIsTruthful
  BY DEF IInv, JobInv, Truthful, Unanswered, OutcomeIsTruthful
<1> QED BY Invariance, <1>1, PTL

\* A dead link in an email was revoked after its request had loaded the quote.
THEOREM LinkSoundness == Spec => []LinkIsFresh
<1>1. IInv => LinkIsFresh
  BY DEF IInv, Linked, LinkIsFresh
<1> QED BY Invariance, <1>1, PTL

===============================================================================
