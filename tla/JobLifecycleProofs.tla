-------------------------- MODULE JobLifecycleProofs --------------------------
(***************************************************************************)
(* Proofs about JobLifecycle for every set of jobs, retry budget and cap.  *)
(* The invariants are proved from JobInv, which says of one job what its   *)
(* uncommitted insert and its running attempt may assume about the row.    *)
(***************************************************************************)
EXTENDS JobLifecycle, FiniteSetTheorems, TLAPS

\* What links the row of one job to its request and to its running attempt.
JobInv(j) ==
  /\ request[j] # "done" => row[j].status = "absent"
  /\ attempt[j].pc = "write" => /\ row[j].status \notin {"success", "absent"}
                                /\ attempt[j].seenAttempts = row[j].attempts
  /\ drafts[j] = IF j \in ExtractionJobs /\ row[j].status = "success" THEN 1 ELSE 0
  /\ row[j].doc = "quote" => row[j].status = "success"
  /\ row[j].attempts <= tries[j]
  /\ attempt[j].pc \in {"read", "write"} /\ attempt[j].goal = "running"
       => row[j].attempts < tries[j]
  /\ row[j].error = "retry_exhausted" => tries[j] = MaxTries
  /\ attempt[j].reason = "retry_exhausted" => tries[j] = MaxTries
  /\ j \notin ExtractionJobs /\ attempt[j].pc = "write"
       => TransitionAllowed(row[j].status, attempt[j].goal)

IInv == TypeOK /\ \A j \in Jobs : JobInv(j)

\* The transition table leaves absent, success and terminal rows where they are.
LEMMA TableFacts ==
  ASSUME NEW s \in Statuses \cup {"absent"}, NEW t, TransitionAllowed(s, t)
  PROVE  /\ s \in {"pending", "running", "failed"}
         /\ t \in {"running", "success", "failed", "terminal"}
         /\ t = "success" => s = "running"
BY DEF TransitionAllowed, AllowedTransitions, Statuses

\* The records an attempt is set to are attempts.
LEMMA AttemptValues ==
  /\ NoAttempt \in Attempt
  /\ \A g \in Statuses, r \in Reasons : Heading(g, r) \in Attempt
  /\ \A p \in {"work", "ack"} : At(p) \in Attempt
BY DEF NoAttempt, Attempt, Heading, At, Statuses, Reasons

\* A step that leaves everything of job k alone keeps its invariant.
LEMMA Frame ==
  ASSUME NEW k \in Jobs, JobInv(k),
         row'[k] = row[k], request'[k] = request[k], tries'[k] = tries[k],
         attempt'[k] = attempt[k], drafts'[k] = drafts[k]
  PROVE  JobInv(k)'
BY DEF JobInv

\* Before any request was made the invariant holds.
THEOREM InitInv == Init => IInv
<1> SUFFICES ASSUME Init PROVE IInv
  OBVIOUS
<1>1. TypeOK
  BY AttemptValues, BoundsAssumption
  DEF Init, TypeOK, NoRow, Row, Statuses, Reasons, RequestStates, QueueStates
<1>2. ASSUME NEW j \in Jobs PROVE JobInv(j)
  BY BoundsAssumption DEF Init, JobInv, NoRow, NoAttempt
<1> QED BY <1>1, <1>2 DEF IInv

\* The steps of the request of job j.
LEMMA RequestInv ==
  ASSUME IInv, NEW j \in Jobs, Request(j) PROVE IInv'
<1> USE DEF IInv
<1>1. CASE CreateJob(j) \/ RejectJob(j) \/ Enqueue(j) \/ EnqueueFails(j) \/ AbandonRequest(j)
  <2>1. /\ row' = row /\ tries' = tries /\ attempt' = attempt /\ drafts' = drafts
        /\ request[j] # "done"
        /\ \E r \in RequestStates \ {"done"} : request' = [request EXCEPT ![j] = r]
        /\ queue' \in [Jobs -> QueueStates]
    BY <1>1 DEF CreateJob, RejectJob, Enqueue, EnqueueFails, AbandonRequest, TypeOK,
                RequestStates, QueueStates, OpenTransaction
  <2>2. TypeOK' BY <2>1 DEF TypeOK
  <2>3. ASSUME NEW k \in Jobs PROVE JobInv(k)'
    BY <2>1 DEF JobInv, TypeOK
  <2> QED BY <2>2, <2>3
<1>2. CASE CommitRequest(j)
  <2> DEFINE new == IF request[j] = "queued"
                    THEN [NoRow EXCEPT !.status = "pending"]
                    ELSE [NoRow EXCEPT !.status = "terminal", !.error = "enqueue_failed"]
  <2>1. /\ row' = [row EXCEPT ![j] = new] /\ request' = [request EXCEPT ![j] = "done"]
        /\ queue' = queue /\ tries' = tries /\ attempt' = attempt /\ drafts' = drafts
        /\ request[j] # "done"
    BY <1>2 DEF CommitRequest
  <2>2. new \in Row /\ new.status \in {"pending", "terminal"} /\ new.attempts = 0
        /\ new.doc = "null" /\ new.error # "retry_exhausted"
    BY DEF NoRow, Row, Statuses, Reasons
  <2> HIDE DEF new
  <2>3. TypeOK' BY <2>1, <2>2 DEF TypeOK, RequestStates
  <2>4. ASSUME NEW k \in Jobs PROVE JobInv(k)'
    <3>1. CASE k # j BY <2>1, <3>1, Frame DEF TypeOK
    <3>2. CASE k = j
      <4>1. row'[j] = new /\ row[j].status = "absent" /\ request'[j] = "done"
        BY <2>1 DEF TypeOK, JobInv
      <4>2. attempt[j].pc # "write"
        BY <4>1 DEF JobInv, NoRow
      <4>3. JobInv(j) /\ row[j].attempts \in Nat /\ tries[j] \in Nat
        BY DEF TypeOK, Row
      <4> QED BY <2>1, <2>2, <3>2, <4>1, <4>2, <4>3 DEF JobInv
    <3> QED BY <3>1, <3>2
  <2> QED BY <2>3, <2>4
<1> QED BY <1>1, <1>2 DEF Request

\* ARQ delivers, drops, finishes or loses a delivery of job j.
LEMMA QueueInv ==
  ASSUME IInv, NEW j \in Jobs,
         \/ Deliver(j) \/ GiveUp(j) \/ Acknowledge(j) \/ WorkerCrash(j) \/ JobTimeout(j)
  PROVE  IInv'
<1> USE DEF IInv
<1>1. CASE Deliver(j)
  <2>1. TypeOK'
    <3>1. tries[j] + 1 \in 0 .. MaxTries
      BY <1>1, BoundsAssumption DEF Deliver, TypeOK
    <3>2. Heading("running", "none") \in Attempt
      BY AttemptValues DEF Statuses, Reasons
    <3> QED BY <1>1, <3>1, <3>2 DEF Deliver, TypeOK, QueueStates
  <2>2. ASSUME NEW k \in Jobs PROVE JobInv(k)'
    <3>1. CASE k # j BY <1>1, <3>1, Frame DEF TypeOK, Deliver
    <3>2. CASE k = j
      <4>1. /\ row' = row /\ request' = request /\ drafts' = drafts
            /\ tries'[j] = tries[j] + 1 /\ tries[j] < MaxTries
            /\ attempt'[j].pc = "read" /\ attempt'[j].reason = "none"
        BY <1>1 DEF Deliver, TypeOK, Heading, NoAttempt
      <4>2. row[j].attempts \in Nat /\ tries[j] \in Nat
        BY DEF TypeOK, Row
      <4> QED BY <3>2, <4>1, <4>2, BoundsAssumption DEF JobInv
    <3> QED BY <3>1, <3>2
  <2> QED BY <2>1, <2>2
<1>2. CASE GiveUp(j) \/ Acknowledge(j) \/ WorkerCrash(j) \/ JobTimeout(j)
  <2>1. /\ row' = row /\ request' = request /\ tries' = tries /\ drafts' = drafts
        /\ queue' \in [Jobs -> QueueStates]
        /\ attempt' \in {attempt, [attempt EXCEPT ![j] = NoAttempt]}
    BY <1>2 DEF GiveUp, Acknowledge, WorkerCrash, JobTimeout, TypeOK, QueueStates
  <2>2. TypeOK' BY <2>1, AttemptValues DEF TypeOK
  <2>3. ASSUME NEW k \in Jobs PROVE JobInv(k)'
    <3>1. attempt'[k] \in {attempt[k], NoAttempt} BY <2>1 DEF TypeOK
    <3> QED BY <2>1, <3>1 DEF JobInv, NoAttempt
  <2> QED BY <2>2, <2>3
<1> QED BY <1>1, <1>2

\* A step that moves only the attempt of job j, to a value that claims nothing
\* about the row beyond what the previous one did.
LEMMA AttemptOnly ==
  ASSUME IInv, NEW j \in Jobs, NEW a \in Attempt,
         attempt' = [attempt EXCEPT ![j] = a],
         UNCHANGED <<row, request, queue, tries, drafts>>,
         a.pc # "write",
         ~(a.pc = "read" /\ a.goal = "running"),
         a.reason = "retry_exhausted" => tries[j] = MaxTries
  PROVE  IInv'
<1>1. TypeOK' BY DEF IInv, TypeOK
<1>2. ASSUME NEW k \in Jobs PROVE JobInv(k)'
  <2>1. CASE k # j BY <2>1, Frame DEF IInv, TypeOK
  <2>2. CASE k = j
    <3>1. attempt'[k] = a BY <2>2 DEF IInv, TypeOK
    <3> QED BY <2>2, <3>1 DEF IInv, JobInv
  <2> QED BY <2>1, <2>2
<1> QED BY <1>1, <1>2 DEF IInv

\* An exception of the running statement leads on or out of process_job.
LEMMA UnwindInv ==
  ASSUME IInv, NEW j \in Jobs, NEW r \in Reasons \ {"retry_exhausted"}, Unwind(j, r),
         UNCHANGED <<row, request, queue, tries, drafts>>
  PROVE  IInv'
<1>1. CASE attempt[j].goal \in {"running", "success"}
  <2>1. Heading("terminal", r) \in Attempt BY AttemptValues DEF Statuses
  <2>2. attempt' = [attempt EXCEPT ![j] = Heading("terminal", r)]
    BY <1>1 DEF Unwind
  <2>3. /\ Heading("terminal", r).pc = "read" /\ Heading("terminal", r).goal = "terminal"
        /\ Heading("terminal", r).reason = r
    BY DEF Heading, NoAttempt
  <2> QED BY <2>1, <2>2, <2>3, AttemptOnly
<1>2. CASE attempt[j].goal \notin {"running", "success"}
  <2>1. At("ack") \in Attempt BY AttemptValues
  <2>2. attempt' = [attempt EXCEPT ![j] = At("ack")]
    BY <1>2 DEF Unwind
  <2>3. At("ack").pc = "ack" /\ At("ack").reason = "none"
    BY DEF At, NoAttempt
  <2> QED BY <2>1, <2>2, <2>3, AttemptOnly
<1> QED BY <1>1, <1>2

\* The load remembers the attempts it saw and a status the table lets it leave.
LEMMA LoadInv ==
  ASSUME IInv, NEW j \in Jobs, Load(j) PROVE IInv'
<1> USE DEF IInv
<1> DEFINE a == [attempt[j] EXCEPT !.pc = "write", !.seenAttempts = row[j].attempts,
                                   !.seenError = row[j].error]
<1>1. /\ attempt' = [attempt EXCEPT ![j] = a]
      /\ row' = row /\ request' = request /\ queue' = queue /\ tries' = tries
      /\ drafts' = drafts /\ attempt[j].pc = "read"
      /\ TransitionAllowed(row[j].status, attempt[j].goal)
  BY DEF Load, TypeOK, Attempt
<1>2. row[j] \in Row /\ attempt[j] \in Attempt BY DEF TypeOK
<1>3. /\ a \in Attempt /\ a.pc = "write" /\ a.goal = attempt[j].goal
      /\ a.reason = attempt[j].reason /\ a.seenAttempts = row[j].attempts
  BY <1>2 DEF Attempt, Row
<1> HIDE DEF a
<1>4. TypeOK' BY <1>1, <1>3 DEF TypeOK
<1>5. row[j].status \in {"pending", "running", "failed"}
  BY <1>1, <1>2, TableFacts DEF Row
<1>6. ASSUME NEW k \in Jobs PROVE JobInv(k)'
  <2>1. CASE k # j BY <1>1, <2>1, Frame DEF TypeOK
  <2>2. CASE k = j
    <3>1. attempt'[k] = a BY <1>1, <2>2 DEF TypeOK
    <3> QED BY <1>1, <1>3, <1>5, <2>2, <3>1 DEF JobInv
  <2> QED BY <2>1, <2>2
<1> QED BY <1>4, <1>6

\* What the columns written by a transition other than set_running amount to.
LEMMA WrittenFacts ==
  ASSUME IInv, NEW j \in Jobs, attempt[j].pc = "write"
  PROVE  /\ Written(j) \in Row
         /\ Written(j).status = attempt[j].goal
         /\ Written(j).attempts = row[j].attempts
         /\ Written(j).doc = row[j].doc
         /\ Written(j).error = "retry_exhausted" => tries[j] = MaxTries
<1>1. row[j] \in Row /\ attempt[j] \in Attempt BY DEF IInv, TypeOK
<1>2. /\ Written(j).status = attempt[j].goal /\ Written(j).attempts = row[j].attempts
      /\ Written(j).doc = row[j].doc /\ Written(j).error = WrittenError(j)
  BY <1>1 DEF Written, Row
<1>3. WrittenError(j) \in {row[j].error, attempt[j].reason}
  BY DEF WrittenError
<1>4. WrittenError(j) \in Reasons /\ attempt[j].goal \in Statuses
  BY <1>1, <1>3 DEF Row, Attempt
<1>5. Written(j) \in Row
  BY <1>1, <1>4 DEF Written, Row
<1> QED BY <1>2, <1>3, <1>5 DEF IInv, JobInv

\* set_failed, set_terminal, set_running and set_success of job j, given the row
\* r and the attempt a they leave behind.
LEMMA StoreInv ==
  ASSUME IInv, NEW j \in Jobs, NEW r \in Row, NEW a \in Attempt, NEW d \in Nat,
         attempt[j].pc = "write",
         row' = [row EXCEPT ![j] = r],
         attempt' = [attempt EXCEPT ![j] = a],
         drafts' = [drafts EXCEPT ![j] = d],
         queue' \in [Jobs -> QueueStates],
         UNCHANGED <<request, tries>>,
         r.status # "absent",
         r.attempts <= tries[j],
         r.doc = "quote" => r.status = "success",
         r.error = "retry_exhausted" => tries[j] = MaxTries,
         d = (IF j \in ExtractionJobs /\ r.status = "success" THEN 1 ELSE 0),
         a.pc # "write",
         ~(a.pc = "read" /\ a.goal = "running"),
         a.reason = "retry_exhausted" => tries[j] = MaxTries
  PROVE  IInv'
<1>1. TypeOK' BY DEF IInv, TypeOK
<1>2. ASSUME NEW k \in Jobs PROVE JobInv(k)'
  <2>1. CASE k # j BY <2>1, Frame DEF IInv, TypeOK
  <2>2. CASE k = j
    <3>1. row'[k] = r /\ attempt'[k] = a /\ drafts'[k] = d
      BY <2>2 DEF IInv, TypeOK
    <3>2. request[k] = "done"
      BY <2>2 DEF IInv, JobInv, NoRow
    <3> QED BY <2>2, <3>1, <3>2 DEF IInv, JobInv
  <2> QED BY <2>1, <2>2
<1> QED BY <1>1, <1>2 DEF IInv

\* The transitions of the running attempt of job j.
LEMMA TransitionInv ==
  ASSUME IInv, NEW j \in Jobs, Transition(j) PROVE IInv'
<1>0. /\ JobInv(j) /\ row[j] \in Row /\ attempt[j] \in Attempt /\ drafts[j] \in Nat
      /\ tries[j] \in 0 .. MaxTries /\ MaxTries \in Nat /\ queue \in [Jobs -> QueueStates]
  BY BoundsAssumption DEF IInv, TypeOK
<1>1. CASE Load(j) BY <1>1, LoadInv
<1>2. CASE Refuse(j) \/ DatabaseFails(j)
  BY <1>2, UnwindInv DEF Refuse, DatabaseFails, Reasons
<1>3. CASE DraftPersistenceFails(j)
  BY <1>3, UnwindInv DEF DraftPersistenceFails, Reasons
<1>4. CASE StoreRunning(j)
  <2> DEFINE r == [Written(j) EXCEPT !.attempts = attempt[j].seenAttempts + 1]
  <2>1. attempt[j].pc = "write" /\ attempt[j].goal = "running"
    BY <1>4 DEF StoreRunning
  <2>2. attempt[j].seenAttempts = row[j].attempts /\ row[j].attempts < tries[j]
        /\ row[j].attempts \in Nat /\ row[j].doc = "null"
    BY <1>0, <2>1 DEF JobInv, Row
  <2>3. /\ r \in Row /\ r.status = "running" /\ r.doc = "null" /\ r.attempts <= tries[j]
        /\ r.error = "retry_exhausted" => tries[j] = MaxTries
    BY <1>0, <2>1, <2>2, WrittenFacts DEF Row
  <2>4. drafts[j] = 0 BY <1>0, <2>1 DEF JobInv
  <2>5. /\ row' = [row EXCEPT ![j] = r] /\ attempt' = [attempt EXCEPT ![j] = At("work")]
        /\ drafts' = [drafts EXCEPT ![j] = 0]
        /\ UNCHANGED <<request, queue, tries>>
    BY <1>4, <2>4 DEF StoreRunning, IInv, TypeOK
  <2>6. At("work") \in Attempt /\ At("work").pc = "work" /\ At("work").reason = "none"
    BY AttemptValues DEF At, NoAttempt
  <2> HIDE DEF r
  <2> QED BY <1>0, <2>1, <2>3, <2>5, <2>6, StoreInv
<1>5. CASE StoreSuccess(j)
  <2> DEFINE r == IF j \in ExtractionJobs
                  THEN [Written(j) EXCEPT !.doc = "quote"] ELSE Written(j)
  <2> DEFINE d == IF j \in ExtractionJobs THEN 1 ELSE 0
  <2>1. attempt[j].pc = "write" /\ attempt[j].goal = "success"
    BY <1>5 DEF StoreSuccess
  <2>2. drafts[j] = 0 BY <1>0, <2>1 DEF JobInv
  <2>3. /\ r \in Row /\ r.status = "success" /\ r.attempts <= tries[j]
        /\ r.error = "retry_exhausted" => tries[j] = MaxTries
    <3>1. row[j].attempts <= tries[j] BY <1>0 DEF JobInv
    <3>2. /\ Written(j) \in Row /\ Written(j).status = "success"
          /\ Written(j).attempts <= tries[j]
          /\ Written(j).error = "retry_exhausted" => tries[j] = MaxTries
      BY <2>1, <3>1, WrittenFacts
    <3>3. r = [Written(j) EXCEPT !.doc = "quote"] \/ r = Written(j)
      OBVIOUS
    <3> HIDE DEF r
    <3> QED BY <3>2, <3>3 DEF Row
  <2>4. /\ row' = [row EXCEPT ![j] = r] /\ attempt' = [attempt EXCEPT ![j] = At("ack")]
        /\ drafts' = [drafts EXCEPT ![j] = d]
        /\ UNCHANGED <<request, queue, tries>>
    BY <1>5, <2>2 DEF StoreSuccess, IInv, TypeOK
  <2>5. At("ack") \in Attempt /\ At("ack").pc = "ack" /\ At("ack").reason = "none"
    BY AttemptValues DEF At, NoAttempt
  <2>6. d \in Nat OBVIOUS
  <2>7. d = (IF j \in ExtractionJobs /\ r.status = "success" THEN 1 ELSE 0)
    BY <2>3
  <2> HIDE DEF r, d
  <2> QED BY <1>0, <2>1, <2>3, <2>4, <2>5, <2>6, <2>7, StoreInv
<1>6. CASE StoreFailedAndRetry(j) \/ StoreFailedAndExhaust(j) \/ StoreTerminal(j)
  <2>1. attempt[j].pc = "write" /\ attempt[j].goal \in {"failed", "terminal"}
    BY <1>6 DEF StoreFailedAndRetry, StoreFailedAndExhaust, StoreTerminal
  <2>2. drafts[j] = 0 /\ row[j].doc = "null" /\ row[j].attempts <= tries[j]
    BY <1>0, <2>1 DEF JobInv, Row
  <2>3. /\ Written(j) \in Row /\ Written(j).status \in {"failed", "terminal"}
        /\ Written(j).doc = "null" /\ Written(j).attempts <= tries[j]
        /\ Written(j).error = "retry_exhausted" => tries[j] = MaxTries
    BY <2>1, <2>2, WrittenFacts
  <2>4. PICK a \in Attempt : /\ attempt' = [attempt EXCEPT ![j] = a]
                             /\ a.pc # "write"
                             /\ ~(a.pc = "read" /\ a.goal = "running")
                             /\ a.reason = "retry_exhausted" => tries[j] = MaxTries
    <3>1. CASE StoreFailedAndRetry(j)
      BY <3>1, AttemptValues DEF StoreFailedAndRetry, NoAttempt
    <3>2. CASE StoreFailedAndExhaust(j)
      <4>1. Heading("terminal", "retry_exhausted") \in Attempt
        BY AttemptValues DEF Statuses, Reasons
      <4>2. Heading("terminal", "retry_exhausted").pc = "read"
            /\ Heading("terminal", "retry_exhausted").goal = "terminal"
        BY DEF Heading, NoAttempt
      <4>3. tries[j] = MaxTries
        BY <1>0, <3>2 DEF StoreFailedAndExhaust
      <4> QED BY <3>2, <4>1, <4>2, <4>3 DEF StoreFailedAndExhaust
    <3>3. CASE StoreTerminal(j)
      BY <3>3, AttemptValues DEF StoreTerminal, At, NoAttempt
    <3> QED BY <1>6, <3>1, <3>2, <3>3
  <2>5. /\ row' = [row EXCEPT ![j] = Written(j)] /\ drafts' = [drafts EXCEPT ![j] = 0]
        /\ UNCHANGED <<request, tries>> /\ queue' \in [Jobs -> QueueStates]
    BY <1>0, <1>6, <2>2
    DEF StoreFailedAndRetry, StoreFailedAndExhaust, StoreTerminal, IInv, TypeOK, QueueStates
  <2>6. Written(j).status # "success" /\ Written(j).status # "absent"
    BY <2>3
  <2>7. 0 = (IF j \in ExtractionJobs /\ Written(j).status = "success" THEN 1 ELSE 0)
    BY <2>6
  <2> HIDE DEF Written
  <2> QED BY <2>1, <2>3, <2>4, <2>5, <2>6, <2>7, StoreInv
<1> QED BY <1>1, <1>2, <1>3, <1>4, <1>5, <1>6 DEF Transition

\* The handler of job j ends; an extraction may touch updated_at on the way.
LEMMA HandlerInv ==
  ASSUME IInv, NEW j \in Jobs, HandlerEnds(j) PROVE IInv'
<1> USE DEF IInv
<1>1. PICK a \in {Heading("success", "none"), Heading("failed", "none"),
                  Heading("terminal", "unexpected_error")} :
        attempt' = [attempt EXCEPT ![j] = a]
  BY DEF HandlerEnds
<1>2. a \in Attempt BY AttemptValues DEF Statuses, Reasons
<1>3. a.pc = "read" /\ a.goal # "running" /\ a.reason # "retry_exhausted"
  BY DEF Heading, NoAttempt
<1>4. row' \in {row, [row EXCEPT ![j].aged = FALSE]}
      /\ UNCHANGED <<request, queue, tries, drafts>> /\ attempt[j].pc = "work"
  BY DEF HandlerEnds
<1>5. row[j] \in Row /\ row'[j] \in {row[j], [row[j] EXCEPT !.aged = FALSE]}
  BY <1>4 DEF TypeOK
<1>6. /\ row'[j] \in Row /\ row'[j].status = row[j].status
      /\ row'[j].attempts = row[j].attempts /\ row'[j].error = row[j].error
      /\ row'[j].doc = row[j].doc
  BY <1>5 DEF Row
<1>7. \A k \in Jobs : k # j => row'[k] = row[k]
  BY <1>4 DEF TypeOK
<1>8. row' = [row EXCEPT ![j] = row'[j]]
  BY <1>4 DEF TypeOK
<1>9. TypeOK' BY <1>1, <1>2, <1>4, <1>6, <1>8 DEF TypeOK
<1>10. ASSUME NEW k \in Jobs PROVE JobInv(k)'
  <2>1. CASE k # j BY <1>1, <1>4, <1>7, <2>1, Frame DEF TypeOK
  <2>2. CASE k = j
    <3>1. attempt'[k] = a BY <1>1, <2>2 DEF TypeOK
    <3> QED BY <1>3, <1>4, <1>6, <2>2, <3>1 DEF JobInv
  <2> QED BY <2>1, <2>2
<1> QED BY <1>9, <1>10

\* Time passes, the reaper runs, or the user deletes the draft of an extraction.
LEMMA EnvironmentInv ==
  ASSUME IInv, Reap \/ \E j \in Jobs : Age(j) \/ DeleteDraft(j) PROVE IInv'
<1> USE DEF IInv
<1>1. UNCHANGED <<request, queue, tries, attempt, drafts>>
  BY DEF Reap, Age, DeleteDraft
<1>2. ASSUME NEW k \in Jobs
      PROVE  /\ row'[k] \in Row
             /\ row[k].status = "absent" => row'[k].status = "absent"
             /\ row'[k].attempts = row[k].attempts
             /\ row'[k].error = "retry_exhausted" => row[k].error = "retry_exhausted"
             /\ row'[k].doc \in {"null", row[k].doc}
             /\ \/ row'[k].status = row[k].status
                \/ /\ row[k].status \in ActiveStatuses /\ row'[k].status = "terminal"
                   /\ k \in ExtractionJobs
  <2>1. row[k] \in Row BY DEF TypeOK
  <2>2. CASE row'[k] = row[k] BY <2>1, <2>2
  <2>3. CASE row'[k] # row[k]
    <3>1. row'[k] \in {[row[k] EXCEPT !.aged = TRUE], [row[k] EXCEPT !.doc = "null"],
                       [row[k] EXCEPT !.status = "terminal", !.error = "job_not_picked_up",
                                      !.aged = FALSE]}
          /\ (row[k].status \in ActiveStatuses \/ row[k].doc = "quote")
          /\ (row'[k] \notin {[row[k] EXCEPT !.aged = TRUE], [row[k] EXCEPT !.doc = "null"]}
                => k \in ExtractionJobs /\ row[k].status \in ActiveStatuses)
      BY <2>1, <2>3 DEF Reap, Age, DeleteDraft, Stale, TypeOK
    <3> QED BY <2>1, <3>1 DEF Row, Statuses, Reasons, ActiveStatuses
  <2> QED BY <2>2, <2>3
<1>3. row' = [k \in Jobs |-> row'[k]]
  BY DEF Reap, Age, DeleteDraft, TypeOK
<1>4. TypeOK' BY <1>1, <1>2, <1>3 DEF TypeOK
<1>5. ASSUME NEW k \in Jobs PROVE JobInv(k)'
  <2>1. JobInv(k) OBVIOUS
  <2>2. row[k].status = "success" => row'[k].status = "success"
    BY <1>2 DEF ActiveStatuses
  <2>3. row'[k].status = "success" => row[k].status = "success"
    BY <1>2
  <2>4. row[k].status \notin {"success", "absent"} => row'[k].status \notin {"success", "absent"}
    BY <1>2
  <2>5. k \notin ExtractionJobs => row'[k].status = row[k].status
    BY <1>2
  <2> QED BY <1>1, <1>2, <2>1, <2>2, <2>3, <2>4, <2>5 DEF JobInv
<1> QED BY <1>4, <1>5

\* No step of the pipeline breaks the invariant.
THEOREM NextInv == IInv /\ [Next]_vars => IInv'
<1> SUFFICES ASSUME IInv, [Next]_vars PROVE IInv'
  OBVIOUS
<1>1. ASSUME NEW j \in Jobs, Request(j) PROVE IInv'
  BY <1>1, RequestInv
<1>2. ASSUME NEW j \in Jobs, Worker(j) PROVE IInv'
  BY <1>2, QueueInv, TransitionInv, HandlerInv DEF Worker
<1>3. ASSUME NEW j \in Jobs, Disruption(j) PROVE IInv'
  BY <1>3, QueueInv DEF Disruption
<1>4. ASSUME Reap \/ \E j \in Jobs : Age(j) \/ DeleteDraft(j) PROVE IInv'
  BY <1>4, EnvironmentInv
<1>5. CASE UNCHANGED vars
  <2>1. \A k \in Jobs : JobInv(k)'
    BY <1>5, Frame DEF vars, IInv
  <2> QED BY <1>5, <2>1 DEF vars, IInv, TypeOK
<1> QED BY <1>1, <1>2, <1>3, <1>4, <1>5 DEF Next

\* JobInv and the types hold in every reachable state: _store_extraction_result
\* and set_running work on a row that is what they loaded it to be.
THEOREM Invariance == Spec => []IInv
BY InitInv, NextInv, PTL DEF Spec

\* Type correctness of the pipeline, with tries bounded by max_tries.
THEOREM TypeCorrectness == Spec => []TypeOK
<1>1. IInv => TypeOK BY DEF IInv
<1> QED BY <1>1, Invariance, PTL

\* _store_extraction_result commits at most one draft for a job, for any number
\* of redeliveries of jobs.extraction.
THEOREM DraftUniqueness == Spec => []AtMostOneDraft
<1>1. IInv => AtMostOneDraft
  BY DEF IInv, JobInv, AtMostOneDraft
<1> QED BY <1>1, Invariance, PTL

\* The draft and the success status of an extraction exist together, although
\* the reaper may overwrite the row at any time.
THEOREM SuccessMatchesDraft == Spec => []SuccessIffDraft
<1>1. IInv => SuccessIffDraft
  <2> SUFFICES ASSUME IInv, NEW j \in ExtractionJobs
               PROVE  /\ row[j].status = "success" <=> drafts[j] = 1
                      /\ row[j].doc = "quote" => row[j].status = "success"
    BY DEF SuccessIffDraft
  <2>1. JobInv(j) BY JobsAssumption DEF IInv
  <2>2. CASE row[j].status = "success" BY <2>1, <2>2 DEF JobInv
  <2>3. CASE row[j].status # "success" BY <2>1, <2>3 DEF JobInv
  <2> QED BY <2>2, <2>3
<1> QED BY <1>1, Invariance, PTL

\* set_running commits at most once per delivery, so max_tries bounds attempts.
THEOREM AttemptBudget == Spec => []AttemptsWithinTries
<1>1. IInv => AttemptsWithinTries
  BY DEF IInv, JobInv, AttemptsWithinTries
<1> QED BY <1>1, Invariance, PTL

\* retry_exhausted is recorded by the last permitted delivery only.
THEOREM ExhaustionSound == Spec => []ExhaustedMeansAllTries
<1>1. IInv => ExhaustedMeansAllTries
  BY DEF IInv, JobInv, ExhaustedMeansAllTries
<1> QED BY <1>1, Invariance, PTL

\* An extraction has its draft exactly when its row is a success, and never two.
THEOREM DraftCorrectness == Spec => []DraftMatchesStatus
<1>1. AtMostOneDraft /\ SuccessIffDraft => DraftMatchesStatus BY DEF DraftMatchesStatus
<1> QED BY <1>1, DraftUniqueness, SuccessMatchesDraft, PTL

\* process_job and ARQ spend the tries of a job one by one, and give it up only
\* when all are spent.
THEOREM RetryBudgetKept == Spec => []RetryBudget
<1>1. AttemptsWithinTries /\ ExhaustedMeansAllTries => RetryBudget BY DEF RetryBudget
<1> QED BY <1>1, AttemptBudget, ExhaustionSound, PTL

\* How one step may change the status of a row.
StatusStep(k) ==
  \/ row'[k].status = row[k].status
  \/ row[k].status = "absent" /\ row'[k].status \in {"pending", "terminal"}
  \/ /\ row[k].status \notin {"absent", "success"}
     /\ k \notin ExtractionJobs => TransitionAllowed(row[k].status, row'[k].status)

\* At most one row other than an extraction's changes its status in a step.
LEMMA RowSteps ==
  ASSUME IInv, [Next]_vars
  PROVE  /\ \A k \in Jobs : StatusStep(k)
         /\ \/ \A k \in NonExtractionJobs : row'[k].status = row[k].status
            \/ \E j \in Jobs : \A k \in NonExtractionJobs \ {j} :
                 row'[k].status = row[k].status
<1> DEFINE Quiet == \A k \in NonExtractionJobs : row'[k].status = row[k].status
<1> DEFINE Only(j) == \A k \in NonExtractionJobs \ {j} : row'[k].status = row[k].status
<1> SUFFICES (\A k \in Jobs : StatusStep(k)) /\ (Quiet \/ \E j \in Jobs : Only(j))
  OBVIOUS
<1> USE DEF NonExtractionJobs
<1>0. row \in [Jobs -> Row] /\ \A k \in Jobs : JobInv(k) BY DEF IInv, TypeOK
<1>1. CASE row' = row BY <1>1 DEF StatusStep
<1>2. ASSUME NEW j \in Jobs, CommitRequest(j)
      PROVE  (\A k \in Jobs : StatusStep(k)) /\ Only(j)
  <2>1. PICK new : /\ row' = [row EXCEPT ![j] = new]
                   /\ new.status \in {"pending", "terminal"}
    <3> DEFINE p == [NoRow EXCEPT !.status = "pending"]
    <3> DEFINE t == [NoRow EXCEPT !.status = "terminal", !.error = "enqueue_failed"]
    <3>1. p.status = "pending" /\ t.status = "terminal" BY DEF NoRow
    <3>2. row' = [row EXCEPT ![j] = p] \/ row' = [row EXCEPT ![j] = t]
      BY <1>2 DEF CommitRequest
    <3> HIDE DEF p, t
    <3> QED BY <3>1, <3>2
  <2>2. row[j].status = "absent" BY <1>0, <1>2 DEF CommitRequest, JobInv
  <2>3. row'[j] = new /\ \A k \in Jobs \ {j} : row'[k] = row[k]
    BY <1>0, <2>1
  <2>4. Only(j) BY <2>3
  <2>5. ASSUME NEW k \in Jobs PROVE StatusStep(k)
    BY <2>1, <2>2, <2>3 DEF StatusStep
  <2> QED BY <2>4, <2>5
<1>3. ASSUME NEW j \in Jobs,
             \/ StoreRunning(j) \/ StoreSuccess(j) \/ StoreFailedAndRetry(j)
             \/ StoreFailedAndExhaust(j) \/ StoreTerminal(j)
      PROVE  (\A k \in Jobs : StatusStep(k)) /\ Only(j)
  <2>1. attempt[j].pc = "write"
    BY <1>3 DEF StoreRunning, StoreSuccess, StoreFailedAndRetry, StoreFailedAndExhaust,
                StoreTerminal
  <2>2. Written(j) \in Row /\ Written(j).status = attempt[j].goal
    BY <2>1, WrittenFacts
  <2>3. PICK r : row' = [row EXCEPT ![j] = r] /\ r.status = attempt[j].goal
    <3> DEFINE w == Written(j)
    <3>1. w \in Row /\ w.status = attempt[j].goal BY <2>2
    <3>2. \/ row' = [row EXCEPT ![j] = w]
          \/ row' = [row EXCEPT ![j] = [w EXCEPT !.doc = "quote"]]
          \/ row' = [row EXCEPT ![j] = [w EXCEPT !.attempts = attempt[j].seenAttempts + 1]]
      BY <1>3 DEF StoreRunning, StoreSuccess, StoreFailedAndRetry, StoreFailedAndExhaust,
                  StoreTerminal
    <3> HIDE DEF w
    <3>3. /\ [w EXCEPT !.doc = "quote"].status = w.status
          /\ [w EXCEPT !.attempts = attempt[j].seenAttempts + 1].status = w.status
      BY <3>1 DEF Row
    <3> QED BY <3>1, <3>2, <3>3
  <2>4. /\ row[j].status \notin {"absent", "success"}
        /\ j \notin ExtractionJobs => TransitionAllowed(row[j].status, attempt[j].goal)
    BY <1>0, <2>1 DEF JobInv
  <2>5. row'[j] = r /\ \A k \in Jobs \ {j} : row'[k] = row[k]
    BY <1>0, <2>3
  <2>6. Only(j) BY <2>5
  <2>7. ASSUME NEW k \in Jobs PROVE StatusStep(k)
    BY <2>3, <2>4, <2>5 DEF StatusStep
  <2> QED BY <2>6, <2>7
<1>4. ASSUME Reap \/ \E j \in Jobs : Age(j) \/ DeleteDraft(j) \/ HandlerEnds(j)
      PROVE  (\A k \in Jobs : StatusStep(k)) /\ Quiet
  <2>1. ASSUME NEW k \in Jobs
        PROVE  \/ row'[k].status = row[k].status
               \/ k \in ExtractionJobs /\ row[k].status \in ActiveStatuses
    <3>1. \/ row'[k] = row[k]
          \/ row'[k] \in {[row[k] EXCEPT !.aged = TRUE], [row[k] EXCEPT !.aged = FALSE],
                          [row[k] EXCEPT !.doc = "null"]}
          \/ k \in ExtractionJobs /\ row[k].status \in ActiveStatuses
      BY <1>0, <1>4 DEF Reap, Age, DeleteDraft, HandlerEnds, Stale
    <3> QED BY <1>0, <3>1 DEF Row
  <2> QED BY <2>1 DEF StatusStep, ActiveStatuses
<1> QED
  BY <1>1, <1>2, <1>3, <1>4
  DEF Next, vars, Request, CreateJob, RejectJob, Enqueue, EnqueueFails, AbandonRequest,
      Worker, Deliver, GiveUp, Acknowledge, Disruption, WorkerCrash, JobTimeout,
      Transition, Load, Refuse, DatabaseFails, DraftPersistenceFails

\* Nothing overwrites a success: a redelivery is refused by the table and the
\* reaper's UPDATE matches active rows only.
THEOREM SuccessFinality == Spec => SuccessIsFinal
<1>1. IInv /\ [Next]_vars =>
        [\A j \in Jobs : row[j].status = "success" => row'[j].status = "success"]_vars
  BY RowSteps DEF StatusStep
<1> QED BY <1>1, Invariance, PTL DEF Spec, SuccessIsFinal

\* An extraction that waits: inserted or committed, and never started.
IsWaiting(k) == request[k] \in {"created", "queued"} \/ row[k].status = "pending"

\* Admission is the only way to become waiting: the commit of an insert keeps what
\* the insert was, and no store of the worker or the reaper writes pending.
LEMMA WaitingSteps ==
  ASSUME IInv, [Next]_vars, NEW k \in ExtractionJobs, IsWaiting(k)'
  PROVE  IsWaiting(k) \/ CreateJob(k)
<1>0. /\ row \in [Jobs -> Row] /\ request \in [Jobs -> RequestStates] /\ k \in Jobs
      /\ \A j \in Jobs : JobInv(j)
  BY JobsAssumption DEF IInv, TypeOK
<1>1. CASE row' = row /\ request' = request
  BY <1>1 DEF IsWaiting
<1>2. ASSUME NEW j \in Jobs, CreateJob(j)
      PROVE  IsWaiting(k) \/ CreateJob(k)
  <2>1. row' = row /\ request' = [request EXCEPT ![j] = "created"]
    BY <1>2 DEF CreateJob
  <2>2. CASE j # k
    BY <1>0, <2>1, <2>2 DEF IsWaiting
  <2> QED BY <1>2, <2>2
<1>3. ASSUME NEW j \in Jobs,
             RejectJob(j) \/ Enqueue(j) \/ EnqueueFails(j) \/ AbandonRequest(j)
      PROVE  IsWaiting(k)
  <2>1. /\ row' = row
        /\ \/ request' = [request EXCEPT ![j] = "gone"]
           \/ request' = [request EXCEPT ![j] = "enqueue_failed"]
           \/ request[j] = "created" /\ request' = [request EXCEPT ![j] = "queued"]
    BY <1>3 DEF RejectJob, Enqueue, EnqueueFails, AbandonRequest
  <2> QED BY <1>0, <2>1 DEF IsWaiting
<1>4. ASSUME NEW j \in Jobs, CommitRequest(j)
      PROVE  IsWaiting(k)
  <2> DEFINE t == [NoRow EXCEPT !.status = "terminal", !.error = "enqueue_failed"]
  <2>1. /\ request' = [request EXCEPT ![j] = "done"]
        /\ request[j] = "queued" \/ row' = [row EXCEPT ![j] = t]
        /\ \A i \in Jobs \ {j} : row'[i] = row[i]
    BY <1>0, <1>4 DEF CommitRequest
  <2>2. t.status = "terminal"
    BY DEF NoRow
  <2> HIDE DEF t
  <2> QED BY <1>0, <2>1, <2>2 DEF IsWaiting
<1>5. ASSUME NEW j \in Jobs,
             \/ StoreRunning(j) \/ StoreSuccess(j) \/ StoreFailedAndRetry(j)
             \/ StoreFailedAndExhaust(j) \/ StoreTerminal(j)
      PROVE  IsWaiting(k)
  <2> DEFINE w == Written(j)
  <2>1. attempt[j].pc = "write" /\ attempt[j].goal # "pending"
    BY <1>5 DEF StoreRunning, StoreSuccess, StoreFailedAndRetry, StoreFailedAndExhaust,
                StoreTerminal
  <2>2. w \in Row /\ w.status = attempt[j].goal
    BY <2>1, WrittenFacts
  <2>3. /\ \/ row' = [row EXCEPT ![j] = w]
           \/ row' = [row EXCEPT ![j] = [w EXCEPT !.doc = "quote"]]
           \/ row' = [row EXCEPT ![j] = [w EXCEPT !.attempts = attempt[j].seenAttempts + 1]]
        /\ request' = request
    BY <1>5 DEF StoreRunning, StoreSuccess, StoreFailedAndRetry, StoreFailedAndExhaust,
                StoreTerminal
  <2> HIDE DEF w
  <2>4. /\ [w EXCEPT !.doc = "quote"].status = w.status
        /\ [w EXCEPT !.attempts = attempt[j].seenAttempts + 1].status = w.status
    BY <2>2 DEF Row
  <2>5. row'[j].status # "pending" /\ \A i \in Jobs \ {j} : row'[i] = row[i]
    BY <1>0, <2>1, <2>2, <2>3, <2>4
  <2> QED BY <1>0, <2>3, <2>5 DEF IsWaiting
<1>6. ASSUME Reap \/ \E j \in Jobs : Age(j) \/ DeleteDraft(j) \/ HandlerEnds(j)
      PROVE  IsWaiting(k)
  <2>1. request' = request
    BY <1>6 DEF Reap, Age, DeleteDraft, HandlerEnds
  <2>2. \/ row'[k] = row[k]
        \/ row'[k] \in {[row[k] EXCEPT !.aged = TRUE], [row[k] EXCEPT !.aged = FALSE],
                        [row[k] EXCEPT !.doc = "null"],
                        [row[k] EXCEPT !.status = "terminal",
                                       !.error = "job_not_picked_up", !.aged = FALSE]}
    BY <1>0, <1>6 DEF Reap, Age, DeleteDraft, HandlerEnds
  <2>3. row'[k].status \in {row[k].status, "terminal"}
    BY <1>0, <2>2 DEF Row
  <2> QED BY <2>1, <2>3 DEF IsWaiting
<1> QED
  BY <1>1, <1>2, <1>3, <1>4, <1>5, <1>6
  DEF Next, vars, Request, Worker, Deliver, GiveUp, Acknowledge, Disruption, WorkerCrash,
      JobTimeout, Transition, Load, Refuse, DatabaseFails, DraftPersistenceFails

\* A job is admitted only while fewer than Limit extractions of its user wait: the
\* lock leaves no insert open, and what waits is active then, and counted.
LEMMA AdmissionLeavesRoom ==
  ASSUME IInv, NEW k \in ExtractionJobs, CreateJob(k)
  PROVE  Cardinality(Waiting(Owner[k])) < Limit
<1> DEFINE u == Owner[k]
           Active == {j \in ExtractionJobs : Owner[j] = u /\ row[j].status \in ActiveStatuses}
<1>1. ~UserLocked(u) /\ Cardinality(Active) < Limit
  BY DEF CreateJob, CountActive
<1>2. Waiting(u) \subseteq Active
  BY <1>1 DEF Waiting, UserLocked, OpenTransaction, ActiveStatuses
<1>3. IsFiniteSet(Active)
  BY JobsAssumption, FS_Subset
<1>4. /\ Cardinality(Waiting(u)) <= Cardinality(Active)
      /\ Cardinality(Waiting(u)) \in Nat /\ Cardinality(Active) \in Nat
  BY <1>2, <1>3, FS_Subset, FS_CardinalityType
<1> QED BY <1>1, <1>4, BoundsAssumption

\* What WaitingWithinLimit needs to be inductive: who waits, and that it is bounded.
WaitInv == IInv /\ WaitingWithinLimit

\* A step admits at most one job, while there is room, and adds no other.
LEMMA WaitNext == WaitInv /\ [Next]_vars => WaitInv'
<1> SUFFICES ASSUME WaitInv, [Next]_vars, NEW u \in Users
             PROVE  Cardinality(Waiting(u)') <= Limit
  BY NextInv DEF WaitInv, WaitingWithinLimit
<1>1. IsFiniteSet(Waiting(u)) /\ Cardinality(Waiting(u)) \in Nat /\ Cardinality(Waiting(u)) <= Limit
  <2>1. Waiting(u) \subseteq Jobs
    BY JobsAssumption DEF Waiting
  <2> QED BY <2>1, JobsAssumption, FS_Subset, FS_CardinalityType DEF WaitInv, WaitingWithinLimit
<1>2. \A j \in ExtractionJobs : j \in Waiting(u)' => j \in Waiting(u) \/ CreateJob(j)
  <2> SUFFICES ASSUME NEW j \in ExtractionJobs, j \in Waiting(u)'
               PROVE  j \in Waiting(u) \/ CreateJob(j)
    OBVIOUS
  <2>1. IsWaiting(j)' /\ Owner[j] = u
    BY DEF Waiting, IsWaiting
  <2>2. IsWaiting(j) \/ CreateJob(j)
    BY <2>1, WaitingSteps DEF WaitInv
  <2> QED BY <2>1, <2>2 DEF Waiting, IsWaiting
<1>3. CASE \E j \in ExtractionJobs : CreateJob(j) /\ Owner[j] = u
  <2>1. PICK j \in ExtractionJobs : CreateJob(j) /\ Owner[j] = u
    BY <1>3
  <2>2. Cardinality(Waiting(u)) < Limit
    BY <2>1, AdmissionLeavesRoom DEF WaitInv
  <2>3. \A i \in ExtractionJobs \ {j} : ~CreateJob(i)
    <3>1. /\ request' = [request EXCEPT ![j] = "created"] /\ request \in [Jobs -> RequestStates]
          /\ j \in Jobs
      BY <2>1, JobsAssumption DEF CreateJob, WaitInv, IInv, TypeOK
    <3> SUFFICES ASSUME NEW i \in ExtractionJobs \ {j}, CreateJob(i) PROVE FALSE
      OBVIOUS
    <3>2. request'[i] = "created" /\ request'[i] = request[i] /\ request[i] = "idle"
      BY <3>1, JobsAssumption DEF CreateJob
    <3> QED BY <3>2
  <2>4. Waiting(u)' \subseteq Waiting(u) \cup {j}
    <3>1. Waiting(u)' \subseteq ExtractionJobs
      BY DEF Waiting
    <3> QED BY <1>2, <2>3, <3>1
  <2>5. /\ IsFiniteSet(Waiting(u) \cup {j})
        /\ Cardinality(Waiting(u) \cup {j}) <= Cardinality(Waiting(u)) + 1
    <3>1. /\ IsFiniteSet(Waiting(u) \cup {j})
          /\ Cardinality(Waiting(u) \cup {j}) =
               IF j \in Waiting(u) THEN Cardinality(Waiting(u)) ELSE Cardinality(Waiting(u)) + 1
      BY <1>1, FS_AddElement
    <3> QED BY <1>1, <3>1
  <2>6. Cardinality(Waiting(u)') <= Cardinality(Waiting(u) \cup {j})
    BY <2>4, <2>5, FS_Subset
  <2>7. Cardinality(Waiting(u)') \in Nat /\ Cardinality(Waiting(u) \cup {j}) \in Nat
    BY <2>4, <2>5, FS_Subset, FS_CardinalityType
  <2> QED BY <1>1, <2>2, <2>5, <2>6, <2>7, BoundsAssumption
<1>4. CASE ~\E j \in ExtractionJobs : CreateJob(j) /\ Owner[j] = u
  <2>1. Waiting(u)' \subseteq Waiting(u)
    <3>1. Waiting(u)' \subseteq ExtractionJobs /\ \A j \in Waiting(u)' : Owner[j] = u
      BY DEF Waiting
    <3> QED BY <1>2, <1>4, <3>1
  <2>2. /\ IsFiniteSet(Waiting(u)')
        /\ Cardinality(Waiting(u)') <= Cardinality(Waiting(u))
    BY <1>1, <2>1, FS_Subset
  <2>3. Cardinality(Waiting(u)') \in Nat
    BY <2>2, FS_CardinalityType
  <2> QED BY <1>1, <2>2, <2>3, BoundsAssumption
<1> QED BY <1>3, <1>4

\* The user-row lock makes the count of count_active_for_user and the insert one
\* step: never more than Limit extractions of a user wait, counting the inserts that
\* are not committed yet.
THEOREM AdmissionIsAtomic == Spec => []WaitingWithinLimit
<1>1. Init => WaitInv
  <2> SUFFICES ASSUME Init, NEW u \in Users PROVE Cardinality(Waiting(u)) <= Limit
    BY InitInv DEF WaitInv, WaitingWithinLimit
  <2>1. Waiting(u) = {}
    BY JobsAssumption DEF Init, Waiting, NoRow
  <2> QED BY <2>1, FS_EmptySet, BoundsAssumption
<1>2. WaitInv => WaitingWithinLimit
  BY DEF WaitInv
<1> QED BY <1>1, <1>2, WaitNext, PTL DEF Spec

\* The two tables are the same.
LEMMA SameTable == Contract!AllowedTransitions = AllowedTransitions
BY DEF Contract!AllowedTransitions, Contract!Statuses, AllowedTransitions, Statuses

\* Pdf and email rows implement the status machine the rest of the application
\* relies on (ADR-005's status model).
THEOREM Refinement == Spec => FollowsStatusTable
<1> DEFINE shown == [j \in NonExtractionJobs |-> row[j].status]
<1>1. Init => Contract!Init
  BY DEF Init, Contract!Init, NoRow, NonExtractionJobs
<1>2. IInv /\ [Next]_vars => [Contract!Next]_shown
  <2> SUFFICES ASSUME IInv, [Next]_vars, shown' # shown PROVE Contract!Next
    OBVIOUS
  <2>1. PICK j \in Jobs : \A k \in NonExtractionJobs \ {j} : row'[k].status = row[k].status
    BY RowSteps
  <2>2. j \in NonExtractionJobs /\ row'[j].status # row[j].status
    BY <2>1
  <2>3. shown' = [shown EXCEPT ![j] = row'[j].status] /\ shown[j] = row[j].status
    <3>1. shown' = [k \in NonExtractionJobs |-> row'[k].status]
      BY DEF NonExtractionJobs
    <3>2. [shown EXCEPT ![j] = row'[j].status] =
            [k \in NonExtractionJobs |-> IF k = j THEN row'[j].status ELSE row[k].status]
      OBVIOUS
    <3>3. \A k \in NonExtractionJobs :
            row'[k].status = IF k = j THEN row'[j].status ELSE row[k].status
      BY <2>1
    <3>4. shown[j] = row[j].status BY <2>2
    <3> HIDE DEF shown
    <3> QED BY <3>1, <3>2, <3>3, <3>4
  <2>4. StatusStep(j) BY <2>2, RowSteps
  <2>5. row[j].status \in Statuses \cup {"absent"} /\ j \notin ExtractionJobs
    BY <2>2 DEF IInv, TypeOK, Row, NonExtractionJobs
  <2>6. CASE row[j].status = "absent"
    <3>1. row'[j].status \in {"pending", "terminal"}
      BY <2>2, <2>4, <2>6 DEF StatusStep
    <3>2. Contract!Appear(j) BY <2>3, <2>6, <3>1 DEF Contract!Appear
    <3> QED BY <2>2, <3>2 DEF Contract!Next
  <2>7. CASE row[j].status # "absent"
    <3>1. row'[j].status \in AllowedTransitions[row[j].status]
      BY <2>2, <2>4, <2>5, <2>7 DEF StatusStep, TransitionAllowed
    <3>2. Contract!Move(j)
      BY <2>3, <2>5, <2>7, <3>1, SameTable DEF Contract!Move, Contract!Statuses, Statuses
    <3> QED BY <2>2, <3>2 DEF Contract!Next
  <2> QED BY <2>6, <2>7
<1> QED BY <1>1, <1>2, Invariance, PTL DEF Spec, FollowsStatusTable, Contract!Spec
===============================================================================
