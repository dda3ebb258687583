--------------------------- MODULE SubmissionProofs ---------------------------
(***************************************************************************)
(* Proofs about both ends of a submission: the endpoint with its store     *)
(* (IdempotentSubmit), for every set of requests, keys and contents, and   *)
(* the device that submits (CaptureOutbox), for every number of passes,    *)
(* screens, keys, jobs, attempts and edits.                                *)
(*                                                                         *)
(* OneJobPerKey rests on ownership: between begin and the end of a request *)
(* the record under its key is its own, so that no other request starts    *)
(* and abort deletes nothing but that record.  The two events in doubt     *)
(* break ownership, and nothing else does.  EndsAreEarned rests on a count *)
(* of tries: what a pass counts from its list was really tried.            *)
(***************************************************************************)
EXTENDS IdempotentSubmit, CaptureOutbox, FiniteSetTheorems, TLAPS

-------------------------------------------------------------------------------
(* IdempotentSubmit: the invariant *)

\* The places between a successful begin and the answer.
Owning == {"started", "created", "queued", "committed", "failing", "deleting"}

Uncommitted == {"idle", "lookup", "started", "created", "queued"}

\* A request has committed nothing before its commit, and an accepted job after.
Progress(r) ==
  /\ pc[r] \in Uncommitted => job[r] = "absent"
  /\ pc[r] = "committed" => job[r] = "accepted"

Completed(k) ==
  LET record == store[k]
  IN  record.status = "completed" =>
        /\ KeyOf[record.job] = k
        /\ job[record.job] = "accepted"
        /\ ContentOf[record.job] = record.content

Replayed(r) ==
  answer[r] = "replayed" =>
    \E q \in Requests : /\ KeyOf[q] = KeyOf[r] /\ job[q] = "accepted"
                        /\ ContentOf[q] = ContentOf[r]

\* Request r owns the record under its key, alone, and the key has no accepted
\* job but that of r.
Owns(r) ==
  /\ store[KeyOf[r]] = Pending(r)
  /\ job[r] = "accepted" => pc[r] = "committed"
  /\ \A q \in Requests \ {r} :
       KeyOf[q] = KeyOf[r] => pc[q] \notin Owning /\ job[q] # "accepted"

Exclusive ==
  /\ \A r \in Requests : pc[r] \in Owning => Owns(r)
  /\ \A r \in Requests : store[KeyOf[r]] = NoRecord => job[r] # "accepted"
  /\ \A q, r \in Requests :
       KeyOf[q] = KeyOf[r] /\ job[q] = "accepted" /\ job[r] = "accepted" => q = r

Genuine ==
  /\ \A r \in Requests : Progress(r) /\ Replayed(r)
  /\ \A k \in StorageKeys : Completed(k)

SubmitInv == SubmitTypeOK /\ Genuine /\ (doubt = {} => Exclusive)

-------------------------------------------------------------------------------
(* One request at a time *)

\* Nothing changes but where request r is.
Moves(r, place, reply) ==
  /\ pc' = [pc EXCEPT ![r] = place]
  /\ answer' = [answer EXCEPT ![r] = reply]

\* GoOn and Answer move a request.
LEMMA Moving ==
  ASSUME SubmitTypeOK, NEW r \in Requests, NEW p \in Places, NEW a \in Answers
  PROVE  /\ GoOn(r, p) => Moves(r, p, answer[r])
         /\ Answer(r, a) => Moves(r, "done", a)
         /\ answer[r] \in Answers /\ "done" \in Places
BY DEF SubmitTypeOK, GoOn, Answer, Moves, Places, Answers

\* A request that moves on without touching store, job or doubt keeps the
\* invariant, as long as it does not come to own a record, nor claims to have
\* committed, and replays only what Replayed allows.
LEMMA MoveInv ==
  ASSUME SubmitInv, NEW r \in Requests, NEW p \in Places, NEW a \in Answers,
         Moves(r, p, a), UNCHANGED <<store, job, doubt>>,
         p \in Owning => pc[r] \in Owning \ {"committed"},
         p \in Uncommitted => pc[r] \in Uncommitted,
         p # "committed",
         a = "replayed" => \E q \in Requests : /\ KeyOf[q] = KeyOf[r] /\ job[q] = "accepted"
                                               /\ ContentOf[q] = ContentOf[r]
  PROVE  SubmitInv'
<1> USE DEF SubmitInv, Moves
<1>1. SubmitTypeOK'
  BY DEF SubmitTypeOK
<1>2. Genuine'
  <2>1. ASSUME NEW q \in Requests PROVE Progress(q)'
    BY DEF SubmitTypeOK, Genuine, Progress
  <2>2. ASSUME NEW q \in Requests PROVE Replayed(q)'
    BY DEF SubmitTypeOK, Genuine, Replayed
  <2>3. ASSUME NEW k \in StorageKeys PROVE Completed(k)'
    BY DEF Genuine, Completed
  <2> QED BY <2>1, <2>2, <2>3 DEF Genuine
<1>3. ASSUME doubt' = {} PROVE Exclusive'
  <2>1. Exclusive
    BY <1>3
  <2>2. ASSUME NEW q \in Requests, pc'[q] \in Owning PROVE Owns(q)'
    <3>1. pc[q] \in Owning
      BY <2>2 DEF SubmitTypeOK
    <3>2. Owns(q)
      BY <2>1, <3>1 DEF Exclusive
    <3>3. \A i \in Requests : pc'[i] \in Owning => pc[i] \in Owning
      BY DEF SubmitTypeOK
    <3>4. pc[q] = "committed" => pc'[q] = "committed"
      BY <2>2 DEF SubmitTypeOK
    <3> QED BY <3>2, <3>3, <3>4 DEF Owns, Pending
  <2> QED BY <2>1, <2>2 DEF Exclusive
<1> QED BY <1>1, <1>2, <1>3

\* A record with status none is the absence of a record.
LEMMA NoneIsNoRecord ==
  ASSUME SubmitTypeOK, NEW k \in StorageKeys, store[k].status = "none"
  PROVE  store[k] = NoRecord
BY DEF SubmitTypeOK, Record

\* The values the actions store are records.
LEMMA RecordValues ==
  ASSUME NEW r \in Requests
  PROVE  /\ KeyOf[r] \in StorageKeys /\ ContentOf[r] \in Contents
         /\ Pending(r) \in Record /\ Pending(r) # NoRecord
         /\ Pending(r).status = "in_progress"
         /\ [status |-> "completed", content |-> ContentOf[r], job |-> r] \in Record
         /\ NoRecord \in Record /\ NoRecord.status = "none"
BY SubmitAssumption DEF Pending, Record, NoRecord

\* SET NX on a free key: request r starts, or fails without knowing.
LEMMA ClaimInv ==
  ASSUME SubmitInv, NEW r \in Requests, NEW p \in {"started", "done"}, NEW a \in Answers,
         a = "replayed" => a = answer[r], pc[r] = "idle", store[KeyOf[r]].status = "none", Moves(r, p, a),
         store' = [store EXCEPT ![KeyOf[r]] = Pending(r)], UNCHANGED <<job, doubt>>
  PROVE  SubmitInv'
<1> USE RecordValues DEF SubmitInv, Moves
<1>0. store[KeyOf[r]] = NoRecord
  BY NoneIsNoRecord
<1>1. SubmitTypeOK'
  BY DEF SubmitTypeOK, Places
<1>2. Genuine'
  <2>1. ASSUME NEW q \in Requests PROVE Progress(q)'
    BY DEF SubmitTypeOK, Genuine, Progress, Uncommitted
  <2>2. ASSUME NEW q \in Requests PROVE Replayed(q)'
    BY DEF SubmitTypeOK, Genuine, Replayed
  <2>3. ASSUME NEW k \in StorageKeys PROVE Completed(k)'
    <3>1. CASE k = KeyOf[r]
      BY <3>1 DEF SubmitTypeOK, Completed
    <3>2. CASE k # KeyOf[r]
      BY <3>2 DEF SubmitTypeOK, Genuine, Completed
    <3> QED BY <3>1, <3>2
  <2> QED BY <2>1, <2>2, <2>3 DEF Genuine
<1>3. ASSUME doubt' = {} PROVE Exclusive'
  <2>1. Exclusive
    BY <1>3
  <2>2. ASSUME NEW q \in Requests, KeyOf[q] = KeyOf[r]
        PROVE  job[q] # "accepted" /\ (q # r => pc[q] \notin Owning)
    <3>1. job[q] # "accepted"
      BY <1>0, <2>1, <2>2 DEF Exclusive
    <3>2. pc[q] \in Owning => store[KeyOf[q]] # NoRecord
      BY <2>1 DEF Exclusive, Owns
    <3> QED BY <1>0, <2>2, <3>1, <3>2
  <2>3. ASSUME NEW q \in Requests, pc'[q] \in Owning PROVE Owns(q)'
    <3>1. CASE q = r
      BY <2>2, <3>1 DEF SubmitTypeOK, Owns, Pending
    <3>2. CASE q # r
      <4>1. pc[q] \in Owning
        BY <2>3, <3>2 DEF SubmitTypeOK
      <4>2. KeyOf[q] # KeyOf[r] /\ Owns(q)
        BY <2>1, <2>2, <3>2, <4>1 DEF Exclusive
      <4> QED BY <3>2, <4>2 DEF SubmitTypeOK, Owns, Pending
    <3> QED BY <3>1, <3>2
  <2>4. ASSUME NEW q \in Requests, store'[KeyOf[q]] = NoRecord PROVE job'[q] # "accepted"
    BY <2>1, <2>2, <2>4 DEF SubmitTypeOK, Exclusive
  <2> QED BY <2>1, <2>3, <2>4 DEF Exclusive
<1> QED BY <1>1, <1>2, <1>3

\* A job row is committed: refused, or accepted by the owner of the key.
LEMMA JobInv ==
  ASSUME SubmitInv, NEW r \in Requests, NEW v \in {"accepted", "refused"},
         NEW p \in {"committed", "failing", "done"}, NEW a \in Answers,
         a = "replayed" => a = answer[r], pc[r] \in {"created", "queued"}, Moves(r, p, a), UNCHANGED store,
         job' = [job EXCEPT ![r] = v], doubt \subseteq doubt',
         doubt' \subseteq {"unreserved", "commit_unknown"},
         p = "committed" => v = "accepted",
         doubt' = {} => (v = "accepted" <=> p = "committed")
  PROVE  SubmitInv'
<1> USE RecordValues DEF SubmitInv, Moves
<1>0. job[r] = "absent"
  BY DEF Genuine, Progress, Uncommitted
<1>1. SubmitTypeOK'
  BY DEF SubmitTypeOK, Places, JobStates
<1>2. Genuine'
  <2>1. ASSUME NEW q \in Requests PROVE Progress(q)'
    BY DEF SubmitTypeOK, Genuine, Progress, Uncommitted
  <2>2. ASSUME NEW q \in Requests PROVE job[q] = "accepted" => job'[q] = "accepted"
    BY <1>0 DEF SubmitTypeOK
  <2>3. ASSUME NEW q \in Requests PROVE Replayed(q)'
    BY <2>2 DEF SubmitTypeOK, Genuine, Replayed
  <2>4. ASSUME NEW k \in StorageKeys PROVE Completed(k)'
    <3>1. store[k].status = "completed" => store[k].job \in Requests
      BY DEF SubmitTypeOK, Record, NoRecord
    <3> QED BY <2>2, <3>1 DEF Genuine, Completed
  <2> QED BY <2>1, <2>3, <2>4 DEF Genuine
<1>3. ASSUME doubt' = {} PROVE Exclusive'
  <2>1. Exclusive /\ (v = "accepted" <=> p = "committed")
    BY <1>3
  <2>2. Owns(r)
    BY <2>1 DEF Exclusive, Owning
  <2>3. ASSUME NEW q \in Requests, pc'[q] \in Owning PROVE Owns(q)'
    <3>1. CASE q = r
      BY <2>1, <2>2, <3>1 DEF SubmitTypeOK, Owns, Pending
    <3>2. CASE q # r
      <4>1. pc[q] \in Owning
        BY <2>3, <3>2 DEF SubmitTypeOK
      <4>2. KeyOf[q] # KeyOf[r] /\ Owns(q)
        BY <2>1, <2>2, <3>2, <4>1 DEF Exclusive, Owns
      <4>3. \A i \in Requests : KeyOf[i] = KeyOf[q] => i # r
        BY <4>2
      <4> QED BY <3>2, <4>2, <4>3 DEF SubmitTypeOK, Owns, Pending
    <3> QED BY <3>1, <3>2
  <2>4. ASSUME NEW q \in Requests, store'[KeyOf[q]] = NoRecord PROVE job'[q] # "accepted"
    <3>1. q # r
      BY <2>2, <2>4 DEF Owns
    <3> QED BY <2>1, <2>4, <3>1 DEF SubmitTypeOK, Exclusive
  <2>5. ASSUME NEW i \in Requests, NEW q \in Requests, KeyOf[i] = KeyOf[q],
               job'[i] = "accepted", job'[q] = "accepted"
        PROVE  i = q
    BY <2>1, <2>2, <2>5 DEF SubmitTypeOK, Exclusive, Owns
  <2> QED BY <2>3, <2>4, <2>5 DEF Exclusive
<1> QED BY <1>1, <1>2, <1>3

\* The response of a committed job is stored.
LEMMA CompleteInv ==
  ASSUME SubmitInv, NEW r \in Requests, Complete(r)
  PROVE  SubmitInv'
<1> USE RecordValues DEF SubmitInv, Moves
<1>0. /\ pc[r] = "committed" /\ Moves(r, "done", "accepted") /\ UNCHANGED <<job, doubt>>
      /\ store' = [store EXCEPT ![KeyOf[r]] =
                     [status |-> "completed", content |-> ContentOf[r], job |-> r]]
  BY DEF Complete, Answer
<1>1. SubmitTypeOK'
  BY <1>0 DEF SubmitTypeOK, Places, Answers
<1>2. Genuine'
  <2>1. ASSUME NEW q \in Requests PROVE Progress(q)'
    BY <1>0 DEF SubmitTypeOK, Genuine, Progress, Uncommitted
  <2>2. ASSUME NEW q \in Requests PROVE Replayed(q)'
    BY <1>0 DEF SubmitTypeOK, Genuine, Replayed
  <2>3. ASSUME NEW k \in StorageKeys PROVE Completed(k)'
    <3>1. CASE k = KeyOf[r]
      BY <1>0, <3>1 DEF SubmitTypeOK, Genuine, Progress, Completed
    <3>2. CASE k # KeyOf[r]
      BY <1>0, <3>2 DEF SubmitTypeOK, Genuine, Completed
    <3> QED BY <3>1, <3>2
  <2> QED BY <2>1, <2>2, <2>3 DEF Genuine
<1>3. ASSUME doubt' = {} PROVE Exclusive'
  <2>1. Exclusive
    BY <1>0, <1>3
  <2>2. Owns(r)
    BY <1>0, <2>1 DEF Exclusive, Owning
  <2>3. ASSUME NEW q \in Requests, pc'[q] \in Owning PROVE Owns(q)'
    <3>1. q # r /\ pc[q] \in Owning
      BY <1>0, <2>3 DEF SubmitTypeOK, Owning
    <3>2. KeyOf[q] # KeyOf[r] /\ Owns(q)
      BY <2>1, <2>2, <3>1 DEF Exclusive, Owns
    <3> QED BY <1>0, <3>1, <3>2 DEF SubmitTypeOK, Owns, Pending
  <2>4. ASSUME NEW q \in Requests, store'[KeyOf[q]] = NoRecord PROVE job'[q] # "accepted"
    <3>1. KeyOf[q] # KeyOf[r]
      BY <1>0, <2>4 DEF SubmitTypeOK, NoRecord
    <3> QED BY <1>0, <2>1, <2>4, <3>1 DEF SubmitTypeOK, Exclusive
  <2> QED BY <1>0, <2>1, <2>3, <2>4 DEF Exclusive
<1> QED BY <1>1, <1>2, <1>3

\* An owner that failed deletes its own record, and its key has no accepted job.
LEMMA AbortDeleteInv ==
  ASSUME SubmitInv, NEW r \in Requests, AbortDelete(r)
  PROVE  SubmitInv'
<1> USE RecordValues DEF SubmitInv, Moves
<1>0. /\ pc[r] = "deleting" /\ Moves(r, "done", "failed") /\ UNCHANGED <<job, doubt>>
      /\ store' = [store EXCEPT ![KeyOf[r]] = NoRecord]
  BY DEF AbortDelete, Answer
<1>1. SubmitTypeOK'
  BY <1>0 DEF SubmitTypeOK, Places, Answers
<1>2. Genuine'
  <2>1. ASSUME NEW q \in Requests PROVE Progress(q)'
    BY <1>0 DEF SubmitTypeOK, Genuine, Progress, Uncommitted
  <2>2. ASSUME NEW q \in Requests PROVE Replayed(q)'
    BY <1>0 DEF SubmitTypeOK, Genuine, Replayed
  <2>3. ASSUME NEW k \in StorageKeys PROVE Completed(k)'
    <3>1. CASE k = KeyOf[r]
      BY <1>0, <3>1 DEF SubmitTypeOK, Completed
    <3>2. CASE k # KeyOf[r]
      BY <1>0, <3>2 DEF SubmitTypeOK, Genuine, Completed
    <3> QED BY <3>1, <3>2
  <2> QED BY <2>1, <2>2, <2>3 DEF Genuine
<1>3. ASSUME doubt' = {} PROVE Exclusive'
  <2>1. Exclusive
    BY <1>0, <1>3
  <2>2. Owns(r) /\ job[r] # "accepted"
    BY <1>0, <2>1 DEF Exclusive, Owning, Owns
  <2>3. ASSUME NEW q \in Requests, pc'[q] \in Owning PROVE Owns(q)'
    <3>1. q # r /\ pc[q] \in Owning
      BY <1>0, <2>3 DEF SubmitTypeOK, Owning
    <3>2. KeyOf[q] # KeyOf[r] /\ Owns(q)
      BY <2>1, <2>2, <3>1 DEF Exclusive, Owns
    <3> QED BY <1>0, <3>1, <3>2 DEF SubmitTypeOK, Owns, Pending
  <2>4. ASSUME NEW q \in Requests, store'[KeyOf[q]] = NoRecord PROVE job'[q] # "accepted"
    <3>1. CASE KeyOf[q] = KeyOf[r]
      BY <1>0, <2>2, <3>1 DEF Owns
    <3>2. CASE KeyOf[q] # KeyOf[r]
      BY <1>0, <2>1, <2>4, <3>2 DEF SubmitTypeOK, Exclusive
    <3> QED BY <3>1, <3>2
  <2> QED BY <1>0, <2>1, <2>3, <2>4 DEF Exclusive
<1> QED BY <1>1, <1>2, <1>3

\* A request that starts without a record leaves a doubt.
LEMMA LookupMissingInv ==
  ASSUME SubmitInv, NEW r \in Requests, LookupMissing(r)
  PROVE  SubmitInv'
<1> USE DEF SubmitInv, Moves
<1>0. /\ pc[r] = "lookup" /\ pc' = [pc EXCEPT ![r] = "started"]
      /\ UNCHANGED <<answer, store, job>> /\ doubt' = doubt \cup {"unreserved"}
  BY DEF LookupMissing, GoOn
<1>1. SubmitTypeOK'
  BY <1>0 DEF SubmitTypeOK, Places
<1>2. Genuine'
  BY <1>0 DEF SubmitTypeOK, Genuine, Progress, Replayed, Completed, Uncommitted
<1>3. doubt' # {}
  BY <1>0
<1> QED BY <1>1, <1>2, <1>3

\* A request that claims no record keeps the invariant, whatever it answers but
\* a replay.
LEMMA QuietMove ==
  ASSUME SubmitInv, NEW r \in Requests, NEW p \in Places, NEW a \in Answers,
         UNCHANGED <<store, job, doubt>>,
         GoOn(r, p) \/ (Answer(r, a) /\ p = "done"),
         a # "replayed", p # "committed",
         p \in Owning => pc[r] \in Owning \ {"committed"},
         p \in Uncommitted => pc[r] \in Uncommitted
  PROVE  SubmitInv'
<1>1. CASE GoOn(r, p)
  <2>1. Moves(r, p, answer[r]) /\ answer[r] \in Answers
    BY <1>1, Moving DEF SubmitInv
  <2>2. Replayed(r)
    BY DEF SubmitInv, Genuine
  <2> QED BY <2>1, <2>2, MoveInv DEF Replayed
<1>2. CASE Answer(r, a) /\ p = "done"
  <2>1. Moves(r, p, a)
    BY <1>2, Moving DEF SubmitInv
  <2> QED BY <2>1, MoveInv
<1> QED BY <1>1, <1>2

\* begin keeps the invariant: it starts a request on a free key only, and
\* answers from a completed record only what that record's job allows.
LEMMA BeginInv ==
  ASSUME SubmitInv, NEW r \in Requests, Begin(r)
  PROVE  SubmitInv'
<1> USE DEF Places, Answers, Owning, Uncommitted
<1>0. SubmitTypeOK /\ Genuine
  BY DEF SubmitInv
<1>1. CASE Claim(r)
  <2>1. CASE store[KeyOf[r]].status = "none"
    <3>1. /\ Moves(r, "started", answer[r]) /\ answer[r] \in Answers /\ pc[r] = "idle"
          /\ store' = [store EXCEPT ![KeyOf[r]] = Pending(r)] /\ UNCHANGED <<job, doubt>>
      BY <1>0, <1>1, <2>1, Moving DEF Claim
    <3> QED BY <2>1, <3>1, ClaimInv
  <2>2. CASE store[KeyOf[r]].status # "none"
    <3>1. pc[r] = "idle" /\ GoOn(r, "lookup") /\ UNCHANGED <<store, job, doubt>>
      BY <1>1, <2>2 DEF Claim
    <3> QED BY <3>1, QuietMove
  <2> QED BY <2>1, <2>2
<1>2. CASE ClaimFails(r)
  <2>1. pc[r] = "idle" /\ Answer(r, "failed") /\ UNCHANGED <<job, doubt>>
    BY <1>2 DEF ClaimFails
  <2>2. CASE UNCHANGED store
    BY <2>1, <2>2, QuietMove
  <2>3. CASE /\ store[KeyOf[r]].status = "none"
             /\ store' = [store EXCEPT ![KeyOf[r]] = Pending(r)]
    <3>1. Moves(r, "done", "failed")
      BY <1>0, <2>1, Moving
    <3> QED BY <2>1, <2>3, <3>1, ClaimInv
  <2> QED BY <1>2, <2>2, <2>3 DEF ClaimFails
<1>3. CASE LookupMissing(r)
  BY <1>3, LookupMissingInv
<1>4. CASE Lookup(r)
  <2> DEFINE record == store[KeyOf[r]]
  <2>1. PICK a \in Answers :
          /\ Answer(r, a) /\ UNCHANGED <<store, job, doubt>>
          /\ a = "replayed" => record.status = "completed" /\ record.content = ContentOf[r]
    <3>1. CASE record.content # ContentOf[r]
      BY <1>4, <3>1 DEF Lookup
    <3>2. CASE record.content = ContentOf[r] /\ record.status = "completed"
      BY <1>4, <3>2 DEF Lookup
    <3>3. CASE record.content = ContentOf[r] /\ record.status # "completed"
      BY <1>4, <3>3 DEF Lookup
    <3> QED BY <3>1, <3>2, <3>3
  <2>2. Moves(r, "done", a)
    BY <1>0, <2>1, Moving
  <2>3. ASSUME a = "replayed"
        PROVE  \E q \in Requests : /\ KeyOf[q] = KeyOf[r] /\ job[q] = "accepted"
                                   /\ ContentOf[q] = ContentOf[r]
    <3>1. record.job \in Requests
      BY <1>0, <2>1, <2>3, RecordValues DEF SubmitTypeOK, Record, NoRecord
    <3>2. Completed(KeyOf[r])
      BY <1>0, RecordValues DEF Genuine
    <3> QED BY <2>1, <2>3, <3>1, <3>2 DEF Completed
  <2> QED BY <2>1, <2>2, <2>3, MoveInv
<1> QED BY <1>1, <1>2, <1>3, <1>4 DEF Begin

\* Serving a request keeps the invariant.
LEMMA ServeInv ==
  ASSUME SubmitInv, NEW r \in Requests, Serve(r)
  PROVE  SubmitInv'
<1> USE DEF Places, Answers, Owning, Uncommitted
<1>0. SubmitTypeOK
  BY DEF SubmitInv
<1>1. CASE PrepareFails(r)
  BY <1>1, QuietMove DEF PrepareFails, Fail
<1>2. CASE CreateJob(r)
  BY <1>2, QuietMove DEF CreateJob
<1>3. CASE DatabaseFails(r)
  <2>1. /\ pc[r] \in {"started", "created", "queued"} /\ UNCHANGED <<store, job, doubt>>
        /\ Answer(r, "failed") \/ GoOn(r, "failing")
    BY <1>3 DEF DatabaseFails, Fail
  <2>2. CASE Answer(r, "failed")
    BY <2>1, <2>2, QuietMove
  <2>3. CASE GoOn(r, "failing")
    BY <2>1, <2>3, QuietMove
  <2> QED BY <2>1, <2>2, <2>3
<1>4. CASE Enqueue(r)
  BY <1>4, QuietMove DEF Enqueue
<1>5. CASE EnqueueFails(r)
  <2>1. /\ Moves(r, "failing", answer[r]) /\ answer[r] \in Answers /\ pc[r] = "created"
        /\ job' = [job EXCEPT ![r] = "refused"] /\ UNCHANGED <<store, doubt>>
    BY <1>0, <1>5, Moving DEF EnqueueFails, Fail
  <2>2. doubt \subseteq doubt' /\ doubt' \subseteq {"unreserved", "commit_unknown"}
    BY <1>0, <2>1 DEF SubmitTypeOK
  <2> QED BY <2>1, <2>2, JobInv
<1>6. CASE Commit(r)
  <2>1. /\ Moves(r, "committed", answer[r]) /\ answer[r] \in Answers /\ pc[r] = "queued"
        /\ job' = [job EXCEPT ![r] = "accepted"] /\ UNCHANGED <<store, doubt>>
    BY <1>0, <1>6, Moving DEF Commit
  <2>2. doubt \subseteq doubt' /\ doubt' \subseteq {"unreserved", "commit_unknown"}
    BY <1>0, <2>1 DEF SubmitTypeOK
  <2> QED BY <2>1, <2>2, JobInv
<1>7. CASE CommitUnknown(r)
  <2>1. /\ pc[r] = "queued" /\ job' = [job EXCEPT ![r] = "accepted"] /\ UNCHANGED store
        /\ doubt' = doubt \cup {"commit_unknown"}
        /\ Answer(r, "failed") \/ GoOn(r, "failing")
    BY <1>7 DEF CommitUnknown, Fail
  <2>2. /\ doubt \subseteq doubt' /\ doubt' \subseteq {"unreserved", "commit_unknown"}
        /\ doubt' # {}
    BY <1>0, <2>1 DEF SubmitTypeOK
  <2>3. \/ Moves(r, "done", "failed")
        \/ Moves(r, "failing", answer[r]) /\ answer[r] \in Answers
    BY <1>0, <2>1, Moving
  <2> QED BY <2>1, <2>2, <2>3, JobInv
<1>8. CASE Complete(r)
  BY <1>8, CompleteInv
<1>9. CASE CompleteFails(r)
  BY <1>9, QuietMove DEF CompleteFails
<1> QED BY <1>1, <1>2, <1>3, <1>4, <1>5, <1>6, <1>7, <1>8, <1>9 DEF Serve

\* abort and a crash keep the invariant.
LEMMA EndInv ==
  ASSUME SubmitInv, NEW r \in Requests, Abort(r) \/ Crash(r)
  PROVE  SubmitInv'
<1> USE DEF Places, Answers, Owning, Uncommitted
<1>1. CASE AbortRead(r)
  <2>1. /\ pc[r] = "failing" /\ UNCHANGED <<store, job, doubt>>
        /\ GoOn(r, "deleting") \/ Answer(r, "failed")
    BY <1>1 DEF AbortRead
  <2>2. CASE GoOn(r, "deleting")
    BY <2>1, <2>2, QuietMove
  <2>3. CASE Answer(r, "failed")
    BY <2>1, <2>3, QuietMove
  <2> QED BY <2>1, <2>2, <2>3
<1>2. CASE AbortDelete(r)
  BY <1>2, AbortDeleteInv
<1>3. CASE AbortFails(r)
  BY <1>3, QuietMove DEF AbortFails
<1>4. CASE Crash(r)
  BY <1>4, QuietMove DEF Crash
<1> QED BY <1>1, <1>2, <1>3, <1>4 DEF Abort

-------------------------------------------------------------------------------
(* The theorems about IdempotentSubmit *)

\* The invariant holds before any request arrives.
THEOREM SubmitInitInv == SubmitInit => SubmitInv
<1> SUFFICES ASSUME SubmitInit PROVE SubmitInv
  OBVIOUS
<1> USE SubmitAssumption DEF SubmitInit
<1>1. SubmitTypeOK
  BY DEF SubmitTypeOK, Record, Places, Answers, JobStates
<1>2. Genuine
  BY DEF Genuine, Progress, Replayed, Completed, NoRecord
<1>3. Exclusive
  BY DEF Exclusive, Owning
<1> QED BY <1>1, <1>2, <1>3 DEF SubmitInv

\* Every step of every request keeps it.
THEOREM SubmitNextInv == SubmitInv /\ [SubmitNext]_submitVars => SubmitInv'
<1> SUFFICES ASSUME SubmitInv, [SubmitNext]_submitVars PROVE SubmitInv'
  OBVIOUS
<1>1. ASSUME NEW r \in Requests, Begin(r) PROVE SubmitInv'
  BY <1>1, BeginInv
<1>2. ASSUME NEW r \in Requests, Serve(r) PROVE SubmitInv'
  BY <1>2, ServeInv
<1>3. ASSUME NEW r \in Requests, Abort(r) \/ Crash(r) PROVE SubmitInv'
  BY <1>3, EndInv
<1>4. CASE UNCHANGED submitVars
  BY <1>4 DEF submitVars, SubmitInv, SubmitTypeOK, Genuine, Progress, Replayed, Completed, Exclusive, Owns, Pending
<1> QED BY <1>1, <1>2, <1>3, <1>4 DEF SubmitNext

\* The invariant holds in every reachable state.
THEOREM SubmitInvariance == SubmitSpec => []SubmitInv
BY SubmitInitInv, SubmitNextInv, PTL DEF SubmitSpec

\* The store, the requests and the jobs keep their types.
THEOREM SubmitTypeCorrectness == SubmitSpec => []SubmitTypeOK
<1>1. SubmitInv => SubmitTypeOK
  BY DEF SubmitInv
<1> QED BY <1>1, SubmitInvariance, PTL

\* A key has at most one accepted job, however many requests carry it, as long
\* as no request started unreserved and no commit reply was lost.
THEOREM OneJob == SubmitSpec => []OneJobPerKey
<1>1. SubmitInv => OneJobPerKey
  <2> SUFFICES ASSUME SubmitInv, doubt = {}, NEW k \in StorageKeys
               PROVE  Cardinality(Accepted(k)) <= 1
    BY DEF OneJobPerKey
  <2>1. \A q, r \in Accepted(k) : q = r
    BY DEF SubmitInv, Exclusive, Accepted
  <2>2. CASE Accepted(k) = {}
    BY <2>2, FS_EmptySet
  <2>3. CASE Accepted(k) # {}
    <3>1. PICK r \in Accepted(k) : Accepted(k) = {r}
      BY <2>1, <2>3
    <3>2. Cardinality({r}) = 1
      BY FS_Singleton
    <3> QED BY <3>1, <3>2
  <2> QED BY <2>2, <2>3
<1> QED BY <1>1, SubmitInvariance, PTL

\* A stored response names an accepted job created from its content, and is
\* replayed only for that content.
THEOREM Genuineness == SubmitSpec => []ReplayIsGenuine
<1>1. SubmitInv => ReplayIsGenuine
  BY DEF SubmitInv, Genuine, Completed, Replayed, ReplayIsGenuine, Accepted
<1> QED BY <1>1, SubmitInvariance, PTL

\* A stored response is neither replaced nor deleted, as long as every request
\* started with a reservation and no commit reply was lost.
THEOREM CompletedAnswers == SubmitSpec => CompletedStays
<1>1. SubmitInv /\ [SubmitNext]_submitVars =>
        [\A k \in StorageKeys : (store[k].status = "completed" /\ doubt' = {}) => store'[k] = store[k]]_submitVars
  <2> SUFFICES ASSUME SubmitInv, SubmitNext, NEW k \in StorageKeys, store[k].status = "completed", doubt' = {}
               PROVE  store'[k] = store[k]
    OBVIOUS
  <2>1. PICK r \in Requests : Begin(r) \/ Serve(r) \/ Abort(r) \/ Crash(r)
    BY DEF SubmitNext
  <2>2. doubt \subseteq doubt'
    BY <2>1 DEF Begin, Claim, ClaimFails, LookupMissing, Lookup, Serve, PrepareFails, CreateJob,
         DatabaseFails, Enqueue, EnqueueFails, Commit, CommitUnknown, Complete, CompleteFails,
         Abort, AbortRead, AbortDelete, AbortFails, Crash
  <2>3. SubmitTypeOK /\ Exclusive
    BY <2>2 DEF SubmitInv
  <2>4. CASE UNCHANGED store
    BY <2>4
  <2>5. CASE store[KeyOf[r]].status = "none" /\ store' = [store EXCEPT ![KeyOf[r]] = Pending(r)]
    BY <2>3, <2>5 DEF SubmitTypeOK
  <2>6. CASE Complete(r) \/ AbortDelete(r)
    <3>1. pc[r] \in Owning
      BY <2>6 DEF Complete, AbortDelete, Owning
    <3>2. store[KeyOf[r]].status = "in_progress"
      BY <2>3, <3>1, RecordValues DEF Exclusive, Owns
    <3>3. \E v \in Record : store' = [store EXCEPT ![KeyOf[r]] = v]
      BY <2>6, RecordValues DEF Complete, AbortDelete
    <3> QED BY <2>3, <3>2, <3>3 DEF SubmitTypeOK
  <2>7. UNCHANGED store \/ Complete(r) \/ AbortDelete(r)
        \/ (store[KeyOf[r]].status = "none" /\ store' = [store EXCEPT ![KeyOf[r]] = Pending(r)])
    BY <2>1 DEF Begin, Claim, ClaimFails, LookupMissing, Lookup, Serve, PrepareFails, CreateJob,
         DatabaseFails, Enqueue, EnqueueFails, Commit, CommitUnknown, CompleteFails,
         Abort, AbortRead, AbortFails, Crash
  <2> QED BY <2>4, <2>5, <2>6, <2>7
<1> QED BY <1>1, SubmitInvariance, PTL DEF SubmitSpec, CompletedStays

-------------------------------------------------------------------------------
(* IdempotentSubmit implements SubmissionPromise *)

\* The one request of a set is the one that is chosen.
LEMMA ChosenContent ==
  ASSUME NEW set, NEW r \in set, \A q \in set : q = r
  PROVE  ContentOf[CHOOSE q \in set : TRUE] = ContentOf[r]
<1>1. (CHOOSE q \in set : TRUE) \in set
  OBVIOUS
<1> QED BY <1>1

\* The rows of what is served, key by key.
LEMMA ServedRows ==
  /\ Served = [i \in StorageKeys |-> Served[i]]
  /\ \A k \in StorageKeys :
       /\ Accepted(k) # {} =>
            Served[k] = [state |-> "pending", content |-> ContentOf[CHOOSE r \in Accepted(k) : TRUE]]
       /\ Accepted(k) = {} /\ store[k].status = "none" => Served[k] = Promise!Free
       /\ Accepted(k) = {} /\ store[k].status # "none" =>
            Served[k] = [state |-> "reserved", content |-> store[k].content]
BY DEF Served, Promise!Free

LEMMA ServedRowsNext ==
  /\ Served' = [i \in StorageKeys |-> Served'[i]]
  /\ \A k \in StorageKeys :
       /\ Accepted(k)' # {} =>
            Served'[k] = [state |-> "pending", content |-> ContentOf[CHOOSE r \in Accepted(k)' : TRUE]]
       /\ Accepted(k)' = {} /\ store'[k].status = "none" => Served'[k] = Promise!Free
       /\ Accepted(k)' = {} /\ store'[k].status # "none" =>
            Served'[k] = [state |-> "reserved", content |-> store'[k].content]
BY DEF Served, Promise!Free

\* A step that leaves the record and the jobs of a key alone leaves alone what is
\* served under it.
LEMMA ServedAlike ==
  ASSUME NEW k \in StorageKeys, store'[k] = store[k], Accepted(k)' = Accepted(k)
  PROVE  Served'[k] = Served[k]
BY DEF Served

\* A request's step changes nothing under the keys of others.
LEMMA OtherKeys ==
  ASSUME SubmitTypeOK, NEW r \in Requests,
         \A q \in Requests \ {r} : job'[q] = job[q],
         \A i \in StorageKeys \ {KeyOf[r]} : store'[i] = store[i]
  PROVE  \A i \in StorageKeys \ {KeyOf[r]} : Served'[i] = Served[i]
<1> SUFFICES ASSUME NEW i \in StorageKeys \ {KeyOf[r]} PROVE Served'[i] = Served[i]
  OBVIOUS
<1>1. Accepted(i)' = Accepted(i)
  BY DEF Accepted
<1> QED BY <1>1, ServedAlike

\* What is served changes at the request's key only: then as a function, too.
LEMMA OneKey ==
  ASSUME NEW k \in StorageKeys, \A i \in StorageKeys \ {k} : Served'[i] = Served[i]
  PROVE  Served' = [Served EXCEPT ![k] = Served'[k]]
<1> DEFINE old == Served  new == Served'
<1>1. old = [i \in StorageKeys |-> old[i]] /\ new = [i \in StorageKeys |-> new[i]]
  BY ServedRows, ServedRowsNext
<1>2. \A i \in StorageKeys \ {k} : new[i] = old[i]
  OBVIOUS
<1> HIDE DEF old, new
<1>3. new = [old EXCEPT ![k] = new[k]]
  BY <1>1, <1>2
<1> QED BY <1>3 DEF old, new

\* A claim of a free key reserves it: no job was accepted under it.
LEMMA ClaimReserves ==
  ASSUME SubmitInv, doubt = {}, NEW r \in Requests, store[KeyOf[r]].status = "none",
         store' = [store EXCEPT ![KeyOf[r]] = Pending(r)], UNCHANGED job
  PROVE  Promise!Next
<1> DEFINE k == KeyOf[r]
<1>1. SubmitTypeOK /\ Exclusive /\ k \in StorageKeys /\ ContentOf[r] \in Contents
  BY SubmitAssumption DEF SubmitInv
<1>2. store[k] = NoRecord
  BY <1>1, NoneIsNoRecord DEF SubmitTypeOK
<1>3. Accepted(k) = {} /\ Accepted(k)' = {}
  BY <1>1, <1>2 DEF Exclusive, Accepted
<1>4. store'[k] = Pending(r) /\ \A i \in StorageKeys \ {k} : store'[i] = store[i]
  BY <1>1 DEF SubmitTypeOK
<1>5. Served[k] = Promise!Free
  BY <1>1, <1>3, ServedRows
<1>6. Served'[k] = [state |-> "reserved", content |-> ContentOf[r]]
  BY <1>1, <1>3, <1>4, ServedRowsNext DEF Pending
<1>7. Served' = [Served EXCEPT ![k] = Served'[k]]
  BY <1>1, <1>4, OtherKeys, OneKey
<1>8. Promise!Reserve(k, ContentOf[r])
  BY <1>5, <1>6, <1>7 DEF Promise!Reserve
<1> QED BY <1>1, <1>8 DEF Promise!Next

\* The commit of the request that owns a key accepts its reservation.
LEMMA CommitAccepts ==
  ASSUME SubmitInv, doubt = {}, NEW r \in Requests, Commit(r)
  PROVE  Promise!Next
<1> DEFINE k == KeyOf[r]
<1>1. SubmitTypeOK /\ Exclusive /\ k \in StorageKeys /\ Progress(r)
  BY SubmitAssumption DEF SubmitInv, Genuine
<1>2. pc[r] = "queued" /\ job' = [job EXCEPT ![r] = "accepted"] /\ UNCHANGED store
  BY DEF Commit
<1>3. Owns(r) /\ job[r] = "absent"
  BY <1>1, <1>2 DEF Exclusive, Owning, Progress, Uncommitted
<1>4. Accepted(k) = {} /\ Accepted(k)' = {r}
  BY <1>1, <1>2, <1>3 DEF Accepted, Owns, SubmitTypeOK
<1>5. Served[k] = [state |-> "reserved", content |-> ContentOf[r]]
  BY <1>1, <1>3, <1>4, ServedRows DEF Owns, Pending
<1>6. Served'[k] = [state |-> "pending", content |-> ContentOf[r]]
  BY <1>1, <1>4, ServedRowsNext, ChosenContent
<1>7. Served' = [Served EXCEPT ![k] = Served'[k]]
  BY <1>1, <1>2, OtherKeys, OneKey DEF SubmitTypeOK
<1>8. Promise!Accept(k)
  BY <1>5, <1>6, <1>7 DEF Promise!Accept
<1> QED BY <1>1, <1>8 DEF Promise!Next

\* The clean-up of a failed request frees the key that it alone holds.
LEMMA CleanUpRefuses ==
  ASSUME SubmitInv, doubt = {}, NEW r \in Requests, AbortDelete(r)
  PROVE  Promise!Next
<1> DEFINE k == KeyOf[r]
<1>1. SubmitTypeOK /\ Exclusive /\ k \in StorageKeys
  BY SubmitAssumption DEF SubmitInv
<1>2. pc[r] = "deleting" /\ store' = [store EXCEPT ![k] = NoRecord] /\ UNCHANGED job
  BY DEF AbortDelete
<1>3. Owns(r)
  BY <1>1, <1>2 DEF Exclusive, Owning
<1>4. Accepted(k) = {} /\ Accepted(k)' = {}
  BY <1>2, <1>3 DEF Accepted, Owns
<1>5. Served[k] = [state |-> "reserved", content |-> ContentOf[r]]
  BY <1>1, <1>3, <1>4, ServedRows DEF Owns, Pending
<1>6. store'[k] = NoRecord /\ \A i \in StorageKeys \ {k} : store'[i] = store[i]
  BY <1>1, <1>2 DEF SubmitTypeOK
<1>7. Served'[k] = Promise!Free
  BY <1>1, <1>4, <1>6, ServedRowsNext DEF NoRecord
<1>8. Served' = [Served EXCEPT ![k] = Served'[k]]
  BY <1>1, <1>2, <1>6, OtherKeys, OneKey
<1>9. Promise!Refuse(k)
  BY <1>5, <1>7, <1>8 DEF Promise!Refuse
<1> QED BY <1>1, <1>9 DEF Promise!Next

\* Storing the response of an accepted job shows a client nothing new.
LEMMA CompleteIsQuiet ==
  ASSUME SubmitInv, NEW r \in Requests, Complete(r)
  PROVE  UNCHANGED Served
<1> DEFINE k == KeyOf[r]
<1>1. SubmitTypeOK /\ k \in StorageKeys /\ job[r] = "accepted" /\ UNCHANGED job
  BY SubmitAssumption DEF SubmitInv, Genuine, Progress, Complete
<1>2. \A i \in StorageKeys \ {k} : store'[i] = store[i]
  BY <1>1 DEF Complete, SubmitTypeOK
<1>3. Accepted(k) # {} /\ Accepted(k)' = Accepted(k)
  BY <1>1 DEF Accepted
<1>4. Served'[k] = Served[k]
  BY <1>1, <1>3, ServedRows, ServedRowsNext
<1>5. \A i \in StorageKeys : Served'[i] = Served[i]
  BY <1>1, <1>2, <1>4, OtherKeys
<1> QED BY <1>5, ServedRows, ServedRowsNext

\* A job that the queue refused shows a client nothing either.
LEMMA JobsAlike ==
  ASSUME UNCHANGED store, \A q \in Requests : job'[q] = "accepted" <=> job[q] = "accepted"
  PROVE  UNCHANGED Served
<1>1. \A i \in StorageKeys : Accepted(i)' = Accepted(i)
  BY DEF Accepted
<1>2. \A i \in StorageKeys : Served'[i] = Served[i]
  BY <1>1, ServedAlike
<1> QED BY <1>2, ServedRows, ServedRowsNext

\* Every step in a run without doubt is a step of the promise, or none that a
\* client could tell.
LEMMA PromiseStep ==
  SubmitInv /\ [SubmitNext]_submitVars /\ doubt' = {} => Promise!Next \/ UNCHANGED Served
<1> SUFFICES ASSUME SubmitInv, [SubmitNext]_submitVars, doubt' = {}
             PROVE  Promise!Next \/ UNCHANGED Served
  OBVIOUS
<1>1. CASE UNCHANGED submitVars
  BY <1>1, JobsAlike DEF submitVars
<1>2. ASSUME NEW r \in Requests, Begin(r) \/ Serve(r) \/ Abort(r) \/ Crash(r)
      PROVE  Promise!Next \/ UNCHANGED Served
  <2>1. doubt = {}
    BY <1>2 DEF Begin, Claim, ClaimFails, LookupMissing, Lookup, Serve, PrepareFails, CreateJob,
         DatabaseFails, Enqueue, EnqueueFails, Commit, CommitUnknown, Complete, CompleteFails,
         Abort, AbortRead, AbortDelete, AbortFails, Crash
  <2>2. CASE UNCHANGED <<store, job>>
    BY <2>2, JobsAlike
  <2>3. CASE /\ store[KeyOf[r]].status = "none"
             /\ store' = [store EXCEPT ![KeyOf[r]] = Pending(r)]
             /\ UNCHANGED job
    BY <2>1, <2>3, ClaimReserves
  <2>4. CASE EnqueueFails(r)
    <3>1. job[r] = "absent" /\ job \in [Requests -> JobStates]
      BY <2>4 DEF EnqueueFails, SubmitInv, SubmitTypeOK, Genuine, Progress, Uncommitted
    <3>2. UNCHANGED store /\ \A q \in Requests : job'[q] = "accepted" <=> job[q] = "accepted"
      BY <2>4, <3>1 DEF EnqueueFails
    <3> QED BY <3>2, JobsAlike
  <2>5. \/ UNCHANGED <<store, job>>
        \/ /\ store[KeyOf[r]].status = "none"
           /\ store' = [store EXCEPT ![KeyOf[r]] = Pending(r)]
           /\ UNCHANGED job
        \/ EnqueueFails(r) \/ Commit(r) \/ Complete(r) \/ AbortDelete(r)
    BY <1>2 DEF Begin, Claim, ClaimFails, LookupMissing, Lookup, Serve, PrepareFails, CreateJob,
         DatabaseFails, Enqueue, CommitUnknown, CompleteFails,
         Abort, AbortRead, AbortFails, Crash
  <2> QED BY <2>1, <2>2, <2>3, <2>4, <2>5, CommitAccepts, CompleteIsQuiet, CleanUpRefuses
<1> QED BY <1>1, <1>2 DEF SubmitNext

\* No key is reserved and no job accepted before the first request.
LEMMA PromiseInit == SubmitInit => Promise!Init
<1> SUFFICES ASSUME SubmitInit PROVE Promise!Init
  OBVIOUS
<1>1. \A k \in StorageKeys : Accepted(k) = {} /\ store[k].status = "none"
  BY DEF SubmitInit, Accepted, NoRecord
<1>2. \A k \in StorageKeys : Served[k] = Promise!Free
  BY <1>1, ServedRows
<1> QED BY <1>2, ServedRows DEF Promise!Init

\* What the endpoint promises the clients is kept for every number of requests
\* and keys: every step of begin, the endpoint, complete, abort or a crash does
\* what SubmissionPromise allows or nothing a client could tell, as long as every
\* request started with a reservation and no commit reply was lost.
THEOREM Promised == SubmitSpec => PromiseKept
<1>1. SubmitInv /\ [SubmitNext]_submitVars =>
        [doubt' = {} => Promise!Next \/ UNCHANGED Served]_submitVars
  BY PromiseStep
<1> QED BY <1>1, PromiseInit, SubmitInvariance, CompletedAnswers, PTL DEF SubmitSpec, PromiseKept

\* In runs without doubt IdempotentSubmit implements SubmissionPromise, which is
\* what CaptureOutbox is built on.
THEOREM SubmitImplements == SubmitSpec /\ [](doubt = {}) => Promise!Spec
<1>1. SubmitInv /\ [SubmitNext]_submitVars /\ (doubt = {})' => [Promise!Next]_Served
  BY PromiseStep
<1> QED BY <1>1, PromiseInit, SubmitInvariance, PTL DEF SubmitSpec, Promise!Spec

-------------------------------------------------------------------------------
(* CaptureOutbox: the invariant.  A pass counts the attempts it has listed,   *)
(* and tries what really happened: a row never has more attempts than tries,  *)
(* and a pass that has taken its job fewer than the row has tries.            *)

\* A job row: its key is set, its attempts were really made, and a failure that
\* is final for want of attempts had all of them.
SoundRow(row) ==
  /\ IF row.status = "absent" THEN row.tries = 0 ELSE row.key \in Keys
  /\ row.attempts <= row.tries
  /\ row.status = "failed_terminal" /\ row.kind # "terminal" => row.tries >= MaxAttempts

\* A submission at work has a key.
Keyed(work) == work.pc # "idle" => work.key \in Keys

\* What a pass does is backed by the server and by its job's row: success by a
\* draft, the attempts it counts by tries.
Backed(work) ==
  /\ work.pc \in {"succeeded", "mark_synced"} => server[work.key].state = "done"
  /\ work.pc # "idle" =>
       /\ work.job \in Jobs
       /\ jobs[work.job].status # "absent"
       /\ work.attempts <= jobs[work.job].tries
       /\ \/ work.pc = "listed"
          \/ jobs[work.job].tries = MaxAttempts
          \/ work.attempts < jobs[work.job].tries

ClientsFit ==
  /\ client \in [Clients -> Client]
  /\ \A c \in Clients : Keyed(client[c])
  /\ \A p \in Passes : Backed(client[p])

RowsFit ==
  /\ jobs \in [Jobs -> OutboxJob]
  /\ \A j \in Jobs : SoundRow(jobs[j])

\* The variables that the invariant says nothing more of
RestOK ==
  /\ capture \in Capture
  /\ visit \in [Screens -> Visit]
  /\ server \in [Keys -> Endpoint!Submission]
  /\ issued \in 0 .. MaxKeys
  /\ paused \subseteq Passes

OutboxInv == RestOK /\ RowsFit /\ ClientsFit /\ SyncedMeansDraft

-------------------------------------------------------------------------------
(* What a step does to the server, to the rows and to the clients *)

\* A draft stays, and so does a row with its tries.
DraftsStay == \A k \in Keys : server[k].state = "done" => server'[k].state = "done"

TriesStay ==
  \A j \in Jobs : /\ jobs[j].status # "absent" => jobs'[j].status # "absent"
                  /\ jobs[j].tries <= jobs'[j].tries

\* The places of a submission of a pass or a screen
ClientPlaces == {"idle", "listed", "send", "waiting", "polling", "succeeded",
                 "mark_synced", "failed", "mark_failed", "hydrating", "settle"}

\* The record types are not empty of what the actions build.
LEMMA OutboxRecords ==
  /\ MaxAttempts \in Nat /\ MaxAttempts >= 1 /\ MaxJobs \in Nat /\ MaxKeys \in Nat
  /\ MaxEdits \in Nat /\ Passes \cap Screens = {} /\ NoKey \notin Keys /\ 0 \notin Jobs
  /\ NoWork \in Client /\ NoWork.pc = "idle" /\ NoWork.attempts = 0 /\ NoWork.key = NoKey
  /\ NoJob \in OutboxJob /\ NoJob.status = "absent" /\ NoJob.attempts = 0 /\ NoJob.tries = 0
  /\ NoJob.kind = "none"
<1>1. /\ MaxAttempts \in Nat /\ MaxAttempts >= 1 /\ MaxJobs \in Nat /\ MaxKeys \in Nat
      /\ MaxEdits \in Nat /\ Passes \cap Screens = {}
  BY OutboxAssumption
<1>2. NoKey \notin Keys /\ 0 \notin Jobs
  BY <1>1 DEF NoKey, Keys, Jobs
<1>3. 0 \in 0 .. MaxAttempts
  BY <1>1
<1>4. NoWork \in Client /\ NoWork.pc = "idle" /\ NoWork.attempts = 0 /\ NoWork.key = NoKey
  BY <1>3 DEF NoWork, Client, Kinds
<1>5. /\ NoJob \in OutboxJob /\ NoJob.status = "absent" /\ NoJob.attempts = 0
      /\ NoJob.tries = 0 /\ NoJob.kind = "none"
  BY <1>3 DEF NoJob, OutboxJob, Kinds
<1> QED BY <1>1, <1>2, <1>4, <1>5

\* Rows as they were are still sound.
LEMMA RowsUnchanged ==
  ASSUME OutboxInv, UNCHANGED jobs
  PROVE  RowsFit' /\ TriesStay
<1>1. RowsFit'
  BY DEF OutboxInv, RowsFit
<1>2. \A j \in Jobs : jobs[j].tries \in Int
  BY OutboxRecords DEF OutboxInv, RowsFit, OutboxJob
<1> QED BY <1>1, <1>2 DEF TriesStay

\* A row is replaced by a sound one that has at least its tries.
LEMMA RowWritten ==
  ASSUME OutboxInv, NEW j \in Jobs, NEW row \in OutboxJob, SoundRow(row),
         row.status # "absent", jobs[j].tries <= row.tries,
         jobs' = [jobs EXCEPT ![j] = row]
  PROVE  RowsFit' /\ TriesStay
<1>1. \A i \in Jobs : jobs'[i] = IF i = j THEN row ELSE jobs[i]
  BY DEF OutboxInv, RowsFit
<1>2. RowsFit'
  BY <1>1 DEF OutboxInv, RowsFit
<1>3. \A i \in Jobs : jobs[i].tries \in Int
  BY OutboxRecords DEF OutboxInv, RowsFit, OutboxJob
<1> QED BY <1>1, <1>2, <1>3 DEF TriesStay

\* Clients as they were still fit rows and server.
LEMMA ClientsUnchanged ==
  ASSUME OutboxInv, RowsFit', TriesStay, DraftsStay,
         NEW work \in Client, Keyed(work), Backed(work)
  PROVE  Backed(work)'
<1>1. work.pc \in {"succeeded", "mark_synced"} => server'[work.key].state = "done"
  BY DEF Keyed, Backed, DraftsStay
<1>2. ASSUME work.pc # "idle"
      PROVE  /\ work.job \in Jobs
             /\ jobs'[work.job].status # "absent"
             /\ work.attempts <= jobs'[work.job].tries
             /\ \/ work.pc = "listed"
                \/ jobs'[work.job].tries = MaxAttempts
                \/ work.attempts < jobs'[work.job].tries
  <2> DEFINE j == work.job
             before == jobs[j].tries
             after == jobs'[j].tries
             n == work.attempts
  <2>1. /\ j \in Jobs /\ jobs[j].status # "absent" /\ n <= before
        /\ work.pc = "listed" \/ before = MaxAttempts \/ n < before
    BY <1>2 DEF Backed
  <2>2. jobs'[j].status # "absent" /\ before <= after
    BY <2>1 DEF TriesStay
  <2>3. n \in Int /\ before \in Int /\ after \in Int /\ after <= MaxAttempts /\ MaxAttempts \in Int
    BY <2>1, OutboxRecords DEF OutboxInv, RowsFit, OutboxJob, Client
  <2> HIDE DEF j, before, after, n
  <2>4. n <= after /\ (work.pc = "listed" \/ after = MaxAttempts \/ n < after)
    BY <2>1, <2>2, <2>3
  <2> QED BY <2>1, <2>2, <2>4 DEF j, n, after
<1> QED BY <1>1, <1>2 DEF Backed

\* No client moves.
LEMMA ClientsStay ==
  ASSUME OutboxInv, RowsFit', TriesStay, DraftsStay, UNCHANGED client
  PROVE  ClientsFit'
<1>1. \A c \in Clients : client'[c] = client[c] /\ client[c] \in Client /\ Keyed(client[c])
  BY DEF OutboxInv, ClientsFit
<1>2. ASSUME NEW p \in Passes PROVE Backed(client[p])'
  <2>1. p \in Clients /\ Backed(client[p])
    BY DEF OutboxInv, ClientsFit, Clients
  <2>2. Backed(client[p])'
    BY <1>1, <2>1, ClientsUnchanged DEF Backed
  <2> QED BY <2>2
<1> QED BY <1>1, <1>2 DEF OutboxInv, ClientsFit

\* One client does: what it becomes is keyed and, for a pass, backed.
LEMMA ClientMoved ==
  ASSUME OutboxInv, RowsFit', TriesStay, DraftsStay,
         NEW c \in Clients, NEW work \in Client, Keyed(work), c \in Passes => Backed(work)',
         client' = [client EXCEPT ![c] = work]
  PROVE  ClientsFit'
<1>1. \A d \in Clients : client'[d] = IF d = c THEN work ELSE client[d]
  BY DEF OutboxInv, ClientsFit
<1>2. client' \in [Clients -> Client] /\ \A d \in Clients : Keyed(client'[d])
  BY <1>1 DEF OutboxInv, ClientsFit
<1>3. ASSUME NEW p \in Passes PROVE Backed(client[p])'
  <2>1. p \in Clients
    BY DEF Clients
  <2>2. CASE p = c
    BY <1>1, <2>1, <2>2 DEF Backed
  <2>3. CASE p # c
    <3>1. client[p] \in Client /\ Keyed(client[p]) /\ Backed(client[p])
      BY <2>1 DEF OutboxInv, ClientsFit
    <3>2. client'[p] = client[p]
      BY <1>1, <2>1, <2>3
    <3> QED BY <3>1, <3>2, ClientsUnchanged DEF Backed
  <2> QED BY <2>2, <2>3
<1> QED BY <1>2, <1>3 DEF ClientsFit

\* A client that stops fits anything.
LEMMA ClientFinished ==
  ASSUME OutboxInv, RowsFit', TriesStay, DraftsStay, NEW c \in Clients, Finish(c)
  PROVE  ClientsFit'
<1>1. Keyed(NoWork) /\ Backed(NoWork)' /\ NoWork \in Client
  BY OutboxRecords DEF Keyed, Backed, NoWork
<1> QED BY <1>1, ClientMoved DEF Finish

\* A client that goes on at another place, with the kind of its failure.
LEMMA ClientWent ==
  ASSUME OutboxInv, RowsFit', TriesStay, DraftsStay, NEW c \in Clients,
         NEW place \in ClientPlaces, NEW kind \in Kinds,
         \/ Goto(c, place)
         \/ FailWith(c, kind) /\ place = "failed",
         client[c].pc # "idle",
         c \in Passes => place # "listed" /\ client[c].pc # "listed",
         place \in {"succeeded", "mark_synced"} => server'[client[c].key].state = "done"
  PROVE  ClientsFit'
<1>1. PICK old \in Client : old = client[c]
  BY DEF OutboxInv, ClientsFit
<1>2. PICK work \in Client : /\ client' = [client EXCEPT ![c] = work]
                             /\ work.pc = place
                             /\ work.key = old.key /\ work.job = old.job
                             /\ work.attempts = old.attempts
  <2>1. CASE Goto(c, place)
    <3> DEFINE new == [old EXCEPT !.pc = place]
    <3>1. /\ new \in Client /\ new.pc = place
          /\ new.key = old.key /\ new.job = old.job /\ new.attempts = old.attempts
      BY <1>1 DEF Client, ClientPlaces
    <3>2. client' = [client EXCEPT ![c] = new]
      BY <1>1, <2>1 DEF Goto, OutboxInv, ClientsFit
    <3> QED BY <3>1, <3>2
  <2>2. CASE FailWith(c, kind) /\ place = "failed"
    <3> DEFINE new == [old EXCEPT !.pc = "failed", !.kind = kind]
    <3>1. /\ new \in Client /\ new.pc = place
          /\ new.key = old.key /\ new.job = old.job /\ new.attempts = old.attempts
      BY <1>1, <2>2 DEF Client
    <3>2. client' = [client EXCEPT ![c] = new]
      BY <1>1, <2>2 DEF FailWith, OutboxInv, ClientsFit
    <3> QED BY <3>1, <3>2
  <2> QED BY <2>1, <2>2
<1>3. Keyed(old) /\ old.pc # "idle"
  BY <1>1 DEF OutboxInv, ClientsFit
<1>4. Keyed(work)
  BY <1>2, <1>3 DEF Keyed
<1>5. ASSUME c \in Passes PROVE Backed(work)'
  <2>1. Backed(old)
    BY <1>1, <1>5 DEF OutboxInv, ClientsFit
  <2>2. Backed(old)'
    BY <1>3, <2>1, ClientsUnchanged DEF OutboxInv, ClientsFit
  <2>3. old.pc # "listed" /\ place # "listed"
    BY <1>1, <1>5
  <2>4. place \in {"succeeded", "mark_synced"} => server'[old.key].state = "done"
    BY <1>1
  <2> QED BY <1>2, <1>3, <2>2, <2>3, <2>4 DEF Backed
<1> QED BY <1>2, <1>4, <1>5, ClientMoved

\* Drafts and the status synced: a step that sets it has a draft.
LEMMA Assembled ==
  ASSUME OutboxInv, RestOK', RowsFit', ClientsFit', DraftsStay,
         \/ capture'.status = capture.status
         \/ capture'.status # "synced"
         \/ \E k \in Keys : server'[k].state = "done"
  PROVE  OutboxInv'
<1>1. SyncedMeansDraft'
  <2> SUFFICES ASSUME capture'.status = "synced" PROVE \E k \in Keys : server'[k].state = "done"
    BY DEF SyncedMeansDraft, Drafted
  <2>1. CASE \E k \in Keys : server'[k].state = "done"
    BY <2>1
  <2>2. CASE capture.status = "synced"
    <3>1. PICK k \in Keys : server[k].state = "done"
      BY <2>2 DEF OutboxInv, SyncedMeansDraft, Drafted
    <3> QED BY <3>1 DEF DraftsStay
  <2> QED BY <2>1, <2>2
<1> QED BY <1>1 DEF OutboxInv

\* The capture record with another status, key or content.
LEMMA CaptureRecords ==
  ASSUME NEW old \in Capture, NEW key \in Keys \cup {NoKey},
         NEW status \in {"local_only", "ready_to_extract", "submitting",
                         "extract_failed", "synced", "deleted"}
  PROVE  /\ [old EXCEPT !.key = key] \in Capture
         /\ [old EXCEPT !.key = key].status = old.status
         /\ [old EXCEPT !.status = status] \in Capture
         /\ [old EXCEPT !.status = status].status = status
         /\ [old EXCEPT !.status = status, !.key = key] \in Capture
         /\ [old EXCEPT !.status = status, !.key = key].status = status
BY DEF Capture

\* What a screen remembers with another place or key.
LEMMA VisitRecords ==
  ASSUME visit \in [Screens -> Visit], NEW s \in Screens, NEW key \in Keys \cup {NoKey},
         NEW place \in {"away", "here"}
  PROVE  /\ [visit EXCEPT ![s].ref = key] \in [Screens -> Visit]
         /\ [visit EXCEPT ![s].at = place] \in [Screens -> Visit]
         /\ [visit EXCEPT ![s] = [at |-> place, ref |-> key]] \in [Screens -> Visit]
BY DEF Visit

\* What the endpoint and the worker do to a key: a key with a draft is done with.
LEMMA ServerRecords ==
  ASSUME server \in [Keys -> Endpoint!Submission], NEW k \in Keys,
         \/ \E content \in 0 .. MaxEdits : Endpoint!Reserve(k, content)
         \/ Endpoint!Refuse(k) \/ Endpoint!Accept(k) \/ Endpoint!Extract(k)
  PROVE  server' \in [Keys -> Endpoint!Submission] /\ DraftsStay
<1> USE DEF Endpoint!Submission, Endpoint!Free
<1>1. CASE \E content \in 0 .. MaxEdits : Endpoint!Reserve(k, content)
  <2>1. PICK content \in 0 .. MaxEdits : Endpoint!Reserve(k, content)
    BY <1>1
  <2>2. server' = [server EXCEPT ![k] = [state |-> "reserved", content |-> content]]
        /\ server[k].state = "free"
    BY <2>1 DEF Endpoint!Reserve
  <2>3. server' \in [Keys -> Endpoint!Submission]
    BY <2>2
  <2> QED BY <2>2, <2>3 DEF DraftsStay
<1>2. CASE Endpoint!Refuse(k)
  BY <1>2 DEF Endpoint!Refuse, DraftsStay
<1>3. CASE Endpoint!Accept(k) \/ Endpoint!Extract(k)
  <2>1. PICK state \in {"pending", "done", "dead"} :
          server' = [server EXCEPT ![k].state = state]
    BY <1>3 DEF Endpoint!Accept, Endpoint!Extract
  <2>2. server[k].state \in {"reserved", "pending"}
    BY <1>3 DEF Endpoint!Accept, Endpoint!Extract
  <2>3. PICK row \in Endpoint!Submission : row = server[k]
    OBVIOUS
  <2>4. [row EXCEPT !.state = state] \in Endpoint!Submission
    BY <2>2, <2>3
  <2>5. server' = [server EXCEPT ![k] = [row EXCEPT !.state = state]]
    BY <2>1, <2>3
  <2>6. server' \in [Keys -> Endpoint!Submission]
    BY <2>4, <2>5
  <2> QED BY <2>2, <2>5, <2>6 DEF DraftsStay
<1> QED BY <1>1, <1>2, <1>3

\* An answered submission polls for its job, or the screen that asked is gone.
LEMMA AnsweredFits ==
  ASSUME OutboxInv, RowsFit', TriesStay, DraftsStay, NEW c \in Clients,
         client[c].pc \in {"send", "waiting"}, Answered(c)
  PROVE  /\ ClientsFit' /\ capture' \in Capture /\ visit' \in [Screens -> Visit]
         /\ capture'.status = capture.status \/ capture'.status # "synced"
<1>1. ASSUME Goto(c, "polling") PROVE ClientsFit'
  <2>1. "polling" \in ClientPlaces /\ "none" \in Kinds
    BY DEF ClientPlaces, Kinds
  <2> QED BY <1>1, <2>1, ClientWent
<1>2. CASE c \in Passes
  BY <1>1, <1>2 DEF Answered, OutboxInv, RestOK
<1>3. CASE c \notin Passes
  <2>1. c \in Screens /\ capture \in Capture /\ visit \in [Screens -> Visit]
    BY <1>3 DEF Clients, OutboxInv, RestOK
  <2>2. /\ visit' = [visit EXCEPT ![c].ref = NoKey]
        /\ Goto(c, "polling") \/ Finish(c)
        /\ \/ UNCHANGED capture
           \/ capture' = [capture EXCEPT !.key = NoKey]
           \/ capture' = [capture EXCEPT !.key = NoKey, !.status = "submitting"]
    BY <1>3 DEF Answered
  <2>3. capture' \in Capture /\ (capture'.status = capture.status \/ capture'.status # "synced")
    BY <2>1, <2>2 DEF Capture
  <2>4. visit' \in [Screens -> Visit]
    BY <2>1, <2>2 DEF Visit
  <2> QED BY <1>1, <2>2, <2>3, <2>4, ClientFinished
<1> QED BY <1>2, <1>3

-------------------------------------------------------------------------------
(* Submissions *)

\* A failed submission goes on as failed.
LEMMA Failing ==
  ASSUME OutboxInv, RowsFit', TriesStay, DraftsStay, NEW c \in Clients, NEW kind \in Kinds,
         client[c].pc \notin {"idle", "listed"}, FailWith(c, kind)
  PROVE  ClientsFit'
<1>1. "failed" \in ClientPlaces
  BY DEF ClientPlaces
<1> QED BY <1>1, ClientWent

\* A request is sent: the endpoint reserves the key, answers or refuses.
LEMMA SendInv ==
  ASSUME OutboxInv, NEW c \in Clients, Send(c)
  PROVE  OutboxInv'
<1> DEFINE k == client[c].key
<1>1. client[c].pc = "send" /\ k \in Keys /\ UNCHANGED <<jobs, issued, paused>>
  BY DEF Send, OutboxInv, ClientsFit, Keyed
<1>2. RowsFit' /\ TriesStay
  BY <1>1, RowsUnchanged
<1>3. RestOK
  BY DEF OutboxInv
<1>4. \/ /\ Endpoint!Reserve(k, capture.content)
         /\ Goto(c, "waiting") /\ UNCHANGED <<capture, visit>>
      \/ /\ FailWith(c, "terminal") \/ FailWith(c, "retryable")
         /\ UNCHANGED <<capture, visit, server>>
      \/ Answered(c) /\ UNCHANGED server
  BY DEF Send
<1>5. "terminal" \in Kinds /\ "retryable" \in Kinds /\ "waiting" \in ClientPlaces
  BY DEF Kinds, ClientPlaces
<1>6. CASE UNCHANGED server
  <2>1. DraftsStay
    BY <1>6 DEF DraftsStay
  <2>2. CASE /\ FailWith(c, "terminal") \/ FailWith(c, "retryable")
             /\ UNCHANGED <<capture, visit>>
    <3>1. ClientsFit'
      BY <1>1, <1>2, <1>5, <2>1, <2>2, Failing
    <3>2. RestOK'
      BY <1>1, <1>3, <1>6, <2>2 DEF RestOK
    <3> QED BY <1>2, <2>1, <2>2, <3>1, <3>2, Assembled
  <2>3. CASE Answered(c)
    <3>1. /\ ClientsFit' /\ capture' \in Capture /\ visit' \in [Screens -> Visit]
          /\ capture'.status = capture.status \/ capture'.status # "synced"
      BY <1>1, <1>2, <2>1, <2>3, AnsweredFits
    <3>2. RestOK'
      BY <1>1, <1>3, <1>6, <3>1 DEF RestOK
    <3> QED BY <1>2, <2>1, <3>1, <3>2, Assembled
  <2>4. CASE Goto(c, "waiting") /\ UNCHANGED <<capture, visit>>
    <3>1. ClientsFit'
      BY <1>1, <1>2, <1>5, <2>1, <2>4, ClientWent DEF Kinds
    <3>2. RestOK'
      BY <1>1, <1>3, <1>6, <2>4 DEF RestOK
    <3> QED BY <1>2, <2>1, <2>4, <3>1, <3>2, Assembled
  <2> QED BY <1>4, <1>6, <2>2, <2>3, <2>4
<1>7. CASE /\ Endpoint!Reserve(k, capture.content)
           /\ Goto(c, "waiting") /\ UNCHANGED <<capture, visit>>
  <2>1. capture.content \in 0 .. MaxEdits
    BY <1>3 DEF RestOK, Capture
  <2>2. server' \in [Keys -> Endpoint!Submission] /\ DraftsStay
    BY <1>1, <1>3, <1>7, <2>1, ServerRecords DEF RestOK
  <2>3. ClientsFit'
    BY <1>1, <1>2, <1>5, <1>7, <2>2, ClientWent DEF Kinds
  <2>4. RestOK'
    BY <1>1, <1>3, <1>7, <2>2 DEF RestOK
  <2> QED BY <1>2, <1>7, <2>2, <2>3, <2>4, Assembled
<1> QED BY <1>4, <1>6, <1>7

\* The endpoint accepts or refuses what waits for it, the worker ends a job.
LEMMA ServerInv ==
  ASSUME OutboxInv, NEW k \in Keys, Accept(k) \/ Refuse(k) \/ Extract(k)
  PROVE  OutboxInv'
<1>1. RestOK /\ UNCHANGED <<jobs, issued, paused>>
  BY DEF OutboxInv, Accept, Refuse, Extract
<1>2. RowsFit' /\ TriesStay
  BY <1>1, RowsUnchanged
<1>5. server' \in [Keys -> Endpoint!Submission] /\ DraftsStay
  BY <1>1, ServerRecords DEF RestOK, Accept, Refuse, Extract
<1>6. ASSUME UNCHANGED <<capture, visit>>, ClientsFit' PROVE OutboxInv'
  <2>1. RestOK'
    BY <1>1, <1>5, <1>6 DEF RestOK
  <2> QED BY <1>2, <1>5, <1>6, <2>1, Assembled
<1>7. CASE UNCHANGED <<capture, visit, client>>
  BY <1>2, <1>5, <1>6, <1>7, ClientsStay
<1>8. CASE \E c \in Waiting(k) : Answered(c)
  <2>1. PICK c \in Waiting(k) : Answered(c)
    BY <1>8
  <2>2. c \in Clients /\ client[c].pc = "waiting"
    BY DEF Waiting
  <2>3. /\ ClientsFit' /\ capture' \in Capture /\ visit' \in [Screens -> Visit]
        /\ capture'.status = capture.status \/ capture'.status # "synced"
    BY <1>2, <1>5, <2>1, <2>2, AnsweredFits
  <2>4. RestOK'
    BY <1>1, <1>5, <2>3 DEF RestOK
  <2> QED BY <1>2, <1>5, <2>3, <2>4, Assembled
<1>9. CASE /\ \E c \in Waiting(k), kind \in {"retryable", "auth", "terminal"} : FailWith(c, kind)
           /\ UNCHANGED <<capture, visit>>
  <2>1. PICK c \in Waiting(k), kind \in {"retryable", "auth", "terminal"} : FailWith(c, kind)
    BY <1>9
  <2>2. c \in Clients /\ client[c].pc = "waiting" /\ kind \in Kinds
    BY DEF Waiting, Kinds
  <2>3. ClientsFit'
    BY <1>2, <1>5, <2>1, <2>2, Failing
  <2> QED BY <1>6, <1>9, <2>3
<1> QED BY <1>7, <1>8, <1>9 DEF Accept, Refuse, Extract

\* No answer, or none that may be read: the submission has failed.
LEMMA FailureInv ==
  ASSUME OutboxInv, NEW c \in Clients, NoAnswer(c) \/ PollRefused(c)
  PROVE  OutboxInv'
<1>1. /\ client[c].pc \notin {"idle", "listed"}
      /\ \E kind \in Kinds : FailWith(c, kind)
      /\ UNCHANGED <<capture, jobs, visit, server, issued, paused>>
  BY DEF NoAnswer, PollRefused, Kinds
<1>2. RowsFit' /\ TriesStay /\ DraftsStay
  BY <1>1, RowsUnchanged DEF DraftsStay
<1>3. ClientsFit'
  BY <1>1, <1>2, Failing
<1>4. RestOK'
  BY <1>1 DEF OutboxInv, RestOK
<1> QED BY <1>1, <1>2, <1>3, <1>4, Assembled

-------------------------------------------------------------------------------
(* Passes *)

\* A pass lists a job: it counts from the attempts it saw.
LEMMA StartPassInv ==
  ASSUME OutboxInv, NEW p \in Passes, StartPass(p)
  PROVE  OutboxInv'
<1>1. UNCHANGED <<capture, jobs, visit, server, issued, paused>> /\ p \in Clients
  BY DEF StartPass, Clients
<1>2. RowsFit' /\ TriesStay /\ DraftsStay
  BY <1>1, RowsUnchanged DEF DraftsStay
<1>3. PICK j \in Jobs :
        /\ Listable(j)
        /\ client' = [client EXCEPT ![p] =
                        [NoWork EXCEPT !.pc = "listed", !.job = j, !.key = jobs[j].key,
                                       !.attempts = jobs[j].attempts]]
  BY DEF StartPass
<1>4. PICK row \in OutboxJob : row = jobs[j]
  BY DEF OutboxInv, RowsFit
<1> DEFINE listed == [NoWork EXCEPT !.pc = "listed", !.job = j, !.key = row.key,
                                    !.attempts = row.attempts]
<1>5. row.status # "absent" /\ SoundRow(row)
  BY <1>3, <1>4 DEF Listable, OutboxInv, RowsFit
<1>6. /\ listed.pc = "listed" /\ listed.job = j /\ listed.key = row.key
      /\ listed.attempts = row.attempts
  BY DEF NoWork
<1>7. listed \in Client
  BY DEF NoWork, Client, OutboxJob, Kinds
<1> HIDE DEF listed
<1>8. Keyed(listed)
  BY <1>5, <1>6 DEF Keyed, SoundRow
<1>9. Backed(listed)'
  BY <1>1, <1>4, <1>5, <1>6 DEF Backed, SoundRow
<1>10. ClientsFit'
  BY <1>1, <1>2, <1>3, <1>4, <1>7, <1>8, <1>9, ClientMoved DEF listed
<1>11. RestOK'
  BY <1>1 DEF OutboxInv, RestOK
<1> QED BY <1>1, <1>2, <1>10, <1>11, Assembled

\* The tab of a pass pauses, if at all.
LEMMA PausingOK ==
  ASSUME OutboxInv, NEW p \in Passes
  PROVE  Pausing(p) \subseteq Passes
BY DEF Pausing, OutboxInv, RestOK

\* A pass whose job is deleted ends.
LEMMA PassAbortsInv ==
  ASSUME OutboxInv, NEW p \in Passes, PassAborts(p)
  PROVE  OutboxInv'
<1>1. /\ UNCHANGED <<capture, jobs, visit, server, issued>> /\ p \in Clients
      /\ Finish(p) /\ paused' = Pausing(p)
  BY DEF PassAborts, Clients
<1>2. RowsFit' /\ TriesStay /\ DraftsStay
  BY <1>1, RowsUnchanged DEF DraftsStay
<1>3. ClientsFit'
  BY <1>1, <1>2, ClientFinished
<1>4. RestOK'
  BY <1>1, PausingOK DEF OutboxInv, RestOK
<1> QED BY <1>1, <1>2, <1>3, <1>4, Assembled

\* A pass at work has a row of its own.
LEMMA RowOfPass ==
  ASSUME OutboxInv, NEW p \in Passes, client[p].pc # "idle"
  PROVE  /\ p \in Clients /\ client[p] \in Client /\ Keyed(client[p]) /\ Backed(client[p])
         /\ client[p].job \in Jobs /\ jobs[client[p].job] \in OutboxJob
         /\ SoundRow(jobs[client[p].job]) /\ jobs[client[p].job].status # "absent"
<1>1. p \in Clients
  BY DEF Clients
<1> QED BY <1>1 DEF OutboxInv, ClientsFit, RowsFit, Backed

\* The pass takes its job: the row has one more try, unless it had them all.
LEMMA ProcessJobInv ==
  ASSUME OutboxInv, NEW p \in Passes, ProcessJob(p)
  PROVE  OutboxInv'
<1> DEFINE j == client[p].job
<1>1. /\ client[p].pc = "listed" /\ Goto(p, "send")
      /\ jobs' = [jobs EXCEPT ![j].status = "running",
                              ![j].tries = IF @ < MaxAttempts THEN @ + 1 ELSE @]
      /\ UNCHANGED <<capture, visit, server, issued, paused>>
  BY DEF ProcessJob
<1>2. PICK work \in Client : work = client[p]
  BY <1>1, RowOfPass
<1>3. PICK row \in OutboxJob : row = jobs[j] /\ SoundRow(row) /\ row.status # "absent"
  BY <1>1, RowOfPass
<1>4. j \in Jobs /\ j = work.job /\ Keyed(work) /\ Backed(work) /\ p \in Clients
  BY <1>1, <1>2, RowOfPass
<1> DEFINE n == IF row.tries < MaxAttempts THEN row.tries + 1 ELSE row.tries
           taken == [row EXCEPT !.status = "running", !.tries = n]
<1>5. /\ row.tries \in 0 .. MaxAttempts /\ row.attempts \in 0 .. MaxAttempts
      /\ MaxAttempts \in Nat /\ work.attempts \in 0 .. MaxAttempts
  BY OutboxRecords DEF OutboxJob, Client
<1>6. n \in 0 .. MaxAttempts /\ row.tries <= n /\ (n = MaxAttempts \/ n = row.tries + 1)
  BY <1>5
<1> HIDE DEF n
<1>7. /\ taken \in OutboxJob /\ taken.status = "running" /\ taken.tries = n
      /\ taken.key = row.key /\ taken.attempts = row.attempts
  BY <1>6 DEF OutboxJob
<1>8. jobs' = [jobs EXCEPT ![j] = taken]
  BY <1>1, <1>3, <1>4 DEF n, OutboxInv, RowsFit
<1> HIDE DEF taken
<1>9. SoundRow(taken)
  BY <1>3, <1>5, <1>6, <1>7 DEF SoundRow
<1>10. RowsFit' /\ TriesStay /\ DraftsStay
  <2>1. jobs[j].tries <= taken.tries
    BY <1>3, <1>6, <1>7
  <2>2. DraftsStay
    BY <1>1 DEF DraftsStay
  <2> QED BY <1>4, <1>7, <1>8, <1>9, <2>1, <2>2, RowWritten
<1> DEFINE sending == [work EXCEPT !.pc = "send"]
<1>11. /\ sending \in Client /\ sending.pc = "send" /\ sending.key = work.key
       /\ sending.job = work.job /\ sending.attempts = work.attempts
  BY DEF Client
<1>12. client' = [client EXCEPT ![p] = sending]
  BY <1>1, <1>2, <1>4 DEF Goto, OutboxInv, ClientsFit
<1> HIDE DEF sending
<1>13. Keyed(sending)
  BY <1>1, <1>2, <1>4, <1>11 DEF Keyed
<1>14. Backed(sending)'
  <2>1. jobs'[work.job] = taken
    BY <1>4, <1>8 DEF OutboxInv, RowsFit
  <2>2. work.attempts <= row.tries
    BY <1>1, <1>2, <1>3, <1>4 DEF Backed
  <2>3. work.attempts <= n /\ (n = MaxAttempts \/ work.attempts < n)
    BY <1>5, <1>6, <2>2
  <2> QED BY <1>4, <1>7, <1>11, <2>1, <2>3 DEF Backed
<1>15. ClientsFit'
  BY <1>4, <1>10, <1>11, <1>12, <1>13, <1>14, ClientMoved
<1>16. RestOK'
  BY <1>1 DEF OutboxInv, RestOK
<1> QED BY <1>1, <1>10, <1>15, <1>16, Assembled

\* The pass polls until the job is done.
LEMMA PollForPersistedQuoteInv ==
  ASSUME OutboxInv, NEW p \in Passes, PollForPersistedQuote(p)
  PROVE  OutboxInv'
<1>1. /\ client[p].pc = "polling"
      /\ UNCHANGED <<capture, jobs, visit, server, issued, paused>>
      /\ \/ server[client[p].key].state = "done" /\ Goto(p, "succeeded")
         \/ FailWith(p, "retryable")
  BY DEF PollForPersistedQuote
<1>2. RowsFit' /\ TriesStay /\ DraftsStay /\ p \in Clients
  BY <1>1, RowsUnchanged DEF DraftsStay, Clients
<1>3. ClientsFit'
  <2>1. "succeeded" \in ClientPlaces /\ "retryable" \in Kinds
    BY DEF ClientPlaces, Kinds
  <2>2. CASE server[client[p].key].state = "done" /\ Goto(p, "succeeded")
    BY <1>1, <1>2, <2>1, <2>2, ClientWent
  <2>3. CASE FailWith(p, "retryable")
    BY <1>1, <1>2, <2>1, <2>3, Failing
  <2> QED BY <1>1, <2>2, <2>3
<1>4. RestOK'
  BY <1>1 DEF OutboxInv, RestOK
<1> QED BY <1>1, <1>2, <1>3, <1>4, Assembled

\* A row that succeeds is sound.
LEMMA RowSucceeds ==
  ASSUME OutboxInv, NEW j \in Jobs, jobs[j].status # "absent",
         jobs' = [jobs EXCEPT ![j].status = "succeeded", ![j].kind = "none"]
  PROVE  RowsFit' /\ TriesStay
<1>1. PICK row \in OutboxJob : row = jobs[j] /\ SoundRow(row)
  BY DEF OutboxInv, RowsFit
<1> DEFINE new == [row EXCEPT !.status = "succeeded", !.kind = "none"]
<1>2. /\ new \in OutboxJob /\ new.status = "succeeded" /\ new.tries = row.tries
      /\ new.key = row.key /\ new.attempts = row.attempts
  BY DEF OutboxJob, Kinds
<1>3. jobs' = [jobs EXCEPT ![j] = new]
  BY <1>1 DEF OutboxInv, RowsFit
<1> HIDE DEF new
<1>4. SoundRow(new)
  BY <1>1, <1>2 DEF SoundRow
<1>5. jobs[j].tries <= new.tries /\ new.status # "absent"
  <2>1. row.tries \in Int
    BY OutboxRecords DEF OutboxJob
  <2> QED BY <1>1, <1>2, <2>1
<1> QED BY <1>2, <1>3, <1>4, <1>5, RowWritten

\* The row of a pass succeeds.
LEMMA MarkSuccessInv ==
  ASSUME OutboxInv, NEW p \in Passes, MarkSuccess(p)
  PROVE  OutboxInv'
<1> DEFINE j == client[p].job
<1>1. /\ client[p].pc = "succeeded" /\ Goto(p, "mark_synced")
      /\ jobs' = [jobs EXCEPT ![j].status = "succeeded", ![j].kind = "none"]
      /\ UNCHANGED <<capture, visit, server, issued, paused>>
  BY DEF MarkSuccess
<1>2. /\ j \in Jobs /\ jobs[j].status # "absent" /\ p \in Clients
      /\ server[client[p].key].state = "done"
  BY <1>1, RowOfPass DEF Backed
<1> HIDE DEF j
<1>3. RowsFit' /\ TriesStay /\ DraftsStay
  BY <1>1, <1>2, RowSucceeds DEF DraftsStay
<1>4. ClientsFit'
  <2>1. "mark_synced" \in ClientPlaces /\ "none" \in Kinds
    BY DEF ClientPlaces, Kinds
  <2> QED BY <1>1, <1>2, <1>3, <2>1, ClientWent
<1>5. RestOK'
  BY <1>1 DEF OutboxInv, RestOK
<1> QED BY <1>1, <1>3, <1>4, <1>5, Assembled

\* The failure of a pass is recorded, as final when it has counted to the end:
\* by then the row has as many tries.
LEMMA MarkFailureInv ==
  ASSUME OutboxInv, NEW p \in Passes, MarkFailure(p)
  PROVE  OutboxInv'
<1>1. /\ client[p].pc = "failed" /\ paused' = Pausing(p)
      /\ UNCHANGED <<capture, visit, server, issued>>
  BY DEF MarkFailure
<1>2. PICK work \in Client : work = client[p] /\ Backed(work) /\ p \in Clients
  BY <1>1, RowOfPass
<1>3. PICK j \in Jobs : j = work.job
  BY <1>1, <1>2, RowOfPass
<1>4. PICK row \in OutboxJob : row = jobs[j] /\ SoundRow(row) /\ row.status # "absent"
  BY <1>1, <1>2, <1>3, RowOfPass
<1> DEFINE spent == work.attempts + 1
           n == IF spent < MaxAttempts THEN spent ELSE MaxAttempts
<1>5. PICK status \in {"failed_terminal", "failed_retryable"} :
        /\ status = "failed_terminal" => work.kind = "terminal" \/ spent >= MaxAttempts
        /\ status = "failed_retryable" => spent < MaxAttempts
        /\ jobs' = [jobs EXCEPT ![j].status = status, ![j].kind = work.kind,
                                ![j].attempts = n]
        /\ Goto(p, "mark_failed") \/ Finish(p)
  <2>1. CASE /\ work.kind = "terminal" \/ spent >= MaxAttempts
             /\ jobs' = [jobs EXCEPT ![j].status = "failed_terminal", ![j].kind = work.kind,
                           ![j].attempts = IF spent < MaxAttempts THEN spent ELSE MaxAttempts]
             /\ Goto(p, "mark_failed")
    BY <2>1
  <2>2. CASE /\ work.kind # "terminal" /\ spent < MaxAttempts
             /\ jobs' = [jobs EXCEPT ![j].status = "failed_retryable", ![j].kind = work.kind,
                                     ![j].attempts = spent]
             /\ Finish(p)
    BY <2>2
  <2> QED BY <1>2, <1>3, <2>1, <2>2 DEF MarkFailure
<1>6. /\ MaxAttempts \in Nat /\ MaxAttempts >= 1 /\ work.attempts \in 0 .. MaxAttempts
      /\ row.tries \in 0 .. MaxAttempts /\ work.kind \in Kinds
  BY OutboxRecords DEF Client, OutboxJob
<1>7. work.attempts <= row.tries /\ (row.tries = MaxAttempts \/ work.attempts < row.tries)
  BY <1>1, <1>2, <1>3, <1>4 DEF Backed
<1>8. n \in 0 .. MaxAttempts /\ n <= row.tries /\ (spent >= MaxAttempts => row.tries >= MaxAttempts)
  BY <1>6, <1>7
<1> HIDE DEF n, spent
<1> DEFINE new == [row EXCEPT !.status = status, !.kind = work.kind, !.attempts = n]
<1>9. /\ new \in OutboxJob /\ new.status = status /\ new.kind = work.kind /\ new.attempts = n
      /\ new.tries = row.tries /\ new.key = row.key
  BY <1>6, <1>8 DEF OutboxJob
<1>10. jobs' = [jobs EXCEPT ![j] = new]
  BY <1>4, <1>5 DEF OutboxInv, RowsFit
<1> HIDE DEF new
<1>11. SoundRow(new)
  BY <1>4, <1>5, <1>8, <1>9 DEF SoundRow
<1>12. RowsFit' /\ TriesStay /\ DraftsStay
  <2>1. jobs[j].tries <= new.tries
    BY <1>4, <1>6, <1>9
  <2>2. new.status # "absent"
    BY <1>9
  <2>3. DraftsStay
    BY <1>1 DEF DraftsStay
  <2> QED BY <1>9, <1>10, <1>11, <2>1, <2>2, <2>3, RowWritten
<1>13. ClientsFit'
  <2>1. "mark_failed" \in ClientPlaces /\ "none" \in Kinds
    BY DEF ClientPlaces, Kinds
  <2>2. CASE Goto(p, "mark_failed")
    BY <1>1, <1>2, <1>12, <2>1, <2>2, ClientWent
  <2>3. CASE Finish(p)
    BY <1>2, <1>12, <2>3, ClientFinished
  <2> QED BY <1>5, <2>2, <2>3
<1>14. RestOK'
  BY <1>1, PausingOK DEF OutboxInv, RestOK
<1> QED BY <1>1, <1>12, <1>13, <1>14, Assembled

\* The capture is marked: as synced with the draft of the pass behind it.
LEMMA MarkCaptureInv ==
  ASSUME OutboxInv, NEW p \in Passes, MarkCapture(p)
  PROVE  OutboxInv'
<1>1. /\ client[p].pc \in {"mark_synced", "mark_failed"} /\ Finish(p)
      /\ UNCHANGED <<jobs, visit, server, issued, paused>>
      /\ capture' = IF capture.status = "deleted" THEN capture
                    ELSE [capture EXCEPT !.status = IF client[p].pc = "mark_synced"
                                                    THEN "synced" ELSE "extract_failed"]
  BY DEF MarkCapture
<1>2. RowsFit' /\ TriesStay /\ DraftsStay /\ p \in Clients
  BY <1>1, RowsUnchanged DEF DraftsStay, Clients
<1>3. ClientsFit'
  BY <1>1, <1>2, ClientFinished
<1>4. PICK old \in Capture : old = capture
  BY DEF OutboxInv, RestOK
<1>5. /\ capture' \in Capture
      /\ \/ capture'.status = capture.status
         \/ capture'.status # "synced"
         \/ client[p].pc = "mark_synced"
  <2>1. CASE capture.status = "deleted"
    BY <1>1, <1>4, <2>1
  <2>2. CASE capture.status # "deleted"
    BY <1>1, <1>4, <2>2, CaptureRecords
  <2> QED BY <2>1, <2>2
<1>6. client[p].pc = "mark_synced" => \E k \in Keys : server'[k].state = "done"
  BY <1>1, RowOfPass DEF Backed, Keyed
<1>7. RestOK'
  BY <1>1, <1>5 DEF OutboxInv, RestOK
<1> QED BY <1>2, <1>3, <1>5, <1>6, <1>7, Assembled

\* A pass keeps the invariant.
LEMMA PassInv ==
  ASSUME OutboxInv, NEW p \in Passes, Pass(p)
  PROVE  OutboxInv'
BY StartPassInv, PassAbortsInv, ProcessJobInv, PollForPersistedQuoteInv, MarkSuccessInv,
   MarkFailureInv, MarkCaptureInv DEF Pass

-------------------------------------------------------------------------------
(* Screens *)

\* A new job under a key of the capture is sound, and so are the others.
LEMMA EnqueuedFits ==
  ASSUME OutboxInv, NEW key \in Keys, jobs' \in Enqueued(key)
  PROVE  RowsFit' /\ TriesStay
<1>1. CASE jobs' = jobs
  BY <1>1, RowsUnchanged
<1>2. CASE jobs' # jobs
  <2> DEFINE new == [NoJob EXCEPT !.status = "queued", !.key = key]
  <2>1. PICK j \in Jobs : jobs[j].status = "absent" /\ jobs' = [jobs EXCEPT ![j] = new]
    BY <1>2 DEF Enqueued
  <2>2. /\ new \in OutboxJob /\ new.status = "queued" /\ new.key = key
        /\ new.attempts = 0 /\ new.tries = 0
    BY OutboxRecords DEF NoJob, OutboxJob, Kinds
  <2> HIDE DEF new
  <2>3. SoundRow(new) /\ jobs[j].tries <= new.tries
    BY <2>1, <2>2 DEF SoundRow, OutboxInv, RowsFit
  <2> QED BY <2>1, <2>2, <2>3, RowWritten
<1> QED BY <1>1, <1>2

\* A screen is a client and no pass.
LEMMA ScreenIsClient ==
  ASSUME NEW s \in Screens
  PROVE  s \in Clients /\ s \notin Passes
BY OutboxRecords DEF Clients

\* A capture screen opens, or is left.
LEMMA VisitInv ==
  ASSUME OutboxInv, NEW s \in Screens, Open(s) \/ Leave(s)
  PROVE  OutboxInv'
<1>1. /\ UNCHANGED <<capture, jobs, client, server, issued, paused>>
      /\ visit' \in [Screens -> Visit]
  BY VisitRecords DEF Open, Leave, OutboxInv, RestOK, Visit
<1>2. RowsFit' /\ TriesStay /\ DraftsStay
  BY <1>1, RowsUnchanged DEF DraftsStay
<1>3. ClientsFit'
  BY <1>1, <1>2, ClientsStay
<1>4. RestOK'
  BY <1>1 DEF OutboxInv, RestOK
<1> QED BY <1>1, <1>2, <1>3, <1>4, Assembled

\* The content changes, which may drop the key.
LEMMA EditInv ==
  ASSUME OutboxInv, NEW s \in Screens, Edit(s)
  PROVE  OutboxInv'
<1>1. /\ UNCHANGED <<jobs, client, server, issued, paused>>
      /\ capture.content < MaxEdits
      /\ visit' = [visit EXCEPT ![s].ref = NoKey]
      /\ capture' = [capture EXCEPT !.content = @ + 1,
                                    !.key = IF visit[s].ref = NoKey THEN @ ELSE NoKey]
  BY DEF Edit
<1>2. PICK old \in Capture : old = capture
  BY DEF OutboxInv, RestOK
<1>3. PICK key \in Keys \cup {NoKey} : key = IF visit[s].ref = NoKey THEN old.key ELSE NoKey
  BY <1>2 DEF Capture
<1>4. old.content + 1 \in 0 .. MaxEdits
  BY <1>1, <1>2, OutboxRecords DEF Capture
<1>5. capture' \in Capture /\ capture'.status = capture.status
  BY <1>1, <1>2, <1>3, <1>4 DEF Capture
<1>6. visit' \in [Screens -> Visit]
  BY <1>1, VisitRecords DEF OutboxInv, RestOK
<1>7. RowsFit' /\ TriesStay /\ DraftsStay
  BY <1>1, RowsUnchanged DEF DraftsStay
<1>8. ClientsFit'
  BY <1>1, <1>7, ClientsStay
<1>9. RestOK'
  BY <1>1, <1>5, <1>6 DEF OutboxInv, RestOK
<1> QED BY <1>5, <1>7, <1>8, <1>9, Assembled

\* A key is resolved: the numbers issued and what the screen holds keep their types.
LEMMA ResolvedFits ==
  ASSUME OutboxInv, NEW s \in Screens, NEW k \in Keys, Resolved(s, k)
  PROVE  issued' \in 0 .. MaxKeys /\ visit' \in [Screens -> Visit]
<1>1. RestOK
  BY DEF OutboxInv
<1>2. visit' \in [Screens -> Visit]
  BY <1>1, VisitRecords DEF Resolved, RestOK
<1>3. issued' \in 0 .. MaxKeys
  <2>1. CASE UNCHANGED issued
    BY <1>1, <2>1 DEF RestOK
  <2>2. CASE k = issued + 1 /\ issued' = issued + 1
    BY <2>2, OutboxRecords DEF Keys
  <2> QED BY <2>1, <2>2 DEF Resolved
<1> QED BY <1>2, <1>3

\* The capture is submitted by the screen, or left to the outbox.
LEMMA ExtractionInv ==
  ASSUME OutboxInv, NEW s \in Screens, ExtractOnline(s) \/ ExtractOffline(s)
  PROVE  OutboxInv'
<1>1. UNCHANGED <<server, paused>> /\ DraftsStay
  BY DEF ExtractOnline, ExtractOffline, DraftsStay
<1>2. PICK old \in Capture : old = capture
  BY DEF OutboxInv, RestOK
<1>3. ASSUME NEW k \in Keys, Resolved(s, k), NEW status \in {"submitting", "ready_to_extract"},
             capture' = [capture EXCEPT !.status = status, !.key = k],
             RowsFit', TriesStay, ClientsFit'
      PROVE  OutboxInv'
  <2>1. capture' \in Capture /\ capture'.status # "synced"
    BY <1>2, <1>3, CaptureRecords
  <2>2. issued' \in 0 .. MaxKeys /\ visit' \in [Screens -> Visit]
    BY <1>3, ResolvedFits
  <2>3. RestOK'
    BY <1>1, <2>1, <2>2 DEF OutboxInv, RestOK
  <2> QED BY <1>1, <1>3, <2>1, <2>3, Assembled
<1>4. CASE ExtractOnline(s)
  <2>1. PICK k \in Keys :
          /\ Resolved(s, k)
          /\ capture' = [capture EXCEPT !.status = "submitting", !.key = k]
          /\ client' = [client EXCEPT ![s] = [NoWork EXCEPT !.pc = "send", !.key = k]]
    BY <1>4 DEF ExtractOnline
  <2>2. RowsFit' /\ TriesStay
    BY <1>4, RowsUnchanged DEF ExtractOnline
  <2> DEFINE sending == [NoWork EXCEPT !.pc = "send", !.key = k]
  <2>3. sending \in Client /\ Keyed(sending)
    BY OutboxRecords DEF NoWork, Client, Keyed, Kinds
  <2> HIDE DEF sending
  <2>4. ClientsFit'
    BY <1>1, <2>1, <2>2, <2>3, ScreenIsClient, ClientMoved DEF sending
  <2> QED BY <1>3, <2>1, <2>2, <2>4
<1>5. CASE ExtractOffline(s)
  <2>1. PICK k \in Keys :
          /\ Resolved(s, k)
          /\ capture' = [capture EXCEPT !.status = "ready_to_extract", !.key = k]
          /\ jobs' \in Enqueued(k)
    BY <1>5 DEF ExtractOffline
  <2>2. RowsFit' /\ TriesStay
    BY <2>1, EnqueuedFits
  <2>3. ClientsFit'
    BY <1>1, <1>5, <2>2, ClientsStay DEF ExtractOffline
  <2> QED BY <1>3, <2>1, <2>2, <2>3
<1> QED BY <1>4, <1>5

\* The screen polls until the draft is there, and says synced for no other reason.
LEMMA PollUntilQuoteInv ==
  ASSUME OutboxInv, NEW s \in Screens, PollUntilQuote(s)
  PROVE  OutboxInv'
<1> DEFINE state == server[client[s].key].state
<1>1. /\ client[s].pc = "polling" /\ UNCHANGED <<jobs, visit, server, issued, paused>>
      /\ s \in Clients /\ s \notin Passes
  BY ScreenIsClient DEF PollUntilQuote
<1>2. RowsFit' /\ TriesStay /\ DraftsStay
  BY <1>1, RowsUnchanged DEF DraftsStay
<1>3. \/ Goto(s, "settle") /\ UNCHANGED capture
      \/ Finish(s) /\ UNCHANGED capture
      \/ /\ state = "done" /\ Goto(s, "hydrating")
         /\ capture' = [capture EXCEPT !.status = "synced"]
      \/ FailWith(s, "retryable") /\ UNCHANGED capture
  BY DEF PollUntilQuote
<1>4. ClientsFit'
  <2>1. {"settle", "hydrating"} \subseteq ClientPlaces /\ "retryable" \in Kinds
    BY DEF ClientPlaces, Kinds
  <2>2. CASE Goto(s, "settle") \/ Goto(s, "hydrating")
    BY <1>1, <1>2, <2>1, <2>2, ClientWent
  <2>3. CASE FailWith(s, "retryable")
    BY <1>1, <1>2, <2>1, <2>3, Failing
  <2>4. CASE Finish(s)
    BY <1>1, <1>2, <2>4, ClientFinished
  <2> QED BY <1>3, <2>2, <2>3, <2>4
<1>5. CASE UNCHANGED capture
  <2>1. RestOK'
    BY <1>1, <1>5 DEF OutboxInv, RestOK
  <2> QED BY <1>2, <1>4, <1>5, <2>1, Assembled
<1>6. CASE state = "done" /\ capture' = [capture EXCEPT !.status = "synced"]
  <2>1. \E k \in Keys : server'[k].state = "done"
    BY <1>1, <1>6 DEF OutboxInv, ClientsFit, Keyed
  <2>2. PICK old \in Capture : old = capture
    BY DEF OutboxInv, RestOK
  <2>3. capture' \in Capture
    BY <1>6, <2>2, CaptureRecords
  <2>4. RestOK'
    BY <1>1, <2>3 DEF OutboxInv, RestOK
  <2> QED BY <1>2, <1>4, <2>1, <2>4, Assembled
<1> QED BY <1>3, <1>5, <1>6

\* The draft is read and opened, or the read fails.
LEMMA HydrateDraftInv ==
  ASSUME OutboxInv, NEW s \in Screens, HydrateDraft(s)
  PROVE  OutboxInv'
<1>1. /\ client[s].pc = "hydrating" /\ UNCHANGED <<capture, jobs, server, issued, paused>>
      /\ s \in Clients /\ s \notin Passes
  BY ScreenIsClient DEF HydrateDraft
<1>2. RowsFit' /\ TriesStay /\ DraftsStay
  BY <1>1, RowsUnchanged DEF DraftsStay
<1>3. \/ Goto(s, "settle") /\ visit' = [visit EXCEPT ![s].at = "away"]
      \/ (\E kind \in Kinds : FailWith(s, kind)) /\ UNCHANGED visit
  BY DEF HydrateDraft, Kinds
<1>4. ClientsFit'
  <2>1. "settle" \in ClientPlaces /\ "none" \in Kinds
    BY DEF ClientPlaces, Kinds
  <2>2. CASE Goto(s, "settle")
    BY <1>1, <1>2, <2>1, <2>2, ClientWent
  <2>3. CASE \E kind \in Kinds : FailWith(s, kind)
    BY <1>1, <1>2, <2>3, Failing
  <2> QED BY <1>3, <2>2, <2>3
<1>5. visit' \in [Screens -> Visit]
  BY <1>3, VisitRecords DEF OutboxInv, RestOK
<1>6. RestOK'
  BY <1>1, <1>5 DEF OutboxInv, RestOK
<1> QED BY <1>1, <1>2, <1>4, <1>6, Assembled

\* A job of the session is no absent one.
LEMMA SessionJobs ==
  ASSUME NEW j \in JobsForSession
  PROVE  j \in Jobs /\ jobs[j].status # "absent"
BY DEF JobsForSession, Active, Stored

\* The draft is there: a job of the session is settled.
LEMMA SettleOutboxInv ==
  ASSUME OutboxInv, NEW s \in Screens, SettleOutbox(s)
  PROVE  OutboxInv'
<1>1. UNCHANGED <<capture, visit, server, issued, paused>> /\ Finish(s) /\ s \in Clients
  BY ScreenIsClient DEF SettleOutbox
<1>2. RowsFit' /\ TriesStay /\ DraftsStay
  <2>1. CASE UNCHANGED jobs
    BY <1>1, <2>1, RowsUnchanged DEF DraftsStay
  <2>2. CASE \E j \in JobsForSession :
               jobs' = [jobs EXCEPT ![j].status = "succeeded", ![j].kind = "none"]
    BY <1>1, <2>2, SessionJobs, RowSucceeds DEF DraftsStay
  <2> QED BY <2>1, <2>2 DEF SettleOutbox
<1>3. ClientsFit'
  BY <1>1, <1>2, ClientFinished
<1>4. RestOK'
  BY <1>1 DEF OutboxInv, RestOK
<1> QED BY <1>1, <1>2, <1>3, <1>4, Assembled

\* The failed submission of a screen is noted, and left to the outbox.
LEMMA ScreenFailsInv ==
  ASSUME OutboxInv, NEW s \in Screens, ScreenFails(s)
  PROVE  OutboxInv'
<1>1. /\ UNCHANGED <<visit, server, issued, paused>> /\ Finish(s) /\ s \in Clients
      /\ client[s].key \in Keys
      /\ UNCHANGED capture \/ capture' = [capture EXCEPT !.status = "extract_failed"]
      /\ UNCHANGED jobs \/ jobs' \in Enqueued(client[s].key)
  BY ScreenIsClient DEF ScreenFails, OutboxInv, ClientsFit, Keyed
<1>2. PICK key \in Keys : key = client[s].key
  BY <1>1
<1>3. RowsFit' /\ TriesStay /\ DraftsStay
  <2>1. RowsFit' /\ TriesStay
    BY <1>1, <1>2, RowsUnchanged, EnqueuedFits
  <2> QED BY <1>1, <2>1 DEF DraftsStay
<1>4. ClientsFit'
  BY <1>1, <1>3, ClientFinished
<1>5. PICK old \in Capture : old = capture
  BY DEF OutboxInv, RestOK
<1>6. capture' \in Capture /\ (capture'.status = capture.status \/ capture'.status # "synced")
  <2>1. CASE capture' = [old EXCEPT !.status = "extract_failed"]
    BY <2>1 DEF Capture
  <2>2. CASE UNCHANGED capture
    BY <1>5, <2>2
  <2> QED BY <1>1, <1>5, <2>1, <2>2
<1>7. RestOK'
  BY <1>1, <1>6 DEF OutboxInv, RestOK
<1> QED BY <1>3, <1>4, <1>6, <1>7, Assembled

\* A screen keeps the invariant.
LEMMA ScreenInv ==
  ASSUME OutboxInv, NEW s \in Screens, Screen(s)
  PROVE  OutboxInv'
BY VisitInv, EditInv, ExtractionInv, PollUntilQuoteInv, HydrateDraftInv, SettleOutboxInv,
   ScreenFailsInv DEF Screen

-------------------------------------------------------------------------------
(* The user and the device *)

\* Some of the rows get another status, which is not the one of a final failure.
LEMMA RowsRestated ==
  ASSUME OutboxInv, NEW S \in SUBSET Jobs, NEW status \in {"queued", "deleted"},
         \A j \in S : jobs[j].status # "absent",
         jobs' = [j \in Jobs |-> IF j \in S THEN [jobs[j] EXCEPT !.status = status] ELSE jobs[j]]
  PROVE  RowsFit' /\ TriesStay
<1>1. \A j \in Jobs : jobs[j] \in OutboxJob /\ SoundRow(jobs[j])
  BY DEF OutboxInv, RowsFit
<1>2. ASSUME NEW j \in Jobs
      PROVE  /\ jobs'[j] \in OutboxJob /\ SoundRow(jobs'[j])
             /\ jobs[j].status # "absent" => jobs'[j].status # "absent"
             /\ jobs[j].tries = jobs'[j].tries
  <2>1. CASE j \notin S
    BY <1>1, <2>1
  <2>2. CASE j \in S
    <3>1. PICK row \in OutboxJob : row = jobs[j] /\ SoundRow(row) /\ row.status # "absent"
      BY <1>1, <2>2
    <3> DEFINE new == [row EXCEPT !.status = status]
    <3>2. /\ new \in OutboxJob /\ new.status = status /\ new.tries = row.tries
          /\ new.key = row.key /\ new.attempts = row.attempts
      BY DEF OutboxJob
    <3>3. jobs'[j] = new
      BY <2>2, <3>1
    <3> HIDE DEF new
    <3>4. SoundRow(new)
      BY <3>1, <3>2 DEF SoundRow
    <3> QED BY <3>1, <3>2, <3>3, <3>4
  <2> QED BY <2>1, <2>2
<1>3. RowsFit'
  BY <1>2 DEF RowsFit
<1>4. TriesStay
  <2>1. \A j \in Jobs : jobs[j].tries \in Int
    BY <1>1, OutboxRecords DEF OutboxJob
  <2> QED BY <1>2, <2>1 DEF TriesStay
<1> QED BY <1>3, <1>4

\* The user retries a capture: its row is queued, with the attempts it has.
LEMMA RetryCaptureInv ==
  ASSUME OutboxInv, RetryCapture
  PROVE  OutboxInv'
<1>1. UNCHANGED <<capture, client, visit, server, issued, paused>>
  BY DEF RetryCapture
<1>2. PICK j \in JobsForSession : jobs' = [jobs EXCEPT ![j].status = "queued"]
  BY DEF RetryCapture
<1>3. j \in Jobs /\ jobs[j].status # "absent"
  BY SessionJobs
<1>4. jobs' = [i \in Jobs |-> IF i \in {j} THEN [jobs[i] EXCEPT !.status = "queued"]
                              ELSE jobs[i]]
  BY <1>2, <1>3 DEF OutboxInv, RowsFit
<1>5. RowsFit' /\ TriesStay /\ DraftsStay
  <2>1. {j} \in SUBSET Jobs
    BY <1>3
  <2>2. RowsFit' /\ TriesStay
    BY <1>3, <1>4, <2>1, RowsRestated
  <2> QED BY <1>1, <2>2 DEF DraftsStay
<1>6. ClientsFit'
  BY <1>1, <1>5, ClientsStay
<1>7. RestOK'
  BY <1>1 DEF OutboxInv, RestOK
<1> QED BY <1>1, <1>5, <1>6, <1>7, Assembled

\* After a sign-in the jobs that wait for it are queued.
LEMMA ReauthenticateInv ==
  ASSUME OutboxInv, NEW p \in Passes, Reauthenticate(p)
  PROVE  OutboxInv'
<1> DEFINE waiting == {j \in Jobs : jobs[j].status = "failed_retryable" /\ jobs[j].kind = "auth"}
<1>1. /\ UNCHANGED <<capture, client, visit, server, issued>> /\ paused' = paused \ {p}
      /\ jobs' = [j \in Jobs |-> IF j \in waiting
                                 THEN [jobs[j] EXCEPT !.status = "queued"] ELSE jobs[j]]
  BY DEF Reauthenticate
<1>2. waiting \in SUBSET Jobs /\ \A j \in waiting : jobs[j].status # "absent"
  OBVIOUS
<1> HIDE DEF waiting
<1>3. RowsFit' /\ TriesStay /\ DraftsStay
  <2>1. RowsFit' /\ TriesStay
    BY <1>1, <1>2, RowsRestated
  <2> QED BY <1>1, <2>1 DEF DraftsStay
<1>4. ClientsFit'
  BY <1>1, <1>3, ClientsStay
<1>5. RestOK'
  BY <1>1 DEF OutboxInv, RestOK
<1> QED BY <1>1, <1>3, <1>4, <1>5, Assembled

\* The capture is deleted with its jobs.
LEMMA DeleteCaptureInv ==
  ASSUME OutboxInv, DeleteCapture
  PROVE  OutboxInv'
<1>1. /\ UNCHANGED <<client, visit, server, issued, paused>>
      /\ capture' = [capture EXCEPT !.status = "deleted"]
      /\ jobs' = [j \in Jobs |-> IF j \in Stored
                                 THEN [jobs[j] EXCEPT !.status = "deleted"] ELSE jobs[j]]
  BY DEF DeleteCapture
<1>2. Stored \in SUBSET Jobs /\ \A j \in Stored : jobs[j].status # "absent"
  BY DEF Stored
<1>3. RowsFit' /\ TriesStay /\ DraftsStay
  <2>1. RowsFit' /\ TriesStay
    BY <1>1, <1>2, RowsRestated
  <2> QED BY <1>1, <2>1 DEF DraftsStay
<1>4. ClientsFit'
  BY <1>1, <1>3, ClientsStay
<1>5. PICK old \in Capture : old = capture
  BY DEF OutboxInv, RestOK
<1>6. capture' \in Capture /\ capture'.status # "synced"
  BY <1>1, <1>5, CaptureRecords
<1>7. RestOK'
  BY <1>1, <1>6 DEF OutboxInv, RestOK
<1> QED BY <1>3, <1>4, <1>6, <1>7, Assembled

\* A tab closes: what it was at is forgotten.
LEMMA CloseTabInv ==
  ASSUME OutboxInv, NEW c \in Clients, CloseTab(c)
  PROVE  OutboxInv'
<1>1. /\ UNCHANGED <<capture, jobs, server, issued>> /\ Finish(c) /\ paused' = paused \ {c}
      /\ visit' = [s \in Screens |-> IF s = c THEN [visit[s] EXCEPT !.at = "away"] ELSE visit[s]]
  BY DEF CloseTab
<1>2. RowsFit' /\ TriesStay /\ DraftsStay
  BY <1>1, RowsUnchanged DEF DraftsStay
<1>3. ClientsFit'
  BY <1>1, <1>2, ClientFinished
<1>4. visit' \in [Screens -> Visit]
  BY <1>1 DEF OutboxInv, RestOK, Visit
<1>5. RestOK'
  BY <1>1, <1>4 DEF OutboxInv, RestOK
<1> QED BY <1>1, <1>2, <1>3, <1>5, Assembled

-------------------------------------------------------------------------------
(* The theorems about CaptureOutbox *)

\* The invariant holds before the capture is taken up.
THEOREM OutboxInitInv == Init => OutboxInv
<1> SUFFICES ASSUME Init PROVE OutboxInv
  OBVIOUS
<1> USE OutboxRecords DEF Init
<1>1. RestOK
  BY DEF RestOK, Capture, Visit, Endpoint!Init, Endpoint!Free, Endpoint!Submission
<1>2. RowsFit
  BY DEF RowsFit, SoundRow
<1>3. ClientsFit
  BY DEF ClientsFit, Keyed, Backed, Clients
<1>4. SyncedMeansDraft
  BY DEF SyncedMeansDraft
<1> QED BY <1>1, <1>2, <1>3, <1>4 DEF OutboxInv

\* Every step of the device, the endpoint and the worker keeps it.
THEOREM OutboxNextInv == OutboxInv /\ [Next]_vars => OutboxInv'
<1> SUFFICES ASSUME OutboxInv, [Next]_vars PROVE OutboxInv'
  OBVIOUS
<1>1. CASE \E p \in Passes : Pass(p) \/ Reauthenticate(p)
  BY <1>1, PassInv, ReauthenticateInv
<1>2. CASE \E s \in Screens : Screen(s)
  BY <1>2, ScreenInv
<1>3. CASE \E c \in Clients : Send(c) \/ NoAnswer(c) \/ PollRefused(c) \/ CloseTab(c)
  BY <1>3, SendInv, FailureInv, CloseTabInv
<1>4. CASE \E k \in Keys : Accept(k) \/ Refuse(k) \/ Extract(k)
  BY <1>4, ServerInv
<1>5. CASE RetryCapture \/ DeleteCapture
  BY <1>5, RetryCaptureInv, DeleteCaptureInv
<1>6. CASE UNCHANGED vars
  BY <1>6 DEF vars, OutboxInv, RestOK, RowsFit, ClientsFit, Backed, SyncedMeansDraft, Drafted
<1> QED BY <1>1, <1>2, <1>3, <1>4, <1>5, <1>6 DEF Next

\* The invariant holds in every reachable state.
THEOREM OutboxInvariance == Spec => []OutboxInv
BY OutboxInitInv, OutboxNextInv, PTL DEF Spec

\* A capture is synced only with a draft on the server, and a failure that could
\* be retried becomes final only after MaxAttempts passes took the job: for every
\* number of passes and screens, keys, jobs, attempts and edits.
THEOREM EndsEarned == Spec => []EndsAreEarned
<1>1. OutboxInv => EndsAreEarned
  BY DEF OutboxInv, RestOK, RowsFit, ClientsFit, SoundRow, EndsAreEarned, TypeOK,
         GivesUpOnlyWhenSpent
<1> QED BY <1>1, OutboxInvariance, PTL

\* What the device sees of the server are runs of SubmissionPromise: no pass and
\* no screen moves a key but by a request.
THEOREM OutboxImplements == Spec => Endpoint!Spec
<1>1. Init => Endpoint!Init
  BY DEF Init
<1>2. OutboxInv /\ [Next]_vars => [Endpoint!Next]_server
  <2> SUFFICES ASSUME OutboxInv, [Next]_vars PROVE Endpoint!Next \/ UNCHANGED server
    OBVIOUS
  <2>1. ASSUME NEW c \in Clients, Send(c) PROVE Endpoint!Next \/ UNCHANGED server
    <3>1. client[c].key \in Keys /\ capture.content \in 0 .. MaxEdits
      BY <2>1 DEF Send, OutboxInv, RestOK, Capture, ClientsFit, Keyed
    <3> QED BY <2>1, <3>1 DEF Send, Endpoint!Next
  <2>2. CASE \E k \in Keys : Accept(k) \/ Refuse(k) \/ Extract(k)
    BY <2>2 DEF Accept, Refuse, Extract, Endpoint!Next
  <2>3. ASSUME NEW p \in Passes, Pass(p) \/ Reauthenticate(p) PROVE UNCHANGED server
    BY <2>3 DEF Pass, StartPass, PassAborts, ProcessJob, PollForPersistedQuote, MarkSuccess,
         MarkFailure, MarkCapture, Reauthenticate
  <2>4. ASSUME NEW s \in Screens, Screen(s) PROVE UNCHANGED server
    BY <2>4 DEF Screen, Open, Leave, Edit, ExtractOnline, ExtractOffline, PollUntilQuote,
         HydrateDraft, SettleOutbox, ScreenFails
  <2>5. ASSUME NEW c \in Clients, NoAnswer(c) \/ PollRefused(c) \/ CloseTab(c)
        PROVE  UNCHANGED server
    BY <2>5 DEF NoAnswer, PollRefused, CloseTab
  <2>6. CASE RetryCapture \/ DeleteCapture \/ UNCHANGED vars
    BY <2>6 DEF RetryCapture, DeleteCapture, vars
  <2> QED BY <2>1, <2>2, <2>3, <2>4, <2>5, <2>6 DEF Next
<1> QED BY <1>1, <1>2, OutboxInvariance, PTL DEF Spec, Endpoint!Spec
===============================================================================
