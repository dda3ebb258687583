-------------------------- MODULE SubmissionPromise --------------------------
(***************************************************************************)
(* What the extraction endpoint promises a client about an idempotency     *)
(* key.  A key is reserved for one content and stays so until its request  *)
(* fails, which frees it, or commits its job, which is for ever: no second *)
(* job and no other content comes under the key.  The worker then ends the *)
(* job, with a draft ("done") or for good ("dead").                        *)
(*                                                                         *)
(* IdempotentSubmit implements it over the shared store; CaptureOutbox is  *)
(* built on it.                                                            *)
(***************************************************************************)

CONSTANTS
  Keys,
  Contents,
  NoContent  \* what is under a key that is free

VARIABLE server  \* what the server has under each key

Free == [state |-> "free", content |-> NoContent]

Submission ==
  {Free} \cup [state : {"reserved", "pending", "done", "dead"}, content : Contents]

Reserve(k, content) ==
  /\ server[k] = Free
  /\ server' = [server EXCEPT ![k] = [state |-> "reserved", content |-> content]]

\* The request that holds the key fails, and gives the key back.
Refuse(k) ==
  /\ server[k].state = "reserved"
  /\ server' = [server EXCEPT ![k] = Free]

\* The request that holds the key commits its job.
Accept(k) ==
  /\ server[k].state = "reserved"
  /\ server' = [server EXCEPT ![k].state = "pending"]

\* The worker finishes the job, with a draft or for good.
Extract(k) ==
  /\ server[k].state = "pending"
  /\ \E state \in {"done", "dead"} : server' = [server EXCEPT ![k].state = state]

Init == server = [k \in Keys |-> Free]

Next ==
  \E k \in Keys : \/ \E content \in Contents : Reserve(k, content)
                  \/ Refuse(k) \/ Accept(k) \/ Extract(k)

Spec == Init /\ [][Next]_server
===============================================================================
