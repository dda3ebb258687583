----------------------------- MODULE EmailDelivery ----------------------------
(***************************************************************************)
(* Emails about one document: the send-email requests that prepare them,   *)
(* the email jobs that deliver them, the provider, the customer's address  *)
(* and the public link.  Quotes and invoices have an endpoint and a service *)
(* each, which take the same steps; the share is the quote's (the invoice's *)
(* loads the row again).                                                    *)
(*                                                                         *)
(* Every request carries a key of its own (replays: IdempotentSubmit) and  *)
(* makes a job of its own; the steps of the job's row, here one for each   *)
(* outcome, are those of JobLifecycle.  Time is counted in ticks.          *)
(***************************************************************************)
EXTENDS Naturals

CONSTANTS
  Requests,
  MaxTries,   \* DEFAULT_MAX_TRIES
  Window,     \* quote_email_duplicate_send_window_seconds, in ticks
  MaxTime     \* bound: ticks

ASSUME EmailAssumption ==
  /\ MaxTries \in Nat \ {0}
  /\ Window \in Nat
  /\ MaxTime \in Nat

VARIABLES
  clock,
  doc,       \* the committed document and the customer's address
  request,   \* progress of each send-email request
  job,       \* the email job of each request
  delivery,  \* the running _deliver_email of each job
  events,    \* created_at of the persisted email_sent events
  fallback,  \* _EMAIL_SENT_FALLBACK_TIMESTAMPS of each process
  mail       \* what the provider took from each try, and what became of it

vars == <<clock, doc, request, job, delivery, events, fallback, mail>>

-------------------------------------------------------------------------------
(* Types *)

Times == 0 .. MaxTime
Never == MaxTime + 1
Tries == 1 .. MaxTries

\* reachable: a customer is assigned, with an address that validates.  link is
\* the share token and whether it is revoked.
Doc == [draft : BOOLEAN, reachable : BOOLEAN, link : {"none", "live", "revoked"}]

NewDoc == [draft |-> TRUE, reachable |-> TRUE, link |-> "none"]

\* seen is the row the session has loaded; revoked is auxiliary: the owner has
\* revoked a link since.
Request == [pc : {"idle", "checked", "shared", "done"}, seen : Doc,
            admitted : Times \cup {Never}, revoked : BOOLEAN]

NoRequest == [pc |-> "idle", seen |-> NewDoc, admitted |-> Never, revoked |-> FALSE]

\* queued: ARQ will deliver the job again.  interrupted is auxiliary: a try was
\* cut off, or its result could not be stored.
Job == [status : {"none", "pending", "running", "failed", "success", "terminal"},
        tries : 0 .. MaxTries, queued : BOOLEAN, interrupted : BOOLEAN]

NoJob == [status |-> "none", tries |-> 0, queued |-> FALSE, interrupted |-> FALSE]

\* Whether the link a try has loaded is dead, and the start of its transaction.
Delivery == [pc : {"idle", "sending", "recording", "finishing"},
             dead : BOOLEAN, at : Times]

NoDelivery == [pc |-> "idle", dead |-> FALSE, at |-> 0]

\* answered: the worker learned that the provider took it.  at, recorded: the
\* date of its event, and when that was stored.
NoMail == [sent |-> FALSE, answered |-> FALSE, dead |-> FALSE,
           at |-> Never, recorded |-> Never]

Mail == [sent : BOOLEAN, answered : BOOLEAN, dead : BOOLEAN,
         at : Times \cup {Never}, recorded : Times \cup {Never}]

Processes == {"api", "worker"}

TypeOK ==
  /\ clock \in Times
  /\ doc \in Doc
  /\ request \in [Requests -> Request]
  /\ job \in [Requests -> Job]
  /\ delivery \in [Requests -> Delivery]
  /\ events \subseteq Times
  /\ fallback \in [Processes -> Times \cup {Never}]
  /\ mail \in [Requests -> [Tries -> Mail]]

-------------------------------------------------------------------------------
(* The duplicate-send guard *)

\* Mutation: the cutoff itself does not count.
RecentStrictly(t) == t # Never /\ t + Window > clock

\* Within the window; the cutoff itself counts.
Recent(t) == t # Never /\ t + Window >= clock

\* _enforce_duplicate_send_guard, in the process of the API.
SentRecently == (\E t \in events : Recent(t)) \/ Recent(fallback["api"])

-------------------------------------------------------------------------------
(* The request *)

\* ensure_quote_customer_assigned, _load_context: the checks before the share.
Refused == ~doc.reachable \/ doc.draft \/ SentRecently

\* The quote is loaded and stays in the session, so the share will decide on
\* this row.
Prepare(r) ==
  /\ request[r].pc = "idle"
  /\ ~Refused
  /\ request' = [request EXCEPT ![r] = [pc |-> "checked", seen |-> doc,
                                        admitted |-> clock, revoked |-> FALSE]]
  /\ UNCHANGED <<clock, doc, job, delivery, events, fallback, mail>>

\* A check refuses the request: 409, 422 or 429.
Refuse(r) ==
  /\ request[r].pc = "idle"
  /\ Refused
  /\ request' = [request EXCEPT ![r].pc = "done"]
  /\ UNCHANGED <<clock, doc, job, delivery, events, fallback, mail>>

\* Mutation: a revoked link is taken for a usable one.
NeedsTokenIfMissing(d) == d.link = "none"

\* should_refresh_token.  (Expiry and regeneration: QuoteLifecycle.)
NeedsToken(d) == d.link # "live"

\* share_quote writes the columns that differ from the loaded row: the time of
\* revocation is cleared only if it was set there.
Share(r) ==
  LET seen == request[r].seen
  IN  /\ request[r].pc = "checked"
      /\ doc' = IF NeedsToken(seen) /\ (seen.link = "revoked" \/ doc.link = "none")
                THEN [doc EXCEPT !.link = "live"] ELSE doc
      /\ request' = [request EXCEPT ![r].pc = "shared", ![r].seen = NewDoc]
      /\ UNCHANGED <<clock, job, delivery, events, fallback, mail>>

\* The job is created, enqueued and committed; or the queue refuses it, and its
\* row is committed terminal.
Enqueue(r) ==
  /\ request[r].pc = "shared"
  /\ request' = [request EXCEPT ![r].pc = "done"]
  /\ \/ job' = [job EXCEPT ![r].status = "pending", ![r].queued = TRUE]
     \/ job' = [job EXCEPT ![r].status = "terminal"]
  /\ UNCHANGED <<clock, doc, delivery, events, fallback, mail>>

\* The request fails on the way or its process stops; a share stays.
Abandon(r) ==
  /\ request[r].pc \in {"checked", "shared"}
  /\ request' = [request EXCEPT ![r].pc = "done", ![r].seen = NewDoc]
  /\ UNCHANGED <<clock, doc, job, delivery, events, fallback, mail>>

-------------------------------------------------------------------------------
(* The delivery *)

Settle(r, status) ==
  /\ job' = [job EXCEPT ![r].status = status, ![r].queued = FALSE]
  /\ delivery' = [delivery EXCEPT ![r] = NoDelivery]

\* ARQ hands the job to the worker, within max_tries.
Deliverable(r) ==
  /\ job[r].queued
  /\ delivery[r].pc = "idle"
  /\ job[r].tries < MaxTries

\* Mutation: a try that was cut off is run again.
StartableAnyTime == {"pending", "failed", "running"}

\* set_running is allowed from these.
Startable == {"pending", "failed"}

\* set_running, then the context is loaded: the duplicate-send guard, the draft
\* check and the state of the link are not looked at again.
Start(r) ==
  /\ Deliverable(r)
  /\ job[r].status \in Startable
  /\ doc.reachable /\ doc.link # "none"
  /\ job' = [job EXCEPT ![r].status = "running", ![r].tries = @ + 1]
  /\ delivery' = [delivery EXCEPT ![r] = [pc |-> "sending", at |-> clock,
                                          dead |-> doc.link = "revoked"]]
  /\ UNCHANGED <<clock, doc, request, events, fallback, mail>>

\* No valid address or no link: NonRetryableJobError.
Unsendable(r) ==
  /\ Deliverable(r)
  /\ job[r].status \in Startable
  /\ ~(doc.reachable /\ doc.link # "none")
  /\ job' = [job EXCEPT ![r].status = "terminal", ![r].tries = @ + 1, ![r].queued = FALSE]
  /\ UNCHANGED <<clock, doc, request, delivery, events, fallback, mail>>

\* The row is still running from a try that was cut off: the table refuses
\* set_running, and the job ends terminal.
Redelivered(r) ==
  /\ Deliverable(r)
  /\ job[r].status \notin Startable
  /\ job' = [job EXCEPT ![r].status = "terminal", ![r].tries = @ + 1, ![r].queued = FALSE]
  /\ UNCHANGED <<clock, doc, request, delivery, events, fallback, mail>>

\* Out of tries: ARQ drops the job and its row stays.
GiveUp(r) ==
  /\ job[r].queued
  /\ delivery[r].pc = "idle"
  /\ job[r].tries = MaxTries
  /\ job' = [job EXCEPT ![r].queued = FALSE]
  /\ UNCHANGED <<clock, doc, request, delivery, events, fallback, mail>>

\* EmailSendError or EmailConfigurationError, 502 or 503: a retry while tries last.
RetryOrEnd(r) ==
  IF job[r].tries < MaxTries
  THEN /\ job' = [job EXCEPT ![r].status = "failed"]
       /\ delivery' = [delivery EXCEPT ![r] = NoDelivery]
  ELSE Settle(r, "terminal")

Taken(r, answered) ==
  mail' = [mail EXCEPT ![r][job[r].tries] =
             [NoMail EXCEPT !.sent = TRUE, !.answered = answered,
                            !.dead = delivery[r].dead]]

\* The provider takes the message and says so.
Accept(r) ==
  /\ delivery[r].pc = "sending"
  /\ Taken(r, TRUE)
  /\ delivery' = [delivery EXCEPT ![r].pc = "recording"]
  /\ UNCHANGED <<clock, doc, request, job, events, fallback>>

\* Mutation: the provider's refusal is not raised.
RejectIgnored(r) ==
  /\ delivery[r].pc = "sending"
  /\ delivery' = [delivery EXCEPT ![r].pc = "finishing"]
  /\ UNCHANGED <<clock, doc, request, job, events, fallback, mail>>

\* The provider refuses, or is not reached.
Reject(r) ==
  /\ delivery[r].pc = "sending"
  /\ RetryOrEnd(r)
  /\ UNCHANGED <<clock, doc, request, events, fallback, mail>>

\* The provider takes the message, and the answer does not arrive in time.
ReplyLost(r) ==
  /\ delivery[r].pc = "sending"
  /\ Taken(r, FALSE)
  /\ RetryOrEnd(r)
  /\ UNCHANGED <<clock, doc, request, events, fallback>>

\* The email_sent event commits, dated by the start of its transaction.
Record(r) ==
  /\ delivery[r].pc = "recording"
  /\ events' = events \cup {delivery[r].at}
  /\ mail' = [mail EXCEPT ![r][job[r].tries].at = delivery[r].at,
                       ![r][job[r].tries].recorded = clock]
  /\ delivery' = [delivery EXCEPT ![r].pc = "finishing"]
  /\ UNCHANGED <<clock, doc, request, job, fallback>>

\* The event cannot be stored: rollback, and the time is kept in this process,
\* where the guard of the API does not look.
RecordFails(r) ==
  /\ delivery[r].pc = "recording"
  /\ fallback' = [fallback EXCEPT !["worker"] = clock]
  /\ delivery' = [delivery EXCEPT ![r].pc = "finishing"]
  /\ UNCHANGED <<clock, doc, request, job, events, mail>>

\* set_success; a database that fails leads to set_terminal.
Finish(r) ==
  /\ delivery[r].pc = "finishing"
  /\ Settle(r, "success")
  /\ UNCHANGED <<clock, doc, request, events, fallback, mail>>

FinishFails(r) ==
  /\ delivery[r].pc = "finishing"
  /\ job' = [job EXCEPT ![r].status = "terminal", ![r].queued = FALSE,
                        ![r].interrupted = TRUE]
  /\ delivery' = [delivery EXCEPT ![r] = NoDelivery]
  /\ UNCHANGED <<clock, doc, request, events, fallback, mail>>

\* ARQ's job_timeout: the coroutine is cancelled and the job not tried again.
JobTimeout(r) ==
  /\ delivery[r].pc # "idle"
  /\ job' = [job EXCEPT ![r].queued = FALSE, ![r].interrupted = TRUE]
  /\ delivery' = [delivery EXCEPT ![r] = NoDelivery]
  /\ UNCHANGED <<clock, doc, request, events, fallback, mail>>

\* The worker process dies, with every delivery and what it kept in memory.
WorkerCrash ==
  LET running == {r \in Requests : delivery[r].pc # "idle"}
  IN  /\ running # {}
      /\ job' = [r \in Requests |-> IF r \in running
                                     THEN [job[r] EXCEPT !.interrupted = TRUE]
                                     ELSE job[r]]
      /\ delivery' = [r \in Requests |-> NoDelivery]
      /\ fallback' = [fallback EXCEPT !["worker"] = Never]
      /\ UNCHANGED <<clock, doc, request, events, mail>>

-------------------------------------------------------------------------------
(* The owner and time *)

\* A first render makes the draft ready.
Render ==
  /\ doc.draft
  /\ doc' = [doc EXCEPT !.draft = FALSE]
  /\ UNCHANGED <<clock, request, job, delivery, events, fallback, mail>>

\* The customer's address is changed: to one that validates, or to one that
\* does not.
EditContact ==
  /\ doc' = [doc EXCEPT !.reachable = ~@]
  /\ UNCHANGED <<clock, request, job, delivery, events, fallback, mail>>

\* revoke_public_share
Revoke ==
  /\ doc.link = "live"
  /\ doc' = [doc EXCEPT !.link = "revoked"]
  /\ request' = [r \in Requests |-> [request[r] EXCEPT !.revoked = request[r].pc # "idle"]]
  /\ UNCHANGED <<clock, job, delivery, events, fallback, mail>>

Tick ==
  /\ clock < MaxTime
  /\ clock' = clock + 1
  /\ UNCHANGED <<doc, request, job, delivery, events, fallback, mail>>

-------------------------------------------------------------------------------
Init ==
  /\ clock = 0
  /\ doc = NewDoc
  /\ request = [r \in Requests |-> NoRequest]
  /\ job = [r \in Requests |-> NoJob]
  /\ delivery = [r \in Requests |-> NoDelivery]
  /\ events = {}
  /\ fallback = [p \in Processes |-> Never]
  /\ mail = [r \in Requests |-> [n \in Tries |-> NoMail]]

SendEmail(r) == Prepare(r) \/ Refuse(r) \/ Share(r) \/ Enqueue(r) \/ Abandon(r)

Deliver(r) == \/ Start(r) \/ Unsendable(r) \/ Redelivered(r) \/ GiveUp(r)
              \/ Accept(r) \/ Reject(r) \/ ReplyLost(r) \/ Record(r) \/ RecordFails(r)
              \/ Finish(r) \/ FinishFails(r) \/ JobTimeout(r)

Next ==
  \/ \E r \in Requests : SendEmail(r) \/ Deliver(r)
  \/ WorkerCrash \/ Render \/ EditContact \/ Revoke \/ Tick

Spec == Init /\ [][Next]_vars

-------------------------------------------------------------------------------
(* Properties *)

Sent(r) == {n \in Tries : mail[r][n].sent}

\* An email whose event was stored keeps later requests out for the whole
\* window, whatever happened to its job afterwards: a request was admitted
\* before the event was stored, or after the window.
ThrottleHolds ==
  \A r, s \in Requests : \A n \in Sent(r) :
    (mail[r][n].recorded # Never /\ request[s].admitted # Never)
      => \/ request[s].admitted <= mail[r][n].recorded
         \/ request[s].admitted > mail[r][n].at + Window

\* A job sends a second email only when it never learned that the provider had
\* taken the first: neither a lost event nor a worker that dies and gets the
\* job again makes a duplicate.
ResendsOnlyUnanswered ==
  \A r \in Requests : \A n, m \in Sent(r) : n < m => ~mail[r][n].answered

\* The row the client polls tells the truth: success means that the provider
\* took the email, terminal that nothing was sent as far as the worker could
\* know, unless the try was cut off after the answer.
OutcomeIsTruthful ==
  \A r \in Requests :
    /\ job[r].status = "success" => \E n \in Sent(r) : mail[r][n].answered
    /\ job[r].status = "terminal" /\ ~job[r].interrupted
         => \A n \in Sent(r) : ~mail[r][n].answered

\* A request whose link was revoked gets a fresh one before its email goes out:
\* an email with a dead link means that the owner revoked it after the request.
LinkIsFresh ==
  \A r \in Requests : \A n \in Sent(r) : mail[r][n].dead => request[r].revoked
===============================================================================
