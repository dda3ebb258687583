--------------------------- MODULE ExtractionCalls ---------------------------
(***************************************************************************)
(* One user's calls to the extraction provider: the guard of the endpoints *)
(* that extract inside the request (a concurrency slot, then daily quota), *)
(* the provider tiers with their retries and their one repair, and what    *)
(* each caller makes of the outcome.                                       *)
(*                                                                         *)
(* Three callers use the tiers.  POST /quotes/convert-notes ("notes") runs *)
(* in the request; POST /quotes/extract runs in the request ("capture")    *)
(* when the process has no queue, and as tries of a job ("job") otherwise. *)
(* Only the first two are guarded; the cap on active jobs, the job's row   *)
(* and its redelivery are in JobLifecycle.                                 *)
(*                                                                         *)
(* A refusal for want of a slot changes nothing and is not an action.  A    *)
(* blank text in a repaired answer, whose error escapes the tiers, is in   *)
(* DraftContent.                                                           *)
(***************************************************************************)
EXTENDS Naturals, FiniteSets

CONSTANTS
  Clients,
  Limit,        \* extraction_concurrency_limit
  DailyQuota,   \* extraction_daily_quota
  Tiers,        \* 2 when a fallback model is configured, else 1
  MaxAttempts,  \* provider_max_retries: requests to the provider in one call
  MaxTries,     \* DEFAULT_MAX_TRIES of a job
  MaxStarts,    \* bound: calls of the clients
  MaxOverruns,  \* bound: leases that outlive their key
  MaxCrashes,   \* bound: crashes of the API process
  MaxOutages    \* bound: outages of Redis

ASSUME ExtractionAssumption ==
  /\ IsFiniteSet(Clients)
  /\ {Limit, DailyQuota, Tiers, MaxAttempts, MaxTries} \subseteq Nat \ {0}
  /\ {MaxStarts, MaxOverruns, MaxCrashes, MaxOutages} \subseteq Nat

VARIABLES
  api,      \* where the API process keeps its limits, or "down"
  redisUp,  \* whether Redis answers the API process
  slots,    \* the concurrency counter of the user's key in each store
  used,     \* the daily counter of the user's key in each store
  req,      \* the call each client has under way
  overruns, \* auxiliary: leases of this process that outlived their key
  work,     \* auxiliary: guarded calls that reached the provider today
  bounds    \* auxiliary: how often each bounded event has happened

vars == <<api, redisUp, slots, used, req, overruns, work, bounds>>

-------------------------------------------------------------------------------
(* Types *)

Stores == {"redis", "memory"}

\* What the provider does with one request: it fails, for a reason that is worth
\* a retry or not; or it answers with a usable payload, with no line items for a
\* long transcript, with a payload the schema rejects, or with no tool output.
Failures == {"retryable", "permanent"}
Answers == {"items", "sparse", "invalid", "no_tool"}

Results == {"none", "primary", "degraded_semantic", "degraded_repair",
            "degraded_provider", "retry", "failed"}

Metadata == [tier : 0 .. Tiers,
             repair : {"none", "not_attempted", "request_failed", "invalid", "succeeded"}]

\* tries counts the requests of the call to the provider under way.  late and
\* last are auxiliary: the key of the lease has expired since; how the last tier
\* asked ended.
Request == [kind : {"none", "notes", "capture", "job"},
            pc : {"idle", "admitted", "transcribing", "calling", "storing",
                  "releasing", "settling"},
            try : 0 .. MaxTries, tier : 1 .. Tiers, phase : {"first", "repair"},
            tries : 1 .. MaxAttempts, meta : Metadata, result : Results,
            late : BOOLEAN, last : {"none"} \cup Failures \cup Answers]

Idle == [kind |-> "none", pc |-> "idle", try |-> 0, tier |-> 1, phase |-> "first",
         tries |-> 1, meta |-> [tier |-> 0, repair |-> "none"], result |-> "none",
         late |-> FALSE, last |-> "none"]

\* ExtractionIntegration.extract begins: the metadata names the first tier.
Calling(r) == [r EXCEPT !.pc = "calling", !.tier = 1, !.phase = "first", !.tries = 1,
                        !.meta = [tier |-> 1, repair |-> "none"]]

\* What is left of a guarded call is its lease.
Leaving(r) == [Idle EXCEPT !.kind = r.kind, !.pc = "releasing", !.late = r.late]

Holders == {c \in Clients : req[c].kind \in {"notes", "capture"}}

Fresh == {c \in Holders : ~req[c].late}

TypeOK ==
  /\ api \in Stores \cup {"down"}
  /\ redisUp \in BOOLEAN
  /\ slots \in [Stores -> 0 .. Limit]
  /\ used \in [Stores -> 0 .. DailyQuota]
  /\ req \in [Clients -> Request]
  /\ overruns \in 0 .. MaxOverruns
  /\ work \in [Stores -> Nat]
  /\ bounds \in [starts : 0 .. MaxStarts, crashes : 0 .. MaxCrashes,
                 outages : 0 .. MaxOutages]

Init ==
  /\ api = "down"
  /\ redisUp = TRUE
  /\ slots = [s \in Stores |-> 0]
  /\ used = [s \in Stores |-> 0]
  /\ req = [c \in Clients |-> Idle]
  /\ overruns = 0
  /\ work = [s \in Stores |-> 0]
  /\ bounds = [starts |-> 0, crashes |-> 0, outages |-> 0]

-------------------------------------------------------------------------------
(* The process and its Redis *)

\* The lifespan probes Redis once; a deployment that may not degrade stays down.
Startup ==
  /\ api = "down"
  /\ api' = IF redisUp THEN "redis" ELSE "memory"
  /\ UNCHANGED <<redisUp, slots, used, req, overruns, work, bounds>>

\* The requests of the process and its own counters go with it; the keys in
\* Redis stay, and so do the jobs, which run in the worker.
Crash ==
  /\ api # "down"
  /\ bounds.crashes < MaxCrashes
  /\ api' = "down"
  /\ slots' = [slots EXCEPT !["memory"] = 0]
  /\ used' = [used EXCEPT !["memory"] = 0]
  /\ work' = [work EXCEPT !["memory"] = 0]
  /\ req' = [c \in Clients |-> IF req[c].kind = "job" THEN req[c] ELSE Idle]
  /\ overruns' = 0
  /\ bounds' = [bounds EXCEPT !.crashes = @ + 1]
  /\ UNCHANGED redisUp

RedisFails ==
  /\ redisUp
  /\ bounds.outages < MaxOutages
  /\ redisUp' = FALSE
  /\ bounds' = [bounds EXCEPT !.outages = @ + 1]
  /\ UNCHANGED <<api, slots, used, req, overruns, work>>

RedisReturns ==
  /\ ~redisUp
  /\ redisUp' = TRUE
  /\ UNCHANGED <<api, slots, used, req, overruns, work, bounds>>

\* The store of the process answers; or it fails, having done its work or not.
StoreAnswers == api = "memory" \/ redisUp
StoreFails == api = "redis" /\ ~redisUp

\* Mutant: the key has no time to live.
NeverExpires(s) == FALSE /\ UNCHANGED vars

\* The time to live of the key has passed since the last acquire.
KeyExpires(s) ==
  LET outlived == IF s = api THEN Fresh ELSE {} IN
  /\ slots[s] > 0
  /\ overruns + Cardinality(outlived) <= MaxOverruns
  /\ slots' = [slots EXCEPT ![s] = 0]
  /\ req' = [c \in Clients |->
              IF c \in outlived THEN [req[c] EXCEPT !.late = TRUE] ELSE req[c]]
  /\ overruns' = overruns + Cardinality(outlived)
  /\ UNCHANGED <<api, redisUp, used, work, bounds>>

\* Both stores let the daily counter lapse at midnight UTC.
Midnight ==
  /\ \E s \in Stores : used[s] > 0
  /\ used' = [s \in Stores |-> 0]
  /\ work' = [s \in Stores |-> 0]
  /\ UNCHANGED <<api, redisUp, slots, req, overruns, bounds>>

-------------------------------------------------------------------------------
(* The guard *)

\* Bound: a job shares no state with the other calls, and is modelled alone.
Starts(c) ==
  /\ req[c].pc = "idle"
  /\ \A d \in Clients : req[d].kind # "job"
  /\ bounds.starts < MaxStarts
  /\ bounds' = [bounds EXCEPT !.starts = @ + 1]

\* The scripts of the two stores.
TakeSlot == slots' = [slots EXCEPT ![api] = @ + 1]
FreeSlot == slots' = [slots EXCEPT ![api] = IF @ <= 1 THEN 0 ELSE @ - 1]

\* A process with a queue answers POST /quotes/extract with a job.
Acquire(c, kind) ==
  /\ Starts(c)
  /\ api # "down"
  /\ kind = "notes" \/ api = "memory"
  /\ slots[api] < Limit
  /\ StoreAnswers
  /\ TakeSlot
  /\ req' = [req EXCEPT ![c] = [Idle EXCEPT !.kind = kind, !.pc = "admitted"]]
  /\ UNCHANGED <<api, redisUp, used, overruns, work>>

\* The reply to the script is lost: the request fails, its slot is taken.
AcquireFails(c) ==
  /\ Starts(c)
  /\ StoreFails
  /\ slots[api] < Limit
  /\ TakeSlot
  /\ UNCHANGED <<api, redisUp, used, req, overruns, work>>

\* Audio is transcribed before the tiers are asked, in a capture with clips.
Reserve(c, clips) ==
  /\ req[c].pc = "admitted"
  /\ clips => req[c].kind = "capture"
  /\ used[api] < DailyQuota
  /\ StoreAnswers
  /\ used' = [used EXCEPT ![api] = @ + 1]
  /\ work' = [work EXCEPT ![api] = @ + 1]
  /\ req' = [req EXCEPT ![c] = IF clips THEN [@ EXCEPT !.pc = "transcribing"] ELSE Calling(@)]
  /\ UNCHANGED <<api, redisUp, slots, overruns, bounds>>

\* Mutant: the refusal leaves the guard without releasing the lease.
ReserveRefusedKeeping(c) ==
  /\ req[c].pc = "admitted"
  /\ used[api] >= DailyQuota
  /\ StoreAnswers
  /\ req' = [req EXCEPT ![c] = Idle]
  /\ UNCHANGED <<api, redisUp, slots, used, overruns, work, bounds>>

ReserveRefused(c) ==
  /\ req[c].pc = "admitted"
  /\ used[api] >= DailyQuota
  /\ StoreAnswers
  /\ req' = [req EXCEPT ![c] = Leaving(@)]
  /\ UNCHANGED <<api, redisUp, slots, used, overruns, work, bounds>>

\* The exception leaves the guard before the try that releases the lease.
ReserveFails(c) ==
  /\ req[c].pc = "admitted"
  /\ StoreFails
  /\ used' \in {used} \cup {[used EXCEPT ![api] = @ + 1]}
  /\ used'[api] <= DailyQuota
  /\ req' = [req EXCEPT ![c] = Idle]
  /\ UNCHANGED <<api, redisUp, slots, overruns, work, bounds>>

Release(c) ==
  /\ req[c].pc = "releasing"
  /\ \/ StoreAnswers /\ FreeSlot
     \/ StoreFails /\ UNCHANGED slots
     \/ StoreFails /\ FreeSlot
  /\ req' = [req EXCEPT ![c] = Idle]
  /\ UNCHANGED <<api, redisUp, used, overruns, work, bounds>>

-------------------------------------------------------------------------------
(* The tiers *)

\* What a caller makes of the outcome of the tiers: a job stores a sentinel
\* draft on its last try, a capture always has its last try, notes never do.
AfterTiers(r, result) ==
  CASE r.kind = "job" -> [r EXCEPT !.result = result, !.pc = "settling"]
    [] r.kind = "capture" /\ result # "failed" -> [r EXCEPT !.result = result, !.pc = "storing"]
    [] OTHER -> Leaving(r)

IsFinal(r) == r.kind = "capture" \/ (r.kind = "job" /\ r.try = MaxTries)

\* should_persist_degraded_retryable_error, is_retryable_extraction_error
Raised(r, error) ==
  AfterTiers(r, CASE error = "retryable" /\ IsFinal(r) -> "degraded_provider"
                  [] error = "retryable" /\ r.kind = "job" /\ ~IsFinal(r) -> "retry"
                  [] OTHER -> "failed")

\* Mutant: only an error worth a retry goes on to the fallback.
TierFailsForGood(r, error) ==
  IF r.tier < Tiers /\ error = "retryable"
  THEN [r EXCEPT !.tier = @ + 1, !.phase = "first", !.tries = 1,
                 !.meta = [tier |-> r.tier + 1, repair |-> "none"]]
  ELSE Raised([r EXCEPT !.last = error], error)

\* The tier raised an ExtractionError; the error of the last one decides.
TierFails(r, error) ==
  IF r.tier < Tiers
  THEN [r EXCEPT !.tier = @ + 1, !.phase = "first", !.tries = 1,
                 !.meta = [tier |-> r.tier + 1, repair |-> "none"]]
  ELSE Raised([r EXCEPT !.last = error], error)

\* _request_with_retry; a repair that cannot be requested fails its tier.
RequestFails(r, error) ==
  IF error = "retryable" /\ r.tries < MaxAttempts
  THEN [r EXCEPT !.tries = @ + 1]
  ELSE TierFails(IF r.phase = "repair" THEN [r EXCEPT !.meta.repair = "request_failed"] ELSE r,
                 error)

FirstAnswer(r, answer) ==
  LET answered == [r EXCEPT !.meta.repair = "not_attempted"] IN
  CASE answer = "no_tool" -> TierFails(answered, "permanent")
    [] answer = "invalid" -> [answered EXCEPT !.phase = "repair", !.tries = 1]
    [] answer = "items" -> AfterTiers([answered EXCEPT !.last = answer], "primary")
    [] answer = "sparse" ->
         AfterTiers([answered EXCEPT !.last = answer], "degraded_semantic")

\* The metadata is not set again when the repair has no tool output.
RepairAnswer(r, answer) ==
  LET ended(outcome) == [r EXCEPT !.last = answer, !.meta.repair = outcome] IN
  CASE answer = "no_tool" -> TierFails(r, "permanent")
    [] answer = "invalid" -> AfterTiers(ended("invalid"), "degraded_repair")
    [] answer = "items" -> AfterTiers(ended("succeeded"), "primary")
    [] answer = "sparse" -> AfterTiers(ended("succeeded"), "degraded_semantic")

ProviderReplies(c) ==
  LET r == req[c] IN
  /\ req[c].pc = "calling"
  /\ \/ \E error \in Failures : req' = [req EXCEPT ![c] = RequestFails(r, error)]
     \/ \E answer \in Answers :
          req' = [req EXCEPT ![c] = IF r.phase = "first" THEN FirstAnswer(r, answer)
                                    ELSE RepairAnswer(r, answer)]
  /\ UNCHANGED <<api, redisUp, slots, used, overruns, work, bounds>>

\* Transcription has the same retries.
RetryTranscription(c) ==
  /\ req[c].pc = "transcribing"
  /\ req[c].tries < MaxAttempts
  /\ req' = [req EXCEPT ![c].tries = @ + 1]
  /\ UNCHANGED <<api, redisUp, slots, used, overruns, work, bounds>>

\* prepare_capture_input ends: a transcription that fails, or a transcript that is
\* empty or too long, ends the capture, however worth a retry the error was.
Transcribe(c) ==
  /\ req[c].pc = "transcribing"
  /\ \/ req' = [req EXCEPT ![c] = Calling(@)]
     \/ req' = [req EXCEPT ![c] = Leaving(@)]
  /\ UNCHANGED <<api, redisUp, slots, used, overruns, work, bounds>>

\* The draft is stored, or not, while the slot is held.
StoreDraft(c) ==
  /\ req[c].pc = "storing"
  /\ req' = [req EXCEPT ![c] = Leaving(@)]
  /\ UNCHANGED <<api, redisUp, slots, used, overruns, work, bounds>>

-------------------------------------------------------------------------------
(* The worker *)

SubmitJob(c) ==
  /\ Starts(c)
  /\ api = "redis" /\ redisUp
  /\ Holders = {}
  /\ req' = [req EXCEPT ![c] = Calling([Idle EXCEPT !.kind = "job", !.try = 1])]
  /\ UNCHANGED <<api, redisUp, slots, used, overruns, work>>

\* The runtime stores the outcome of the try, and queues the next one.
SettleTry(c) ==
  /\ req[c].pc = "settling"
  /\ req' = [req EXCEPT ![c] =
       IF @.result = "retry"
       THEN Calling([Idle EXCEPT !.kind = "job", !.try = req[c].try + 1])
       ELSE Idle]
  /\ UNCHANGED <<api, redisUp, slots, used, overruns, work, bounds>>

-------------------------------------------------------------------------------

Step(c) ==
  \/ \E clips \in BOOLEAN : Reserve(c, clips)
  \/ ReserveRefused(c)
  \/ ReserveFails(c)
  \/ RetryTranscription(c)
  \/ Transcribe(c)
  \/ ProviderReplies(c)
  \/ StoreDraft(c)
  \/ Release(c)
  \/ SettleTry(c)

Next ==
  \/ Startup
  \/ Crash
  \/ RedisFails
  \/ RedisReturns
  \/ Midnight
  \/ \E s \in Stores : KeyExpires(s)
  \/ \E c \in Clients :
       \/ \E kind \in {"notes", "capture"} : Acquire(c, kind)
       \/ AcquireFails(c)
       \/ SubmitJob(c)
       \/ Step(c)

\* A key at the limit is not refreshed, for no acquire succeeds: it lapses.
Lapse(s) == slots[s] >= Limit /\ KeyExpires(s)

\* Every request to a provider has a timeout, and each caller goes on from its
\* answer; a job that was queued is taken by the worker.
Fairness ==
  /\ \A c \in Clients : WF_vars(Step(c))
  /\ \A s \in Stores : WF_vars(Lapse(s))

Spec == Init /\ [][Next]_vars /\ Fairness

-------------------------------------------------------------------------------
(* Properties *)

\* At most Limit guarded calls are under way, and one more for each lease that
\* outlived its key: release_concurrency counts down whatever key is there, so a
\* late release may free the slot of another call (rate_limit.py:232).
CapacityRespected == Cardinality(Holders) <= Limit + overruns

\* In a process that keeps its own counters no slot is lost: the counter is the
\* number of calls under way, whichever way each of them leaves the guard.
MemoryLosesNoSlot ==
  api = "memory" /\ overruns = 0 => slots["memory"] = Cardinality(Holders)

\* What reaches the provider from a guarded endpoint was paid for in the day's
\* quota, whatever store failed, and the quota is not exceeded.
WorkIsCharged ==
  \A s \in Stores : work[s] <= used[s] /\ used[s] <= DailyQuota

\* The guard of the extraction endpoints (rate_limit.py): what a user has under way
\* and has used up is what the counters say, whichever step of it fails.
GuardHolds == TypeOK /\ CapacityRespected /\ MemoryLosesNoSlot /\ WorkIsCharged

\* The outcome follows from how the tiers ended: a usable answer of the last one
\* asked; the sentinel draft of an outage only when every tier failed, the last
\* for a reason worth a retry, and no try is left; a retry only while one is.
OutcomeFollowsTiers ==
  \A c \in Clients :
    LET r == req[c] IN
    r.pc \in {"storing", "settling"} =>
      /\ r.result = "primary" <=> r.last = "items"
      /\ r.result = "degraded_semantic" <=> r.last = "sparse"
      /\ r.result = "degraded_repair" <=> r.last = "invalid"
      /\ r.last \in Failures => r.tier = Tiers
      /\ r.result = "degraded_provider" <=> (r.last = "retryable" /\ IsFinal(r))
      /\ r.result = "retry" => r.last = "retryable" /\ r.try < MaxTries

\* When the tiers are done the metadata tells of the last tier asked, and of its
\* repair: except that a repair without tool output leaves no trace, though the
\* metadata is "captured from the most recent extraction provider call"
\* (extraction.py:352).
MetadataTellsLastCall ==
  \A c \in Clients :
    LET r == req[c] IN
    r.pc \in {"storing", "settling"} =>
      /\ r.meta.tier = r.tier
      /\ r.meta.repair \in {"invalid", "succeeded"} => r.phase = "repair"
      /\ r.phase = "repair" /\ r.result \in {"primary", "degraded_semantic", "degraded_repair"}
           => r.meta.repair \in {"invalid", "succeeded"}
      /\ r.meta.repair = "invalid" <=> r.result = "degraded_repair"
      /\ r.meta.repair = "request_failed" => r.last \in Failures

\* What a caller learns of a call, its outcome and its metadata, tells how the tiers
\* and their repair really ended (extraction.py:442).
CallersLearnTheOutcome == OutcomeFollowsTiers /\ MetadataTellsLastCall

\* Slots lost to a crash, or to a Redis that failed between the acquire and the
\* release, come back: a user whose slots are all taken is admitted again.
CapacityReturns == \A s \in Stores : slots[s] >= Limit ~> slots[s] < Limit
===============================================================================
