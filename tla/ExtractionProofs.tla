--------------------------- MODULE ExtractionProofs ---------------------------
(***************************************************************************)
(* Proofs about the extraction: about ExtractionCalls, for every set of    *)
(* clients, every limit, quota, number of tiers, attempts and tries, and   *)
(* every bound; and about DraftContent and EditHistory, for all captures,  *)
(* requests and patches that fit their schemas, every set of edits and     *)
(* every bound.                                                            *)
(***************************************************************************)
EXTENDS ExtractionCalls, EditHistory, FiniteSetTheorems, SequenceTheorems,
        WellFoundedInduction, TLAPS

(***************************************************************************)
(* ExtractionCalls                                                         *)
(***************************************************************************)
-------------------------------------------------------------------------------
(* The inductive invariant *)

\* What a call that is done with the tiers tells of them.
Told(r) ==
  /\ r.result = "primary" <=> r.last = "items"
  /\ r.result = "degraded_semantic" <=> r.last = "sparse"
  /\ r.result = "degraded_repair" <=> r.last = "invalid"
  /\ r.last \in Failures => r.tier = Tiers
  /\ r.result = "degraded_provider" <=> (r.last = "retryable" /\ IsFinal(r))
  /\ r.result = "retry" => r.last = "retryable" /\ r.try < MaxTries
  /\ r.meta.tier = r.tier
  /\ r.meta.repair \in {"invalid", "succeeded"} => r.phase = "repair"
  /\ r.phase = "repair" /\ r.result \in {"primary", "degraded_semantic", "degraded_repair"}
       => r.meta.repair \in {"invalid", "succeeded"}
  /\ r.meta.repair = "invalid" <=> r.result = "degraded_repair"
  /\ r.meta.repair = "request_failed" => r.last \in Failures

\* Who may be where, and what the metadata says while a tier is asked.
Placed(r) ==
  /\ r.kind = "none" <=> r.pc = "idle"
  /\ r.kind = "job" => r.pc \in {"calling", "settling"} /\ r.try >= 1
  /\ r.pc = "settling" => r.kind = "job"
  /\ r.pc = "storing" => r.kind = "capture"
  /\ r.pc = "calling" => /\ r.meta.tier = r.tier
                         /\ r.meta.repair = IF r.phase = "first" THEN "none" ELSE "not_attempted"
  /\ r.pc \in {"storing", "settling"} => Told(r)

\* The holders whose key has expired since they acquired it.
Late == Holders \ Fresh

\* Each holder has a slot of the store of its process, or a lease was outlived.
SlotsCover ==
  /\ api = "down" => Holders = {}
  /\ api # "down" => Cardinality(Holders) <= slots[api] + overruns
  /\ Cardinality(Late) <= overruns
  /\ api # "memory" => slots["memory"] = 0

IInv ==
  /\ TypeOK
  /\ \A c \in Clients : Placed(req[c])
  /\ SlotsCover
  /\ MemoryLosesNoSlot
  /\ WorkIsCharged
-------------------------------------------------------------------------------
(* What the tiers make of a call *)

\* The constants' kinds.
LEMMA Constants ==
  /\ Limit \in Nat /\ Limit >= 1 /\ DailyQuota \in Nat /\ DailyQuota >= 1
  /\ Tiers \in Nat /\ Tiers >= 1 /\ MaxAttempts \in Nat /\ MaxAttempts >= 1
  /\ MaxTries \in Nat /\ MaxTries >= 1
  /\ MaxStarts \in Nat /\ MaxOverruns \in Nat /\ MaxCrashes \in Nat /\ MaxOutages \in Nat
BY ExtractionAssumption

\* A client without a call.
LEMMA IdleType == Idle \in Request /\ Placed(Idle)
<1>1. [tier |-> 0, repair |-> "none"] \in Metadata
  BY Constants DEF Metadata
<1>2. Idle \in Request
  BY <1>1, Constants DEF Idle, Request, Results
<1> QED BY <1>2 DEF Idle, Placed

\* A call on its way to another place, with the same kind of caller and lease.
Goes(r, q) ==
  /\ q \in Request
  /\ Placed(q)
  /\ q.kind = r.kind
  /\ q.late = r.late

\* A call that asks the first tier.
LEMMA CallingGoes ==
  ASSUME NEW r \in Request, r.kind # "none", r.kind = "job" => r.try >= 1
  PROVE  Goes(r, Calling(r))
<1>1. [tier |-> 1, repair |-> "none"] \in Metadata
  BY Constants DEF Metadata
<1>2. Calling(r) \in Request
  <2>1. 1 \in 1 .. Tiers /\ 1 \in 1 .. MaxAttempts
    BY Constants
  <2> QED BY <1>1, <2>1 DEF Calling, Request
<1>3. /\ Calling(r).pc = "calling" /\ Calling(r).kind = r.kind /\ Calling(r).try = r.try
      /\ Calling(r).late = r.late /\ Calling(r).tier = 1 /\ Calling(r).phase = "first"
      /\ Calling(r).meta = [tier |-> 1, repair |-> "none"]
  BY DEF Calling, Request
<1> HIDE DEF Calling
<1> QED BY <1>2, <1>3 DEF Goes, Placed

\* A guarded call that leaves with its lease.
LEMMA LeavingGoes ==
  ASSUME NEW r \in Request, r.kind \in {"notes", "capture"}
  PROVE  Goes(r, Leaving(r)) /\ Leaving(r).pc = "releasing"
<1>1. Leaving(r) \in Request
  BY IdleType DEF Leaving, Request
<1>2. Leaving(r).pc = "releasing" /\ Leaving(r).kind = r.kind /\ Leaving(r).late = r.late
  BY IdleType DEF Leaving, Request
<1> HIDE DEF Leaving
<1> QED BY <1>1, <1>2 DEF Goes, Placed

\* The caller goes on from a result that tells what happened.
LEMMA AfterTiersGoes ==
  ASSUME NEW r \in Request, NEW outcome \in Results, r.kind # "none",
         r.kind = "job" => r.try >= 1,
         r.kind = "job" \/ (r.kind = "capture" /\ outcome # "failed") =>
           Told([r EXCEPT !.result = outcome])
  PROVE  Goes(r, AfterTiers(r, outcome))
<1>1. r.kind \in {"notes", "capture", "job"}
  BY DEF Request
<1>2. ASSUME NEW pc \in {"storing", "settling"},
             r.kind = IF pc = "settling" THEN "job" ELSE "capture",
             Told([r EXCEPT !.result = outcome])
      PROVE  Goes(r, [r EXCEPT !.result = outcome, !.pc = pc])
  <2> DEFINE q == [r EXCEPT !.result = outcome, !.pc = pc]
             t == [r EXCEPT !.result = outcome]
  <2>1. q \in Request
    BY <1>2 DEF Request
  <2>2. q.kind = r.kind /\ q.late = r.late /\ q.pc = pc /\ q.try = r.try
    BY <1>2 DEF Request
  <2>3. /\ q.result = t.result /\ q.last = t.last /\ q.tier = t.tier /\ q.kind = t.kind
        /\ q.try = t.try /\ q.meta = t.meta /\ q.phase = t.phase
    BY <1>2 DEF Request
  <2>4. Told(t)
    BY <1>2
  <2> HIDE DEF q, t
  <2>5. Told(q)
    BY <2>3, <2>4 DEF Told, IsFinal
  <2>6. Placed(q)
    BY <1>2, <2>2, <2>5 DEF Placed
  <2>7. Goes(r, q)
    BY <2>1, <2>2, <2>6 DEF Goes
  <2> QED BY <2>7 DEF q
<1>3. CASE r.kind = "job"
  BY <1>2, <1>3 DEF AfterTiers
<1>4. CASE r.kind = "capture" /\ outcome # "failed"
  BY <1>2, <1>4 DEF AfterTiers
<1>5. CASE r.kind = "notes" \/ (r.kind = "capture" /\ outcome = "failed")
  BY <1>5, LeavingGoes DEF AfterTiers
<1> QED BY <1>1, <1>3, <1>4, <1>5

\* A call that is with a provider, whatever it was asked.
Asking(r) ==
  /\ r \in Request
  /\ r.pc = "calling"
  /\ r.kind # "none"
  /\ r.kind = "job" => r.try >= 1
  /\ r.meta.tier = r.tier
  /\ r.meta.repair \in {"none", "not_attempted", "request_failed"}

\* A tier that fails is followed by the next, and the last one's error decides.
LEMMA TierFailsGoes ==
  ASSUME NEW r, Asking(r), NEW error \in Failures
  PROVE  Goes(r, TierFails(r, error))
<1>1. r \in Request /\ r.tier \in 1 .. Tiers /\ r.meta \in Metadata
  BY DEF Asking, Request
<1>2. CASE r.tier < Tiers
  <2> DEFINE q == [r EXCEPT !.tier = @ + 1, !.phase = "first", !.tries = 1,
                            !.meta = [tier |-> r.tier + 1, repair |-> "none"]]
  <2>1. /\ r.tier + 1 \in 1 .. Tiers /\ 1 \in 1 .. MaxAttempts
        /\ [tier |-> r.tier + 1, repair |-> "none"] \in Metadata
    BY <1>1, <1>2, Constants DEF Metadata
  <2>2. q \in Request
    BY <1>1, <2>1 DEF Request
  <2>3. /\ q.kind = r.kind /\ q.late = r.late /\ q.pc = r.pc /\ q.try = r.try
        /\ q.tier = r.tier + 1 /\ q.phase = "first"
        /\ q.meta = [tier |-> r.tier + 1, repair |-> "none"]
    BY <1>1 DEF Request
  <2> HIDE DEF q
  <2>4. Goes(r, q)
    BY <2>2, <2>3 DEF Goes, Placed, Asking
  <2> QED BY <1>2, <2>4 DEF TierFails, q
<1>3. CASE ~(r.tier < Tiers)
  <2> DEFINE q == [r EXCEPT !.last = error]
             outcome == CASE error = "retryable" /\ IsFinal(q) -> "degraded_provider"
                         [] error = "retryable" /\ q.kind = "job" /\ ~IsFinal(q) -> "retry"
                         [] OTHER -> "failed"
  <2>1. r.tier = Tiers
    BY <1>1, <1>3, Constants
  <2>2. q \in Request
    BY <1>1 DEF Request
  <2>3. /\ q.kind = r.kind /\ q.late = r.late /\ q.try = r.try /\ q.tier = r.tier
        /\ q.phase = r.phase /\ q.meta = r.meta /\ q.last = error
    BY <1>1 DEF Request
  <2> HIDE DEF q
  <2>4. outcome \in {"degraded_provider", "retry", "failed"}
    OBVIOUS
  <2>5. /\ outcome = "degraded_provider" <=> error = "retryable" /\ IsFinal(q)
        /\ outcome = "retry" => error = "retryable" /\ q.kind = "job" /\ ~IsFinal(q)
    OBVIOUS
  <2> HIDE DEF outcome
  <2>6. Told([q EXCEPT !.result = outcome])
    <3> DEFINE t == [q EXCEPT !.result = outcome]
    <3>1. /\ t.kind = q.kind /\ t.try = q.try /\ t.tier = q.tier /\ t.phase = q.phase
          /\ t.meta = q.meta /\ t.last = q.last /\ t.result = outcome
      BY <2>2 DEF Request
    <3> HIDE DEF t
    <3>2. IsFinal(t) <=> IsFinal(q)
      BY <3>1 DEF IsFinal
    <3>3. outcome = "retry" => q.try < MaxTries
      <4>1. q.try \in 0 .. MaxTries
        BY <2>2 DEF Request
      <4> QED BY <2>5, <4>1, Constants DEF IsFinal
    <3>4. Told(t)
      BY <2>1, <2>3, <2>4, <2>5, <3>1, <3>2, <3>3 DEF Told, Failures, Asking
    <3> QED BY <3>4 DEF t
  <2>7. Goes(q, AfterTiers(q, outcome))
    BY <2>2, <2>3, <2>4, <2>6, AfterTiersGoes DEF Asking, Results
  <2>8. TierFails(r, error) = AfterTiers(q, outcome)
    BY <1>3 DEF TierFails, Raised, q, outcome
  <2> QED BY <2>3, <2>7, <2>8 DEF Goes
<1> QED BY <1>2, <1>3

\* A request to a provider fails.
LEMMA RequestFailsGoes ==
  ASSUME NEW r, Asking(r), Placed(r), NEW error \in Failures
  PROVE  Goes(r, RequestFails(r, error))
<1>1. r \in Request /\ r.tries \in 1 .. MaxAttempts /\ r.meta \in Metadata
  BY DEF Asking, Request
<1>2. CASE error = "retryable" /\ r.tries < MaxAttempts
  <2> DEFINE q == [r EXCEPT !.tries = @ + 1]
  <2>1. r.tries + 1 \in 1 .. MaxAttempts
    BY <1>1, <1>2, Constants
  <2>2. q \in Request
    BY <1>1, <2>1 DEF Request
  <2>3. /\ q.kind = r.kind /\ q.late = r.late /\ q.pc = r.pc /\ q.try = r.try
        /\ q.tier = r.tier /\ q.phase = r.phase /\ q.meta = r.meta
    BY <1>1 DEF Request
  <2> HIDE DEF q
  <2>4. Goes(r, q)
    BY <2>2, <2>3 DEF Goes, Placed, Asking
  <2> QED BY <1>2, <2>4 DEF RequestFails, q
<1>3. CASE ~(error = "retryable" /\ r.tries < MaxAttempts) /\ r.phase # "repair"
  BY <1>3, TierFailsGoes DEF RequestFails
<1>4. CASE ~(error = "retryable" /\ r.tries < MaxAttempts) /\ r.phase = "repair"
  <2> DEFINE q == [r EXCEPT !.meta.repair = "request_failed"]
  <2>1. [r.meta EXCEPT !.repair = "request_failed"] \in Metadata
    BY <1>1 DEF Metadata
  <2>2. q \in Request
    BY <1>1, <2>1 DEF Request
  <2>3. /\ q.kind = r.kind /\ q.late = r.late /\ q.pc = r.pc /\ q.try = r.try
        /\ q.tier = r.tier /\ q.meta.tier = r.meta.tier /\ q.meta.repair = "request_failed"
    BY <1>1 DEF Request, Metadata
  <2> HIDE DEF q
  <2>4. Asking(q)
    BY <2>2, <2>3 DEF Asking
  <2>5. Goes(q, TierFails(q, error))
    BY <2>4, TierFailsGoes
  <2> QED BY <1>4, <2>3, <2>5 DEF RequestFails, q, Goes
<1> QED BY <1>2, <1>3, <1>4

\* An answer that ends the tiers.
LEMMA AnsweredGoes ==
  ASSUME NEW r, Asking(r), NEW answer \in {"items", "sparse", "invalid"},
         NEW repair \in {"not_attempted", "invalid", "succeeded"},
         NEW outcome \in {"primary", "degraded_semantic", "degraded_repair"},
         outcome = CASE answer = "items"   -> "primary"
                    [] answer = "sparse"  -> "degraded_semantic"
                    [] answer = "invalid" -> "degraded_repair",
         r.phase = "first" <=> repair = "not_attempted",
         answer = "invalid" <=> repair = "invalid"
  PROVE  Goes(r, AfterTiers([r EXCEPT !.last = answer, !.meta.repair = repair], outcome))
<1> DEFINE q == [r EXCEPT !.last = answer, !.meta.repair = repair]
<1>1. r \in Request /\ r.meta \in Metadata /\ r.phase \in {"first", "repair"}
  BY DEF Asking, Request
<1>2. [r.meta EXCEPT !.repair = repair] \in Metadata
  BY <1>1 DEF Metadata
<1>3. q \in Request
  BY <1>1, <1>2 DEF Request, Answers
<1>4. /\ q.kind = r.kind /\ q.late = r.late /\ q.try = r.try /\ q.tier = r.tier
      /\ q.phase = r.phase /\ q.meta.tier = r.meta.tier /\ q.meta.repair = repair
      /\ q.last = answer
  BY <1>1 DEF Request, Metadata
<1> HIDE DEF q
<1>5. Told([q EXCEPT !.result = outcome])
  <2> DEFINE t == [q EXCEPT !.result = outcome]
  <2>1. /\ t.kind = q.kind /\ t.try = q.try /\ t.tier = q.tier /\ t.phase = q.phase
        /\ t.meta = q.meta /\ t.last = q.last /\ t.result = outcome
    BY <1>3 DEF Request
  <2> HIDE DEF t
  <2>2. Told(t)
    BY <1>1, <1>4, <2>1 DEF Told, Failures, Asking
  <2> QED BY <2>2 DEF t
<1>6. Goes(q, AfterTiers(q, outcome))
  BY <1>3, <1>4, <1>5, AfterTiersGoes DEF Asking, Results
<1>7. Goes(r, AfterTiers(q, outcome))
  BY <1>4, <1>6 DEF Goes
<1> QED BY <1>7 DEF q

\* A provider answers the first request of a tier.
LEMMA FirstAnswerGoes ==
  ASSUME NEW r, Asking(r), NEW answer \in Answers, r.phase = "first"
  PROVE  Goes(r, FirstAnswer(r, answer))
<1> DEFINE answered == [r EXCEPT !.meta.repair = "not_attempted"]
<1>1. r \in Request /\ r.meta \in Metadata
  BY DEF Asking, Request
<1>2. [r.meta EXCEPT !.repair = "not_attempted"] \in Metadata
  BY <1>1 DEF Metadata
<1>3. answered \in Request
  BY <1>1, <1>2 DEF Request
<1>4. /\ answered.kind = r.kind /\ answered.late = r.late /\ answered.pc = r.pc
      /\ answered.try = r.try /\ answered.tier = r.tier /\ answered.phase = r.phase
      /\ answered.meta.tier = r.meta.tier /\ answered.meta.repair = "not_attempted"
  BY <1>1 DEF Request, Metadata
<1>5. CASE answer = "no_tool"
  <2> HIDE DEF answered
  <2>1. Asking(answered)
    BY <1>3, <1>4 DEF Asking
  <2>2. Goes(answered, TierFails(answered, "permanent"))
    BY <2>1, TierFailsGoes DEF Failures
  <2> QED BY <1>4, <1>5, <2>2 DEF FirstAnswer, Goes, answered
<1>6. CASE answer = "invalid"
  <2> DEFINE q == [answered EXCEPT !.phase = "repair", !.tries = 1]
  <2> HIDE DEF answered
  <2>1. 1 \in 1 .. MaxAttempts
    BY Constants
  <2>2. q \in Request
    BY <1>3, <2>1 DEF Request
  <2>3. /\ q.kind = answered.kind /\ q.late = answered.late /\ q.pc = answered.pc
        /\ q.try = answered.try /\ q.tier = answered.tier /\ q.meta = answered.meta
        /\ q.phase = "repair"
    BY <1>3 DEF Request
  <2> HIDE DEF q
  <2>4. Goes(r, q)
    BY <1>4, <2>2, <2>3 DEF Goes, Placed, Asking
  <2> QED BY <1>6, <2>4 DEF FirstAnswer, q, answered
<1>7. CASE answer \in {"items", "sparse"}
  <2>1. [answered EXCEPT !.last = answer]
          = [r EXCEPT !.last = answer, !.meta.repair = "not_attempted"]
    BY <1>1 DEF Request
  <2>2. FirstAnswer(r, answer) =
          AfterTiers([answered EXCEPT !.last = answer],
                     IF answer = "items" THEN "primary" ELSE "degraded_semantic")
    BY <1>7 DEF FirstAnswer
  <2> HIDE DEF answered
  <2>3. CASE answer = "items"
    <3>1. Goes(r, AfterTiers([r EXCEPT !.last = "items", !.meta.repair = "not_attempted"],
                             "primary"))
      BY AnsweredGoes
    <3> QED BY <2>1, <2>2, <2>3, <3>1
  <2>4. CASE answer = "sparse"
    <3>1. Goes(r, AfterTiers([r EXCEPT !.last = "sparse", !.meta.repair = "not_attempted"],
                             "degraded_semantic"))
      BY AnsweredGoes
    <3> QED BY <2>1, <2>2, <2>4, <3>1
  <2> QED BY <1>7, <2>3, <2>4
<1> QED BY <1>5, <1>6, <1>7 DEF Answers

\* A provider answers the repair.
LEMMA RepairAnswerGoes ==
  ASSUME NEW r, Asking(r), NEW answer \in Answers, r.phase = "repair"
  PROVE  Goes(r, RepairAnswer(r, answer))
<1>1. CASE answer = "no_tool"
  BY <1>1, TierFailsGoes DEF RepairAnswer, Failures
<1>2. CASE answer = "invalid"
  BY <1>2, AnsweredGoes DEF RepairAnswer
<1>3. CASE answer = "items"
  BY <1>3, AnsweredGoes DEF RepairAnswer
<1>4. CASE answer = "sparse"
  BY <1>4, AnsweredGoes DEF RepairAnswer
<1> QED BY <1>1, <1>2, <1>3, <1>4 DEF Answers

-------------------------------------------------------------------------------
(* Holders *)

\* Holders and late holders are finitely many.
LEMMA HoldersFinite ==
  ASSUME TypeOK
  PROVE  /\ IsFiniteSet(Holders) /\ Cardinality(Holders) \in Nat
         /\ IsFiniteSet(Late) /\ Cardinality(Late) \in Nat
         /\ Cardinality(Late) <= Cardinality(Holders)
         /\ IsFiniteSet(Fresh) /\ Cardinality(Fresh) \in Nat
         /\ Holders = Late \cup Fresh
         /\ Cardinality(Holders) = Cardinality(Late) + Cardinality(Fresh)
<1>1. /\ Holders \subseteq Clients /\ Late \subseteq Holders /\ Fresh \subseteq Holders
      /\ Holders = Late \cup Fresh /\ Late \cap Fresh = {}
  BY DEF Holders, Late, Fresh
<1>2. IsFiniteSet(Holders)
  BY <1>1, ExtractionAssumption, FS_Subset
<1>3. IsFiniteSet(Late) /\ IsFiniteSet(Fresh)
  BY <1>1, <1>2, FS_Subset
<1>4. Cardinality(Late \cup Fresh) =
        Cardinality(Late) + Cardinality(Fresh) - Cardinality(Late \cap Fresh)
  BY <1>3, FS_Union
<1>5. Cardinality(Late \cap Fresh) = 0
  BY <1>1, FS_EmptySet
<1> QED BY <1>1, <1>2, <1>3, <1>4, <1>5, FS_Subset, FS_CardinalityType

\* A call that goes on keeps its slot and its age.
LEMMA GoesKeeps ==
  ASSUME TypeOK, \A d \in Clients : Placed(req[d]), NEW c \in Clients, NEW q,
         Goes(req[c], q), req' = [req EXCEPT ![c] = q]
  PROVE  /\ req' \in [Clients -> Request]
         /\ \A d \in Clients : Placed(req'[d])
         /\ Holders' = Holders /\ Late' = Late
<1>1. /\ req'[c] = q
      /\ \A d \in Clients \ {c} : req'[d] = req[d]
  BY DEF TypeOK
<1>2. /\ req' \in [Clients -> Request]
      /\ \A d \in Clients : Placed(req'[d])
  BY <1>1 DEF TypeOK, Goes
<1> QED BY <1>1, <1>2 DEF Goes, Holders, Late, Fresh

\* A call that ends, or leaves the guard without its slot.
LEMMA EndsKeeps ==
  ASSUME TypeOK, \A d \in Clients : Placed(req[d]), NEW c \in Clients,
         req' = [req EXCEPT ![c] = Idle]
  PROVE  /\ req' \in [Clients -> Request]
         /\ \A d \in Clients : Placed(req'[d])
         /\ Holders' = Holders \ {c} /\ Late' = Late \ {c}
         /\ Cardinality(Holders') =
              IF c \in Holders THEN Cardinality(Holders) - 1 ELSE Cardinality(Holders)
         /\ Cardinality(Late') <= Cardinality(Late)
<1>1. /\ req'[c] = Idle
      /\ \A d \in Clients \ {c} : req'[d] = req[d]
  BY DEF TypeOK
<1>2. /\ req' \in [Clients -> Request]
      /\ \A d \in Clients : Placed(req'[d])
  BY <1>1, IdleType DEF TypeOK
<1>3. Holders' = Holders \ {c} /\ Late' = Late \ {c}
  BY <1>1 DEF Holders, Late, Fresh, Idle
<1>4. IsFiniteSet(Holders) /\ IsFiniteSet(Late)
  BY HoldersFinite
<1>5. Cardinality(Holders \ {c}) =
        IF c \in Holders THEN Cardinality(Holders) - 1 ELSE Cardinality(Holders)
  BY <1>4, FS_RemoveElement
<1>6. Cardinality(Late \ {c}) <= Cardinality(Late)
  BY <1>4, FS_Subset
<1> QED BY <1>2, <1>3, <1>5, <1>6

\* A call that is admitted holds a fresh slot.
LEMMA AdmittedKeeps ==
  ASSUME TypeOK, \A d \in Clients : Placed(req[d]), NEW c \in Clients,
         NEW kind \in {"notes", "capture"}, req[c].pc = "idle",
         req' = [req EXCEPT ![c] = [Idle EXCEPT !.kind = kind, !.pc = "admitted"]]
  PROVE  /\ req' \in [Clients -> Request]
         /\ \A d \in Clients : Placed(req'[d])
         /\ Late' = Late
         /\ Cardinality(Holders') = Cardinality(Holders) + 1
<1> DEFINE q == [Idle EXCEPT !.kind = kind, !.pc = "admitted"]
<1>1. /\ req'[c] = q
      /\ \A d \in Clients \ {c} : req'[d] = req[d]
  BY DEF TypeOK
<1>2. q \in Request /\ q.kind = kind /\ q.pc = "admitted" /\ q.late = FALSE
  BY IdleType DEF Request, Idle
<1> HIDE DEF q
<1>3. Placed(q)
  BY <1>2 DEF Placed
<1>4. /\ req' \in [Clients -> Request]
      /\ \A d \in Clients : Placed(req'[d])
  <2>1. req' = [req EXCEPT ![c] = q]
    BY DEF q
  <2> QED BY <1>1, <1>2, <1>3, <2>1 DEF TypeOK
<1>5. c \notin Holders
  BY DEF Placed, Holders
<1>6. Holders' = Holders \cup {c} /\ Late' = Late
  BY <1>1, <1>2, <1>5 DEF Holders, Late, Fresh
<1> QED BY <1>4, <1>5, <1>6, HoldersFinite, FS_AddElement

\* What is counted of the calls that are left when one ends.
LEMMA EndsCounted ==
  ASSUME TypeOK, \A d \in Clients : Placed(req[d]), NEW c \in Clients,
         req' = [req EXCEPT ![c] = Idle]
  PROVE  Cardinality(Holders') \in Nat /\ Cardinality(Late') \in Nat
<1>1. Holders' = Holders \ {c} /\ Late' = Late \ {c}
  BY EndsKeeps
<1>2. IsFiniteSet(Holders) /\ IsFiniteSet(Late)
  BY HoldersFinite
<1> QED BY <1>1, <1>2, FS_Subset, FS_CardinalityType

\* A start is counted.
LEMMA StartsBounds ==
  ASSUME TypeOK, bounds.starts < MaxStarts, bounds' = [bounds EXCEPT !.starts = @ + 1]
  PROVE  bounds' \in [starts : 0 .. MaxStarts, crashes : 0 .. MaxCrashes,
                      outages : 0 .. MaxOutages]
<1>1. bounds.starts + 1 \in 0 .. MaxStarts
  BY Constants DEF TypeOK
<1> QED BY <1>1 DEF TypeOK

-------------------------------------------------------------------------------
(* The steps *)

\* A step of the tiers, which touches no counter.
LEMMA CallStep ==
  ASSUME IInv, UNCHANGED <<api, slots, used, overruns, work, redisUp>>,
         bounds' \in [starts : 0 .. MaxStarts, crashes : 0 .. MaxCrashes,
                      outages : 0 .. MaxOutages],
         req' \in [Clients -> Request],
         \A d \in Clients : Placed(req'[d]),
         Holders' = Holders, Late' = Late
  PROVE  IInv'
<1>1. TypeOK'
  BY DEF IInv, TypeOK
<1>2. SlotsCover' /\ MemoryLosesNoSlot' /\ WorkIsCharged'
  BY DEF IInv, SlotsCover, MemoryLosesNoSlot, WorkIsCharged
<1> QED BY <1>1, <1>2 DEF IInv

\* The calls, as they go on.
LEMMA GoingOn ==
  ASSUME IInv, NEW c \in Clients,
         \/ ReserveRefused(c) \/ RetryTranscription(c) \/ Transcribe(c)
         \/ ProviderReplies(c) \/ StoreDraft(c) \/ SettleTry(c)
  PROVE  IInv'
<1> DEFINE r == req[c]
<1>1. TypeOK /\ (\A d \in Clients : Placed(req[d])) /\ Placed(r) /\ r \in Request
  BY DEF IInv, TypeOK
<1>2. UNCHANGED <<api, slots, used, overruns, work, redisUp, bounds>>
  BY DEF ReserveRefused, RetryTranscription, Transcribe, ProviderReplies, StoreDraft, SettleTry
<1>3. ASSUME NEW q, Goes(r, q), req' = [req EXCEPT ![c] = q]
      PROVE  IInv'
  BY <1>1, <1>2, <1>3, GoesKeeps, CallStep DEF TypeOK
<1>4. r.pc \in {"admitted", "transcribing", "storing"} => r.kind \in {"notes", "capture"}
  BY <1>1 DEF Placed, Request
<1> HIDE DEF r
<1>5. CASE ReserveRefused(c)
  BY <1>1, <1>3, <1>4, <1>5, LeavingGoes DEF ReserveRefused, r
<1>6. CASE RetryTranscription(c)
  <2> DEFINE q == [r EXCEPT !.tries = @ + 1]
  <2>1. r.tries + 1 \in 1 .. MaxAttempts
    BY <1>1, <1>6, Constants DEF RetryTranscription, Request, r
  <2>2. q \in Request
    BY <1>1, <2>1 DEF Request
  <2>3. q.kind = r.kind /\ q.late = r.late /\ q.pc = r.pc
    BY <1>1 DEF Request
  <2>4. r.pc = "transcribing" /\ req' = [req EXCEPT ![c] = q]
    BY <1>6 DEF RetryTranscription, r
  <2> HIDE DEF q
  <2>5. Placed(q)
    BY <1>1, <2>3, <2>4 DEF Placed
  <2> QED BY <1>3, <2>2, <2>3, <2>4, <2>5 DEF Goes
<1>7. CASE Transcribe(c)
  <2>1. r.kind \in {"notes", "capture"}
    BY <1>4, <1>7 DEF Transcribe, r
  <2>2. Goes(r, Calling(r)) /\ Goes(r, Leaving(r))
    BY <1>1, <2>1, CallingGoes, LeavingGoes
  <2>3. \/ req' = [req EXCEPT ![c] = Calling(r)]
        \/ req' = [req EXCEPT ![c] = Leaving(r)]
    BY <1>7 DEF Transcribe, r
  <2> QED BY <1>3, <2>2, <2>3
<1>8. CASE ProviderReplies(c)
  <2>1. r.pc = "calling"
    BY <1>8 DEF ProviderReplies, r
  <2>2. Asking(r) /\ r.phase \in {"first", "repair"}
    BY <1>1, <2>1 DEF Asking, Placed, Request
  <2>3. \/ \E error \in Failures : req' = [req EXCEPT ![c] = RequestFails(r, error)]
        \/ \E answer \in Answers :
             req' = [req EXCEPT ![c] = IF r.phase = "first" THEN FirstAnswer(r, answer)
                                       ELSE RepairAnswer(r, answer)]
    BY <1>8 DEF ProviderReplies, r
  <2>4. CASE \E error \in Failures : req' = [req EXCEPT ![c] = RequestFails(r, error)]
    BY <1>1, <1>3, <2>2, <2>4, RequestFailsGoes
  <2>5. ASSUME NEW answer \in Answers,
               req' = [req EXCEPT ![c] = IF r.phase = "first" THEN FirstAnswer(r, answer)
                                         ELSE RepairAnswer(r, answer)]
        PROVE  IInv'
    <3>1. CASE r.phase = "first"
      BY <1>3, <2>2, <2>5, <3>1, FirstAnswerGoes
    <3>2. CASE r.phase = "repair"
      BY <1>3, <2>2, <2>5, <3>2, RepairAnswerGoes
    <3> QED BY <2>2, <3>1, <3>2
  <2> QED BY <2>3, <2>4, <2>5
<1>9. CASE StoreDraft(c)
  BY <1>1, <1>3, <1>4, <1>9, LeavingGoes DEF StoreDraft, r
<1>10. CASE SettleTry(c)
  <2>1. /\ r.pc = "settling"
        /\ req' = [req EXCEPT ![c] =
                     IF r.result = "retry"
                     THEN Calling([Idle EXCEPT !.kind = "job", !.try = r.try + 1])
                     ELSE Idle]
    BY <1>10 DEF SettleTry, r
  <2>2. r.kind = "job" /\ Told(r)
    BY <1>1, <2>1 DEF Placed
  <2>3. CASE r.result = "retry"
    <3> DEFINE b == [Idle EXCEPT !.kind = "job", !.try = r.try + 1]
    <3>1. r.try + 1 \in 0 .. MaxTries /\ r.try + 1 >= 1
      <4>1. r.try \in 0 .. MaxTries
        BY <1>1 DEF Request
      <4> QED BY <2>2, <2>3, <4>1, Constants DEF Told
    <3>2. b \in Request /\ b.kind = "job" /\ b.try = r.try + 1 /\ b.late = FALSE
      BY <3>1, IdleType DEF Request, Idle
    <3> HIDE DEF b
    <3>3. Goes(b, Calling(b))
      BY <3>1, <3>2, CallingGoes
    <3>4. req' = [req EXCEPT ![c] = Calling(b)]
      BY <2>1, <2>3 DEF b
    <3>5. req'[c] = Calling(b) /\ \A d \in Clients \ {c} : req'[d] = req[d]
      BY <1>1, <3>4 DEF TypeOK
    <3>6. /\ req' \in [Clients -> Request]
          /\ \A d \in Clients : Placed(req'[d])
      BY <1>1, <3>3, <3>4, <3>5 DEF TypeOK, Goes
    <3>7. Holders' = Holders /\ Late' = Late
      BY <2>2, <3>2, <3>3, <3>5 DEF Holders, Late, Fresh, Goes, r
    <3> QED BY <1>1, <1>2, <3>6, <3>7, CallStep DEF TypeOK
  <2>4. CASE r.result # "retry"
    <3>1. req' = [req EXCEPT ![c] = Idle]
      BY <2>1, <2>4
    <3>2. c \notin Holders
      BY <2>2 DEF Holders, r
    <3>3. Holders' = Holders /\ Late' = Late
      BY <1>1, <3>1, <3>2, EndsKeeps DEF Late
    <3> QED BY <1>1, <1>2, <3>1, <3>3, EndsKeeps, CallStep DEF TypeOK
  <2> QED BY <2>3, <2>4
<1> QED BY <1>5, <1>6, <1>7, <1>8, <1>9, <1>10

\* A call that is admitted takes the slot it found free.
LEMMA Acquired ==
  ASSUME IInv, NEW c \in Clients, NEW kind \in {"notes", "capture"}, Acquire(c, kind)
  PROVE  IInv'
<1>1. /\ TypeOK /\ (\A d \in Clients : Placed(req[d])) /\ api \in Stores
      /\ req[c].pc = "idle" /\ slots[api] < Limit
      /\ req' = [req EXCEPT ![c] = [Idle EXCEPT !.kind = kind, !.pc = "admitted"]]
      /\ slots' = [slots EXCEPT ![api] = @ + 1]
      /\ UNCHANGED <<api, redisUp, used, overruns, work>>
      /\ bounds.starts < MaxStarts /\ bounds' = [bounds EXCEPT !.starts = @ + 1]
  BY DEF IInv, TypeOK, Acquire, Starts, TakeSlot
<1>2. /\ req' \in [Clients -> Request]
      /\ \A d \in Clients : Placed(req'[d])
      /\ Late' = Late
      /\ Cardinality(Holders') = Cardinality(Holders) + 1
  BY <1>1, AdmittedKeeps
<1>3. Cardinality(Holders) \in Nat
  BY <1>1, HoldersFinite
<1>4. slots' \in [Stores -> 0 .. Limit] /\ slots'[api] = slots[api] + 1
      /\ \A s \in Stores \ {api} : slots'[s] = slots[s]
  BY <1>1, Constants DEF TypeOK
<1>5. TypeOK'
  BY <1>1, <1>2, <1>4, StartsBounds DEF TypeOK
<1>6. SlotsCover' /\ MemoryLosesNoSlot' /\ WorkIsCharged'
  BY <1>1, <1>2, <1>3, <1>4 DEF IInv, TypeOK, Stores, SlotsCover, MemoryLosesNoSlot, WorkIsCharged
<1> QED BY <1>2, <1>5, <1>6 DEF IInv

\* An acquire whose reply is lost takes a slot of Redis.
LEMMA AcquireLost ==
  ASSUME IInv, NEW c \in Clients, AcquireFails(c)
  PROVE  IInv'
<1>1. /\ TypeOK /\ api = "redis" /\ slots[api] < Limit
      /\ slots' = [slots EXCEPT ![api] = @ + 1]
      /\ UNCHANGED <<api, redisUp, used, req, overruns, work>>
      /\ bounds.starts < MaxStarts /\ bounds' = [bounds EXCEPT !.starts = @ + 1]
  BY DEF IInv, AcquireFails, StoreFails, Starts, TakeSlot
<1>2. Holders' = Holders /\ Late' = Late /\ Cardinality(Holders) \in Nat
  BY <1>1, HoldersFinite DEF Holders, Late, Fresh
<1>3. slots' \in [Stores -> 0 .. Limit] /\ slots'["redis"] = slots["redis"] + 1
      /\ slots'["memory"] = slots["memory"]
  BY <1>1, Constants DEF TypeOK, Stores
<1>4. TypeOK'
  BY <1>1, <1>3, StartsBounds DEF TypeOK
<1>5. SlotsCover' /\ MemoryLosesNoSlot' /\ WorkIsCharged'
  BY <1>1, <1>2, <1>3 DEF IInv, TypeOK, Stores, SlotsCover, MemoryLosesNoSlot, WorkIsCharged
<1> QED BY <1>1, <1>4, <1>5 DEF IInv

\* A job asks the first tier, and holds no slot.
LEMMA Submitted ==
  ASSUME IInv, NEW c \in Clients, SubmitJob(c)
  PROVE  IInv'
<1> DEFINE b == [Idle EXCEPT !.kind = "job", !.try = 1]
<1>1. /\ TypeOK /\ Holders = {} /\ (\A d \in Clients : Placed(req[d]))
      /\ req' = [req EXCEPT ![c] = Calling(b)]
      /\ UNCHANGED <<api, redisUp, slots, used, overruns, work>>
      /\ bounds.starts < MaxStarts /\ bounds' = [bounds EXCEPT !.starts = @ + 1]
  BY DEF IInv, SubmitJob, Starts
<1>2. b \in Request /\ b.kind = "job" /\ b.try = 1
  <2>1. 1 \in 0 .. MaxTries
    BY Constants
  <2> QED BY <2>1, IdleType DEF Request, Idle
<1> HIDE DEF b
<1>3. Goes(b, Calling(b))
  BY <1>2, CallingGoes
<1>4. req'[c] = Calling(b) /\ \A d \in Clients \ {c} : req'[d] = req[d]
  BY <1>1 DEF TypeOK
<1>5. /\ req' \in [Clients -> Request]
      /\ \A d \in Clients : Placed(req'[d])
  BY <1>1, <1>3, <1>4 DEF TypeOK, Goes
<1>6. Holders' = Holders /\ Late' = Late
  BY <1>1, <1>2, <1>3, <1>4 DEF Holders, Late, Fresh, Goes
<1>7. bounds' \in [starts : 0 .. MaxStarts, crashes : 0 .. MaxCrashes, outages : 0 .. MaxOutages]
  BY <1>1, StartsBounds
<1> QED BY <1>1, <1>5, <1>6, <1>7, CallStep

\* A call is charged before it reaches the provider.
LEMMA Reserved ==
  ASSUME IInv, NEW c \in Clients, NEW clips \in BOOLEAN, Reserve(c, clips)
  PROVE  IInv'
<1> DEFINE r == req[c]
           q == IF clips THEN [r EXCEPT !.pc = "transcribing"] ELSE Calling(r)
<1>1. /\ TypeOK /\ (\A d \in Clients : Placed(req[d])) /\ r \in Request /\ Placed(r)
      /\ r.pc = "admitted" /\ (clips => r.kind = "capture") /\ used[api] < DailyQuota
      /\ used' = [used EXCEPT ![api] = @ + 1] /\ work' = [work EXCEPT ![api] = @ + 1]
      /\ req' = [req EXCEPT ![c] = q]
      /\ UNCHANGED <<api, redisUp, slots, overruns, bounds>>
  BY DEF IInv, TypeOK, Reserve
<1>2. r.kind \in {"notes", "capture"} /\ c \in Holders
  BY <1>1 DEF Placed, Request, Holders
<1>3. api \in Stores
  BY <1>1, <1>2 DEF IInv, SlotsCover, TypeOK
<1>4. Goes(r, q)
  <2>1. CASE clips
    <3> DEFINE t == [r EXCEPT !.pc = "transcribing"]
    <3>1. t \in Request /\ t.kind = r.kind /\ t.late = r.late /\ t.pc = "transcribing"
      BY <1>1 DEF Request
    <3> HIDE DEF t
    <3>2. Goes(r, t)
      BY <1>2, <3>1 DEF Goes, Placed
    <3> QED BY <2>1, <3>2 DEF t
  <2>2. CASE ~clips
    BY <1>1, <1>2, <2>2, CallingGoes
  <2> QED BY <2>1, <2>2
<1> HIDE DEF q
<1>5. /\ req' \in [Clients -> Request]
      /\ \A d \in Clients : Placed(req'[d])
      /\ Holders' = Holders /\ Late' = Late
  BY <1>1, <1>4, GoesKeeps
<1>6. /\ used' \in [Stores -> 0 .. DailyQuota] /\ work' \in [Stores -> Nat]
      /\ used'[api] = used[api] + 1 /\ work'[api] = work[api] + 1
      /\ \A s \in Stores \ {api} : used'[s] = used[s] /\ work'[s] = work[s]
  BY <1>1, <1>3, Constants DEF TypeOK
<1>7. TypeOK'
  BY <1>1, <1>5, <1>6 DEF TypeOK
<1>8. SlotsCover' /\ MemoryLosesNoSlot'
  BY <1>1, <1>5 DEF IInv, SlotsCover, MemoryLosesNoSlot
<1>9. WorkIsCharged'
  BY <1>1, <1>3, <1>6, Constants DEF IInv, TypeOK, WorkIsCharged
<1> QED BY <1>5, <1>7, <1>8, <1>9 DEF IInv

\* A reservation whose reply is lost may be charged, and keeps its slot in Redis.
LEMMA ReserveLost ==
  ASSUME IInv, NEW c \in Clients, ReserveFails(c)
  PROVE  IInv'
<1>1. /\ TypeOK /\ (\A d \in Clients : Placed(req[d])) /\ api = "redis"
      /\ (used' = used \/ used' = [used EXCEPT !["redis"] = @ + 1])
      /\ used'["redis"] <= DailyQuota
      /\ req' = [req EXCEPT ![c] = Idle]
      /\ UNCHANGED <<api, redisUp, slots, overruns, work, bounds>>
  BY DEF IInv, ReserveFails, StoreFails
<1>2. /\ req' \in [Clients -> Request]
      /\ \A d \in Clients : Placed(req'[d])
      /\ Cardinality(Holders') <= Cardinality(Holders)
      /\ Cardinality(Late') <= Cardinality(Late)
      /\ Cardinality(Holders') \in Nat /\ Cardinality(Late') \in Nat
      /\ Cardinality(Holders) \in Nat /\ Cardinality(Late) \in Nat
  <2>1. /\ req' \in [Clients -> Request]
        /\ \A d \in Clients : Placed(req'[d])
        /\ Cardinality(Holders') =
             IF c \in Holders THEN Cardinality(Holders) - 1 ELSE Cardinality(Holders)
        /\ Cardinality(Late') <= Cardinality(Late)
    BY <1>1, EndsKeeps
  <2>2. Cardinality(Holders') \in Nat /\ Cardinality(Late') \in Nat
    BY <1>1, EndsCounted
  <2>3. Cardinality(Holders) \in Nat /\ Cardinality(Late) \in Nat
    BY <1>1, HoldersFinite
  <2>4. Cardinality(Holders') <= Cardinality(Holders)
    BY <2>1, <2>3
  <2> QED BY <2>1, <2>2, <2>3, <2>4
<1>3. /\ used' \in [Stores -> 0 .. DailyQuota]
      /\ \A s \in Stores : used[s] <= used'[s]
  BY <1>1, Constants DEF TypeOK, Stores
<1>4. TypeOK'
  BY <1>1, <1>2, <1>3 DEF TypeOK
<1>5. SlotsCover'
  BY <1>1, <1>2, Constants DEF IInv, TypeOK, SlotsCover, Stores
<1>6. MemoryLosesNoSlot'
  BY <1>1 DEF MemoryLosesNoSlot
<1>7. WorkIsCharged'
  BY <1>1, <1>3, Constants DEF IInv, TypeOK, WorkIsCharged
<1> QED BY <1>2, <1>4, <1>5, <1>6, <1>7 DEF IInv

\* A lease that is released frees a slot of the store of its process.
LEMMA Released ==
  ASSUME IInv, NEW c \in Clients, Release(c)
  PROVE  IInv'
<1>1. /\ TypeOK /\ (\A d \in Clients : Placed(req[d])) /\ Placed(req[c]) /\ req[c] \in Request
      /\ req[c].pc = "releasing" /\ req' = [req EXCEPT ![c] = Idle]
      /\ ((UNCHANGED slots /\ api = "redis") \/ FreeSlot)
      /\ UNCHANGED <<api, redisUp, used, overruns, work, bounds>>
  BY DEF IInv, TypeOK, Release, StoreFails
<1>2. c \in Holders
  BY <1>1 DEF Placed, Request, Holders
<1>3. api \in Stores
  BY <1>1, <1>2 DEF IInv, SlotsCover, TypeOK
<1>4. /\ req' \in [Clients -> Request]
      /\ \A d \in Clients : Placed(req'[d])
      /\ Cardinality(Holders') = Cardinality(Holders) - 1
      /\ Cardinality(Late') <= Cardinality(Late)
      /\ Cardinality(Holders') \in Nat /\ Cardinality(Late') \in Nat
      /\ Cardinality(Holders) \in Nat /\ Cardinality(Late) \in Nat
  BY <1>1, <1>2, EndsKeeps, EndsCounted, HoldersFinite
<1>5. CASE UNCHANGED slots /\ api = "redis"
  <2>1. SlotsCover'
    BY <1>1, <1>3, <1>4, <1>5 DEF IInv, TypeOK, Stores, SlotsCover
  <2> QED BY <1>1, <1>4, <1>5, <2>1 DEF IInv, TypeOK, MemoryLosesNoSlot, WorkIsCharged
<1>6. CASE FreeSlot
  <2>1. /\ slots[api] \in 0 .. Limit
        /\ slots'[api] = IF slots[api] <= 1 THEN 0 ELSE slots[api] - 1
        /\ \A s \in Stores \ {api} : slots'[s] = slots[s]
    BY <1>1, <1>3, <1>6 DEF TypeOK, FreeSlot
  <2>2. (IF slots[api] <= 1 THEN 0 ELSE slots[api] - 1) \in 0 .. Limit
    BY <2>1, Constants
  <2>3. slots' \in [Stores -> 0 .. Limit]
    BY <1>1, <1>3, <1>6, <2>2 DEF TypeOK, FreeSlot
  <2>4. TypeOK'
    BY <1>1, <1>4, <2>3 DEF TypeOK
  <2>5. SlotsCover'
    BY <1>1, <1>3, <1>4, <2>1, Constants DEF IInv, TypeOK, Stores, SlotsCover
  <2>6. MemoryLosesNoSlot'
    <3> SUFFICES ASSUME api = "memory", overruns = 0
                 PROVE  slots'["memory"] = Cardinality(Holders) - 1
      BY <1>1, <1>4 DEF MemoryLosesNoSlot
    <3>1. slots[api] = Cardinality(Holders)
      BY DEF IInv, MemoryLosesNoSlot
    <3>2. Cardinality(Holders) >= 1
      BY <1>4
    <3> QED BY <1>4, <2>1, <3>1, <3>2
  <2> QED BY <1>1, <1>4, <2>4, <2>5, <2>6 DEF IInv, WorkIsCharged
<1> QED BY <1>1, <1>5, <1>6

\* A key that expires makes its leases late, and they are counted.
LEMMA Expired ==
  ASSUME IInv, NEW s \in Stores, KeyExpires(s)
  PROVE  IInv'
<1> DEFINE outlived == IF s = api THEN Fresh ELSE {}
<1>1. /\ TypeOK /\ (\A d \in Clients : Placed(req[d]))
      /\ overruns + Cardinality(outlived) <= MaxOverruns
      /\ slots' = [slots EXCEPT ![s] = 0]
      /\ req' = [c \in Clients |->
                  IF c \in outlived THEN [req[c] EXCEPT !.late = TRUE] ELSE req[c]]
      /\ overruns' = overruns + Cardinality(outlived)
      /\ UNCHANGED <<api, redisUp, used, work, bounds>>
  BY DEF IInv, KeyExpires
<1>2. /\ Cardinality(outlived) \in Nat /\ IsFiniteSet(outlived)
      /\ Cardinality(Holders) \in Nat /\ Cardinality(Late) \in Nat /\ Cardinality(Fresh) \in Nat
      /\ Cardinality(Holders) = Cardinality(Late) + Cardinality(Fresh)
  BY <1>1, HoldersFinite, FS_EmptySet
<1>3. ASSUME NEW c \in Clients
      PROVE  /\ req'[c] \in Request /\ Placed(req'[c])
             /\ req'[c].kind = req[c].kind
             /\ req'[c].late = IF c \in outlived THEN TRUE ELSE req[c].late
  <2> DEFINE r == req[c]
             q == [r EXCEPT !.late = TRUE]
  <2>1. r \in Request /\ Placed(r)
    BY <1>1 DEF TypeOK
  <2>2. CASE c \notin outlived
    BY <1>1, <2>1, <2>2
  <2>3. CASE c \in outlived
    <3>1. req'[c] = q
      BY <1>1, <2>3
    <3> HIDE DEF r
    <3>2. q \in Request
      BY <2>1 DEF Request
    <3>3. /\ q.kind = r.kind /\ q.pc = r.pc /\ q.try = r.try /\ q.tier = r.tier /\ q.phase = r.phase
          /\ q.meta = r.meta /\ q.result = r.result /\ q.last = r.last /\ q.late = TRUE
      BY <2>1 DEF Request
    <3> HIDE DEF q
    <3>4. Placed(q)
      BY <2>1, <3>3 DEF Placed, Told, IsFinal
    <3> QED BY <2>3, <3>1, <3>2, <3>3, <3>4 DEF r
  <2> QED BY <2>2, <2>3
<1> HIDE DEF outlived
<1>4. Holders' = Holders /\ Late' = Late \cup outlived
  BY <1>3 DEF Holders, Late, Fresh, outlived
<1>5. slots' \in [Stores -> 0 .. Limit] /\ slots'[s] = 0
      /\ \A t \in Stores \ {s} : slots'[t] = slots[t]
  BY <1>1, Constants DEF TypeOK
<1>6. TypeOK'
  <2>1. req' \in [Clients -> Request]
    BY <1>1, <1>3
  <2>2. overruns' \in 0 .. MaxOverruns
    BY <1>1, <1>2, Constants DEF TypeOK
  <2> QED BY <1>1, <1>5, <2>1, <2>2 DEF TypeOK
<1>7. Cardinality(Late') <= Cardinality(Late) + Cardinality(outlived) /\ Cardinality(Late') \in Nat
  <2>1. IsFiniteSet(Late)
    BY <1>1, HoldersFinite
  <2>2. IsFiniteSet(Late \cap outlived) /\ IsFiniteSet(Late \cup outlived)
    BY <1>2, <2>1, FS_Subset, FS_Union
  <2>3. /\ Cardinality(Late \cap outlived) \in Nat /\ Cardinality(Late \cup outlived) \in Nat
        /\ Cardinality(Late) \in Nat
    BY <2>1, <2>2, FS_CardinalityType
  <2>4. Cardinality(Late \cup outlived) =
          Cardinality(Late) + Cardinality(outlived) - Cardinality(Late \cap outlived)
    BY <1>2, <2>1, FS_Union
  <2> QED BY <1>2, <1>4, <2>3, <2>4
<1>8. SlotsCover'
  <2>1. CASE s = api
    BY <1>1, <1>2, <1>4, <1>5, <1>7, <2>1, Constants DEF IInv, TypeOK, Stores, SlotsCover, outlived
  <2>2. CASE s # api
    <3>1. outlived = {} /\ Cardinality(outlived) = 0
      BY <2>2, FS_EmptySet DEF outlived
    <3> QED BY <1>1, <1>2, <1>4, <1>5, <1>7, <2>2, <3>1, Constants
            DEF IInv, TypeOK, Stores, SlotsCover
  <2> QED BY <2>1, <2>2
<1>9. MemoryLosesNoSlot'
  <2> SUFFICES ASSUME api = "memory", overruns' = 0
               PROVE  slots'["memory"] = Cardinality(Holders)
    BY <1>1, <1>4 DEF MemoryLosesNoSlot
  <2>1. overruns = 0 /\ Cardinality(outlived) = 0
    BY <1>1, <1>2 DEF TypeOK
  <2>2. CASE s = api
    BY <1>2, <1>5, <2>1, <2>2 DEF IInv, SlotsCover, outlived
  <2>3. CASE s # api
    BY <1>5, <2>1, <2>3 DEF IInv, MemoryLosesNoSlot, Stores
  <2> QED BY <2>2, <2>3
<1>10. WorkIsCharged'
  BY <1>1 DEF IInv, WorkIsCharged
<1> QED BY <1>3, <1>6, <1>8, <1>9, <1>10 DEF IInv

\* The calls of a process go with it, and so do its own counters.
LEMMA Crashed ==
  ASSUME IInv, Crash
  PROVE  IInv'
<1>1. /\ TypeOK /\ (\A d \in Clients : Placed(req[d])) /\ api' = "down"
      /\ slots' = [slots EXCEPT !["memory"] = 0]
      /\ used' = [used EXCEPT !["memory"] = 0] /\ work' = [work EXCEPT !["memory"] = 0]
      /\ req' = [c \in Clients |-> IF req[c].kind = "job" THEN req[c] ELSE Idle]
      /\ overruns' = 0
      /\ bounds.crashes < MaxCrashes /\ bounds' = [bounds EXCEPT !.crashes = @ + 1]
      /\ UNCHANGED redisUp
  BY DEF IInv, Crash
<1>2. \A c \in Clients : req'[c] \in Request /\ Placed(req'[c]) /\ req'[c].kind \in {"job", "none"}
  BY <1>1, IdleType DEF TypeOK, Idle
<1>3. Holders' = {} /\ Late' = {} /\ Cardinality({}) = 0
  BY <1>2, FS_EmptySet DEF Holders, Late, Fresh
<1>4. /\ slots' \in [Stores -> 0 .. Limit] /\ slots'["memory"] = 0
      /\ used' \in [Stores -> 0 .. DailyQuota] /\ used'["memory"] = 0 /\ used'["redis"] = used["redis"]
      /\ work' \in [Stores -> Nat] /\ work'["memory"] = 0 /\ work'["redis"] = work["redis"]
  BY <1>1, Constants DEF TypeOK, Stores
<1>5. bounds' \in [starts : 0 .. MaxStarts, crashes : 0 .. MaxCrashes, outages : 0 .. MaxOutages]
  <2>1. bounds.crashes + 1 \in 0 .. MaxCrashes
    BY <1>1, Constants DEF TypeOK
  <2> QED BY <1>1, <2>1 DEF TypeOK
<1>6. TypeOK'
  <2>1. req' \in [Clients -> Request]
    BY <1>1, <1>2
  <2>2. overruns' \in 0 .. MaxOverruns
    BY <1>1, Constants
  <2> QED BY <1>1, <1>4, <1>5, <2>1, <2>2 DEF TypeOK
<1>7. SlotsCover' /\ MemoryLosesNoSlot'
  BY <1>1, <1>3, <1>4 DEF SlotsCover, MemoryLosesNoSlot
<1>8. WorkIsCharged'
  BY <1>1, <1>4, Constants DEF IInv, TypeOK, Stores, WorkIsCharged
<1> QED BY <1>2, <1>6, <1>7, <1>8 DEF IInv

\* The process starts, Redis comes and goes, and the day ends.
LEMMA Surroundings ==
  ASSUME IInv, \/ Startup \/ RedisFails \/ RedisReturns \/ Midnight \/ UNCHANGED vars
  PROVE  IInv'
<1>1. TypeOK /\ UNCHANGED <<slots, req, overruns>>
  BY DEF IInv, Startup, RedisFails, RedisReturns, Midnight, vars
<1>2. Holders' = Holders /\ Late' = Late
  BY <1>1 DEF Holders, Late, Fresh
<1>3. CASE Startup
  <2>1. Holders = {} /\ Cardinality(Holders) = 0 /\ slots["memory"] = 0
    BY <1>3, FS_EmptySet DEF IInv, Startup, SlotsCover
  <2>2. /\ api = "down" /\ api' \in Stores
        /\ UNCHANGED <<redisUp, slots, used, req, overruns, work, bounds>>
    BY <1>3 DEF Startup, Stores
  <2>3. SlotsCover' /\ MemoryLosesNoSlot'
    BY <1>1, <1>2, <2>1, <2>2 DEF IInv, TypeOK, Stores, SlotsCover, MemoryLosesNoSlot
  <2> QED BY <1>1, <2>2, <2>3 DEF IInv, TypeOK, WorkIsCharged
<1>4. CASE RedisFails
  <2>1. bounds' \in [starts : 0 .. MaxStarts, crashes : 0 .. MaxCrashes, outages : 0 .. MaxOutages]
    <3>1. bounds.outages + 1 \in 0 .. MaxOutages
      BY <1>1, <1>4, Constants DEF TypeOK, RedisFails
    <3> QED BY <1>1, <1>4, <3>1 DEF TypeOK, RedisFails
  <2> QED BY <1>1, <1>2, <1>4, <2>1
          DEF IInv, TypeOK, SlotsCover, MemoryLosesNoSlot, WorkIsCharged, RedisFails
<1>5. CASE RedisReturns
  BY <1>1, <1>2, <1>5 DEF IInv, TypeOK, SlotsCover, MemoryLosesNoSlot, WorkIsCharged, RedisReturns
<1>6. CASE Midnight
  <2>1. /\ UNCHANGED <<api, redisUp, slots, req, overruns, bounds>>
        /\ used' = [s \in Stores |-> 0] /\ work' = [s \in Stores |-> 0]
    BY <1>6 DEF Midnight
  <2>2. TypeOK'
    BY <1>1, <2>1, Constants DEF TypeOK
  <2>3. WorkIsCharged'
    BY <2>1, Constants DEF WorkIsCharged
  <2> QED BY <1>1, <1>2, <2>1, <2>2, <2>3 DEF IInv, SlotsCover, MemoryLosesNoSlot
<1>7. CASE UNCHANGED vars
  BY <1>1, <1>2, <1>7 DEF IInv, TypeOK, SlotsCover, MemoryLosesNoSlot, WorkIsCharged, vars
<1> QED BY <1>3, <1>4, <1>5, <1>6, <1>7

-------------------------------------------------------------------------------
(* The theorems *)

\* The process is down at first, and no client has a call.
THEOREM InitInv == Init => IInv
<1> SUFFICES ASSUME Init PROVE IInv
  OBVIOUS
<1>1. \A c \in Clients : req[c] \in Request /\ Placed(req[c]) /\ req[c].kind = "none"
  BY IdleType DEF Init, Idle
<1>2. Holders = {} /\ Late = {} /\ Cardinality({}) = 0
  BY <1>1, FS_EmptySet DEF Holders, Late, Fresh
<1>3. TypeOK
  <2>1. 0 \in 0 .. MaxStarts /\ 0 \in 0 .. MaxCrashes /\ 0 \in 0 .. MaxOutages
        /\ 0 \in 0 .. MaxOverruns /\ 0 \in 0 .. Limit /\ 0 \in 0 .. DailyQuota
    BY Constants
  <2> QED BY <1>1, <2>1 DEF Init, TypeOK
<1>4. SlotsCover /\ MemoryLosesNoSlot /\ WorkIsCharged
  BY <1>2, Constants DEF Init, SlotsCover, MemoryLosesNoSlot, WorkIsCharged, Stores
<1> QED BY <1>1, <1>3, <1>4 DEF IInv

\* Every step of the process, of Redis, of a call or of the clock keeps the counters
\* above what is under way, and the account each call gives of its tiers.
THEOREM NextInv == IInv /\ [Next]_vars => IInv'
<1> SUFFICES ASSUME IInv, [Next]_vars PROVE IInv'
  OBVIOUS
<1>1. CASE Startup \/ RedisFails \/ RedisReturns \/ Midnight \/ UNCHANGED vars
  BY <1>1, Surroundings
<1>2. CASE Crash
  BY <1>2, Crashed
<1>3. ASSUME NEW s \in Stores, KeyExpires(s) PROVE IInv'
  BY <1>3, Expired
<1>4. ASSUME NEW c \in Clients, NEW kind \in {"notes", "capture"}, Acquire(c, kind) PROVE IInv'
  BY <1>4, Acquired
<1>5. ASSUME NEW c \in Clients, AcquireFails(c) PROVE IInv'
  BY <1>5, AcquireLost
<1>6. ASSUME NEW c \in Clients, SubmitJob(c) PROVE IInv'
  BY <1>6, Submitted
<1>7. ASSUME NEW c \in Clients, Step(c) PROVE IInv'
  <2>1. ASSUME NEW clips \in BOOLEAN, Reserve(c, clips) PROVE IInv'
    BY <2>1, Reserved
  <2>2. CASE ReserveFails(c)
    BY <2>2, ReserveLost
  <2>3. CASE Release(c)
    BY <2>3, Released
  <2>4. CASE \/ ReserveRefused(c) \/ RetryTranscription(c) \/ Transcribe(c)
             \/ ProviderReplies(c) \/ StoreDraft(c) \/ SettleTry(c)
    BY <2>4, GoingOn
  <2> QED BY <1>7, <2>1, <2>2, <2>3, <2>4 DEF Step
<1> QED BY <1>1, <1>2, <1>3, <1>4, <1>5, <1>6, <1>7 DEF Next

\* The inductive invariant of the extraction calls.
THEOREM Invariance == Spec => []IInv
BY InitInv, NextInv, PTL DEF Spec

\* What a user has under way and has used up is what the counters of the guard say
\* (rate_limit.py): never more calls than the limit and the leases that outlived
\* their key, no slot lost in memory, and every call that reaches the provider paid
\* for, whatever step of the guard fails.
THEOREM GuardAlwaysHolds == Spec => []GuardHolds
<1>1. IInv => GuardHolds
  <2> SUFFICES ASSUME IInv PROVE CapacityRespected
    BY DEF IInv, GuardHolds
  <2>1. TypeOK /\ Cardinality(Holders) \in Nat
    BY HoldersFinite DEF IInv
  <2>2. CASE api = "down"
    BY <2>1, <2>2, FS_EmptySet, Constants DEF IInv, SlotsCover, CapacityRespected, TypeOK
  <2>3. CASE api # "down"
    <3>1. slots[api] \in 0 .. Limit /\ overruns \in Nat
      BY <2>1, <2>3, Constants DEF TypeOK
    <3> QED BY <2>1, <2>3, <3>1, Constants DEF IInv, SlotsCover, CapacityRespected
  <2> QED BY <2>2, <2>3
<1> QED BY <1>1, Invariance, PTL

\* What a caller learns of a call, its outcome and its metadata, tells how the tiers
\* and their repair really ended (extraction.py), for any number of tiers and tries.
THEOREM CallersTold == Spec => []CallersLearnTheOutcome
<1>1. IInv => CallersLearnTheOutcome
  BY DEF IInv, Placed, Told, CallersLearnTheOutcome, OutcomeFollowsTiers, MetadataTellsLastCall
<1> QED BY <1>1, Invariance, PTL

-------------------------------------------------------------------------------
(***************************************************************************)
(* DraftContent: the inductive invariant                                   *)
(***************************************************************************)

\* What the columns of a row are, whatever edits met on it.
RowFits(d) ==
  /\ DOMAIN d = PricingFields \cup {"kind", "line_items"}
  /\ d.kind \in {"quote", "invoice"}
  /\ \A f \in PricingFields : d[f] \in Columns(f)
  /\ d.tax_rate = Null \/ d.tax_rate \in 1 .. TaxScale
  /\ d.line_items \in Seq(StoredItem)
  /\ \A i \in DOMAIN d.line_items :
       LET price == d.line_items[i].price IN price = Null \/ price % 10 = 0

\* What the rules leave of the pricing that they let pass
Whole(p) ==
  /\ (p.discount_type = Null) = (p.discount_value = Null)
  /\ p.discount_value # Null => p.discount_value > 0
  /\ p.discount_type = "percent" => p.discount_value <= 100
  /\ p.deposit_amount # Null => p.deposit_amount > 0
  /\ p.total_amount # Null =>
       /\ p.discount_type = "percent" /\ p.discount_value = 100 => p.total_amount = 0
       /\ p.deposit_amount # Null => p.deposit_amount <= p.total_amount + BackwardError(p)

ReviewFits(r) ==
  /\ DOMAIN r = DOMAIN NoReview
  /\ r.notes_pending \in BOOLEAN /\ r.pricing_pending \in BOOLEAN
  /\ r.dismissed \subseteq r.hidden \cup {UnknownId}

CallFits(call) ==
  \/ call = NoCall
  \/ /\ call.op = "update" /\ call.patch \in Patches /\ RowFits(call.seen)
  \/ /\ call.op = "review" /\ ReviewFits(call.seen)
     /\ call.patch.dismiss \subseteq call.seen.hidden \cup {UnknownId}
     /\ call.patch.notes \in BOOLEAN /\ call.patch.pricing \in BOOLEAN

\* A result is the guarded candidate of an answer that fits, or what is left of two
\* answers that do not.
ResultTellsAnswer ==
  stage = "extracted" =>
    \/ result = RepairFailedResult
    \/ /\ capture.answers[tries].valid
       /\ result = Guarded(Candidate, capture.words, capture.long)

DraftInv ==
  /\ stage \in Stages
  /\ tries \in {1, 2}
  /\ edits \in 0 .. MaxEdits
  /\ stale \in BOOLEAN
  /\ stage \in {"asked", "extracted"} => capture \in Captures
  /\ ResultTellsAnswer
  /\ stage = "made" <=> doc # NoDoc
  /\ doc # NoDoc => RowFits(doc)
  /\ doc # NoDoc /\ ~stale => Whole(doc)
  /\ ReviewFits(review)
  /\ DOMAIN calls = Calls
  /\ \A c \in Calls : CallFits(calls[c])
  /\ (\E c \in Calls : calls[c] # NoCall) => stage = "made"

-------------------------------------------------------------------------------
(* Induction on numbers, by the least one that fails *)

\* A set of numbers that is not empty has a least one.
LEMMA LeastNumber ==
  ASSUME NEW S \in SUBSET Nat, S # {}
  PROVE  \E n \in S : \A m \in S : n <= m
<1>1. PICK n \in S : \A m \in S : <<m, n>> \notin OpToRel(<, Nat)
  BY WFMin, NatLessThanWellFounded
<1>2. \A m \in S : ~(m < n)
  BY <1>1 DEF OpToRel
<1> QED BY <1>2

\* What holds of 0, and of each number up to n if of the one before it, holds of n.
LEMMA Upwards ==
  ASSUME NEW n \in Nat, NEW G, 0 \in G, \A i \in 1 .. n : i - 1 \in G => i \in G
  PROVE  0 .. n \subseteq G
<1> DEFINE Bad == (0 .. n) \ G
<1>1. CASE Bad # {}
  <2>1. PICK m \in Bad : \A k \in Bad : m <= k
    <3>1. Bad \in SUBSET Nat
      OBVIOUS
    <3> QED BY <1>1, <3>1, LeastNumber
  <2>2. m \in 1 .. n /\ m - 1 \in 0 .. n /\ m - 1 \notin Bad
    <3>1. m \in 0 .. n /\ m # 0
      BY <2>1
    <3>2. m - 1 \in 0 .. n
      BY <3>1
    <3> QED BY <2>1, <3>1, <3>2
  <2> QED BY <2>2
<1> QED BY <1>1

\* A function on 0 .. n that is defined step by step
Follows(g, n, base, step) ==
  g = [i \in 0 .. n |-> IF i = 0 THEN base ELSE step[<<i, g[i - 1]>>]]

\* There is one.
LEMMA StepByStep ==
  ASSUME NEW n \in Nat, NEW T, NEW base \in T, NEW step \in [(1 .. n) \X T -> T]
  PROVE  \E g \in [0 .. n -> T] : Follows(g, n, base, step)
<1> DEFINE Upto(g, m) == \A i \in 0 .. m : g[i] = IF i = 0 THEN base ELSE step[<<i, g[i - 1]>>]
           Good == {m \in 0 .. n : \E g \in [0 .. n -> T] : Upto(g, m)}
<1>1. 0 \in Good
  <2> DEFINE g == [i \in 0 .. n |-> base]
  <2>1. g \in [0 .. n -> T] /\ 0 \in 0 .. n
    OBVIOUS
  <2>2. Upto(g, 0)
    OBVIOUS
  <2> HIDE DEF Upto, g
  <2> QED BY <2>1, <2>2
<1>2. ASSUME NEW m \in 1 .. n, m - 1 \in Good PROVE m \in Good
  <2>1. PICK g \in [0 .. n -> T] : Upto(g, m - 1)
    BY <1>2
  <2> DEFINE value == step[<<m, g[m - 1]>>]
             h == [g EXCEPT ![m] = value]
  <2>2. m - 1 \in 0 .. n /\ m \in 0 .. n
    OBVIOUS
  <2>3. value \in T
    BY <2>2
  <2>4. h \in [0 .. n -> T] /\ h[m] = value /\ \A i \in 0 .. m - 1 : h[i] = g[i]
    BY <2>2, <2>3
  <2>5. ASSUME NEW i \in 0 .. m PROVE h[i] = IF i = 0 THEN base ELSE step[<<i, h[i - 1]>>]
    <3>1. CASE i = m
      BY <2>2, <2>4, <3>1
    <3>2. CASE i # m
      <4>1. i \in 0 .. m - 1 /\ (i # 0 => i - 1 \in 0 .. m - 1)
        BY <3>2
      <4>2. g[i] = IF i = 0 THEN base ELSE step[<<i, g[i - 1]>>]
        BY <2>1, <4>1
      <4> HIDE DEF h
      <4> QED BY <2>4, <4>1, <4>2
    <3> QED BY <3>1, <3>2
  <2>6. Upto(h, m)
    BY <2>5
  <2> HIDE DEF Upto, h
  <2> QED BY <2>2, <2>4, <2>6
<1>3. n \in Good
  <2> HIDE DEF Good
  <2>1. 0 .. n \subseteq Good
    BY <1>1, <1>2, Upwards
  <2> QED BY <2>1
<1>4. PICK g \in [0 .. n -> T] : Upto(g, n)
  BY <1>3
<1>5. g = [i \in 0 .. n |-> g[i]]
  OBVIOUS
<1> QED BY <1>4, <1>5 DEF Follows

-------------------------------------------------------------------------------
(* Rounding *)

\* A rounded quotient is a whole number.
LEMMA HalfUpType ==
  ASSUME NEW n \in Int, NEW d \in Int, d # 0
  PROVE  HalfUp(n, d) \in Int
BY DEF HalfUp, AbsOf

\* A rounded quotient is off by half the divisor at most.
LEMMA Rounding ==
  ASSUME NEW n \in Int, NEW d \in Nat, d # 0
  PROVE  /\ HalfUp(n, d) \in Int
         /\ -d <= 2 * (d * HalfUp(n, d) - n) /\ 2 * (d * HalfUp(n, d) - n) <= d
<1> DEFINE a == AbsOf(n)
           w == a \div d
           r == a % d
           up == IF 2 * r >= d THEN 1 ELSE 0
<1>1. a \in Nat /\ AbsOf(d) = d /\ ~(d < 0)
  BY DEF AbsOf
<1>2. w \in Nat /\ r \in Nat /\ r < d /\ a = d * w + r
  BY <1>1
<1>3. HalfUp(n, d) = IF n < 0 THEN -(w + up) ELSE w + up
  BY <1>1 DEF HalfUp
<1>4. d * (w + up) = d * w + d * up
  BY <1>2
<1>5. d * up = IF 2 * r >= d THEN d ELSE 0
  OBVIOUS
<1>6. n = IF n < 0 THEN -a ELSE a
  BY DEF AbsOf
<1>7. d * (-(w + up)) = - (d * (w + up))
  BY <1>2
<1> DEFINE q == HalfUp(n, d)
           m == d * w
           dq == d * q
<1>8. dq = IF n < 0 THEN -(m + (IF 2 * r >= d THEN d ELSE 0)) ELSE m + (IF 2 * r >= d THEN d ELSE 0)
  BY <1>3, <1>4, <1>5, <1>7
<1>9. m \in Int /\ dq \in Int /\ q \in Int /\ a = m + r
  BY <1>2, <1>3
<1> HIDE DEF a, w, r, up, q, m, dq
<1>10. -d <= 2 * (dq - n) /\ 2 * (dq - n) <= d
  BY <1>1, <1>2, <1>6, <1>8, <1>9
<1> QED BY <1>9, <1>10 DEF q, dq

\* A factor that is a bound of a bound
LEMMA Scaled ==
  ASSUME NEW e \in Int, NEW b \in Int, NEW m \in Nat, -b <= e, e <= b
  PROVE  m * e \in Int /\ m * b \in Int /\ -(m * b) <= m * e /\ m * e <= m * b
<1>1. m * (b - e) >= 0 /\ m * (b + e) >= 0
  OBVIOUS
<1>2. m * (b - e) = m * b - m * e /\ m * (b + e) = m * b + m * e
  OBVIOUS
<1> QED BY <1>1, <1>2

\* An error that is bounded, in parts of a divisor
LEMMA WholeError ==
  ASSUME NEW e \in Int, NEW d \in Nat, d # 0, NEW c \in Nat,
         -(d * c) < d * e, d * e < d * c
  PROVE  -c < e /\ e < c
<1>1. ASSUME e >= c PROVE FALSE
  <2>1. d * (e - c) >= 0 /\ d * (e - c) = d * e - d * c
    BY <1>1
  <2> QED BY <2>1
<1>2. ASSUME e <= -c PROVE FALSE
  <2>1. d * (-c - e) >= 0 /\ d * (-c - e) = -(d * c) - d * e
    BY <1>2
  <2> QED BY <2>1
<1> QED BY <1>1, <1>2

-------------------------------------------------------------------------------
(* Sums of prices *)

\* A column that is not set holds no number and none of the words of the code.
LEMMA NullIsNoValue ==
  Null \notin Int \cup DiscountTypes \cup GuardReasons \cup Degradations
BY DraftContentAssumption, Zenon

\* The sums of the prices are defined, item by item.
LEMMA Sums ==
  ASSUME NEW S, NEW items \in Seq(S), \A i \in DOMAIN items : items[i].price \in Amount
  PROVE  /\ PriceSums(items) \in [0 .. Len(items) -> Int]
         /\ PriceSums(items)[0] = 0
         /\ \A i \in 1 .. Len(items) :
              PriceSums(items)[i] = PriceSums(items)[i - 1]
                                    + (IF IsPriced(items[i]) THEN items[i].price ELSE 0)
<1> DEFINE n == Len(items)
           Cents(i) == IF IsPriced(items[i]) THEN items[i].price ELSE 0
           step == [x \in (1 .. n) \X Int |-> x[2] + Cents(x[1])]
           Is(g) == g = [i \in 0 .. n |-> IF i = 0 THEN 0 ELSE g[i - 1] + Cents(i)]
<1>1. n \in Nat /\ DOMAIN items = 1 .. n
  OBVIOUS
<1>2. \A i \in 1 .. n : Cents(i) \in Int
  BY <1>1 DEF Amount, IsPriced
<1>3. \E g \in [0 .. n -> Int] : Is(g)
  <2> HIDE DEF n, Cents
  <2>1. step \in [(1 .. n) \X Int -> Int]
    BY <1>2
  <2>2. \A i \in 1 .. n, s \in Int : step[<<i, s>>] = s + Cents(i)
    OBVIOUS
  <2> HIDE DEF step
  <2>3. PICK g \in [0 .. n -> Int] : Follows(g, n, 0, step)
    <3>1. 0 \in Int
      OBVIOUS
    <3> QED BY <1>1, <2>1, <3>1, StepByStep, Zenon
  <2>4. \A i \in 0 .. n : i # 0 => i \in 1 .. n /\ i - 1 \in 0 .. n
    BY <1>1
  <2>5. \A i \in 0 .. n : (IF i = 0 THEN 0 ELSE step[<<i, g[i - 1]>>])
                          = (IF i = 0 THEN 0 ELSE g[i - 1] + Cents(i))
    BY <2>2, <2>3, <2>4
  <2>6. g = [i \in 0 .. n |-> IF i = 0 THEN 0 ELSE g[i - 1] + Cents(i)]
    BY <2>3, <2>5 DEF Follows
  <2> QED BY <2>3, <2>6
<1>4. PriceSums(items) = CHOOSE g : Is(g)
  BY DEF PriceSums
<1>5. Is(PriceSums(items))
  <2> HIDE DEF Is
  <2> QED BY <1>3, <1>4
<1>6. ASSUME NEW g, Is(g)
      PROVE  /\ g[0] = 0
             /\ \A i \in 1 .. n : g[i] = g[i - 1] + Cents(i)
  BY <1>1, <1>6
<1>7. PICK g \in [0 .. n -> Int] : Is(g)
  BY <1>3
<1> DEFINE p == PriceSums(items)
<1>8. p[0] = 0 /\ \A i \in 1 .. n : p[i] = p[i - 1] + Cents(i)
  <2> HIDE DEF Is, n, Cents, p
  <2> QED BY <1>5, <1>6 DEF p
<1>9. DOMAIN p = 0 .. n /\ p = [i \in 0 .. n |-> p[i]]
  <2> HIDE DEF n, Cents
  <2>1. p = [i \in 0 .. n |-> IF i = 0 THEN 0 ELSE p[i - 1] + Cents(i)]
    BY <1>5
  <2> HIDE DEF p
  <2> QED BY <2>1
<1>10. \A i \in 0 .. n : p[i] \in Int
  <2> HIDE DEF n, Cents, p
  <2> DEFINE Good == {i \in 0 .. n : p[i] \in Int}
  <2>1. 0 \in Good
    BY <1>1, <1>8
  <2>2. \A i \in 1 .. n : i - 1 \in Good => i \in Good
    BY <1>1, <1>2, <1>8
  <2> HIDE DEF Good
  <2>3. 0 .. n \subseteq Good
    BY <1>1, <2>1, <2>2, Upwards
  <2> QED BY <2>3 DEF Good
<1> QED
  <2> HIDE DEF p
  <2>1. p \in [0 .. n -> Int]
    BY <1>9, <1>10
  <2> QED BY <1>8, <2>1 DEF p

\* The sum of the line items is an amount.
LEMMA LineSumType ==
  ASSUME NEW S, NEW items \in Seq(S), \A i \in DOMAIN items : items[i].price \in Amount
  PROVE  LineSum(items) \in Amount
<1>1. PriceSums(items)[Len(items)] \in Int
  BY Sums
<1>2. HalfUp(PriceSums(items)[Len(items)], 10) \in Int
  <2>1. 10 \in Int /\ 10 # 0
    OBVIOUS
  <2> QED BY <1>1, <2>1, HalfUpType, Zenon
<1>3. HalfUp(PriceSums(items)[Len(items)], 10) \in Amount /\ Null \in Amount
  BY <1>2 DEF Amount
<1> QED BY <1>3, Zenon DEF LineSum

\* A price that is kept is a whole number of cents.
LEMMA KeptType ==
  ASSUME NEW price \in Amount
  PROVE  Kept(price) \in Amount /\ (Kept(price) = Null \/ Kept(price) % 10 = 0)
<1>1. CASE price = Null
  BY <1>1 DEF Kept, Amount
<1>2. CASE price # Null
  <2>1. HalfUp(price, 10) \in Int
    BY <1>2, HalfUpType DEF Amount
  <2>2. ASSUME NEW h \in Int PROVE 10 * h \in Int /\ (10 * h) % 10 = 0
    OBVIOUS
  <2> QED BY <1>2, <2>1, <2>2 DEF Kept, Amount
<1> QED BY <1>1, <1>2

-------------------------------------------------------------------------------
(* What the rules let pass *)

\* Pricing as it is asked: every field an amount or one of the two discounts
Asks(p) ==
  /\ DOMAIN p = PricingFields
  /\ \A f \in PricingFields : p[f] \in Columns(f)

\* The fields of such a pricing, one by one
LEMMA AskedFields ==
  ASSUME NEW p, Asks(p)
  PROVE  /\ p.total_amount \in Amount /\ p.discount_value \in Amount
         /\ p.tax_rate \in Amount /\ p.deposit_amount \in Amount
         /\ p.discount_type \in DiscountTypes \cup {Null}
BY DEF Asks, PricingFields, Columns

\* A discount on an amount is an amount.
LEMMA DiscountType ==
  ASSUME NEW p, p.discount_type \in DiscountTypes \cup {Null}, p.discount_value \in Amount,
         NEW s \in Int
  PROVE  Discount(p, s) \in Int
<1>1. OrZero(p.discount_value) \in Int
  BY DEF OrZero, Amount
<1>2. s * OrZero(p.discount_value) \in Int
  BY <1>1
<1>3. Percent(s, OrZero(p.discount_value)) \in Int
  BY <1>2, HalfUpType DEF Percent
<1>4. Null # "fixed" /\ Null # "percent"
  BY NullIsNoValue DEF DiscountTypes
<1> USE DEF DiscountTypes
<1>5. CASE p.discount_type = Null
  BY <1>4, <1>5 DEF Discount
<1>6. CASE p.discount_type = "fixed"
  BY <1>1, <1>4, <1>6 DEF Discount
<1>7. CASE p.discount_type = "percent"
  BY <1>3, <1>4, <1>7 DEF Discount
<1> QED BY <1>5, <1>6, <1>7

\* The tax on an amount is one.
LEMMA TaxType ==
  ASSUME NEW p, p.tax_rate \in Amount, NEW t \in Int
  PROVE  Tax(p, t) \in Int
<1>1. t * OrZero(p.tax_rate) \in Int
  <2>1. OrZero(p.tax_rate) \in Int
    BY DEF OrZero, Amount
  <2> QED BY <2>1
<1> QED BY <1>1, HalfUpType, TaxScaleAssumption DEF Tax

\* The total of an amount is one.
LEMMA TotalType ==
  ASSUME NEW p, p.discount_type \in DiscountTypes \cup {Null}, p.discount_value \in Amount,
         p.tax_rate \in Amount, NEW s \in Int
  PROVE  Total(p, s) \in Int
<1> DEFINE t == s - Discount(p, s)
<1>1. t \in Int
  BY DiscountType
<1>2. Tax(p, t) \in Int
  BY <1>1, TaxType
<1>3. s # Null
  BY NullIsNoValue
<1> QED BY <1>1, <1>2, <1>3 DEF Total

\* A quotient that is whole is not rounded.
LEMMA RoundingExact ==
  ASSUME NEW n \in Int, NEW d \in Nat, d # 0, NEW k \in Int, n = d * k
  PROVE  HalfUp(n, d) = k
<1> DEFINE h == HalfUp(n, d)
<1>1. h \in Int /\ -d <= 2 * (d * h - n) /\ 2 * (d * h - n) <= d
  BY Rounding
<1> HIDE DEF h
<1>2. d * h - n = d * (h - k) /\ d * (h - k) \in Int
  BY <1>1
<1>3. -(d * 1) < d * (h - k) /\ d * (h - k) < d * 1
  <2>1. d * 1 = d
    OBVIOUS
  <2> QED BY <1>1, <1>2, <2>1
<1>4. h - k \in Int /\ -1 < h - k /\ h - k < 1
  <2>1. h - k \in Int /\ 1 \in Nat
    BY <1>1
  <2> QED BY <1>3, <2>1, WholeError
<1>5. h = k
  BY <1>1, <1>4
<1> QED BY <1>5 DEF h

\* All of an amount comes off with a discount of 100 percent, and nothing taxes nothing.
LEMMA HundredPercent ==
  ASSUME NEW s \in Int
  PROVE  Percent(s, 100) = s
<1>1. s * 100 \in Int /\ s * 100 = 100 * s /\ 100 \in Nat /\ 100 # 0
  OBVIOUS
<1>2. HalfUp(s * 100, 100) = s
  BY <1>1, RoundingExact
<1> QED BY <1>2 DEF Percent

\* Nothing is added to nothing.
LEMMA TaxOfNothing ==
  ASSUME NEW p, p.tax_rate \in Amount
  PROVE  Tax(p, 0) = 0
<1>1. 0 * OrZero(p.tax_rate) = 0
  BY DEF OrZero, Amount
<1>2. TaxScale \in Nat /\ TaxScale # 0 /\ 0 = TaxScale * 0 /\ 0 \in Int
  BY TaxScaleAssumption
<1>3. HalfUp(0, TaxScale) = 0
  BY <1>2, RoundingExact
<1> QED BY <1>1, <1>3 DEF Tax

\* A subtotal that is computed back is an amount.
LEMMA ResolvedType ==
  ASSUME NEW p, p.total_amount \in Amount, p.discount_type \in DiscountTypes \cup {Null},
         p.discount_value \in Amount, p.tax_rate = Null \/ p.tax_rate \in 1 .. TaxScale,
         NEW sum \in Amount
  PROVE  Resolved(p, sum) \in Amount /\ (p.total_amount # Null => Resolved(p, sum) \in Int)
<1> DEFINE scaled == p.total_amount * TaxScale
           taxed == TaxScale + OrZero(p.tax_rate)
           value == OrZero(p.discount_value)
<1>1. Null # "fixed" /\ Null # "percent" /\ Null \notin Int
  BY NullIsNoValue DEF DiscountTypes
<1>2. TaxScale \in Nat /\ TaxScale # 0
  BY TaxScaleAssumption
<1>3. taxed \in Nat /\ taxed # 0
  BY <1>1, <1>2 DEF OrZero
<1>4. value \in Int /\ OrZero(sum) \in Int
  BY DEF OrZero, Amount
<1>5. CASE p.total_amount = Null
  BY <1>1, <1>5 DEF Resolved
<1>6. CASE p.total_amount # Null
  <2>1. scaled \in Int
    BY <1>2, <1>6 DEF Amount
  <2> HIDE DEF scaled, taxed, value
  <2>2. HalfUp(scaled, taxed) \in Int
    BY <1>3, <2>1, HalfUpType
  <2>3. HalfUp(scaled + value * taxed, taxed) \in Int
    <3>1. scaled + value * taxed \in Int
      BY <1>3, <1>4, <2>1
    <3> QED BY <1>3, <3>1, HalfUpType
  <2>4. ASSUME value # 100 PROVE HalfUp(100 * scaled, taxed * (100 - value)) \in Int
    <3> DEFINE k == 100 - value
    <3>1. k \in Int /\ k # 0
      BY <1>4, <2>4
    <3>2. taxed * k \in Int /\ taxed * k # 0
      BY <1>3, <3>1
    <3> HIDE DEF k
    <3>3. 100 * scaled \in Int
      BY <2>1
    <3>4. HalfUp(100 * scaled, taxed * k) \in Int
      BY <3>2, <3>3, HalfUpType
    <3> QED BY <3>4 DEF k
  <2> DEFINE r == Resolved(p, sum)
  <2>5. CASE p.discount_type = Null
    <3>1. r = HalfUp(scaled, taxed)
      BY <1>1, <1>6, <2>5 DEF Resolved, scaled, taxed
    <3> QED BY <2>2, <3>1 DEF Amount
  <2>6. CASE p.discount_type = "fixed"
    <3>1. r = HalfUp(scaled + value * taxed, taxed)
      BY <1>1, <1>6, <2>6 DEF Resolved, scaled, taxed, value
    <3> QED BY <2>3, <3>1 DEF Amount
  <2>7. CASE p.discount_type = "percent"
    <3>1. r = IF value = 100 THEN OrZero(sum) ELSE HalfUp(100 * scaled, taxed * (100 - value))
      BY <1>1, <1>6, <2>7 DEF Resolved, scaled, taxed, value
    <3>2. CASE value = 100
      BY <1>4, <3>1, <3>2 DEF Amount
    <3>3. CASE value # 100
      BY <2>4, <3>1, <3>3 DEF Amount
    <3> QED BY <3>2, <3>3
  <2> QED BY <2>5, <2>6, <2>7 DEF DiscountTypes
<1> QED BY <1>5, <1>6

\* What the rules let pass and what is stored of it
LEMMA Passed ==
  ASSUME NEW asked, Asks(asked), NEW sum \in Amount, NEW p,
         p = Validated(asked, sum), p # Refused
  PROVE  /\ Asks(p)
         /\ p.tax_rate = Null \/ p.tax_rate \in 1 .. TaxScale
         /\ (p.discount_type = Null) = (p.discount_value = Null)
         /\ p.discount_value # Null => p.discount_value > 0
         /\ p.discount_type = "percent" => p.discount_value <= 100
         /\ p.deposit_amount # Null =>
              /\ p.deposit_amount > 0 /\ p.total_amount # Null
              /\ p.deposit_amount <= p.total_amount
         /\ p.discount_type = "percent" /\ p.discount_value = 100 => p.total_amount = 0
         /\ \A f \in {"discount_value", "tax_rate", "deposit_amount"} :
              p[f] = ZeroIsNull(asked[f])
         /\ p.discount_type = IF p.discount_value = Null THEN Null ELSE asked.discount_type
         /\ p.total_amount = Total(p, IF asked.total_amount = Null
                                        THEN sum ELSE asked.total_amount)
         /\ (asked.discount_type = Null) = (asked.discount_value = Null)
         /\ HasActivePricing(p) => p.total_amount # Null
<1> DEFINE s == IF asked.total_amount = Null THEN sum ELSE asked.total_amount
           raw == [asked EXCEPT !.total_amount = IF @ = Null THEN sum ELSE @]
           q == Normalized(raw)
<1>1. Null \notin Int /\ Null # "fixed" /\ Null # "percent"
  BY NullIsNoValue DEF DiscountTypes
<1>2. TaxScale \in Nat /\ TaxScale # 0
  BY TaxScaleAssumption
<1>3. /\ asked.total_amount \in Amount /\ asked.discount_value \in Amount
      /\ asked.tax_rate \in Amount /\ asked.deposit_amount \in Amount
      /\ asked.discount_type \in DiscountTypes \cup {Null}
  BY AskedFields
<1>4. DOMAIN raw = PricingFields
      /\ raw.total_amount = s /\ raw.discount_value = asked.discount_value
      /\ raw.tax_rate = asked.tax_rate /\ raw.deposit_amount = asked.deposit_amount
      /\ raw.discount_type = asked.discount_type
  BY DEF Asks, PricingFields
<1>5. s \in Amount
  BY <1>3
<1> HIDE DEF raw, s
<1> DEFINE value == ZeroIsNull(asked.discount_value)
<1>6. /\ DOMAIN q = PricingFields
      /\ q.total_amount = s /\ q.discount_value = value
      /\ q.discount_type = IF value = Null THEN Null ELSE asked.discount_type
      /\ q.tax_rate = ZeroIsNull(asked.tax_rate)
      /\ q.deposit_amount = ZeroIsNull(asked.deposit_amount)
  BY <1>4 DEF Normalized, PricingFields
<1>7. /\ value \in Amount /\ value # 0
      /\ q.tax_rate \in Amount /\ q.tax_rate # 0
      /\ q.deposit_amount \in Amount /\ q.deposit_amount # 0
      /\ q.discount_type \in DiscountTypes \cup {Null}
  BY <1>1, <1>3, <1>6 DEF ZeroIsNull, Amount
<1>8. ~BreaksRules(raw, q) /\ p = [q EXCEPT !.total_amount = Total(q, @)]
  BY DEF Validated, raw, q, s
<1> HIDE DEF q, value
<1>9. /\ DOMAIN p = PricingFields
      /\ p.total_amount = Total(q, s) /\ p.discount_value = value
      /\ p.discount_type = q.discount_type /\ p.tax_rate = q.tax_rate
      /\ p.deposit_amount = q.deposit_amount
  BY <1>6, <1>8 DEF PricingFields
<1>10. /\ ~(value # Null /\ value < 0)
       /\ ~(q.deposit_amount # Null /\ q.deposit_amount < 0)
       /\ (asked.discount_type = Null) = (asked.discount_value = Null)
       /\ ~(q.discount_type = "percent" /\ value > 100)
       /\ ~(q.tax_rate # Null /\ q.tax_rate \notin 0 .. TaxScale)
       /\ ~(HasActivePricing(q) /\ s = Null)
       /\ ~({q.deposit_amount, s} \cap {Null} = {} /\ q.deposit_amount > Total(q, s))
  BY <1>4, <1>6, <1>8 DEF BreaksRules
<1>11. q.tax_rate = Null \/ q.tax_rate \in 1 .. TaxScale
  BY <1>1, <1>2, <1>7, <1>10 DEF Amount
<1>12. value # Null => value > 0
  BY <1>1, <1>7, <1>10 DEF Amount
<1>13. (q.discount_type = Null) = (value = Null)
  BY <1>1, <1>6, <1>7, <1>10 DEF ZeroIsNull, value
<1>14. s # Null => Total(q, s) \in Int
  BY <1>5, <1>6, <1>7, TotalType DEF Amount
<1>15. s = Null => Total(q, s) = Null
  BY DEF Total
<1>16. Total(p, s) = Total(q, s)
  BY <1>9, <1>6 DEF Total, Discount, Tax
<1>17. HasActivePricing(p) = HasActivePricing(q)
  BY <1>9 DEF HasActivePricing
<1>18. p.total_amount \in Amount
  BY <1>9, <1>14, <1>15 DEF Amount
<1>19. Asks(p)
  BY <1>7, <1>9, <1>18 DEF Asks, PricingFields, Columns
<1>20. ASSUME q.deposit_amount # Null
       PROVE  q.deposit_amount > 0 /\ p.total_amount # Null /\ q.deposit_amount <= p.total_amount
  <2>1. HasActivePricing(q)
    BY <1>20 DEF HasActivePricing
  <2>2. s # Null
    BY <1>10, <2>1
  <2>3. q.deposit_amount \in Int /\ q.deposit_amount > 0
    BY <1>7, <1>10, <1>20 DEF Amount
  <2>4. Total(q, s) \in Int /\ ~(q.deposit_amount > Total(q, s))
    BY <1>10, <1>14, <1>20, <2>2
  <2> QED BY <1>1, <1>9, <2>3, <2>4
<1>21. ASSUME q.discount_type = "percent", value = 100
       PROVE  p.total_amount = 0
  <2>1. s # Null /\ s \in Int
    <3>1. HasActivePricing(q)
      BY <1>1, <1>21 DEF HasActivePricing
    <3> QED BY <1>5, <1>10, <3>1 DEF Amount
  <2>2. Discount(q, s) = Percent(s, OrZero(value))
    BY <1>1, <1>6, <1>21 DEF Discount
  <2>3. OrZero(value) = 100
    BY <1>1, <1>21 DEF OrZero
  <2>4. Discount(q, s) = s
    BY <2>1, <2>2, <2>3, HundredPercent
  <2>5. s - Discount(q, s) = 0 /\ 0 + 0 = 0
    BY <2>1, <2>4
  <2>6. Tax(q, 0) = 0
    BY <1>7, TaxOfNothing
  <2> QED BY <1>9, <2>1, <2>5, <2>6 DEF Total
<1>22. HasActivePricing(p) => p.total_amount # Null
  BY <1>1, <1>9, <1>10, <1>14, <1>17
<1>23. \A f \in {"discount_value", "tax_rate", "deposit_amount"} : p[f] = ZeroIsNull(asked[f])
  BY <1>6, <1>9 DEF value
<1>24. p.discount_type = IF p.discount_value = Null THEN Null ELSE asked.discount_type
  BY <1>6, <1>9
<1>25. p.total_amount = Total(p, s)
  BY <1>9, <1>16
<1>26. /\ p.tax_rate = Null \/ p.tax_rate \in 1 .. TaxScale
       /\ (p.discount_type = Null) = (p.discount_value = Null)
       /\ p.discount_value # Null => p.discount_value > 0
       /\ p.discount_type = "percent" => p.discount_value <= 100
  <2>1. p.discount_value \in Amount
    BY <1>7, <1>9
  <2> QED BY <1>1, <1>7, <1>9, <1>10, <1>11, <1>12, <1>13, <2>1 DEF Amount
<1>27. /\ p.deposit_amount # Null =>
            /\ p.deposit_amount > 0 /\ p.total_amount # Null
            /\ p.deposit_amount <= p.total_amount
       /\ p.discount_type = "percent" /\ p.discount_value = 100 => p.total_amount = 0
  BY <1>9, <1>20, <1>21
<1>28. p.total_amount = Total(p, IF asked.total_amount = Null THEN sum ELSE asked.total_amount)
  BY <1>25 DEF s
<1> QED
  BY <1>10, <1>19, <1>22, <1>23, <1>24, <1>26, <1>27, <1>28, Zenon

-------------------------------------------------------------------------------
(* What computing the subtotal back costs *)

\* Taxing what a total was before its tax gives the total but for a cent.
LEMMA TaxedBack ==
  ASSUME NEW S \in Nat, S # 0, NEW r \in 0 .. S, NEW T \in Int, NEW u \in Int, NEW tax \in Int,
         -(S + r) <= 2 * ((S + r) * u - T * S), 2 * ((S + r) * u - T * S) <= S + r,
         -S <= 2 * (S * tax - u * r), 2 * (S * tax - u * r) <= S
  PROVE  -2 < u + tax - T /\ u + tax - T < 2
<1> DEFINE err == u + tax - T
           e1 == (S + r) * u - T * S
           e2 == S * tax - u * r
<1>1. err \in Int /\ e1 \in Int /\ e2 \in Int /\ r \in Int
  OBVIOUS
<1>2. S * err = S * u + S * tax - T * S
  BY <1>1
<1>3. (S + r) * u = S * u + u * r
  BY <1>1
<1>4. S * err = e1 + e2
  BY <1>2, <1>3
<1>5. -(S + r) <= 2 * e1 /\ 2 * e1 <= S + r /\ -S <= 2 * e2 /\ 2 * e2 <= S
  OBVIOUS
<1> HIDE DEF err, e1, e2
<1>6. -(S * 2) < S * err /\ S * err < S * 2
  BY <1>1, <1>4, <1>5
<1>7. -2 < err /\ err < 2
  <2>1. 2 \in Nat
    OBVIOUS
  <2> QED BY <1>1, <1>6, <2>1, WholeError
<1> QED BY <1>7 DEF err

\* With a percentage off it is two cents, or one if at most half was added as tax.
LEMMA DiscountedBack ==
  ASSUME NEW S \in Nat, S # 0, NEW r \in 0 .. S, NEW v \in 1 .. 99, NEW T \in Int,
         NEW s \in Int, NEW disc \in Int, NEW tax \in Int,
         NEW k \in Nat, k = 100 - v, NEW m \in Nat, m = S + r,
         -(m * k) <= 2 * ((m * k) * s - 100 * (T * S)),
         2 * ((m * k) * s - 100 * (T * S)) <= m * k,
         -100 <= 2 * (100 * disc - s * v), 2 * (100 * disc - s * v) <= 100,
         -S <= 2 * (S * tax - (s - disc) * r), 2 * (S * tax - (s - disc) * r) <= S
  PROVE  /\ -3 < s - disc + tax - T /\ s - disc + tax - T < 3
         /\ 2 * r <= S => -2 < s - disc + tax - T /\ s - disc + tax - T < 2
<1> DEFINE t == s - disc
           err == t + tax - T
           TS == T * S
           e1 == (m * k) * s - 100 * TS
           e2 == S * tax - t * r
           e3 == 100 * disc - s * v
           me3 == m * e3
           mk == m * k
           mt == m * t
           Serr == S * err
<1>1. /\ t \in Int /\ err \in Int /\ TS \in Int /\ mk \in Nat /\ mt \in Int /\ Serr \in Int
      /\ e1 \in Int /\ e2 \in Int /\ e3 \in Int /\ me3 \in Int
  <2>1. t \in Int /\ r \in Int /\ TS \in Int /\ mk \in Nat
    OBVIOUS
  <2> HIDE DEF t, TS, mk
  <2>2. err \in Int /\ mk * s \in Int /\ t * r \in Int /\ s * v \in Int
    BY <2>1
  <2>3. e1 \in Int /\ e2 \in Int /\ e3 \in Int
    BY <2>1, <2>2 DEF mk
  <2> HIDE DEF err, e1, e2, e3
  <2> QED BY <2>1, <2>2, <2>3
<1>2. Serr = mt + e2 - TS
  <2>1. t \in Int /\ r \in Int
    BY <1>1
  <2> HIDE DEF t
  <2>2. S * err = S * t + S * tax - S * T
    BY <2>1
  <2>3. m * t = S * t + t * r
    BY <2>1
  <2>4. S * T = T * S
    OBVIOUS
  <2> QED BY <1>1, <2>2, <2>3, <2>4
<1>3. 100 * mt = mk * s - me3
  <2>1. 100 * t = k * s - e3
    <3>1. k * s = 100 * s - s * v
      OBVIOUS
    <3> QED BY <1>1, <3>1
  <2>2. 100 * (m * t) = m * (100 * t)
    BY <1>1
  <2> HIDE DEF e3, t
  <2>3. k * s \in Int
    OBVIOUS
  <2>4. m * (k * s - e3) = m * (k * s) - m * e3
    BY <1>1, <2>3
  <2>5. m * (k * s) = (m * k) * s
    OBVIOUS
  <2> QED BY <1>1, <2>1, <2>2, <2>4, <2>5
<1>4. 100 * Serr = e1 - me3 + 100 * e2
  <2>1. mk * s \in Int
    BY <1>1
  <2>2. e1 = mk * s - 100 * TS
    OBVIOUS
  <2> HIDE DEF e1, e2, me3, mt, Serr, TS, mk
  <2> QED BY <1>1, <1>2, <1>3, <2>1, <2>2
<1>5. -(m * 50) <= me3 /\ me3 <= m * 50
  <2>1. -50 <= e3 /\ e3 <= 50
    BY <1>1
  <2> HIDE DEF e3
  <2> QED BY <1>1, <2>1, Scaled
<1>6. mk <= 99 * m
  <2>1. k <= 99
    OBVIOUS
  <2>2. m * (99 - k) >= 0 /\ m * (99 - k) = 99 * m - m * k
    BY <2>1
  <2> QED BY <2>2
<1>7. /\ -mk <= 2 * e1 /\ 2 * e1 <= mk
      /\ -S <= 2 * e2 /\ 2 * e2 <= S
  OBVIOUS
<1>8. m <= 2 * S /\ (2 * r <= S => 2 * m <= 3 * S)
  OBVIOUS
<1> HIDE DEF e1, e2, e3, me3, mt, Serr, TS, mk
<1>9. -(3 * S) < Serr /\ Serr < 3 * S
  BY <1>1, <1>4, <1>5, <1>6, <1>7, <1>8
<1>10. 2 * r <= S => -(2 * S) < Serr /\ Serr < 2 * S
  BY <1>1, <1>4, <1>5, <1>6, <1>7, <1>8
<1> HIDE DEF err
<1>11. -3 < err /\ err < 3
  <2>1. 3 \in Nat /\ S * 3 = 3 * S
    OBVIOUS
  <2>2. -(S * 3) < S * err /\ S * err < S * 3
    BY <1>9, <2>1 DEF Serr
  <2> QED BY <1>1, <2>1, <2>2, WholeError
<1>12. ASSUME 2 * r <= S PROVE -2 < err /\ err < 2
  <2>1. 2 \in Nat /\ S * 2 = 2 * S
    OBVIOUS
  <2>2. -(S * 2) < S * err /\ S * err < S * 2
    BY <1>10, <1>12, <2>1 DEF Serr
  <2> QED BY <1>1, <2>1, <2>2, WholeError
<1> QED BY <1>11, <1>12 DEF err

\* The total of the subtotal that was computed back is the stored one but for that.
LEMMA BackAgain ==
  ASSUME NEW p, p.total_amount \in Int, p.discount_type \in DiscountTypes \cup {Null},
         p.discount_value \in Amount, p.tax_rate = Null \/ p.tax_rate \in 1 .. TaxScale,
         Whole(p), NEW sum \in Amount
  PROVE  /\ BackwardError(p) \in {1, 2}
         /\ Total(p, Resolved(p, sum)) - p.total_amount \in Int
         /\ -BackwardError(p) <= Total(p, Resolved(p, sum)) - p.total_amount
         /\ Total(p, Resolved(p, sum)) - p.total_amount <= BackwardError(p)
<1> DEFINE T == p.total_amount
           r == OrZero(p.tax_rate)
           m == TaxScale + r
           v == OrZero(p.discount_value)
           s == Resolved(p, sum)
           disc == Discount(p, s)
           t == s - disc
           tax == Tax(p, t)
           back == Total(p, s)
           Close == /\ back - T \in Int
                    /\ -BackwardError(p) <= back - T /\ back - T <= BackwardError(p)
<1>1. Null # "fixed" /\ Null # "percent" /\ Null \notin Int
  BY NullIsNoValue DEF DiscountTypes
<1>2. TaxScale \in Nat /\ TaxScale # 0
  BY TaxScaleAssumption
<1>3. r \in 0 .. TaxScale /\ m \in Nat /\ m # 0 /\ v \in Int /\ T \in Int /\ T # Null
  BY <1>1, <1>2 DEF OrZero, Amount
<1>4. s \in Int /\ s # Null
  <2>1. p.total_amount \in Amount /\ p.total_amount # Null
    BY <1>1 DEF Amount
  <2> QED BY <1>1, <2>1, ResolvedType
<1>5. disc \in Int /\ t \in Int
  <2> HIDE DEF s
  <2>1. disc \in Int
    BY <1>4, DiscountType
  <2> QED BY <1>4, <2>1
<1>6. p.tax_rate \in Amount
  BY <1>2 DEF Amount
<1>7. tax \in Int /\ -TaxScale <= 2 * (TaxScale * tax - t * r) /\ 2 * (TaxScale * tax - t * r) <= TaxScale
  <2> HIDE DEF t, r
  <2>1. t * r \in Int
    BY <1>3, <1>5
  <2> QED BY <1>2, <2>1, Rounding DEF Tax, r
<1>8. back = t + tax
  <2> HIDE DEF s
  <2> QED BY <1>4 DEF Total
<1>9. T * TaxScale \in Int
  BY <1>2, <1>3
<1>10. BackwardError(p) \in {1, 2}
       /\ (p.discount_type # "percent" => BackwardError(p) = 1)
       /\ (BackwardError(p) = 1 /\ p.discount_type = "percent" => 2 * r <= TaxScale)
  BY <1>2, <1>3 DEF BackwardError
<1> HIDE DEF back, Close
<1>11. ASSUME p.discount_type = Null PROVE Close
  <2>1. s = HalfUp(T * TaxScale, m)
    BY <1>1, <1>3, <1>11 DEF Resolved
  <2>2. disc = 0
    <3> HIDE DEF s
    <3> QED BY <1>1, <1>11 DEF Discount
  <2>3. t = s
    BY <1>4, <2>2
  <2> HIDE DEF s, m, r, disc, t, tax
  <2>4. -m <= 2 * (m * s - T * TaxScale) /\ 2 * (m * s - T * TaxScale) <= m
    BY <1>3, <1>9, <2>1, Rounding
  <2>5. -2 < s + tax - T /\ s + tax - T < 2
    BY <1>2, <1>3, <1>4, <1>7, <2>3, <2>4, TaxedBack DEF m
  <2> QED BY <1>1, <1>3, <1>4, <1>7, <1>8, <1>10, <1>11, <2>3, <2>5 DEF Close
<1>12. ASSUME p.discount_type = "fixed" PROVE Close
  <2>1. s = HalfUp(T * TaxScale + v * m, m)
    BY <1>1, <1>3, <1>12 DEF Resolved
  <2>2. disc = v
    <3> HIDE DEF s
    <3> QED BY <1>1, <1>12 DEF Discount
  <2>3. t = s - v
    BY <2>2
  <2> HIDE DEF s, m, r, disc, t, tax, v
  <2> DEFINE n == T * TaxScale + v * m
  <2>4. n \in Int
    BY <1>3, <1>9
  <2>5. -m <= 2 * (m * s - n) /\ 2 * (m * s - n) <= m
    <3> HIDE DEF n
    <3> QED BY <1>3, <2>1, <2>4, Rounding DEF n
  <2>6. m * s - n = m * t - T * TaxScale
    <3>1. m * t = m * s - m * v /\ m * v = v * m
      BY <1>3, <1>4, <2>3
    <3>2. m * s \in Int /\ v * m \in Int
      BY <1>3, <1>4
    <3> QED BY <1>9, <3>1, <3>2
  <2>7. -m <= 2 * (m * t - T * TaxScale) /\ 2 * (m * t - T * TaxScale) <= m
    BY <2>5, <2>6
  <2>8. -2 < t + tax - T /\ t + tax - T < 2
    BY <1>2, <1>3, <1>5, <1>7, <2>7, TaxedBack DEF m
  <2> QED BY <1>1, <1>3, <1>5, <1>7, <1>8, <1>10, <1>12, <2>8 DEF Close
<1>13. ASSUME p.discount_type = "percent" PROVE Close
  <2>1. v \in 1 .. 100 /\ v = p.discount_value
    BY <1>1, <1>13 DEF Whole, OrZero, Amount
  <2>2. disc = Percent(s, v)
    <3> HIDE DEF s
    <3> QED BY <1>1, <1>13 DEF Discount
  <2>3. CASE v = 100
    <3>1. T = 0
      BY <1>1, <1>3, <1>13, <2>1, <2>3 DEF Whole
    <3>2. disc = s
      <4> HIDE DEF s, v
      <4> QED BY <1>4, <2>2, <2>3, HundredPercent
    <3>3. t = 0
      BY <1>4, <3>2
    <3>4. tax = 0
      <4> HIDE DEF t
      <4> QED BY <1>6, <3>3, TaxOfNothing
    <3> HIDE DEF s, t, tax, T
    <3> QED BY <1>8, <1>10, <3>1, <3>3, <3>4 DEF Close
  <2>4. CASE v # 100
    <3> DEFINE k == 100 - v
               n == 100 * (T * TaxScale)
    <3>1. v \in 1 .. 99 /\ k \in Nat /\ k # 0
      BY <2>1, <2>4
    <3>2. s = HalfUp(n, m * k)
      BY <1>1, <1>3, <1>13, <2>4 DEF Resolved
    <3> HIDE DEF s, m, r, disc, t, tax, v, k, n
    <3>3. m * k \in Nat /\ m * k # 0
      BY <1>3, <3>1
    <3>4. n \in Int
      BY <1>9 DEF n
    <3>5. -(m * k) <= 2 * ((m * k) * s - n) /\ 2 * ((m * k) * s - n) <= m * k
      <4> DEFINE d == m * k
      <4>1. d \in Nat /\ d # 0 /\ s = HalfUp(n, d)
        BY <3>2, <3>3
      <4> HIDE DEF d
      <4>2. -d <= 2 * (d * s - n) /\ 2 * (d * s - n) <= d
        BY <3>4, <4>1, Rounding
      <4> QED BY <4>2 DEF d
    <3>6. -100 <= 2 * (100 * disc - s * v) /\ 2 * (100 * disc - s * v) <= 100
      <4>1. s * v \in Int /\ 100 \in Nat /\ 100 # 0
        BY <1>3, <1>4
      <4> QED BY <2>2, <4>1, Rounding DEF Percent
    <3>7. /\ -TaxScale <= 2 * (TaxScale * tax - (s - disc) * r)
          /\ 2 * (TaxScale * tax - (s - disc) * r) <= TaxScale
      BY <1>7 DEF t
    <3>8. /\ -(m * k) <= 2 * ((m * k) * s - 100 * (T * TaxScale))
          /\ 2 * ((m * k) * s - 100 * (T * TaxScale)) <= m * k
      BY <3>5 DEF n
    <3>9. k = 100 - v /\ m = TaxScale + r
      BY DEF k, m
    <3>10. /\ -3 < s - disc + tax - T /\ s - disc + tax - T < 3
           /\ 2 * r <= TaxScale => -2 < s - disc + tax - T /\ s - disc + tax - T < 2
      BY <1>2, <1>3, <1>4, <1>5, <1>7, <3>1, <3>6, <3>7, <3>8, <3>9, DiscountedBack
    <3> QED BY <1>3, <1>4, <1>5, <1>7, <1>8, <1>10, <1>13, <3>10 DEF t, Close
  <2> QED BY <2>3, <2>4
<1>14. Close
  BY <1>11, <1>12, <1>13 DEF DiscountTypes
<1> QED BY <1>10, <1>14, Zenon DEF Close, back, s, T

-------------------------------------------------------------------------------
(* Rows *)

\* The fields of a row, one by one
LEMMA RowFields ==
  ASSUME NEW d, RowFits(d)
  PROVE  /\ d.total_amount \in Amount /\ d.discount_value \in Amount
         /\ d.tax_rate \in Amount /\ d.deposit_amount \in Amount
         /\ d.discount_type \in DiscountTypes \cup {Null}
         /\ d.tax_rate = Null \/ d.tax_rate \in 1 .. TaxScale
BY DEF RowFits, PricingFields, Columns

\* The pricing of a row is what is in its columns.
LEMMA PricingOfRow ==
  ASSUME NEW d, RowFits(d)
  PROVE  /\ Asks(PricingOf(d))
         /\ PricingOf(d).total_amount = d.total_amount
         /\ PricingOf(d).discount_type = d.discount_type
         /\ PricingOf(d).discount_value = d.discount_value
         /\ PricingOf(d).tax_rate = d.tax_rate
         /\ PricingOf(d).deposit_amount = d.deposit_amount
<1>1. \A f \in PricingFields : Key(d, f) = d[f]
  BY DEF RowFits, Key
<1>2. \A f \in PricingFields : PricingOf(d)[f] = d[f]
  BY <1>1 DEF PricingOf
<1>3. Asks(PricingOf(d))
  BY <1>2 DEF Asks, RowFits, PricingOf
<1> QED BY <1>2, <1>3 DEF PricingFields

\* Line items of a sequence and their prices
LEMMA StoredPrices ==
  ASSUME NEW items \in Seq(StoredItem)
  PROVE  /\ \A i \in DOMAIN items : items[i].price \in Amount
         /\ LineSum(items) \in Amount
<1>1. \A i \in DOMAIN items : items[i] \in StoredItem
  OBVIOUS
<1>2. \A i \in DOMAIN items : items[i].price \in Amount
  BY <1>1 DEF StoredItem
<1> QED BY <1>2, LineSumType

\* The rows of a document whose columns fit add up.
LEMMA RowsOf ==
  ASSUME NEW d, RowFits(d), Whole(d), d.total_amount # Null
  PROVE  LET rows == Breakdown(PricingOf(d), LineSum(d.line_items))
         IN  /\ AbsOf(rows.subtotal - rows.discount + rows.tax - rows.total) <= BackwardError(d)
             /\ d.deposit_amount # Null => rows.balance >= -BackwardError(d)
<1> DEFINE p == PricingOf(d)
           sum == LineSum(d.line_items)
           s == Resolved(p, sum)
           b == BackwardError(d)
           T == d.total_amount
<1>1. Null # "fixed" /\ Null # "percent" /\ Null \notin Int
  BY NullIsNoValue DEF DiscountTypes
<1>2. sum \in Amount
  <2>1. d.line_items \in Seq(StoredItem)
    BY DEF RowFits
  <2> QED BY <2>1, StoredPrices
<1>3. /\ p.total_amount = T /\ p.discount_type = d.discount_type
      /\ p.discount_value = d.discount_value /\ p.tax_rate = d.tax_rate
      /\ p.deposit_amount = d.deposit_amount
  BY PricingOfRow
<1>4. /\ p.total_amount \in Int /\ p.discount_type \in DiscountTypes \cup {Null}
      /\ p.discount_value \in Amount /\ (p.tax_rate = Null \/ p.tax_rate \in 1 .. TaxScale)
      /\ p.deposit_amount \in Amount /\ T \in Int /\ p.tax_rate \in Amount
  BY <1>1, <1>3, RowFields DEF Amount
<1> HIDE DEF p, sum, s
<1>5. BackwardError(p) = b
  BY <1>3 DEF BackwardError
<1>6. Whole(p)
  BY <1>3, <1>5 DEF Whole
<1>7. /\ b \in {1, 2}
      /\ Total(p, s) - T \in Int /\ -b <= Total(p, s) - T /\ Total(p, s) - T <= b
  <2>1. /\ BackwardError(p) \in {1, 2}
        /\ Total(p, Resolved(p, sum)) - p.total_amount \in Int
        /\ -BackwardError(p) <= Total(p, Resolved(p, sum)) - p.total_amount
        /\ Total(p, Resolved(p, sum)) - p.total_amount <= BackwardError(p)
    BY <1>2, <1>4, <1>6, BackAgain
  <2> HIDE DEF b, T
  <2> QED BY <1>3, <1>5, <2>1 DEF s
<1>8. s \in Int
  <2>1. p.total_amount \in Amount /\ p.total_amount # Null
    BY <1>1, <1>4 DEF Amount
  <2> QED BY <1>2, <1>4, <2>1, ResolvedType DEF s
<1> DEFINE disc == Discount(p, s)
           tax == Tax(p, s - disc)
<1>9. disc \in Int /\ s - disc \in Int
  BY <1>4, <1>8, DiscountType
<1>10. tax \in Int
  <2> HIDE DEF disc
  <2> QED BY <1>4, <1>9, TaxType
<1>11. Total(p, s) = s - disc + tax
  BY <1>1, <1>8 DEF Total
<1> DEFINE rows == Breakdown(p, sum)
<1>12. rows.subtotal = s /\ rows.discount = disc /\ rows.tax = tax /\ rows.total = T
  BY <1>3 DEF Breakdown, s
<1>13. rows.balance = IF {T, d.deposit_amount} \cap {Null} # {} THEN T ELSE T - d.deposit_amount
  BY <1>3 DEF Breakdown
<1> HIDE DEF disc, tax, rows, b
<1>14. AbsOf(rows.subtotal - rows.discount + rows.tax - rows.total) <= b
  BY <1>4, <1>7, <1>8, <1>9, <1>10, <1>11, <1>12 DEF AbsOf
<1>15. ASSUME d.deposit_amount # Null PROVE rows.balance >= -b
  <2>1. rows.balance = T - d.deposit_amount
    BY <1>1, <1>4, <1>13, <1>15
  <2>2. d.deposit_amount \in Int
    BY <1>3, <1>4, <1>15 DEF Amount
  <2>3. d.deposit_amount <= T + b
    BY <1>1, <1>4, <1>15 DEF Whole, b
  <2> QED BY <1>4, <1>7, <2>1, <2>2, <2>3
<1> QED BY <1>14, <1>15 DEF rows, p, sum, b

\* The row that is made of pricing the rules let pass fits.
LEMMA MadeFits ==
  ASSUME NEW kind \in {"quote", "invoice"},
         NEW p, Asks(p), p.tax_rate = Null \/ p.tax_rate \in 1 .. TaxScale,
         NEW S, NEW items \in Seq(S),
         \A i \in DOMAIN items : /\ items[i].price \in Amount
                                 /\ items[i].flagged \in BOOLEAN
                                 /\ items[i].flag_reason \in Reasons
  PROVE  /\ RowFits(Made(kind, p, items))
         /\ \A f \in PricingFields : Made(kind, p, items)[f] = p[f]
         /\ DOMAIN Made(kind, p, items).line_items = DOMAIN items
         /\ \A i \in DOMAIN items :
              Made(kind, p, items).line_items[i] =
                [price |-> Kept(items[i].price), flagged |-> items[i].flagged,
                 flag_reason |-> items[i].flag_reason]
<1> DEFINE d == Made(kind, p, items)
           Row(i) == [price |-> Kept(items[i].price), flagged |-> items[i].flagged,
                      flag_reason |-> items[i].flag_reason]
           rows == [i \in DOMAIN items |-> Row(i)]
<1>1. \A f \in PricingFields : f # "kind" /\ f # "line_items"
  BY DEF PricingFields
<1>2. DOMAIN d = PricingFields \cup {"kind", "line_items"} /\ d.kind = kind
  BY DEF Made
<1>3. d.line_items = rows
  BY DEF Made
<1>4. \A f \in PricingFields : d[f] = p[f]
  BY <1>1 DEF Made
<1>5. DOMAIN rows = DOMAIN items /\ \A i \in DOMAIN items : rows[i] = Row(i)
  OBVIOUS
<1>6. ASSUME NEW i \in DOMAIN items
      PROVE  Row(i) \in StoredItem /\ (Row(i).price = Null \/ Row(i).price % 10 = 0)
  <2>1. Kept(items[i].price) \in Amount
        /\ (Kept(items[i].price) = Null \/ Kept(items[i].price) % 10 = 0)
    BY KeptType
  <2> QED BY <2>1 DEF StoredItem
<1> HIDE DEF Row, d
<1>7. rows \in Seq(StoredItem)
  BY <1>6
<1> HIDE DEF rows
<1>8. RowFits(d)
  <2>1. \A i \in DOMAIN d.line_items :
          LET price == d.line_items[i].price IN price = Null \/ price % 10 = 0
    BY <1>3, <1>5, <1>6
  <2>2. \A f \in PricingFields : d[f] \in Columns(f)
    BY <1>4 DEF Asks
  <2>3. d.tax_rate = p.tax_rate
    BY <1>4 DEF PricingFields
  <2> QED BY <1>2, <1>3, <1>7, <2>1, <2>2, <2>3 DEF RowFits
<1> QED BY <1>3, <1>4, <1>5, <1>8 DEF d, Row

-------------------------------------------------------------------------------
(* What an edit asks for and what it writes *)

\* The fields of a patch
LEMMA PatchFields ==
  ASSUME NEW patch \in Patches
  PROVE  /\ DOMAIN patch \subseteq PricingFields \cup {"line_items"}
         /\ \A f \in PricingFields : f \in DOMAIN patch => patch[f] \in Columns(f)
         /\ "line_items" \in DOMAIN patch => patch.line_items \in Seq(StoredItem)
<1>1. /\ DOMAIN patch \subseteq PricingFields \cup {"line_items"}
      /\ \A f \in DOMAIN patch \ {"line_items"} : patch[f] \in Columns(f)
      /\ "line_items" \in DOMAIN patch => patch.line_items \in Seq(StoredItem)
  BY DraftContentAssumption, Zenon
<1> QED BY <1>1 DEF PricingFields

\* The line items an edit goes on with are stored ones; clearing flags moves no price.
LEMMA NextItemsFit ==
  ASSUME NEW call, call.patch \in Patches, RowFits(call.seen)
  PROVE  /\ NextItems(call) \in Seq(StoredItem)
         /\ "line_items" \notin DOMAIN call.patch => NextItems(call) = call.seen.line_items
<1> DEFINE items == call.patch.line_items
           seen == call.seen.line_items
<1>1. seen \in Seq(StoredItem)
  BY DEF RowFits
<1>2. "line_items" \in DOMAIN call.patch => items \in Seq(StoredItem)
  BY PatchFields
<1>3. ASSUME "line_items" \in DOMAIN call.patch
      PROVE  ClearedFlags(seen, items) \in Seq(StoredItem)
  <2>1. \A i \in DOMAIN items : items[i] \in StoredItem
    BY <1>2, <1>3
  <2>2. \A i \in DOMAIN items :
          [items[i] EXCEPT !.flagged = FALSE, !.flag_reason = Null] \in StoredItem
    BY <2>1 DEF StoredItem, Reasons
  <2>3. \A i \in DOMAIN items : ClearedFlags(seen, items)[i] \in StoredItem
    BY <2>1, <2>2 DEF ClearedFlags
  <2>4. DOMAIN ClearedFlags(seen, items) = DOMAIN items
    BY DEF ClearedFlags
  <2>5. ClearedFlags(seen, items) = [i \in DOMAIN items |-> ClearedFlags(seen, items)[i]]
    BY DEF ClearedFlags
  <2> DEFINE c == ClearedFlags(seen, items)
  <2> HIDE DEF c
  <2>6. c \in [DOMAIN items -> StoredItem]
    BY <2>3, <2>4, <2>5 DEF c
  <2>7. c \in Seq(StoredItem)
    <3>1. DOMAIN items = 1 .. Len(items) /\ Len(items) \in Nat
      BY <1>2, <1>3
    <3> QED BY <2>6, <3>1
  <2> QED BY <2>7 DEF c
<1>4. NextItems(call) \in {seen, ClearedFlags(seen, items), items}
      /\ ("line_items" \notin DOMAIN call.patch => NextItems(call) = seen)
      /\ ("line_items" \in DOMAIN call.patch => NextItems(call) \in {ClearedFlags(seen, items), items})
  BY DEF NextItems
<1> HIDE DEF seen, items
<1> QED BY <1>1, <1>2, <1>3, <1>4 DEF seen

\* What an edit asks the rules about is pricing.
LEMMA AskedAsks ==
  ASSUME NEW call, call.patch \in Patches, RowFits(call.seen)
  PROVE  Asks(AskedPricing(call)) /\ LineSum(NextItems(call)) \in Amount
<1> DEFINE patch == call.patch
           sum == LineSum(NextItems(call))
           asked == AskedPricing(call)
           From(f) == IF f \in DOMAIN patch THEN patch[f] ELSE call.seen[f]
<1>1. sum \in Amount
  BY NextItemsFit, StoredPrices
<1>2. \A f \in PricingFields : From(f) \in Columns(f)
  BY PatchFields DEF RowFits
<1>3. Resolved(PricingOf(call.seen), sum) \in Amount
  <2> DEFINE p == PricingOf(call.seen)
  <2>1. /\ p.total_amount \in Amount /\ p.discount_type \in DiscountTypes \cup {Null}
        /\ p.discount_value \in Amount /\ (p.tax_rate = Null \/ p.tax_rate \in 1 .. TaxScale)
    BY PricingOfRow, RowFields
  <2> HIDE DEF p, sum
  <2>2. Resolved(p, sum) \in Amount
    BY <1>1, <2>1, ResolvedType
  <2> QED BY <2>2 DEF p
<1>4. /\ DOMAIN asked = PricingFields
      /\ asked.discount_value = From("discount_value")
      /\ asked.tax_rate = From("tax_rate")
      /\ asked.deposit_amount = From("deposit_amount")
      /\ asked.discount_type \in {Null, From("discount_type")}
      /\ asked.total_amount \in {From("total_amount"), sum, Resolved(PricingOf(call.seen), sum)}
  BY DEF AskedPricing, PricingFields
<1>5. "total_amount" \in PricingFields /\ "discount_type" \in PricingFields
      /\ "discount_value" \in PricingFields /\ "tax_rate" \in PricingFields
      /\ "deposit_amount" \in PricingFields
  BY DEF PricingFields
<1>6. /\ From("discount_value") \in Amount /\ From("tax_rate") \in Amount
      /\ From("deposit_amount") \in Amount /\ From("total_amount") \in Amount
      /\ From("discount_type") \in DiscountTypes \cup {Null}
  BY <1>2, <1>5 DEF Columns
<1> HIDE DEF asked, From, sum
<1>7. /\ asked.discount_value \in Amount /\ asked.tax_rate \in Amount
      /\ asked.deposit_amount \in Amount /\ asked.total_amount \in Amount
      /\ asked.discount_type \in DiscountTypes \cup {Null}
  BY <1>1, <1>3, <1>4, <1>6
<1>8. Asks(asked)
  BY <1>4, <1>7 DEF Asks, PricingFields, Columns
<1> QED BY <1>1, <1>8 DEF asked, sum

\* The columns whose value an edit changed
Written(call) == {f \in Assigned(call, NextPricing(call)) : NextPricing(call)[f] # call.seen[f]}

\* The row after the commit of an edit
Updated(d, call) ==
  [f \in DOMAIN d |->
     CASE f \in Written(call) -> NextPricing(call)[f]
       [] f = "line_items" /\ f \in DOMAIN call.patch ->
            Made(d.kind, NextPricing(call), NextItems(call)).line_items
       [] OTHER -> d[f]]

\* The columns an edit may assign
LEMMA AssignedColumns ==
  ASSUME NEW call, NEW next
  PROVE  Assigned(call, next) \subseteq PricingFields /\ "line_items" \notin PricingFields
         /\ "kind" \notin PricingFields
BY DEF Assigned, PricingFields

\* The line items of an edit fit the row.
LEMMA CommittedItems ==
  ASSUME NEW d, RowFits(d), NEW call, call.patch \in Patches, RowFits(call.seen),
         NextPricing(call) # Refused
  PROVE  LET items == Made(d.kind, NextPricing(call), NextItems(call)).line_items
         IN  /\ items \in Seq(StoredItem)
             /\ \A i \in DOMAIN items : items[i].price = Null \/ items[i].price % 10 = 0
<1> DEFINE next == NextPricing(call)
           items == NextItems(call)
<1>1. items \in Seq(StoredItem)
  BY NextItemsFit
<1>2. \A i \in DOMAIN items : /\ items[i].price \in Amount
                              /\ items[i].flagged \in BOOLEAN
                              /\ items[i].flag_reason \in Reasons
  <2>1. \A i \in DOMAIN items : items[i] \in StoredItem
    BY <1>1
  <2> QED BY <2>1 DEF StoredItem
<1>3. Asks(next) /\ (next.tax_rate = Null \/ next.tax_rate \in 1 .. TaxScale)
  BY AskedAsks, Passed DEF NextPricing
<1>4. d.kind \in {"quote", "invoice"}
  BY DEF RowFits
<1> HIDE DEF next, items
<1>5. RowFits(Made(d.kind, next, items))
  BY <1>1, <1>2, <1>3, <1>4, MadeFits
<1> QED BY <1>5 DEF RowFits, next, items

\* What an edit leaves fits, whatever happened to the row since it was loaded.
LEMMA UpdatedFits ==
  ASSUME NEW d, RowFits(d), NEW call, call.patch \in Patches, RowFits(call.seen),
         NextPricing(call) # Refused
  PROVE  RowFits(Updated(d, call))
<1> DEFINE next == NextPricing(call)
           u == Updated(d, call)
           items == Made(d.kind, NextPricing(call), NextItems(call)).line_items
<1>1. Asks(next) /\ (next.tax_rate = Null \/ next.tax_rate \in 1 .. TaxScale)
  BY AskedAsks, Passed DEF NextPricing
<1>2. Written(call) \subseteq PricingFields /\ "line_items" \notin PricingFields
      /\ "kind" \notin PricingFields
  BY AssignedColumns DEF Written
<1>3. /\ items \in Seq(StoredItem)
      /\ \A i \in DOMAIN items : items[i].price = Null \/ items[i].price % 10 = 0
  BY CommittedItems
<1>4. DOMAIN u = DOMAIN d /\ DOMAIN d = PricingFields \cup {"kind", "line_items"}
  BY DEF RowFits, Updated
<1>5. u.kind = d.kind
  BY <1>2, <1>4 DEF Updated
<1>6. \A f \in PricingFields : u[f] \in {next[f], d[f]}
  BY <1>2, <1>4 DEF Updated
<1>7. u.line_items \in {items, d.line_items}
  BY <1>2, <1>4 DEF Updated
<1> HIDE DEF next, items, u
<1>8. \A f \in PricingFields : u[f] \in Columns(f)
  BY <1>1, <1>6 DEF RowFits, Asks
<1>9. u.tax_rate = Null \/ u.tax_rate \in 1 .. TaxScale
  <2>1. u.tax_rate \in {next.tax_rate, d.tax_rate}
    BY <1>6 DEF PricingFields
  <2> QED BY <1>1, <2>1 DEF RowFits
<1>10. /\ u.line_items \in Seq(StoredItem)
       /\ \A i \in DOMAIN u.line_items :
            u.line_items[i].price = Null \/ u.line_items[i].price % 10 = 0
  <2>1. CASE u.line_items = items
    BY <1>3, <2>1
  <2>2. CASE u.line_items = d.line_items
    BY <2>2 DEF RowFits
  <2> QED BY <1>7, <2>1, <2>2
<1>11. u.kind \in {"quote", "invoice"}
  BY <1>5 DEF RowFits
<1>12. RowFits(u)
  BY <1>4, <1>8, <1>9, <1>10, <1>11 DEF RowFits
<1> QED BY <1>12 DEF u

\* The fields that make an edit assign the total
TotalFields == {"total_amount", "line_items", "discount_type", "discount_value", "tax_rate"}

\* An edit of the row it loaded leaves the pricing that the rules let pass, but for
\* the total, which an edit of the deposit alone does not assign.
LEMMA UpdatedPricing ==
  ASSUME NEW d, RowFits(d), Whole(d), NEW call, call.patch \in Patches, call.seen = d,
         NextPricing(call) # Refused
  PROVE  /\ \A f \in PricingFields \ {"total_amount"} : Updated(d, call)[f] = NextPricing(call)[f]
         /\ IF DOMAIN call.patch \cap TotalFields # {}
              THEN Updated(d, call).total_amount = NextPricing(call).total_amount
              ELSE \A f \in PricingFields \ {"deposit_amount"} : Updated(d, call)[f] = d[f]
<1> DEFINE next == NextPricing(call)
           u == Updated(d, call)
           asked == AskedPricing(call)
           patch == call.patch
<1>1. Null \notin Int
  BY NullIsNoValue
<1>2. DOMAIN d = PricingFields \cup {"kind", "line_items"}
  BY DEF RowFits
<1>3. /\ \A f \in {"discount_value", "tax_rate", "deposit_amount"} : next[f] = ZeroIsNull(asked[f])
      /\ next.discount_type = IF next.discount_value = Null THEN Null ELSE asked.discount_type
  BY AskedAsks, Passed DEF NextPricing
<1>4. \A f \in PricingFields :
        u[f] = IF f \in Assigned(call, next) THEN next[f] ELSE d[f]
  <2>1. \A f \in PricingFields : f # "line_items"
    BY DEF PricingFields
  <2> QED BY <1>2, <2>1 DEF Updated, Written
<1>5. /\ d.discount_value = Null \/ d.discount_value > 0
      /\ d.tax_rate = Null \/ d.tax_rate > 0
      /\ d.deposit_amount = Null \/ d.deposit_amount > 0
      /\ (d.discount_type = Null) = (d.discount_value = Null)
  BY TaxScaleAssumption DEF RowFits, Whole
<1>6. /\ d.discount_value \in Amount /\ d.tax_rate \in Amount /\ d.deposit_amount \in Amount
  BY RowFields
<1>7. /\ ZeroIsNull(d.discount_value) = d.discount_value
      /\ ZeroIsNull(d.tax_rate) = d.tax_rate
      /\ ZeroIsNull(d.deposit_amount) = d.deposit_amount
  BY <1>1, <1>5, <1>6 DEF ZeroIsNull, Amount
<1>8. \A f \in {"discount_value", "tax_rate", "deposit_amount"} :
        f \notin DOMAIN patch => asked[f] = d[f]
  BY DEF AskedPricing
<1>9. \A f \in {"discount_value", "tax_rate", "deposit_amount"} :
        f \notin DOMAIN patch => next[f] = d[f]
  BY <1>3, <1>7, <1>8
<1>10. \A f \in {"discount_value", "tax_rate", "deposit_amount"} : u[f] = next[f]
  <2>1. \A f \in {"discount_value", "tax_rate", "deposit_amount"} :
          f \in PricingFields /\ (f \in DOMAIN patch => f \in Assigned(call, next))
    BY DEF Assigned, PricingFields
  <2> HIDE DEF next, u
  <2> QED BY <1>4, <1>9, <2>1
<1>11. asked.discount_type = IF "discount_value" \in DOMAIN patch /\ patch["discount_value"] = Null
                               THEN Null
                               ELSE IF "discount_type" \in DOMAIN patch
                                      THEN patch["discount_type"] ELSE d.discount_type
  <2>1. asked.discount_type =
          IF "discount_value" \in DOMAIN patch
             /\ (IF "discount_value" \in DOMAIN patch
                   THEN patch["discount_value"] ELSE d["discount_value"]) = Null
            THEN Null
            ELSE IF "discount_type" \in DOMAIN patch
                   THEN patch["discount_type"] ELSE d["discount_type"]
    BY DEF AskedPricing
  <2> HIDE DEF asked, patch
  <2> QED BY <2>1
<1>12. "discount_type" \in Assigned(call, next)
       <=> \/ "discount_type" \in DOMAIN patch
           \/ "discount_value" \in DOMAIN patch /\ next.discount_type = Null
  BY DEF Assigned
<1>13. u.discount_type = next.discount_type
  <2>1. u.discount_type = IF "discount_type" \in Assigned(call, next)
                            THEN next.discount_type ELSE d.discount_type
    BY <1>4 DEF PricingFields
  <2>2. "discount_value" \notin DOMAIN patch => next.discount_value = d.discount_value
    BY <1>9
  <2> HIDE DEF next, u, asked, patch
  <2>3. "discount_type" \notin Assigned(call, next) => next.discount_type = d.discount_type
    BY <1>3, <1>5, <1>11, <1>12, <2>2
  <2> QED BY <2>1, <2>3
<1>14. \A f \in PricingFields \ {"total_amount"} : u[f] = next[f]
  <2> HIDE DEF next, u
  <2> QED BY <1>10, <1>13 DEF PricingFields
<1>15. "total_amount" \in Assigned(call, next) <=> DOMAIN patch \cap TotalFields # {}
  BY DEF Assigned, TotalFields
<1>16. DOMAIN patch \cap TotalFields # {} => u.total_amount = next.total_amount
  BY <1>4, <1>15 DEF PricingFields
<1>17. ASSUME DOMAIN patch \cap TotalFields = {}
       PROVE  \A f \in PricingFields \ {"deposit_amount"} : u[f] = d[f]
  <2>1. \A f \in PricingFields \ {"deposit_amount"} : f \notin DOMAIN patch
    BY <1>17 DEF TotalFields, PricingFields
  <2>2. "discount_type" \notin Assigned(call, next) /\ "total_amount" \notin Assigned(call, next)
        /\ "discount_value" \notin Assigned(call, next) /\ "tax_rate" \notin Assigned(call, next)
    BY <1>17, <2>1 DEF Assigned, TotalFields, PricingFields
  <2> HIDE DEF next, u, patch
  <2> QED BY <1>4, <2>2 DEF PricingFields
<1> QED BY <1>14, <1>16, <1>17

\* An edit of the row it loaded leaves pricing that fits.
LEMMA UpdatedWhole ==
  ASSUME NEW d, RowFits(d), Whole(d), NEW call, call.patch \in Patches, call.seen = d,
         NextPricing(call) # Refused
  PROVE  Whole(Updated(d, call))
<1> DEFINE next == NextPricing(call)
           u == Updated(d, call)
           asked == AskedPricing(call)
           sum == LineSum(NextItems(call))
           p == PricingOf(d)
<1>1. Null \notin Int /\ Null # "percent" /\ Null # "fixed"
  BY NullIsNoValue DEF DiscountTypes
<1>2. Asks(asked) /\ sum \in Amount /\ next = Validated(asked, sum)
  BY AskedAsks DEF NextPricing
<1>3. /\ Asks(next)
      /\ (next.discount_type = Null) = (next.discount_value = Null)
      /\ next.discount_value # Null => next.discount_value > 0
      /\ next.discount_type = "percent" => next.discount_value <= 100
      /\ next.deposit_amount # Null =>
           /\ next.deposit_amount > 0 /\ next.total_amount # Null
           /\ next.deposit_amount <= next.total_amount
      /\ next.discount_type = "percent" /\ next.discount_value = 100 => next.total_amount = 0
      /\ next.total_amount = Total(next, IF asked.total_amount = Null
                                           THEN sum ELSE asked.total_amount)
  <2> HIDE DEF next, asked, sum
  <2>1. next # Refused
    BY DEF next
  <2> QED BY <1>2, <2>1, Passed
<1>4. /\ u.discount_type = next.discount_type /\ u.discount_value = next.discount_value
      /\ u.tax_rate = next.tax_rate /\ u.deposit_amount = next.deposit_amount
  BY UpdatedPricing DEF PricingFields
<1>5. CASE DOMAIN call.patch \cap TotalFields # {}
  <2>1. u.total_amount = next.total_amount
    BY <1>5, UpdatedPricing
  <2>2. BackwardError(u) \in {1, 2}
    BY DEF BackwardError
  <2>3. next.total_amount \in Amount /\ next.deposit_amount \in Amount
    BY <1>3, AskedFields
  <2> HIDE DEF u, next
  <2>4. u.total_amount # Null /\ u.deposit_amount # Null
          => u.deposit_amount <= u.total_amount + BackwardError(u)
    BY <1>3, <1>4, <2>1, <2>2, <2>3 DEF Amount
  <2> QED BY <1>3, <1>4, <2>1, <2>4 DEF Whole, u
<1>6. CASE DOMAIN call.patch \cap TotalFields = {}
  <2>1. /\ u.total_amount = d.total_amount /\ u.discount_type = d.discount_type
        /\ u.discount_value = d.discount_value /\ u.tax_rate = d.tax_rate
    BY <1>6, UpdatedPricing DEF PricingFields
  <2>2. /\ p.total_amount = d.total_amount /\ p.discount_type = d.discount_type
        /\ p.discount_value = d.discount_value /\ p.tax_rate = d.tax_rate
        /\ p.deposit_amount = d.deposit_amount
    BY PricingOfRow
  <2>3. BackwardError(u) = BackwardError(p) /\ BackwardError(d) = BackwardError(p)
    BY <2>1, <2>2 DEF BackwardError
  <2>4. ASSUME d.total_amount # Null, u.deposit_amount # Null
        PROVE  u.deposit_amount <= u.total_amount + BackwardError(u)
    <3>1. asked.total_amount = Resolved(p, sum)
      BY <1>6 DEF AskedPricing, TotalFields
    <3>2. /\ p.total_amount \in Amount /\ p.total_amount # Null
          /\ p.discount_type \in DiscountTypes \cup {Null}
          /\ p.discount_value \in Amount
          /\ (p.tax_rate = Null \/ p.tax_rate \in 1 .. TaxScale)
      BY <2>2, <2>4, RowFields
    <3>3. p.total_amount \in Int
      BY <3>2 DEF Amount
    <3>4. Whole(p)
      BY <2>2, <2>3 DEF Whole
    <3> HIDE DEF p, u, next, asked, sum
    <3>5. Resolved(p, sum) \in Int
      BY <1>2, <3>2, ResolvedType
    <3>6. /\ BackwardError(p) \in {1, 2}
          /\ Total(p, Resolved(p, sum)) - p.total_amount \in Int
          /\ Total(p, Resolved(p, sum)) - p.total_amount <= BackwardError(p)
      BY <1>2, <3>2, <3>3, <3>4, BackAgain
    <3>7. next.total_amount = Total(next, Resolved(p, sum))
      BY <1>1, <1>3, <3>1, <3>5
    <3>8. Total(next, Resolved(p, sum)) = Total(p, Resolved(p, sum))
      BY <1>4, <2>1, <2>2 DEF Total, Discount, Tax
    <3>9. next.deposit_amount \in Int /\ next.total_amount \in Int
      BY <1>3, <1>4, <2>4, AskedFields DEF Amount
    <3>10. next.deposit_amount <= next.total_amount
      BY <1>3, <1>4, <2>4
    <3> DEFINE back == Total(p, Resolved(p, sum))
    <3> HIDE DEF back
    <3>11. next.total_amount = back /\ back - p.total_amount <= BackwardError(p)
      BY <3>6, <3>7, <3>8 DEF back
    <3> QED BY <1>4, <2>1, <2>2, <2>3, <3>3, <3>6, <3>9, <3>10, <3>11
  <2>5. u.discount_type = "percent" /\ u.discount_value = 100 /\ d.total_amount # Null
          => u.total_amount = 0
    BY <2>1 DEF Whole
  <2> HIDE DEF u, next
  <2> QED BY <1>3, <1>4, <2>1, <2>4, <2>5 DEF Whole, u
<1> QED BY <1>5, <1>6

-------------------------------------------------------------------------------
(* What is heard *)

\* No word is in two of the tables.
LEMMA TablesDiffer ==
  /\ DOMAIN Ones \cap DOMAIN Teens = {}
  /\ DOMAIN Tens \cap DOMAIN Teens = {}
  /\ DOMAIN Tens \cap DOMAIN Ones = {}
BY DEF Ones, Teens, Tens

\* What is heard is a number of dollars.
LEMMA HintType ==
  ASSUME NEW words, NEW i
  PROVE  HintAt(words, i).amount \in Nat
<1>1. /\ \A w \in DOMAIN Ones : Ones[w] \in Nat
      /\ \A w \in DOMAIN Teens : Teens[w] \in Nat
      /\ \A w \in DOMAIN Tens : Tens[w] \in Nat
  BY DEF Ones, Teens, Tens
<1>0. /\ DOMAIN Ones \cap DOMAIN Teens = {} /\ DOMAIN Tens \cap DOMAIN Teens = {}
      /\ DOMAIN Tens \cap DOMAIN Ones = {}
  BY TablesDiffer
<1>2. ASSUME NEW k PROVE UnderHundred(words, k).amount \in Nat
  BY <1>0, <1>1 DEF UnderHundred
<1>3. ASSUME words[i] \in DOMAIN Ones, At(words, i + 1) \in DOMAIN Tens
      PROVE  ShortReading(words, i).amount \in Nat
  <2> DEFINE ones == Ones[words[i]]
             tens == Tens[words[i + 1]]
             third == At(words, i + 2)
             more == IF third \in DOMAIN Ones THEN Ones[third] ELSE 0
  <2>1. "" \notin DOMAIN Tens
    BY DEF Tens
  <2>2. At(words, i + 1) = words[i + 1]
    BY <1>3, <2>1 DEF At
  <2>3. ones \in Nat /\ tens \in Nat /\ more \in Nat
    BY <1>1, <1>3, <2>2
  <2>4. ShortReading(words, i).amount = 100 * ones + tens + more
    BY DEF ShortReading
  <2> HIDE DEF ones, tens, more
  <2>5. 100 * ones + tens + more \in Nat
    BY <2>3
  <2> QED BY <2>4, <2>5
<1>4. HundredReading(words, i).amount \in Nat
  BY <1>2 DEF HundredReading, Unread
<1>5. ReadPhrase(words, i).amount \in Nat
  BY <1>3, <1>4 DEF ReadPhrase
<1> QED BY <1>5 DEF HintAt

-------------------------------------------------------------------------------
(* The correction of spoken money *)

\* The least of a set of numbers is in it.
LEMMA MinType ==
  ASSUME NEW S \in SUBSET Nat, S # {}
  PROVE  Min(S) \in S
<1>1. \E n \in S : \A m \in S : n <= m
  BY LeastNumber
<1> QED BY <1>1 DEF Min

\* A hint is matched with an item that none was matched with before, or with none.
LEMMA MatchType ==
  ASSUME NEW words, NEW hint, NEW S, NEW items \in Seq(S), NEW taken
  PROVE  MatchIndex(words, hint, items, taken) \in (DOMAIN items \ taken) \cup {0}
<1> DEFINE free == DOMAIN items \ taken
           repeats == {i \in free : Says(ItemWords(items[i]), PhraseOf(words, hint))}
           misread == {i \in free \ repeats : LooksLikeCentsMisread(items[i].price, hint.amount)}
           match == MatchIndex(words, hint, items, taken)
<1>1. free \in SUBSET Nat
  <2>1. DOMAIN items \in SUBSET Nat
    OBVIOUS
  <2> QED BY <2>1
<1>2. repeats \in SUBSET Nat /\ misread \in SUBSET Nat
      /\ repeats \subseteq free /\ misread \subseteq free
  BY <1>1
<1>3. match = CASE repeats # {} -> Min(repeats)
                [] repeats = {} /\ Cardinality(misread) = 1 -> Min(misread)
                [] OTHER -> 0
  BY DEF MatchIndex
<1> HIDE DEF free, repeats, misread, match
<1>4. CASE repeats # {}
  <2>1. match = Min(repeats)
    BY <1>3, <1>4
  <2>2. match \in repeats
    BY <1>2, <1>4, <2>1, MinType
  <2> QED BY <1>2, <2>2 DEF free, match
<1>5. CASE repeats = {} /\ Cardinality(misread) = 1
  <2>1. match = Min(misread)
    BY <1>3, <1>5
  <2>2. misread # {}
    <3>1. ASSUME misread = {} PROVE Cardinality(misread) = 0
      BY <3>1, FS_EmptySet, Zenon
    <3> QED BY <1>5, <3>1
  <2>3. match \in misread
    BY <1>2, <2>1, <2>2, MinType
  <2> QED BY <1>2, <2>3 DEF free, match
<1>6. CASE repeats = {} /\ Cardinality(misread) # 1
  <2>1. match = 0
    BY <1>3, <1>6
  <2> QED BY <2>1 DEF match
<1> QED BY <1>4, <1>5, <1>6

\* An item whose price was heard
Mended(item, amount) ==
  [item EXCEPT !.price = 1000 * amount, !.flagged = TRUE, !.flag_reason = SpokenMoneyCorrection]

\* What the hints of some words have done to the items
Progress(given) ==
  [items : {items \in Seq(ExtractedItem) : DOMAIN items = DOMAIN given},
   used : SUBSET DOMAIN given]

\* From done to next no item but one changes, which had not been matched: it is
\* matched now, and it is what it was or mended to the amount.
MendsOne(given, done, next, amount) ==
  \E i \in (DOMAIN given \ done.used) \cup {0} :
    /\ next.used = done.used \cup ({i} \ {0})
    /\ \A j \in DOMAIN given \ {i} : next.items[j] = done.items[j]
    /\ i # 0 => \/ next.items[i] = done.items[i]
                \/ /\ LooksLikeCentsMisread(done.items[i].price, amount)
                   /\ next.items[i] = Mended(done.items[i], amount)

\* A hint mends one item at most.
LEMMA CorrectOneDoes ==
  ASSUME NEW words, NEW hint, hint.amount \in Nat,
         NEW given \in Seq(ExtractedItem), NEW done \in Progress(given)
  PROVE  /\ CorrectOne(words, done, hint) \in Progress(given)
         /\ MendsOne(given, done, CorrectOne(words, done, hint), hint.amount)
<1> DEFINE i == MatchIndex(words, hint, done.items, done.used)
           items == done.items
           fits == i # 0 /\ LooksLikeCentsMisread(items[i].price, hint.amount)
           next == CorrectOne(words, done, hint)
<1>1. items \in Seq(ExtractedItem) /\ DOMAIN items = DOMAIN given /\ done.used \subseteq DOMAIN given
  BY DEF Progress
<1>2. i \in (DOMAIN given \ done.used) \cup {0}
  BY <1>1, MatchType
<1>3. 0 \notin DOMAIN given
  OBVIOUS
<1>4. next.used = done.used \cup ({i} \ {0}) /\ DOMAIN next = {"items", "used"}
      /\ next = [items |-> next.items, used |-> next.used]
  BY DEF CorrectOne
<1>5. next.items = IF fits THEN [items EXCEPT ![i] = Mended(items[i], hint.amount)] ELSE items
  <2>1. next.items = IF fits
                       THEN [items EXCEPT ![i].price = 1000 * hint.amount,
                                          ![i].flagged = TRUE,
                                          ![i].flag_reason = SpokenMoneyCorrection]
                       ELSE items
    BY DEF CorrectOne
  <2>2. ASSUME fits
        PROVE  [items EXCEPT ![i].price = 1000 * hint.amount, ![i].flagged = TRUE,
                             ![i].flag_reason = SpokenMoneyCorrection]
               = [items EXCEPT ![i] = Mended(items[i], hint.amount)]
    <3>1. i \in DOMAIN items
      BY <1>1, <1>2, <2>2
    <3>2. items = [j \in DOMAIN items |-> items[j]]
      BY <1>1
    <3> HIDE DEF i, items
    <3> DEFINE price == 1000 * hint.amount
               r == SpokenMoneyCorrection
               x == [items EXCEPT ![i].price = price, ![i].flagged = TRUE, ![i].flag_reason = r]
               y == [items EXCEPT ![i] = Mended(items[i], hint.amount)]
    <3> HIDE DEF price, r
    <3>3. /\ x = [j \in DOMAIN items |-> x[j]] /\ y = [j \in DOMAIN items |-> y[j]]
          /\ \A j \in DOMAIN items : j # i => x[j] = y[j]
      BY <3>2
    <3>4. x[i] = [items[i] EXCEPT !.price = price, !.flagged = TRUE, !.flag_reason = r]
      BY <3>1, <3>2
    <3>5. y[i] = Mended(items[i], hint.amount)
      BY <3>1, <3>2
    <3>6. x[i] = y[i]
      BY <3>4, <3>5 DEF Mended, price, r
    <3> HIDE DEF x, y
    <3>7. x = y
      BY <3>3, <3>6
    <3> QED BY <3>7 DEF x, y, price, r
  <2> QED BY <2>1, <2>2
<1>6. ASSUME i # 0 PROVE Mended(items[i], hint.amount) \in ExtractedItem
  <2>1. items[i] \in ExtractedItem
    BY <1>1, <1>2, <1>6
  <2>2. 1000 * hint.amount \in Amount
    BY DEF Amount
  <2>3. SpokenMoneyCorrection \in Reasons /\ TRUE \in BOOLEAN
    BY DEF Reasons, GuardReasons
  <2> DEFINE item == items[i]
             price == 1000 * hint.amount
  <2> HIDE DEF item, price
  <2>4. item \in ExtractedItem /\ price \in Amount
    BY <2>1, <2>2 DEF item, price
  <2>5. [item EXCEPT !.price = price, !.flagged = TRUE, !.flag_reason = SpokenMoneyCorrection]
        \in ExtractedItem
    BY <2>3, <2>4 DEF ExtractedItem
  <2> QED BY <2>5 DEF Mended, item, price
<1>7. next.items \in Seq(ExtractedItem) /\ DOMAIN next.items = DOMAIN given
  <2>1. CASE fits
    <3> DEFINE m == Mended(items[i], hint.amount)
    <3>1. m \in ExtractedItem /\ next.items = [items EXCEPT ![i] = m]
      BY <1>5, <1>6, <2>1
    <3> HIDE DEF m, i, items, next
    <3>2. Len(items) \in Nat /\ items \in [1 .. Len(items) -> ExtractedItem]
      BY <1>1
    <3>3. next.items \in [1 .. Len(items) -> ExtractedItem]
      BY <3>1, <3>2
    <3>4. next.items \in Seq(ExtractedItem)
      BY <3>2, <3>3
    <3>5. DOMAIN next.items = 1 .. Len(items) /\ DOMAIN items = 1 .. Len(items)
      BY <3>2, <3>3
    <3> QED BY <1>1, <3>4, <3>5
  <2>2. CASE ~fits
    BY <1>1, <1>5, <2>2
  <2> QED BY <2>1, <2>2
<1>8. next \in Progress(given)
  <2>1. next.used \subseteq DOMAIN given
    BY <1>1, <1>2, <1>4
  <2> HIDE DEF next
  <2> QED BY <1>4, <1>7, <2>1 DEF Progress
<1>9. /\ \A j \in DOMAIN given \ {i} : next.items[j] = items[j]
      /\ i # 0 => \/ next.items[i] = items[i]
                  \/ /\ LooksLikeCentsMisread(items[i].price, hint.amount)
                     /\ next.items[i] = Mended(items[i], hint.amount)
  <2>1. CASE fits
    <3>1. i \in DOMAIN items
      BY <1>1, <1>2, <2>1
    <3> DEFINE m == Mended(items[i], hint.amount)
    <3>2. next.items = [items EXCEPT ![i] = m]
      BY <1>5, <2>1
    <3> HIDE DEF m, i, items, next
    <3>3. next.items[i] = m /\ \A j \in DOMAIN given \ {i} : next.items[j] = items[j]
      BY <1>1, <3>1, <3>2
    <3> QED BY <2>1, <3>3 DEF m
  <2>2. CASE ~fits
    BY <1>5, <2>2
  <2> QED BY <2>1, <2>2
<1> HIDE DEF i, next
<1>10. MendsOne(given, done, next, hint.amount)
  BY <1>2, <1>4, <1>9 DEF MendsOne
<1> QED BY <1>8, <1>10 DEF next

\* The corrections are defined, hint by hint.
LEMMA CorrectionsDo ==
  ASSUME NEW given \in Seq(ExtractedItem), NEW words \in Seq(STRING)
  PROVE  /\ Corrections(given, words) \in [0 .. Len(words) -> Progress(given)]
         /\ Corrections(given, words)[0] = [items |-> given, used |-> {}]
         /\ \A n \in 1 .. Len(words) :
              Corrections(given, words)[n] =
                IF HintAt(words, n).amount > 0
                  THEN CorrectOne(words, Corrections(given, words)[n - 1], HintAt(words, n))
                  ELSE Corrections(given, words)[n - 1]
<1> DEFINE N == Len(words)
           T == Progress(given)
           base == [items |-> given, used |-> {}]
           Do(n, done) == IF HintAt(words, n).amount > 0
                            THEN CorrectOne(words, done, HintAt(words, n)) ELSE done
           step == [x \in (1 .. N) \X T |-> Do(x[1], x[2])]
           Is(g) == g = [n \in 0 .. N |-> IF n = 0 THEN base ELSE Do(n, g[n - 1])]
           all == Corrections(given, words)
<1>1. N \in Nat
  OBVIOUS
<1>2. base \in T
  BY DEF Progress
<1>3. \A n \in 1 .. N, done \in T : Do(n, done) \in T
  <2>1. ASSUME NEW n \in 1 .. N, NEW done \in T PROVE Do(n, done) \in T
    <3>1. HintAt(words, n).amount \in Nat
      BY HintType
    <3>2. CorrectOne(words, done, HintAt(words, n)) \in T
      BY <3>1, CorrectOneDoes
    <3> QED BY <3>2
  <2> QED BY <2>1
<1>4. \E g \in [0 .. N -> T] : Is(g)
  <2> HIDE DEF N, Do, T, base
  <2>1. step \in [(1 .. N) \X T -> T]
    BY <1>3
  <2>2. \A n \in 1 .. N, done \in T : step[<<n, done>>] = Do(n, done)
    OBVIOUS
  <2> HIDE DEF step
  <2>3. PICK g \in [0 .. N -> T] : Follows(g, N, base, step)
    BY <1>1, <1>2, <2>1, StepByStep, Zenon
  <2>4. \A n \in 0 .. N : n # 0 => n \in 1 .. N /\ n - 1 \in 0 .. N
    BY <1>1
  <2>5. \A n \in 0 .. N : (IF n = 0 THEN base ELSE step[<<n, g[n - 1]>>])
                          = (IF n = 0 THEN base ELSE Do(n, g[n - 1]))
    BY <2>2, <2>3, <2>4
  <2>6. g = [n \in 0 .. N |-> IF n = 0 THEN base ELSE Do(n, g[n - 1])]
    BY <2>3, <2>5 DEF Follows
  <2> QED BY <2>3, <2>6
<1>5. all = CHOOSE g : Is(g)
  BY DEF Corrections, Heed
<1>6. all = [n \in 0 .. N |-> IF n = 0 THEN base ELSE Do(n, all[n - 1])]
  <2>1. Is(all)
    <3> HIDE DEF Is, all
    <3> QED BY <1>4, <1>5
  <2> QED BY <2>1
<1> HIDE DEF N, Do, T, base, all
<1>7. all[0] = base /\ \A n \in 1 .. N : all[n] = Do(n, all[n - 1])
  BY <1>1, <1>6
<1>8. \A n \in 0 .. N : all[n] \in T
  <2> DEFINE Good == {n \in 0 .. N : all[n] \in T}
  <2>1. 0 \in Good
    BY <1>1, <1>2, <1>7
  <2>2. \A n \in 1 .. N : n - 1 \in Good => n \in Good
    BY <1>1, <1>3, <1>7
  <2> HIDE DEF Good
  <2>3. 0 .. N \subseteq Good
    BY <1>1, <2>1, <2>2, Upwards
  <2> QED BY <2>3 DEF Good
<1>9. all \in [0 .. N -> T]
  BY <1>6, <1>8
<1> QED BY <1>7, <1>9 DEF N, Do, T, base, all

\* Each item that was matched has a word of its own that a hint was heard from, and
\* is what it was, or what this hint makes of it.
Owned(given, words, n, done) ==
  /\ \A i \in DOMAIN given \ done.used : done.items[i] = given[i]
  /\ \E owner \in [done.used -> 1 .. n] :
       /\ \A i, j \in done.used : owner[i] = owner[j] => i = j
       /\ \A i \in done.used :
            /\ HintAt(words, owner[i]).amount > 0
            /\ \/ done.items[i] = given[i]
               \/ /\ LooksLikeCentsMisread(given[i].price, HintAt(words, owner[i]).amount)
                  /\ done.items[i] = Mended(given[i], HintAt(words, owner[i]).amount)

\* One hint keeps it so.
LEMMA OwnedStep ==
  ASSUME NEW given \in Seq(ExtractedItem), NEW words, NEW n \in Nat, n # 0,
         NEW done \in Progress(given), Owned(given, words, n - 1, done),
         HintAt(words, n).amount > 0
  PROVE  Owned(given, words, n, CorrectOne(words, done, HintAt(words, n)))
<1> DEFINE hint == HintAt(words, n)
           next == CorrectOne(words, done, hint)
<1>1. hint.amount \in Nat
  BY HintType
<1>2. PICK i \in (DOMAIN given \ done.used) \cup {0} :
        /\ next.used = done.used \cup ({i} \ {0})
        /\ \A j \in DOMAIN given \ {i} : next.items[j] = done.items[j]
        /\ i # 0 => \/ next.items[i] = done.items[i]
                    \/ /\ LooksLikeCentsMisread(done.items[i].price, hint.amount)
                       /\ next.items[i] = Mended(done.items[i], hint.amount)
  <2> HIDE DEF hint
  <2>1. MendsOne(given, done, CorrectOne(words, done, hint), hint.amount)
    BY <1>1, CorrectOneDoes
  <2> QED BY <2>1 DEF MendsOne
<1>3. PICK owner \in [done.used -> 1 .. n - 1] :
        /\ \A a, b \in done.used : owner[a] = owner[b] => a = b
        /\ \A a \in done.used :
             /\ HintAt(words, owner[a]).amount > 0
             /\ \/ done.items[a] = given[a]
                \/ /\ LooksLikeCentsMisread(given[a].price, HintAt(words, owner[a]).amount)
                   /\ done.items[a] = Mended(given[a], HintAt(words, owner[a]).amount)
  BY DEF Owned
<1>4. \A a \in DOMAIN given \ done.used : done.items[a] = given[a]
  BY DEF Owned
<1>5. 0 \notin DOMAIN given /\ done.used \subseteq DOMAIN given
  BY DEF Progress
<1> DEFINE new == [a \in next.used |-> IF a \in done.used THEN owner[a] ELSE n]
<1>6. next.used = IF i = 0 THEN done.used ELSE done.used \cup {i}
  <2> HIDE DEF next
  <2> QED BY <1>2
<1>7. \A a \in next.used : a \in done.used \/ (a = i /\ i # 0 /\ i \in DOMAIN given /\ i \notin done.used)
  <2> HIDE DEF next
  <2> QED BY <1>2, <1>6
<1> HIDE DEF next
<1>8. new \in [next.used -> 1 .. n]
  BY <1>3
<1>9. \A a, b \in next.used : new[a] = new[b] => a = b
  <2>1. \A a \in done.used : owner[a] # n
    BY <1>3
  <2> QED BY <1>3, <1>7, <2>1
<1>10. \A a \in DOMAIN given \ next.used : next.items[a] = given[a]
  <2>1. ASSUME NEW a \in DOMAIN given \ next.used PROVE next.items[a] = given[a]
    <3>1. a # i /\ a \notin done.used
      BY <1>5, <1>6, <2>1
    <3> QED BY <1>2, <1>4, <3>1
  <2> QED BY <2>1
<1>11. ASSUME NEW a \in next.used
       PROVE  /\ HintAt(words, new[a]).amount > 0
              /\ \/ next.items[a] = given[a]
                 \/ /\ LooksLikeCentsMisread(given[a].price, HintAt(words, new[a]).amount)
                    /\ next.items[a] = Mended(given[a], HintAt(words, new[a]).amount)
  <2>1. CASE a \in done.used
    <3>1. new[a] = owner[a] /\ a \in DOMAIN given
      BY <1>5, <2>1
    <3>2. a # i
      BY <1>2, <1>5, <2>1
    <3>3. next.items[a] = done.items[a]
      BY <1>2, <3>1, <3>2
    <3> HIDE DEF new
    <3> QED BY <1>3, <2>1, <3>1, <3>3
  <2>2. CASE a \notin done.used
    <3>1. a = i /\ i # 0 /\ i \in DOMAIN given /\ i \notin done.used
      BY <1>7, <2>2
    <3>2. new[a] = n
      BY <2>2
    <3>3. done.items[i] = given[i]
      BY <1>4, <3>1
    <3> HIDE DEF new
    <3> QED BY <1>2, <3>1, <3>2, <3>3
  <2> QED BY <2>1, <2>2
<1> HIDE DEF new
<1>12. Owned(given, words, n, next)
  BY <1>8, <1>9, <1>10, <1>11 DEF Owned
<1> QED BY <1>12 DEF next

\* After the last word it is so, and the items are as many as they were.
LEMMA CorrectedOwned ==
  ASSUME NEW given \in Seq(ExtractedItem), NEW words \in Seq(STRING)
  PROVE  \E done \in Progress(given) :
           CorrectedItems(given, words) = done.items /\ Owned(given, words, Len(words), done)
<1> DEFINE N == Len(words)
           all == Corrections(given, words)
           Good == {n \in 0 .. N : Owned(given, words, n, all[n])}
<1>1. N \in Nat
  OBVIOUS
<1>2. /\ all \in [0 .. N -> Progress(given)]
      /\ all[0] = [items |-> given, used |-> {}]
      /\ \A n \in 1 .. N : all[n] = IF HintAt(words, n).amount > 0
                                      THEN CorrectOne(words, all[n - 1], HintAt(words, n))
                                      ELSE all[n - 1]
  BY CorrectionsDo
<1> HIDE DEF N, all
<1>3. 0 \in Good
  <2>1. \E owner \in [{} -> 1 .. 0] : TRUE
    <3> DEFINE o == [x \in {} |-> 1]
    <3>1. o \in [{} -> 1 .. 0]
      OBVIOUS
    <3> QED BY <3>1
  <2>2. Owned(given, words, 0, [items |-> given, used |-> {}])
    BY <2>1 DEF Owned
  <2>3. all[0] = [items |-> given, used |-> {}]
    BY <1>2
  <2>4. Owned(given, words, 0, all[0])
    BY <2>2, <2>3, Zenon
  <2> QED BY <1>1, <2>4
<1>4. ASSUME NEW n \in 1 .. N, n - 1 \in Good PROVE n \in Good
  <2>1. n \in Nat /\ n # 0 /\ n - 1 \in 0 .. N /\ n \in 0 .. N
    BY <1>1
  <2>2. all[n - 1] \in Progress(given) /\ Owned(given, words, n - 1, all[n - 1])
    BY <1>2, <1>4, <2>1
  <2>3. CASE HintAt(words, n).amount > 0
    <3> DEFINE done == all[n - 1]
    <3>1. all[n] = CorrectOne(words, done, HintAt(words, n))
      BY <1>2, <2>3
    <3>2. done \in Progress(given) /\ Owned(given, words, n - 1, done)
      BY <2>2
    <3> HIDE DEF done, Good
    <3>3. Owned(given, words, n, CorrectOne(words, done, HintAt(words, n)))
      BY <2>1, <2>3, <3>2, OwnedStep
    <3> QED BY <2>1, <3>1, <3>3 DEF Good
  <2>4. CASE ~(HintAt(words, n).amount > 0)
    <3>1. all[n] = all[n - 1]
      BY <1>2, <2>4
    <3>2. Owned(given, words, n, all[n - 1])
      <4> DEFINE done == all[n - 1]
      <4>1. PICK owner \in [done.used -> 1 .. n - 1] :
              /\ \A a, b \in done.used : owner[a] = owner[b] => a = b
              /\ \A a \in done.used :
                   /\ HintAt(words, owner[a]).amount > 0
                   /\ \/ done.items[a] = given[a]
                      \/ /\ LooksLikeCentsMisread(given[a].price, HintAt(words, owner[a]).amount)
                         /\ done.items[a] = Mended(given[a], HintAt(words, owner[a]).amount)
        BY <2>2 DEF Owned
      <4> HIDE DEF done
      <4>2. owner \in [done.used -> 1 .. n]
        BY <2>1, <4>1
      <4>3. \A a \in DOMAIN given \ done.used : done.items[a] = given[a]
        BY <2>2 DEF Owned, done
      <4>4. Owned(given, words, n, done)
        BY <4>1, <4>2, <4>3 DEF Owned
      <4> QED BY <4>4 DEF done
    <3> QED BY <2>1, <3>1, <3>2
  <2> QED BY <2>3, <2>4
<1>5. N \in Good
  <2> HIDE DEF Good
  <2>1. 0 .. N \subseteq Good
    BY <1>1, <1>3, <1>4, Upwards
  <2> QED BY <1>1, <2>1
<1>6. all[N] \in Progress(given) /\ Owned(given, words, N, all[N])
  BY <1>1, <1>2, <1>5
<1>7. CorrectedItems(given, words) = all[N].items
  BY DEF CorrectedItems, all, N
<1> QED BY <1>6, <1>7 DEF N

-------------------------------------------------------------------------------
(* What the guard changes *)

\* Flagging moves no price, drops no flag and keeps a reason that is there.
KeepsTold(items, kept) ==
  /\ DOMAIN kept = DOMAIN items
  /\ \A i \in DOMAIN items :
       /\ kept[i].price = items[i].price
       /\ items[i].flagged => kept[i].flagged
       /\ items[i].flag_reason # Null => kept[i].flag_reason = items[i].flag_reason
       /\ kept[i] # items[i] => kept[i].flagged /\ kept[i].flag_reason # Null

\* An item that is flagged
Marked(item, reason) ==
  [item EXCEPT !.flagged = TRUE, !.flag_reason = IF @ = Null THEN reason ELSE @]

\* Flagged does that.
LEMMA FlaggedKeeps ==
  ASSUME NEW items \in Seq(ExtractedItem), NEW which, NEW reason \in GuardReasons
  PROVE  /\ Flagged(items, which, reason) \in Seq(ExtractedItem)
         /\ KeepsTold(items, Flagged(items, which, reason))
<1> DEFINE kept == Flagged(items, which, reason)
<1>1. Null \notin GuardReasons
  BY NullIsNoValue
<1>2. /\ DOMAIN kept = DOMAIN items /\ kept = [i \in DOMAIN kept |-> kept[i]]
      /\ \A i \in DOMAIN items : /\ i \in which => kept[i] = Marked(items[i], reason)
                                 /\ i \notin which => kept[i] = items[i]
  <2>1. kept = [i \in DOMAIN items |-> IF i \in which THEN Marked(items[i], reason) ELSE items[i]]
    BY Zenon DEF Flagged, Marked
  <2> HIDE DEF kept
  <2>2. DOMAIN kept = DOMAIN items /\ kept = [i \in DOMAIN kept |-> kept[i]]
    BY <2>1, Zenon
  <2>3. ASSUME NEW i \in DOMAIN items
        PROVE  /\ i \in which => kept[i] = Marked(items[i], reason)
               /\ i \notin which => kept[i] = items[i]
    BY <2>1, Zenon
  <2> QED BY <2>2, <2>3, Zenon
<1>3. \A i \in DOMAIN items : items[i] \in ExtractedItem
  OBVIOUS
<1>4. ASSUME NEW item \in ExtractedItem
      PROVE  /\ Marked(item, reason) \in ExtractedItem
             /\ Marked(item, reason).price = item.price
             /\ Marked(item, reason).flagged = TRUE
             /\ Marked(item, reason).flag_reason # Null
             /\ item.flag_reason # Null => Marked(item, reason).flag_reason = item.flag_reason
  BY <1>1 DEF ExtractedItem, Reasons, Marked
<1> HIDE DEF kept
<1>5. \A i \in DOMAIN items : kept[i] \in ExtractedItem
  BY <1>2, <1>3, <1>4
<1>6. kept \in Seq(ExtractedItem)
  <2>1. Len(items) \in Nat /\ DOMAIN items = 1 .. Len(items)
    OBVIOUS
  <2>2. kept \in [1 .. Len(items) -> ExtractedItem]
    BY <1>2, <1>5, <2>1
  <2> QED BY <2>1, <2>2
<1>7. KeepsTold(items, kept)
  <2>1. ASSUME NEW i \in DOMAIN items
        PROVE  /\ kept[i].price = items[i].price
               /\ items[i].flagged => kept[i].flagged
               /\ items[i].flag_reason # Null => kept[i].flag_reason = items[i].flag_reason
               /\ kept[i] # items[i] => kept[i].flagged /\ kept[i].flag_reason # Null
    <3>1. CASE i \in which
      <4>1. kept[i] = Marked(items[i], reason)
        BY <1>2, <3>1
      <4> QED BY <1>3, <1>4, <4>1
    <3>2. CASE i \notin which
      BY <1>2, <3>2
    <3> QED BY <3>1, <3>2
  <2> QED BY <1>2, <2>1 DEF KeepsTold
<1> QED BY <1>6, <1>7 DEF kept

\* Flagging twice keeps it too.
LEMMA KeepsOn ==
  ASSUME NEW a, NEW b, NEW c, KeepsTold(a, b), KeepsTold(b, c)
  PROVE  KeepsTold(a, c)
<1>1. ASSUME NEW i \in DOMAIN a
      PROVE  /\ c[i].price = a[i].price
             /\ a[i].flagged => c[i].flagged
             /\ a[i].flag_reason # Null => c[i].flag_reason = a[i].flag_reason
             /\ c[i] # a[i] => c[i].flagged /\ c[i].flag_reason # Null
  <2>1. i \in DOMAIN b
    BY DEF KeepsTold
  <2>2. c[i] # b[i] => c[i].flagged /\ c[i].flag_reason # Null
    BY <2>1 DEF KeepsTold
  <2>3. b[i] # a[i] => b[i].flagged /\ b[i].flag_reason # Null
    BY DEF KeepsTold
  <2>4. /\ c[i].price = b[i].price /\ b[i].price = a[i].price
        /\ a[i].flagged => b[i].flagged
        /\ b[i].flagged => c[i].flagged
        /\ a[i].flag_reason # Null => b[i].flag_reason = a[i].flag_reason
        /\ b[i].flag_reason # Null => c[i].flag_reason = b[i].flag_reason
    BY <2>1 DEF KeepsTold
  <2> QED BY <2>2, <2>3, <2>4
<1> QED BY <1>1 DEF KeepsTold

\* What the guard leaves are corrected items with flags.
LEMMA GuardedKeeps ==
  ASSUME NEW given \in Seq(ExtractedItem), NEW words \in Seq(STRING)
  PROVE  /\ GuardedItems(given, words) \in Seq(ExtractedItem)
         /\ KeepsTold(CorrectedItems(given, words), GuardedItems(given, words))
<1> DEFINE corrected == CorrectedItems(given, words)
           w1 == {i \in DOMAIN corrected : PriceIsInDescription(corrected[i])}
           tokens == Flagged(corrected, w1, "price_tokens")
           w2 == {i \in DOMAIN tokens : tokens[i].details = tokens[i].desc}
           details == Flagged(tokens, w2, "same_details")
           w3 == {i \in DOMAIN details : HasTwin(details, i)}
           last == Flagged(details, w3, "duplicate")
<1>1. corrected \in Seq(ExtractedItem)
  <2>1. PICK done \in Progress(given) : corrected = done.items
    BY CorrectedOwned
  <2> QED BY <2>1 DEF Progress
<1>2. "price_tokens" \in GuardReasons /\ "same_details" \in GuardReasons
      /\ "duplicate" \in GuardReasons
  BY DEF GuardReasons
<1>3. GuardedItems(given, words) = last
  BY DEF GuardedItems, PriceTokensFlagged, SameDetailsFlagged, TwinsFlagged
<1> HIDE DEF corrected, w1, w2, w3
<1>4. tokens \in Seq(ExtractedItem) /\ KeepsTold(corrected, tokens)
  BY <1>1, <1>2, FlaggedKeeps
<1> HIDE DEF tokens
<1>5. details \in Seq(ExtractedItem) /\ KeepsTold(tokens, details)
  BY <1>2, <1>4, FlaggedKeeps
<1> HIDE DEF details
<1>6. last \in Seq(ExtractedItem) /\ KeepsTold(details, last)
  BY <1>2, <1>5, FlaggedKeeps
<1> HIDE DEF last
<1>7. KeepsTold(corrected, last)
  <2>1. KeepsTold(corrected, details)
    BY <1>4, <1>5, KeepsOn
  <2> QED BY <1>6, <2>1, KeepsOn
<1> QED BY <1>3, <1>6, <1>7 DEF corrected

\* The hints of a transcript are as many as its words at most.
LEMMA HintsFinite ==
  ASSUME NEW words \in Seq(STRING)
  PROVE  IsFiniteSet(SpokenHints(words))
<1> DEFINE N == Len(words)
           all == {HintAt(words, i) : i \in 1 .. N}
           f == [i \in 1 .. N |-> HintAt(words, i)]
<1>1. N \in Nat /\ DOMAIN words = 1 .. N
  OBVIOUS
<1>2. IsFiniteSet(1 .. N)
  BY <1>1, FS_Interval
<1>3. f \in Surjection(1 .. N, all)
  BY DEF Surjection
<1>4. IsFiniteSet(all)
  <2> HIDE DEF f, all
  <2> QED BY <1>2, <1>3, FS_Surjection
<1>5. SpokenHints(words) \in SUBSET all
  BY <1>1 DEF SpokenHints
<1> HIDE DEF all
<1> QED BY <1>4, <1>5, FS_Subset

\* Prices move by the factor a misread amount is off, no oftener than the amount was
\* spoken, and what is touched is flagged.
Visible(given, kept, words) ==
  LET mended == {i \in DOMAIN given : kept[i].price # given[i].price}
  IN  /\ DOMAIN kept = DOMAIN given
      /\ \A i \in mended : /\ kept[i].price = 100 * given[i].price
                           /\ kept[i].flag_reason = SpokenMoneyCorrection
      /\ \A i \in mended :
           Cardinality({j \in mended : kept[j].price = kept[i].price})
             <= Cardinality({hint \in SpokenHints(words) : 1000 * hint.amount = kept[i].price})
      /\ \A i \in DOMAIN given :
           /\ given[i].flagged => kept[i].flagged
           /\ kept[i] # given[i] => kept[i].flagged /\ kept[i].flag_reason # Null

\* The guard is visible.
LEMMA GuardIsVisible ==
  ASSUME NEW given \in Seq(ExtractedItem), NEW words \in Seq(STRING),
         NEW kept, kept = GuardedItems(given, words)
  PROVE  Visible(given, kept, words)
<1> DEFINE N == Len(words)
           mended == {i \in DOMAIN given : kept[i].price # given[i].price}
<1>1. PICK done \in Progress(given) :
        CorrectedItems(given, words) = done.items /\ Owned(given, words, N, done)
  BY CorrectedOwned
<1>2. PICK owner \in [done.used -> 1 .. N] :
        /\ \A a, b \in done.used : owner[a] = owner[b] => a = b
        /\ \A a \in done.used :
             /\ HintAt(words, owner[a]).amount > 0
             /\ \/ done.items[a] = given[a]
                \/ /\ LooksLikeCentsMisread(given[a].price, HintAt(words, owner[a]).amount)
                   /\ done.items[a] = Mended(given[a], HintAt(words, owner[a]).amount)
  BY <1>1 DEF Owned
<1>3. \A a \in DOMAIN given \ done.used : done.items[a] = given[a]
  BY <1>1 DEF Owned
<1>4. KeepsTold(done.items, kept)
  BY <1>1, GuardedKeeps
<1>5. done.items \in Seq(ExtractedItem) /\ DOMAIN done.items = DOMAIN given
  BY DEF Progress
<1>6. DOMAIN kept = DOMAIN given
  BY <1>4, <1>5 DEF KeepsTold
<1>7. Null \notin Int \cup GuardReasons
  BY NullIsNoValue
<1>8. \A i \in DOMAIN given : given[i] \in ExtractedItem /\ done.items[i] \in ExtractedItem
  BY <1>5
<1>9. ASSUME NEW i \in DOMAIN given
      PROVE  \/ done.items[i] = given[i]
             \/ /\ i \in done.used
                /\ HintAt(words, owner[i]).amount > 0
                /\ LooksLikeCentsMisread(given[i].price, HintAt(words, owner[i]).amount)
                /\ done.items[i] = Mended(given[i], HintAt(words, owner[i]).amount)
  BY <1>2, <1>3
<1>10. ASSUME NEW i \in DOMAIN given, done.items[i] # given[i]
       PROVE  /\ i \in done.used
              /\ HintAt(words, owner[i]).amount > 0
              /\ done.items[i].price = 1000 * HintAt(words, owner[i]).amount
              /\ done.items[i].price = 100 * given[i].price
              /\ done.items[i].flagged
              /\ done.items[i].flag_reason = SpokenMoneyCorrection
  <2> DEFINE a == HintAt(words, owner[i]).amount
  <2>1. /\ i \in done.used /\ a > 0 /\ LooksLikeCentsMisread(given[i].price, a)
        /\ done.items[i] = Mended(given[i], a)
    BY <1>9, <1>10
  <2>2. a \in Nat
    BY HintType
  <2> HIDE DEF a
  <2>3. given[i].price \in Int /\ given[i].price * 100 = a * 1000
    BY <1>8, <2>1 DEF LooksLikeCentsMisread, ExtractedItem, Amount
  <2>4. /\ done.items[i].price = 1000 * a /\ done.items[i].flagged = TRUE
        /\ done.items[i].flag_reason = SpokenMoneyCorrection
    BY <1>8, <2>1 DEF Mended, ExtractedItem
  <2>5. 1000 * a = 100 * given[i].price
    BY <2>2, <2>3
  <2> QED BY <2>1, <2>4, <2>5 DEF a
<1>11. \A i \in DOMAIN given : kept[i].price = done.items[i].price
  BY <1>4, <1>5 DEF KeepsTold
<1>12. \A i \in mended : i \in DOMAIN given /\ done.items[i] # given[i]
  BY <1>11
<1>13. ASSUME NEW i \in mended
       PROVE  /\ kept[i].price = 100 * given[i].price
              /\ kept[i].flag_reason = SpokenMoneyCorrection
  <2>1. i \in DOMAIN given /\ done.items[i] # given[i]
    BY <1>12
  <2>2. SpokenMoneyCorrection # Null
    BY <1>7 DEF GuardReasons
  <2>3. done.items[i].price = 100 * given[i].price
        /\ done.items[i].flag_reason = SpokenMoneyCorrection
    BY <1>10, <2>1
  <2>4. kept[i].flag_reason = done.items[i].flag_reason
    BY <1>4, <1>5, <2>1, <2>2, <2>3 DEF KeepsTold
  <2> QED BY <1>11, <2>1, <2>3, <2>4
<1>14. ASSUME NEW i \in mended
       PROVE  Cardinality({j \in mended : kept[j].price = kept[i].price})
                <= Cardinality({hint \in SpokenHints(words) : 1000 * hint.amount = kept[i].price})
  <2> DEFINE J == {j \in mended : kept[j].price = kept[i].price}
             H == {hint \in SpokenHints(words) : 1000 * hint.amount = kept[i].price}
             f == [j \in J |-> HintAt(words, owner[j])]
  <2>1. IsFiniteSet(H)
    <3>1. H \in SUBSET SpokenHints(words)
      OBVIOUS
    <3> HIDE DEF H
    <3> QED BY <3>1, HintsFinite, FS_Subset
  <2>2. ASSUME NEW j \in J
        PROVE  /\ j \in done.used /\ owner[j] \in 1 .. N
               /\ HintAt(words, owner[j]) \in H
               /\ HintAt(words, owner[j]).start = owner[j]
    <3>1. j \in mended /\ kept[j].price = kept[i].price
      BY <2>2
    <3>2. j \in DOMAIN given /\ done.items[j] # given[j]
      BY <1>12, <3>1
    <3>3. /\ j \in done.used /\ HintAt(words, owner[j]).amount > 0
          /\ done.items[j].price = 1000 * HintAt(words, owner[j]).amount
      BY <1>10, <3>2
    <3>4. owner[j] \in 1 .. N /\ DOMAIN words = 1 .. N
      BY <1>2, <3>3
    <3>5. HintAt(words, owner[j]) \in SpokenHints(words)
      BY <3>3, <3>4 DEF SpokenHints
    <3>6. 1000 * HintAt(words, owner[j]).amount = kept[i].price
      BY <1>11, <3>1, <3>2, <3>3
    <3>7. HintAt(words, owner[j]).start = owner[j]
      BY DEF HintAt
    <3> QED BY <3>3, <3>4, <3>5, <3>6, <3>7
  <2>3. f \in Injection(J, H)
    <3> HIDE DEF J, H
    <3>1. f \in [J -> H]
      BY <2>2
    <3>2. \A a, b \in J : f[a] = f[b] => a = b
      <4>1. ASSUME NEW a \in J, NEW b \in J, f[a] = f[b] PROVE a = b
        <5>1. HintAt(words, owner[a]).start = HintAt(words, owner[b]).start
          BY <4>1
        <5>2. owner[a] = owner[b] /\ a \in done.used /\ b \in done.used
          BY <2>2, <5>1
        <5> QED BY <1>2, <5>2
      <4> QED BY <4>1
    <3> HIDE DEF f
    <3> QED BY <3>1, <3>2 DEF Injection, IsInjective
  <2> HIDE DEF J, H, f
  <2>4. Cardinality(J) <= Cardinality(H)
    BY <2>1, <2>3, FS_Injection
  <2> QED BY <2>4 DEF J, H
<1>15. ASSUME NEW i \in DOMAIN given
       PROVE  /\ given[i].flagged => kept[i].flagged
              /\ kept[i] # given[i] => kept[i].flagged /\ kept[i].flag_reason # Null
  <2>1. /\ done.items[i].flagged => kept[i].flagged
        /\ done.items[i].flag_reason # Null => kept[i].flag_reason = done.items[i].flag_reason
        /\ kept[i] # done.items[i] => kept[i].flagged /\ kept[i].flag_reason # Null
    BY <1>4, <1>5 DEF KeepsTold
  <2>2. CASE done.items[i] = given[i]
    BY <2>1, <2>2
  <2>3. CASE done.items[i] # given[i]
    <3>1. done.items[i].flagged /\ done.items[i].flag_reason = SpokenMoneyCorrection
      BY <1>10, <2>3
    <3>2. SpokenMoneyCorrection # Null
      BY <1>7 DEF GuardReasons
    <3> QED BY <2>1, <3>1, <3>2
  <2> QED BY <2>2, <2>3
<1> QED BY <1>6, <1>13, <1>14, <1>15 DEF Visible

-------------------------------------------------------------------------------
(* DraftInv is an invariant *)

\* A row is not the absence of one.
LEMMA RowIsThere ==
  ASSUME NEW d, RowFits(d)
  PROVE  d # NoDoc
BY DEF RowFits, NoDoc

\* Pricing that the rules let pass is whole in the row it is stored in.
LEMMA PassedWhole ==
  ASSUME NEW asked, Asks(asked), NEW sum \in Amount, NEW p, p = Validated(asked, sum),
         p # Refused, NEW d, \A f \in PricingFields : d[f] = p[f]
  PROVE  Whole(d)
<1>1. /\ d.total_amount = p.total_amount /\ d.discount_type = p.discount_type
      /\ d.discount_value = p.discount_value /\ d.deposit_amount = p.deposit_amount
  BY DEF PricingFields
<1>2. /\ Asks(p)
      /\ (p.discount_type = Null) = (p.discount_value = Null)
      /\ p.discount_value # Null => p.discount_value > 0
      /\ p.discount_type = "percent" => p.discount_value <= 100
      /\ p.deposit_amount # Null =>
           /\ p.deposit_amount > 0 /\ p.total_amount # Null
           /\ p.deposit_amount <= p.total_amount
      /\ p.discount_type = "percent" /\ p.discount_value = 100 => p.total_amount = 0
  BY Passed
<1>3. p.deposit_amount \in Amount /\ p.total_amount \in Amount
  BY <1>2, AskedFields
<1>4. BackwardError(d) \in {1, 2}
  BY DEF BackwardError
<1>5. d.total_amount # Null /\ d.deposit_amount # Null
        => d.deposit_amount <= d.total_amount + BackwardError(d)
  BY <1>1, <1>2, <1>3, <1>4 DEF Amount
<1> QED BY <1>1, <1>2, <1>5 DEF Whole

\* A capture and its answers
LEMMA CaptureFits ==
  ASSUME NEW c \in Captures, NEW k \in {1, 2}, c.answers[k].valid
  PROVE  c.words \in Seq(STRING) /\ FitsSchema(Coerced(c.answers[k]))
BY DraftContentAssumption, Zenon

\* A result has line items and hints of the schema.
LEMMA ResultFits ==
  ASSUME DraftInv, stage = "extracted"
  PROVE  /\ result.line_items \in Seq(ExtractedItem)
         /\ \A f \in HintFields : result.hints[f] \in Columns(f)
<1>1. CASE result = RepairFailedResult
  <2>1. result.line_items = <<>> /\ \A f \in HintFields : result.hints[f] = Null
    BY <1>1 DEF RepairFailedResult
  <2>2. \A f : Null \in Columns(f)
    BY DEF Columns, Amount
  <2>3. <<>> \in Seq(ExtractedItem)
    OBVIOUS
  <2> QED BY <2>1, <2>2, <2>3
<1>2. CASE /\ capture.answers[tries].valid
           /\ result = Guarded(Candidate, capture.words, capture.long)
  <2>1. capture \in Captures /\ tries \in {1, 2}
    BY DEF DraftInv
  <2>2. capture.words \in Seq(STRING) /\ FitsSchema(Candidate)
    BY <1>2, <2>1, CaptureFits DEF Candidate
  <2>3. result.line_items = GuardedItems(Candidate.line_items, capture.words)
        /\ result.hints = Candidate.hints
    BY <1>2 DEF Guarded
  <2>4. Candidate.line_items \in Seq(ExtractedItem)
    BY <2>2 DEF FitsSchema
  <2>5. result.line_items \in Seq(ExtractedItem)
    <3> DEFINE given == Candidate.line_items
    <3> HIDE DEF given
    <3>1. GuardedItems(given, capture.words) \in Seq(ExtractedItem)
      BY <2>2, <2>4, GuardedKeeps DEF given
    <3> QED BY <2>3, <3>1 DEF given
  <2> QED BY <2>2, <2>3, <2>5 DEF FitsSchema
<1> QED BY <1>1, <1>2 DEF DraftInv, ResultTellsAnswer

\* The fields of the items of a result
LEMMA ExtractedFields ==
  ASSUME NEW items \in Seq(ExtractedItem)
  PROVE  /\ \A i \in DOMAIN items : /\ items[i].price \in Amount
                                    /\ items[i].flagged \in BOOLEAN
                                    /\ items[i].flag_reason \in Reasons
         /\ LineSum(items) \in Amount
<1>1. \A i \in DOMAIN items : items[i] \in ExtractedItem
  OBVIOUS
<1>2. \A i \in DOMAIN items : /\ items[i].price \in Amount
                              /\ items[i].flagged \in BOOLEAN
                              /\ items[i].flag_reason \in Reasons
  BY <1>1 DEF ExtractedItem
<1> QED BY <1>2, LineSumType

\* The hints of a result, one by one
LEMMA HintColumns ==
  ASSUME NEW r, \A f \in HintFields : r.hints[f] \in Columns(f)
  PROVE  /\ r.hints.explicit_total \in Amount /\ r.hints.tax_rate \in Amount
         /\ r.hints.deposit_amount \in Amount /\ r.hints.discount_value \in Amount
         /\ r.hints.discount_type \in DiscountTypes \cup {Null}
BY DEF HintFields, Columns

\* The pricing that a result gives a draft is pricing.
LEMMA InitialAsks ==
  ASSUME NEW r, r.line_items \in Seq(ExtractedItem),
         \A f \in HintFields : r.hints[f] \in Columns(f)
  PROVE  Asks(InitialPricing(r)) /\ LineSum(r.line_items) \in Amount
<1> DEFINE p == InitialPricing(r)
           total == InitialTotal(r).total
<1>1. LineSum(r.line_items) \in Amount
  BY ExtractedFields
<1>2. /\ r.hints.explicit_total \in Amount /\ r.hints.tax_rate \in Amount
      /\ r.hints.deposit_amount \in Amount /\ r.hints.discount_value \in Amount
      /\ r.hints.discount_type \in DiscountTypes \cup {Null}
  BY HintColumns
<1>3. total \in {LineSum(r.line_items), r.hints.explicit_total, Null}
  BY DEF InitialTotal
<1>4. total \in Amount
  BY <1>1, <1>2, <1>3 DEF Amount
<1>5. /\ DOMAIN p = PricingFields
      /\ p.total_amount = total
      /\ p.tax_rate \in {r.hints.tax_rate, Null}
      /\ p.deposit_amount \in {r.hints.deposit_amount, Null}
      /\ p.discount_type \in {r.hints.discount_type, Null}
      /\ p.discount_value \in {r.hints.discount_value, Null}
  BY DEF InitialPricing, PricingFields
<1> HIDE DEF p, total
<1>6. Asks(p)
  BY <1>2, <1>4, <1>5 DEF Asks, PricingFields, Columns, Amount
<1> QED BY <1>1, <1>6 DEF p

\* An edit that is recorded
LEMMA NoCallFits ==
  /\ CallFits(NoCall) /\ NoCall.op = "none"
  /\ \A call : CallFits(call) /\ call.op = "update" =>
       call # NoCall /\ call.patch \in Patches /\ RowFits(call.seen)
  /\ \A call : CallFits(call) /\ call.op = "review" =>
       /\ call # NoCall /\ ReviewFits(call.seen)
       /\ call.patch.dismiss \subseteq call.seen.hidden \cup {UnknownId}
       /\ call.patch.notes \in BOOLEAN /\ call.patch.pricing \in BOOLEAN
<1>1. CallFits(NoCall) /\ NoCall.op = "none"
  BY DEF CallFits, NoCall
<1>2. ASSUME NEW call, CallFits(call), call.op = "update"
      PROVE  call # NoCall /\ call.patch \in Patches /\ RowFits(call.seen)
  <2>1. call # NoCall /\ call.op # "review"
    BY <1>1, <1>2
  <2> QED BY <1>2, <2>1 DEF CallFits
<1>3. ASSUME NEW call, CallFits(call), call.op = "review"
      PROVE  /\ call # NoCall /\ ReviewFits(call.seen)
             /\ call.patch.dismiss \subseteq call.seen.hidden \cup {UnknownId}
             /\ call.patch.notes \in BOOLEAN /\ call.patch.pricing \in BOOLEAN
  <2>1. call # NoCall /\ call.op # "update"
    BY <1>1, <1>3
  <2> QED BY <1>3, <2>1 DEF CallFits
<1> QED BY <1>1, <1>2, <1>3

\* A sidecar that is patched is one.
LEMMA ReviewedFits ==
  ASSUME NEW seen, ReviewFits(seen), NEW patch, patch.dismiss \subseteq seen.hidden \cup {UnknownId},
         patch.notes \in BOOLEAN, patch.pricing \in BOOLEAN
  PROVE  ReviewFits(Reviewed(seen, patch))
<1> DEFINE r == Reviewed(seen, patch)
<1>1. DOMAIN seen = {"hidden", "dismissed", "notes_pending", "pricing_pending", "seeded", "degraded"}
  BY DEF ReviewFits, NoReview
<1>2. /\ DOMAIN r = DOMAIN seen
      /\ r.hidden = seen.hidden
      /\ r.dismissed = seen.dismissed \cup patch.dismiss
      /\ r.notes_pending = (seen.notes_pending /\ ~patch.notes)
      /\ r.pricing_pending = (seen.pricing_pending /\ ~patch.pricing)
  BY <1>1 DEF Reviewed
<1> HIDE DEF r
<1>3. r.notes_pending \in BOOLEAN /\ r.pricing_pending \in BOOLEAN
  BY <1>2
<1>4. ReviewFits(r)
  BY <1>2, <1>3 DEF ReviewFits
<1> QED BY <1>2, <1>4 DEF r

\* It holds at first.
LEMMA DraftInitially ==
  ASSUME DraftInit
  PROVE  DraftInv
<1>1. MaxEdits \in Nat
  BY DraftContentAssumption, Zenon
<1>2. stage \in Stages /\ stage # "made" /\ stage # "extracted"
      /\ (stage \in {"asked", "extracted"} => capture \in Captures)
  BY DEF DraftInit, Stages
<1>3. tries \in {1, 2} /\ edits \in 0 .. MaxEdits /\ stale \in BOOLEAN /\ doc = NoDoc
  <2>1. tries = 1 /\ edits = 0 /\ stale = FALSE /\ doc = NoDoc
    BY DEF DraftInit
  <2>2. 0 \in 0 .. MaxEdits
    BY <1>1
  <2> QED BY <2>1, <2>2
<1>4. ReviewFits(review)
  BY DEF DraftInit, ReviewFits, NoReview
<1>5. DOMAIN calls = Calls /\ \A c \in Calls : calls[c] = NoCall
  BY DEF DraftInit
<1> QED BY <1>2, <1>3, <1>4, <1>5, NoCallFits DEF DraftInv, ResultTellsAnswer

\* The actions that look at the answers keep it.
LEMMA AnswerStep ==
  ASSUME DraftInv, AnswerFits \/ AskRepair \/ RepairInvalid \/ RepairEscapes
  PROVE  DraftInv'
<1>1. stage = "asked" /\ UNCHANGED <<capture, doc, review, calls, edits, stale>>
  BY DEF AnswerFits, AskRepair, RepairInvalid, RepairEscapes, Extracted
<1>2. doc = NoDoc /\ \A c \in Calls : calls[c] = NoCall
  BY <1>1 DEF DraftInv
<1>3. stage' \in Stages /\ stage' # "made" /\ (stage' \in {"asked", "extracted"} => capture' \in Captures)
  BY <1>1 DEF AnswerFits, AskRepair, RepairInvalid, RepairEscapes, Extracted, DraftInv, Stages
<1>4. tries' \in {1, 2}
  BY DEF AnswerFits, AskRepair, RepairInvalid, RepairEscapes, Extracted, DraftInv
<1>5. ResultTellsAnswer'
  <2>1. CASE AnswerFits
    <3>1. /\ capture' = capture /\ tries' = tries
          /\ result' = Guarded(Candidate, capture.words, capture.long)
          /\ capture.answers[tries].valid
      BY <2>1 DEF AnswerFits, InvalidAnswer, Extracted
    <3>2. Candidate' = Candidate
      BY <3>1 DEF Candidate
    <3> QED BY <3>1, <3>2 DEF ResultTellsAnswer
  <2>2. CASE AskRepair
    BY <2>2 DEF AskRepair, ResultTellsAnswer
  <2>3. CASE RepairInvalid
    BY <2>3 DEF RepairInvalid, Extracted, ResultTellsAnswer
  <2>4. CASE RepairEscapes
    BY <2>4 DEF RepairEscapes, ResultTellsAnswer
  <2> QED BY <2>1, <2>2, <2>3, <2>4
<1>6. /\ edits' = edits /\ stale' = stale /\ doc' = doc /\ review' = review /\ calls' = calls
      /\ edits \in 0 .. MaxEdits /\ stale \in BOOLEAN /\ ReviewFits(review)
      /\ DOMAIN calls = Calls /\ \A c \in Calls : CallFits(calls[c])
  BY <1>1 DEF DraftInv
<1> QED BY <1>2, <1>3, <1>4, <1>5, <1>6 DEF DraftInv

\* What making a document needs of it: a row that fits and pricing that is whole
LEMMA MadeStep ==
  ASSUME DraftInv, stage # "made", stage' = "made", RowFits(doc'), Whole(doc'),
         ReviewFits(review'), tries' \in {1, 2}, UNCHANGED <<calls, edits, stale>>
  PROVE  DraftInv'
<1>1. doc' # NoDoc
  BY RowIsThere
<1>2. stage' \in Stages /\ stage' \notin {"asked", "extracted"}
  BY DEF Stages
<1>3. /\ edits' = edits /\ stale' = stale /\ calls' = calls
      /\ edits \in 0 .. MaxEdits /\ stale \in BOOLEAN
      /\ DOMAIN calls = Calls /\ \A c \in Calls : CallFits(calls[c])
  BY DEF DraftInv
<1> QED BY <1>1, <1>2, <1>3 DEF DraftInv, ResultTellsAnswer

\* The draft of an extraction keeps it, and its row holds what was extracted.
LEMMA ExtractedDraft ==
  ASSUME DraftInv, CreateExtractedDraft, stage' = "made",
         NEW p, p = Validated(InitialPricing(result), LineSum(result.line_items))
  PROVE  /\ p # Refused /\ RowFits(doc') /\ Whole(doc')
         /\ \A f \in PricingFields : doc'[f] = p[f]
         /\ DOMAIN doc'.line_items = DOMAIN result.line_items
         /\ review' = NewReview(result, p)
<1> DEFINE items == result.line_items
           asked == InitialPricing(result)
           sum == LineSum(result.line_items)
<1>1. stage = "extracted" /\ p # Refused
      /\ doc' = Made("quote", p, items) /\ review' = NewReview(result, p)
  BY DEF CreateExtractedDraft
<1>2. items \in Seq(ExtractedItem) /\ \A f \in HintFields : result.hints[f] \in Columns(f)
  BY <1>1, ResultFits
<1>3. \A i \in DOMAIN items : /\ items[i].price \in Amount
                              /\ items[i].flagged \in BOOLEAN
                              /\ items[i].flag_reason \in Reasons
  BY <1>2, ExtractedFields
<1>4. Asks(asked) /\ sum \in Amount
  BY <1>2, InitialAsks
<1> HIDE DEF items, asked, sum
<1>5. p = Validated(asked, sum)
  BY DEF asked, sum
<1>6. Asks(p) /\ (p.tax_rate = Null \/ p.tax_rate \in 1 .. TaxScale)
  BY <1>1, <1>4, <1>5, Passed
<1>7. /\ RowFits(doc')
      /\ \A f \in PricingFields : doc'[f] = p[f]
      /\ DOMAIN doc'.line_items = DOMAIN items
  BY <1>1, <1>2, <1>3, <1>6, MadeFits
<1>8. Whole(doc')
  BY <1>1, <1>4, <1>5, <1>7, PassedWhole
<1> QED BY <1>1, <1>7, <1>8 DEF items

\* Making the draft, or losing it, keeps it.
LEMMA ExtractedDraftStep ==
  ASSUME DraftInv, CreateExtractedDraft
  PROVE  DraftInv'
<1>1. CASE stage' = "made"
  <2> DEFINE p == Validated(InitialPricing(result), LineSum(result.line_items))
  <2>1. RowFits(doc') /\ Whole(doc') /\ review' = NewReview(result, p)
    <3> HIDE DEF p
    <3> QED BY <1>1, ExtractedDraft DEF p
  <2>2. ReviewFits(review')
    BY <2>1 DEF NewReview, ReviewFits, NoReview
  <2>3. stage # "made" /\ tries' \in {1, 2} /\ UNCHANGED <<calls, edits, stale>>
    BY DEF CreateExtractedDraft
  <2> QED BY <1>1, <2>1, <2>2, <2>3, MadeStep
<1>2. CASE stage' # "made"
  <2>1. /\ stage = "extracted" /\ stage' = "lost" /\ tries' = 1
        /\ UNCHANGED <<doc, review, calls, edits, stale>>
    BY <1>2 DEF CreateExtractedDraft
  <2>2. doc = NoDoc /\ \A c \in Calls : calls[c] = NoCall
    BY <2>1 DEF DraftInv
  <2>3. stage' \in Stages
    BY <2>1 DEF Stages
  <2>4. /\ edits' = edits /\ stale' = stale /\ doc' = doc /\ review' = review /\ calls' = calls
        /\ edits \in 0 .. MaxEdits /\ stale \in BOOLEAN /\ ReviewFits(review)
        /\ DOMAIN calls = Calls /\ \A c \in Calls : CallFits(calls[c])
    BY <2>1 DEF DraftInv
  <2> QED BY <2>1, <2>2, <2>3, <2>4 DEF DraftInv, ResultTellsAnswer
<1> QED BY <1>1, <1>2

\* The document of a request keeps it.
LEMMA RequestedStep ==
  ASSUME DraftInv, NEW kind \in {"quote", "invoice"}, NEW request \in Requests,
         CreateFromRequest(kind, request)
  PROVE  DraftInv'
<1> DEFINE items == request.line_items
           asked == PricingOf(request)
           sum == LineSum(request.line_items)
           p == Validated(asked, sum)
<1>1. items \in Seq(StoredItem) /\ \A f \in PricingFields : Key(request, f) \in Columns(f)
  BY DraftContentAssumption, Zenon
<1>2. Asks(asked)
  BY <1>1 DEF Asks, PricingOf
<1>3. \A i \in DOMAIN items : /\ items[i].price \in Amount
                              /\ items[i].flagged \in BOOLEAN
                              /\ items[i].flag_reason \in Reasons
  <2>1. \A i \in DOMAIN items : items[i] \in StoredItem
    BY <1>1
  <2> QED BY <2>1 DEF StoredItem
<1>4. sum \in Amount
  BY <1>1, StoredPrices
<1>5. /\ stage = "requested" /\ stage' = "made" /\ p # Refused
      /\ doc' = Made(kind, p, items)
      /\ UNCHANGED <<tries, review, calls, edits, stale>>
  BY DEF CreateFromRequest
<1> HIDE DEF items, asked, sum
<1>6. Asks(p) /\ (p.tax_rate = Null \/ p.tax_rate \in 1 .. TaxScale)
  BY <1>2, <1>4, <1>5, Passed
<1> DEFINE q == p
<1>7. q = Validated(asked, sum)
  OBVIOUS
<1> HIDE DEF p, q
<1>8. RowFits(doc') /\ \A f \in PricingFields : doc'[f] = p[f]
  BY <1>1, <1>3, <1>5, <1>6, MadeFits
<1>9. Whole(doc')
  BY <1>2, <1>4, <1>5, <1>8, PassedWhole DEF p
<1>10. ReviewFits(review') /\ tries' \in {1, 2}
  BY <1>5 DEF DraftInv
<1> QED BY <1>5, <1>8, <1>9, <1>10, MadeStep

\* What a step of one call needs to keep it
LEMMA EditStep ==
  ASSUME DraftInv, NEW c \in Calls, NEW call, CallFits(call), stage = "made",
         calls' = [calls EXCEPT ![c] = call], UNCHANGED <<stage, tries>>,
         edits' \in 0 .. MaxEdits, stale' \in BOOLEAN, ReviewFits(review'),
         RowFits(doc'), stale' \/ Whole(doc')
  PROVE  DraftInv'
<1>1. stage' \in Stages /\ stage' = "made" /\ stage' \notin {"asked", "extracted"} /\ tries' \in {1, 2}
  BY DEF DraftInv
<1>2. doc' # NoDoc
  BY RowIsThere
<1>3. DOMAIN calls' = Calls
  BY DEF DraftInv
<1>4. ASSUME NEW x \in Calls
      PROVE  CallFits(calls'[x])
  <2>1. calls'[x] = IF x = c THEN call ELSE calls[x]
    BY DEF DraftInv
  <2>2. CallFits(calls[x])
    BY DEF DraftInv
  <2> QED BY <2>1, <2>2
<1>5. ResultTellsAnswer'
  BY <1>1 DEF ResultTellsAnswer
<1> QED BY <1>1, <1>2, <1>3, <1>4, <1>5 DEF DraftInv

\* Nothing is edited before there is a document.
LEMMA CalledWhenMade ==
  ASSUME DraftInv, NEW c \in Calls, calls[c] # NoCall
  PROVE  stage = "made" /\ doc # NoDoc /\ RowFits(doc) /\ CallFits(calls[c])
BY DEF DraftInv

\* The edits keep it.
LEMMA LoadForUpdateStep ==
  ASSUME DraftInv, NEW c \in Calls, NEW patch \in Patches, LoadForUpdate(c, patch)
  PROVE  DraftInv'
<1> DEFINE call == [op |-> "update", patch |-> patch, seen |-> doc]
<1>1. /\ stage = "made" /\ edits < MaxEdits /\ edits' = edits + 1
      /\ calls' = [calls EXCEPT ![c] = call]
      /\ UNCHANGED <<stage, tries, doc, review, stale>>
  BY DEF LoadForUpdate, Editable
<1>2. RowFits(doc) /\ (stale \/ Whole(doc))
  BY <1>1 DEF DraftInv
<1>3. CallFits(call)
  BY <1>2 DEF CallFits
<1>4. edits' \in 0 .. MaxEdits
  <2>1. MaxEdits \in Nat /\ edits \in 0 .. MaxEdits
    BY DraftContentAssumption, Zenon DEF DraftInv
  <2> QED BY <1>1, <2>1
<1>5. RowFits(doc') /\ (stale' \/ Whole(doc'))
  <2>1. doc' = doc /\ stale' = stale
    BY <1>1
  <2> QED BY <1>2, <2>1
<1>6. ReviewFits(review') /\ stale' \in BOOLEAN
  BY <1>1 DEF DraftInv
<1> HIDE DEF call
<1> QED BY <1>1, <1>3, <1>4, <1>5, <1>6, EditStep

\* An edit writes a row that fits.
LEMMA CommitUpdateStep ==
  ASSUME DraftInv, NEW c \in Calls, CommitUpdate(c)
  PROVE  DraftInv' /\ NextPricing(calls[c]) # Refused /\ doc' = Updated(doc, calls[c])
<1> DEFINE call == calls[c]
<1>1. /\ call.op = "update" /\ NextPricing(call) # Refused
      /\ calls' = [calls EXCEPT ![c] = NoCall]
      /\ stale' = (stale \/ call.seen # doc)
      /\ UNCHANGED <<stage, tries, review, edits>>
  BY DEF CommitUpdate
<1>2. doc' = Updated(doc, call)
  BY DEF CommitUpdate, Updated, Written
<1>3. CallFits(call)
  BY DEF DraftInv
<1>4. call # NoCall /\ call.patch \in Patches /\ RowFits(call.seen)
  BY <1>1, <1>3, NoCallFits
<1>5. stage = "made" /\ doc # NoDoc /\ RowFits(doc)
  BY <1>4, CalledWhenMade
<1> HIDE DEF call
<1>6. RowFits(Updated(doc, call))
  BY <1>1, <1>4, <1>5, UpdatedFits
<1>7. ASSUME ~stale'
      PROVE  Whole(Updated(doc, call))
  <2>1. ~stale /\ call.seen = doc
    BY <1>1, <1>7 DEF DraftInv
  <2>2. Whole(doc)
    BY <1>5, <2>1 DEF DraftInv
  <2> QED BY <1>1, <1>4, <1>5, <2>1, <2>2, UpdatedWhole
<1>8. RowFits(doc') /\ (stale' \/ Whole(doc'))
  BY <1>2, <1>6, <1>7
<1>9. /\ ReviewFits(review') /\ stale' \in BOOLEAN /\ edits' \in 0 .. MaxEdits
      /\ CallFits(NoCall)
  BY <1>1, NoCallFits DEF DraftInv
<1>10. DraftInv'
  BY <1>1, <1>5, <1>8, <1>9, EditStep
<1> QED BY <1>1, <1>2, <1>10 DEF call

\* A refused edit writes nothing.
LEMMA RefuseUpdateStep ==
  ASSUME DraftInv, NEW c \in Calls, RefuseUpdate(c)
  PROVE  DraftInv'
<1>1. /\ calls[c].op = "update"
      /\ calls' = [calls EXCEPT ![c] = NoCall]
      /\ UNCHANGED <<stage, tries, doc, review, edits, stale>>
  BY DEF RefuseUpdate
<1>2. calls[c] # NoCall
  BY <1>1, NoCallFits
<1>3. stage = "made" /\ doc # NoDoc /\ RowFits(doc)
  BY <1>2, CalledWhenMade
<1>4. stale \/ Whole(doc)
  BY <1>3 DEF DraftInv
<1>5. RowFits(doc') /\ (stale' \/ Whole(doc'))
  <2>1. doc' = doc /\ stale' = stale
    BY <1>1
  <2> QED BY <1>3, <1>4, <2>1
<1>6. /\ ReviewFits(review') /\ stale' \in BOOLEAN /\ edits' \in 0 .. MaxEdits
      /\ CallFits(NoCall)
  BY <1>1, NoCallFits DEF DraftInv
<1> QED BY <1>1, <1>3, <1>5, <1>6, EditStep

\* A review loads a sidecar that fits.
LEMMA LoadForReviewStep ==
  ASSUME DraftInv, NEW c \in Calls, LoadForReview(c)
  PROVE  DraftInv'
<1>1. PICK patch \in ReviewPatches :
        calls' = [calls EXCEPT ![c] = [op |-> "review", patch |-> patch, seen |-> review]]
  BY DEF LoadForReview
<1> DEFINE call == [op |-> "review", patch |-> patch, seen |-> review]
<1>2. /\ stage = "made" /\ edits < MaxEdits /\ edits' = edits + 1
      /\ calls' = [calls EXCEPT ![c] = call]
      /\ UNCHANGED <<stage, tries, doc, review, stale>>
  BY <1>1 DEF LoadForReview, Editable
<1>3. RowFits(doc) /\ (stale \/ Whole(doc)) /\ ReviewFits(review)
  BY <1>2 DEF DraftInv
<1>4. /\ patch.dismiss \subseteq review.hidden \cup {UnknownId}
      /\ patch.notes \in BOOLEAN /\ patch.pricing \in BOOLEAN
  <2>1. /\ patch.dismiss \in {{}} \cup {{id} : id \in review.hidden \cup {UnknownId}}
        /\ patch.notes \in BOOLEAN /\ patch.pricing \in BOOLEAN
    BY DEF ReviewPatches
  <2>2. patch.dismiss \subseteq review.hidden \cup {UnknownId}
    BY <2>1
  <2> QED BY <2>1, <2>2
<1>5. CallFits(call)
  BY <1>3, <1>4 DEF CallFits
<1>6. edits' \in 0 .. MaxEdits
  <2>1. MaxEdits \in Nat /\ edits \in 0 .. MaxEdits
    BY DraftContentAssumption, Zenon DEF DraftInv
  <2> QED BY <1>2, <2>1
<1>7. RowFits(doc') /\ (stale' \/ Whole(doc'))
  <2>1. doc' = doc /\ stale' = stale
    BY <1>2
  <2> QED BY <1>3, <2>1
<1>8. ReviewFits(review') /\ stale' \in BOOLEAN
  <2>1. review' = review /\ stale' = stale /\ stale \in BOOLEAN
    BY <1>2 DEF DraftInv
  <2> QED BY <1>3, <2>1
<1> HIDE DEF call
<1> QED BY <1>2, <1>5, <1>6, <1>7, <1>8, EditStep

\* A review writes a sidecar that fits.
LEMMA CommitReviewStep ==
  ASSUME DraftInv, NEW c \in Calls, CommitReview(c)
  PROVE  DraftInv'
<1>1. /\ calls[c].op = "review"
      /\ review' = Reviewed(calls[c].seen, calls[c].patch)
      /\ calls' = [calls EXCEPT ![c] = NoCall]
      /\ stale' = (stale \/ calls[c].seen # review)
      /\ UNCHANGED <<stage, tries, doc, edits>>
  BY DEF CommitReview
<1>2. CallFits(calls[c])
  BY DEF DraftInv
<1>3. /\ calls[c] # NoCall /\ ReviewFits(calls[c].seen)
      /\ calls[c].patch.dismiss \subseteq calls[c].seen.hidden \cup {UnknownId}
      /\ calls[c].patch.notes \in BOOLEAN /\ calls[c].patch.pricing \in BOOLEAN
  BY <1>1, <1>2, NoCallFits
<1>4. stage = "made" /\ doc # NoDoc /\ RowFits(doc)
  BY <1>3, CalledWhenMade
<1>5. ReviewFits(review')
  BY <1>1, <1>3, ReviewedFits
<1>6. stale' \in BOOLEAN /\ (~stale' => ~stale)
  BY <1>1 DEF DraftInv
<1>7. stale \/ Whole(doc)
  BY <1>4 DEF DraftInv
<1>8. RowFits(doc') /\ (stale' \/ Whole(doc'))
  <2>1. doc' = doc
    BY <1>1
  <2> QED BY <1>4, <1>6, <1>7, <2>1
<1>9. edits' \in 0 .. MaxEdits /\ CallFits(NoCall)
  BY <1>1, NoCallFits DEF DraftInv
<1> QED BY <1>1, <1>4, <1>5, <1>6, <1>8, <1>9, EditStep

\* A copy keeps the money of its document and has no flags.
LEMMA DuplicateStep ==
  ASSUME DraftInv, DuplicateQuote
  PROVE  DraftInv'
<1> DEFINE items == doc.line_items
           plain == [i \in DOMAIN items |-> [items[i] EXCEPT !.flagged = FALSE, !.flag_reason = Null]]
<1>1. /\ stage = "made" /\ edits < MaxEdits /\ edits' = edits + 1
      /\ doc' = [doc EXCEPT !.line_items = plain]
      /\ review' = NoReview
      /\ \A c \in Calls : calls[c] = NoCall
      /\ UNCHANGED <<stage, tries, calls, stale>>
  BY DEF DuplicateQuote, Editable
<1>2. RowFits(doc) /\ (stale \/ Whole(doc))
  BY <1>1 DEF DraftInv
<1>3. /\ items \in Seq(StoredItem)
      /\ \A i \in DOMAIN items : items[i].price = Null \/ items[i].price % 10 = 0
  BY <1>2 DEF RowFits
<1>4. ASSUME NEW i \in DOMAIN items
      PROVE  plain[i] \in StoredItem /\ plain[i].price = items[i].price
  <2>1. items[i] \in StoredItem
    BY <1>3
  <2> DEFINE one == [items[i] EXCEPT !.flagged = FALSE, !.flag_reason = Null]
  <2>2. Null \in Reasons /\ FALSE \in BOOLEAN
    BY DEF Reasons
  <2>3. one \in StoredItem /\ one.price = items[i].price
    BY <2>1, <2>2 DEF StoredItem
  <2>4. plain[i] = one
    OBVIOUS
  <2> QED BY <2>3, <2>4
<1>5. plain \in Seq(StoredItem) /\ DOMAIN plain = DOMAIN items
  <2>1. DOMAIN items = 1 .. Len(items) /\ Len(items) \in Nat
    BY <1>3
  <2>2. DOMAIN plain = DOMAIN items
    OBVIOUS
  <2>3. plain \in [1 .. Len(items) -> StoredItem]
    BY <1>4, <2>1
  <2> HIDE DEF plain, items
  <2>4. plain \in Seq(StoredItem)
    BY <2>1, <2>3
  <2> QED BY <2>2, <2>4
<1> HIDE DEF plain, items
<1>6. DOMAIN doc = PricingFields \cup {"kind", "line_items"} /\ "line_items" \notin PricingFields
      /\ "kind" \notin PricingFields
  BY <1>2 DEF RowFits, PricingFields
<1>7. /\ DOMAIN doc' = DOMAIN doc
      /\ doc'.line_items = plain /\ doc'.kind = doc.kind
      /\ \A f \in PricingFields : doc'[f] = doc[f]
  BY <1>1, <1>6
<1>8. /\ doc'.tax_rate = doc.tax_rate /\ doc'.total_amount = doc.total_amount
      /\ doc'.discount_type = doc.discount_type /\ doc'.discount_value = doc.discount_value
      /\ doc'.deposit_amount = doc.deposit_amount
  BY <1>7 DEF PricingFields
<1>9. \A i \in DOMAIN plain : plain[i].price = Null \/ plain[i].price % 10 = 0
  BY <1>3, <1>4, <1>5 
<1>10. RowFits(doc')
  <2>1. \A f \in PricingFields : doc'[f] \in Columns(f)
    BY <1>2, <1>7 DEF RowFits
  <2>2. doc'.kind \in {"quote", "invoice"} /\ (doc'.tax_rate = Null \/ doc'.tax_rate \in 1 .. TaxScale)
    BY <1>2, <1>7, <1>8 DEF RowFits
  <2> QED BY <1>5, <1>6, <1>7, <1>9, <2>1, <2>2 DEF RowFits
<1>11. Whole(doc) => Whole(doc')
  <2>1. BackwardError(doc') = BackwardError(doc)
    BY <1>8 DEF BackwardError
  <2> QED BY <1>8, <2>1 DEF Whole
<1>12. edits' \in 0 .. MaxEdits
  <2>1. MaxEdits \in Nat /\ edits \in 0 .. MaxEdits
    BY DraftContentAssumption, Zenon DEF DraftInv
  <2> QED BY <1>1, <2>1
<1>13. doc' # NoDoc
  BY <1>10, RowIsThere
<1>14. stage' = "made" /\ stage' \in Stages /\ tries' \in {1, 2} /\ stale' = stale /\ stale' \in BOOLEAN
       /\ calls' = calls /\ DOMAIN calls = Calls /\ \A c \in Calls : CallFits(calls[c])
  BY <1>1 DEF DraftInv
<1>15. ReviewFits(review')
  BY <1>1 DEF ReviewFits, NoReview
<1>16. ~stale' => Whole(doc')
  BY <1>2, <1>11, <1>14
<1> QED BY <1>10, <1>12, <1>13, <1>14, <1>15, <1>16 DEF DraftInv, ResultTellsAnswer

\* A step that changes nothing
LEMMA DraftStutter ==
  ASSUME DraftInv, UNCHANGED draftVars
  PROVE  DraftInv'
<1>1. /\ stage' = stage /\ capture' = capture /\ tries' = tries /\ result' = result
      /\ doc' = doc /\ review' = review /\ calls' = calls /\ edits' = edits /\ stale' = stale
  BY DEF draftVars
<1>2. ResultTellsAnswer'
  BY <1>1 DEF DraftInv, ResultTellsAnswer, Candidate
<1>3. CallFits(NoCall)
  BY NoCallFits
<1> QED BY <1>1, <1>2 DEF DraftInv

\* Every step keeps the invariant.
LEMMA DraftSteps ==
  ASSUME DraftInv, [DraftNext]_draftVars
  PROVE  DraftInv'
<1>1. CASE AnswerFits \/ AskRepair \/ RepairInvalid \/ RepairEscapes
  BY <1>1, AnswerStep
<1>2. CASE CreateExtractedDraft
  BY <1>2, ExtractedDraftStep
<1>3. CASE \E kind \in {"quote", "invoice"}, request \in Requests : CreateFromRequest(kind, request)
  BY <1>3, RequestedStep
<1>4. CASE DuplicateQuote
  BY <1>4, DuplicateStep
<1>5. ASSUME NEW c \in Calls,
             \/ \E patch \in Patches : LoadForUpdate(c, patch)
             \/ CommitUpdate(c) \/ RefuseUpdate(c) \/ LoadForReview(c) \/ CommitReview(c)
      PROVE  DraftInv'
  BY <1>5, LoadForUpdateStep, CommitUpdateStep, RefuseUpdateStep, LoadForReviewStep,
     CommitReviewStep
<1>6. CASE UNCHANGED draftVars
  BY <1>6, DraftStutter
<1> QED BY <1>1, <1>2, <1>3, <1>4, <1>5, <1>6 DEF DraftNext

\* DraftInv is an invariant of every history of captures, requests and edits.
THEOREM DraftInvHolds == DraftSpec => []DraftInv
<1>1. DraftInit => DraftInv
  BY DraftInitially
<1>2. DraftInv /\ [DraftNext]_draftVars => DraftInv'
  BY DraftSteps
<1> QED BY <1>1, <1>2, PTL DEF DraftSpec

-------------------------------------------------------------------------------
(* What a reader should know *)

\* The columns of a document fit each other after any sequence of partial edits by
\* any number of callers, whatever the amounts and whatever the requests.
THEOREM ColumnsAlwaysFit == DraftSpec => []ColumnsFit
<1>1. DraftInv => ColumnsFit
  <2> SUFFICES ASSUME DraftInv PROVE ColumnsFit
    OBVIOUS
  <2>1. ASSUME doc # NoDoc, NEW i \in DOMAIN doc.line_items
        PROVE  /\ doc.line_items[i].price = Null \/ doc.line_items[i].price % 10 = 0
               /\ doc.line_items[i].flagged \in BOOLEAN
    <3>1. RowFits(doc)
      BY <2>1 DEF DraftInv
    <3>2. doc.line_items[i] \in StoredItem
      BY <2>1, <3>1 DEF RowFits
    <3> QED BY <2>1, <3>1, <3>2 DEF RowFits, StoredItem
  <2>2. doc # NoDoc => \A f \in PricingFields : doc[f] \in Columns(f)
    BY DEF DraftInv, RowFits
  <2>3. review.dismissed \subseteq review.hidden \cup {UnknownId}
    BY DEF DraftInv, ReviewFits
  <2>4. DraftTypeOK
    BY <2>1, <2>2, <2>3 DEF DraftTypeOK, DraftInv
  <2>5. DiscountStaysWhole
    BY DEF DiscountStaysWhole, DraftInv, Whole
  <2>6. RowsAddUp
    <3> SUFFICES ASSUME doc # NoDoc, ~stale, doc.total_amount # Null
                 PROVE  LET rows == Breakdown(PricingOf(doc), LineSum(doc.line_items))
                        IN  /\ AbsOf(rows.subtotal - rows.discount + rows.tax - rows.total)
                                 <= BackwardError(doc)
                            /\ doc.deposit_amount # Null => rows.balance >= -BackwardError(doc)
      BY DEF RowsAddUp
    <3>1. RowFits(doc) /\ Whole(doc)
      BY DEF DraftInv
    <3> QED BY <3>1, RowsOf
  <2> QED BY <2>4, <2>5, <2>6 DEF ColumnsFit
<1> QED BY <1>1, DraftInvHolds, PTL

\* The semantic guard moves a price only by the factor a misread amount is off, no
\* oftener than the amount was spoken, and flags whatever it touches: for every
\* transcript and every answer.
THEOREM GuardFlagsWhatItMends == DraftSpec => []CorrectionsAreVisible
<1>1. DraftInv => CorrectionsAreVisible
  <2> SUFFICES ASSUME DraftInv, stage = "extracted", result # RepairFailedResult
               PROVE  CorrectionsAreVisible
    BY DEF CorrectionsAreVisible
  <2> DEFINE given == Candidate.line_items
             kept == result.line_items
             words == capture.words
  <2>1. /\ capture.answers[tries].valid
        /\ result = Guarded(Candidate, capture.words, capture.long)
        /\ capture \in Captures /\ tries \in {1, 2}
    BY DEF DraftInv, ResultTellsAnswer
  <2>2. words \in Seq(STRING) /\ FitsSchema(Candidate)
    BY <2>1, CaptureFits DEF Candidate
  <2>3. given \in Seq(ExtractedItem)
    BY <2>2 DEF FitsSchema
  <2>4. kept = GuardedItems(given, words)
    BY <2>1 DEF Guarded
  <2> HIDE DEF given, kept, words
  <2>5. Visible(given, kept, words)
    BY <2>2, <2>3, <2>4, GuardIsVisible
  <2> QED BY <2>5, Zenon DEF Visible, CorrectionsAreVisible, given, kept, words
<1> QED BY <1>1, DraftInvHolds, PTL

\* A sequence without positions is empty.
LEMMA NoPositions ==
  ASSUME NEW S, NEW s \in Seq(S), DOMAIN s = {}
  PROVE  s = <<>>
OBVIOUS

\* Without a tax rate there is no tax.
LEMMA NoTax ==
  ASSUME NEW p, p.tax_rate = Null, NEW t \in Int
  PROVE  Tax(p, t) = 0
<1>1. t * OrZero(p.tax_rate) = 0
  BY DEF OrZero
<1>2. TaxScale \in Nat /\ TaxScale # 0 /\ 0 = TaxScale * 0
  BY TaxScaleAssumption
<1>3. HalfUp(0, TaxScale) = 0
  BY <1>2, RoundingExact
<1> QED BY <1>1, <1>3 DEF Tax

\* The spoken total of a result, in its draft
LEMMA SpokenTotalKept ==
  ASSUME NEW r, r.line_items \in Seq(ExtractedItem),
         \A f \in HintFields : r.hints[f] \in Columns(f), r.hints.explicit_total # Null,
         NEW p, p = Validated(InitialPricing(r), LineSum(r.line_items)), p # Refused
  PROVE  \/ /\ p.total_amount = r.hints.explicit_total
            /\ "explicit_total" \in NewReview(r, p).seeded
         \/ /\ LineSum(r.line_items) # Null
            /\ AbsOf(r.hints.explicit_total - LineSum(r.line_items)) <= 1
         \/ \E h \in NewReview(r, p).hidden : h.text \in {TotalConflicts, TotalNeedsReview}
<1> DEFINE sum == LineSum(r.line_items)
           spoken == r.hints.explicit_total
           first == InitialTotal(r)
           asked == InitialPricing(r)
           discounted == r.hints.discount_type # Null /\ r.hints.discount_value # Null
           adjusted == r.hints.tax_rate # Null \/ discounted
<1>1. Asks(asked) /\ sum \in Amount
  BY InitialAsks
<1>2. spoken \in Amount /\ spoken \in Int
  BY HintColumns DEF Amount
<1>3. ASSUME NEW t, t \in first.hide, t \in {TotalConflicts, TotalNeedsReview}
      PROVE  \E h \in NewReview(r, p).hidden : h.text \in {TotalConflicts, TotalNeedsReview}
  <2>1. [text |-> t, source |-> "transcript_conflict"] \in NewReview(r, p).hidden
    BY <1>3 DEF NewReview
  <2> QED BY <1>3, <2>1
<1>4. CASE sum # Null
  <2>1. first.hide = IF Differs(spoken, sum) THEN {TotalConflicts} ELSE {}
    BY <1>4 DEF InitialTotal
  <2>2. CASE Differs(spoken, sum)
    <3>1. TotalConflicts \in first.hide
      BY <2>1, <2>2
    <3> HIDE DEF first
    <3> QED BY <1>3, <3>1
  <2>3. CASE ~Differs(spoken, sum)
    <3>1. sum \in Int
      BY <1>1, <1>4 DEF Amount
    <3>2. AbsOf(spoken - sum) \in Int /\ ~(AbsOf(spoken - sum) > 1)
      BY <1>2, <1>4, <2>3, <3>1 DEF Differs, AbsOf
    <3> QED BY <1>4, <3>2
  <2> QED BY <2>2, <2>3
<1>5. CASE sum = Null /\ ~adjusted
  <2>1. first = [total |-> spoken, seeded |-> TRUE, hide |-> {}]
    BY <1>5 DEF InitialTotal
  <2>2. /\ asked.total_amount = spoken /\ asked.tax_rate = Null
        /\ asked.discount_type = Null /\ asked.discount_value = Null
    <3>1. asked.total_amount = first.total
      BY DEF InitialPricing
    <3>2. asked.discount_type = Null /\ asked.discount_value = Null
      BY <1>5 DEF InitialPricing
    <3>3. asked.tax_rate = Null
      BY <1>5 DEF InitialPricing
    <3> HIDE DEF first, asked
    <3> QED BY <2>1, <3>1, <3>2, <3>3
  <2> HIDE DEF asked, sum
  <2>3. /\ \A f \in {"discount_value", "tax_rate", "deposit_amount"} :
             p[f] = ZeroIsNull(asked[f])
        /\ p.discount_type = IF p.discount_value = Null THEN Null ELSE asked.discount_type
        /\ p.total_amount = Total(p, IF asked.total_amount = Null
                                       THEN sum ELSE asked.total_amount)
    <3>1. p = Validated(asked, sum)
      BY DEF asked, sum
    <3> QED BY <1>1, <3>1, Passed
  <2>4. ZeroIsNull(Null) = Null
    BY DEF ZeroIsNull
  <2>5. p.tax_rate = Null /\ p.discount_type = Null
    BY <2>2, <2>3, <2>4
  <2>6. p.total_amount = Total(p, spoken)
    BY <2>2, <2>3
  <2>7. Discount(p, spoken) = 0
    BY <2>5, NullIsNoValue DEF Discount, DiscountTypes
  <2>8. Tax(p, spoken - 0) = 0
    BY <1>2, <2>5, NoTax
  <2> HIDE DEF spoken
  <2>9. Total(p, spoken) = spoken
    BY <1>2, <2>7, <2>8, NullIsNoValue DEF Total
  <2>10. "explicit_total" \in NewReview(r, p).seeded
    <3>1. p.total_amount # Null /\ first.seeded
      BY <1>2, <2>1, <2>6, <2>9, NullIsNoValue
    <3> HIDE DEF first
    <3>2. "explicit_total" \in SeededFields(r, p)
      BY <3>1 DEF SeededFields, first
    <3> QED BY <3>2 DEF NewReview
  <2> QED BY <2>6, <2>9, <2>10 DEF spoken
<1>6. CASE sum = Null /\ adjusted
  <2>1. first.hide = {TotalNeedsReview}
    BY <1>6 DEF InitialTotal
  <2>2. TotalNeedsReview \in first.hide
    BY <2>1
  <2> HIDE DEF first
  <2> QED BY <1>3, <2>2
<1> QED BY <1>4, <1>5, <1>6

\* What a draft has beside its total was captured, and is marked for review.
LEMMA PricingWasCaptured ==
  ASSUME NEW r, r.line_items \in Seq(ExtractedItem),
         \A f \in HintFields : r.hints[f] \in Columns(f),
         NEW p, p = Validated(InitialPricing(r), LineSum(r.line_items)), p # Refused,
         NEW f \in PricingFields \ {"total_amount"}, p[f] # Null
  PROVE  /\ p[f] = r.hints[f]
         /\ {f, "discount"} \cap NewReview(r, p).seeded # {}
         /\ NewReview(r, p).pricing_pending
<1> DEFINE asked == InitialPricing(r)
           seeded == SeededFields(r, p)
           sum == LineSum(r.line_items)
<1>1. Asks(asked) /\ sum \in Amount
  BY InitialAsks
<1>2. /\ \A x \in {"discount_value", "tax_rate", "deposit_amount"} : p[x] = ZeroIsNull(asked[x])
      /\ p.discount_type = IF p.discount_value = Null THEN Null ELSE asked.discount_type
      /\ (p.discount_type = Null) = (p.discount_value = Null)
  <2> HIDE DEF asked, sum
  <2>1. p = Validated(asked, sum)
    BY DEF asked, sum
  <2> QED BY <1>1, <2>1, Passed
<1>3. /\ asked.tax_rate \in {r.hints.tax_rate, Null}
      /\ asked.deposit_amount \in {r.hints.deposit_amount, Null}
      /\ asked.discount_type # Null \/ asked.discount_value # Null
           => /\ r.hints.discount_type # Null /\ r.hints.discount_value # Null
              /\ asked.discount_type = r.hints.discount_type
              /\ asked.discount_value = r.hints.discount_value
  BY DEF InitialPricing
<1>4. \A v : ZeroIsNull(v) # Null => v # Null /\ ZeroIsNull(v) = v
  BY DEF ZeroIsNull
<1> HIDE DEF asked
<1>5. ASSUME NEW x \in {"tax_rate", "deposit_amount"}, p[x] # Null
      PROVE  p[x] = r.hints[x] /\ x \in seeded
  <2>1. asked[x] # Null /\ p[x] = asked[x]
    BY <1>2, <1>4, <1>5
  <2>2. asked[x] = r.hints[x]
    BY <1>3, <2>1
  <2>3. r.hints[x] # Null
    BY <2>1, <2>2
  <2>4. x \in seeded
    BY <1>5, <2>3 DEF SeededFields
  <2> QED BY <2>1, <2>2, <2>4
<1>6. ASSUME p.discount_type # Null
      PROVE  /\ p.discount_type = r.hints.discount_type /\ p.discount_value = r.hints.discount_value
             /\ "discount" \in seeded
  <2>1. p.discount_value # Null /\ p.discount_type = asked.discount_type
    BY <1>2, <1>6
  <2>2. asked.discount_value # Null /\ p.discount_value = asked.discount_value
    BY <1>2, <1>4, <2>1
  <2>3. "discount" \in seeded
    BY <1>3, <1>6, <2>2 DEF SeededFields
  <2> QED BY <1>3, <2>1, <2>2, <2>3
<1>7. f \in {"tax_rate", "deposit_amount", "discount_type", "discount_value"}
  BY DEF PricingFields
<1>8. p[f] = r.hints[f] /\ {f, "discount"} \cap seeded # {}
  <2>1. CASE f \in {"tax_rate", "deposit_amount"}
    BY <1>5, <2>1
  <2>2. CASE f \in {"discount_type", "discount_value"}
    <3>1. p.discount_type # Null
      BY <1>2, <2>2
    <3> QED BY <1>6, <2>2, <3>1
  <2> QED BY <1>7, <2>1, <2>2
<1>9. NewReview(r, p).seeded = seeded /\ NewReview(r, p).pricing_pending = (seeded # {})
  BY DEF NewReview
<1> QED BY <1>8, <1>9

\* A draft without line items from a long capture says why.
LEMMA EmptyIsExplained ==
  ASSUME DraftInv, stage = "extracted", result.line_items = <<>>, capture.long
  PROVE  result.degraded # Null
<1>1. \A x \in Degradations : x # Null
  BY NullIsNoValue
<1>2. CASE result = RepairFailedResult
  BY <1>1, <1>2 DEF RepairFailedResult, Degradations
<1>3. CASE /\ capture.answers[tries].valid
           /\ result = Guarded(Candidate, capture.words, capture.long)
  <2>1. capture \in Captures /\ tries \in {1, 2}
    BY DEF DraftInv
  <2>2. capture.words \in Seq(STRING) /\ FitsSchema(Candidate)
    BY <1>3, <2>1, CaptureFits DEF Candidate
  <2> DEFINE given == Candidate.line_items
             kept == GuardedItems(given, capture.words)
  <2>3. given \in Seq(ExtractedItem)
    BY <2>2 DEF FitsSchema
  <2>4. result.line_items = kept
        /\ result.degraded = IF given = <<>> /\ capture.long
                               THEN "semantic_empty_line_items" ELSE Null
    BY <1>3 DEF Guarded
  <2> HIDE DEF given
  <2>5. Visible(given, kept, capture.words)
    <3> HIDE DEF kept
    <3>1. kept = GuardedItems(given, capture.words)
      BY DEF kept
    <3> QED BY <2>2, <2>3, <3>1, GuardIsVisible
  <2>6. DOMAIN kept = DOMAIN given
    BY <2>5, Zenon DEF Visible
  <2> HIDE DEF kept
  <2>7. DOMAIN given = {}
    BY <2>4, <2>6
  <2>8. given = <<>>
    BY <2>3, <2>7, NoPositions
  <2> QED BY <1>1, <2>4, <2>8 DEF Degradations
<1> QED BY <1>2, <1>3 DEF DraftInv, ResultTellsAnswer

\* The money of a draft is the money of its capture, for every capture and every
\* pair of answers: a spoken total is used, agrees or is kept for review, and
\* nothing is there that was not captured.
THEOREM DraftsTellTheirCaptures == DraftSpec => DraftTellsCapture
<1> DEFINE Spoken == DraftMade /\ result.hints.explicit_total # Null =>
                       LET spoken == result.hints.explicit_total
                       IN  \/ doc'.total_amount = spoken /\ "explicit_total" \in review'.seeded
                           \/ /\ LineSum(result.line_items) # Null
                              /\ AbsOf(spoken - LineSum(result.line_items)) <= 1
                           \/ \E h \in review'.hidden : h.text \in {TotalConflicts, TotalNeedsReview}
           Nothing == DraftMade =>
                        /\ \A f \in PricingFields \ {"total_amount"} :
                             doc'[f] # Null =>
                               /\ doc'[f] = result.hints[f]
                               /\ {f, "discount"} \cap review'.seeded # {}
                               /\ review'.pricing_pending
                        /\ doc'.line_items = <<>> /\ capture.long => review'.degraded # Null
           p == Validated(InitialPricing(result), LineSum(result.line_items))
<1>1. ASSUME DraftInv, DraftNext, DraftMade
      PROVE  /\ CreateExtractedDraft /\ p # Refused
             /\ \A f \in PricingFields : doc'[f] = p[f]
             /\ DOMAIN doc'.line_items = DOMAIN result.line_items
             /\ review' = NewReview(result, p)
             /\ result.line_items \in Seq(ExtractedItem)
             /\ \A f \in HintFields : result.hints[f] \in Columns(f)
  <2>1. stage = "extracted" /\ stage' = "made"
    BY <1>1 DEF DraftMade
  <2>2. CreateExtractedDraft
    BY <1>1, <2>1 DEF DraftNext, AnswerFits, AskRepair, RepairInvalid, RepairEscapes,
       CreateFromRequest, DuplicateQuote, Editable, LoadForUpdate, CommitUpdate, RefuseUpdate,
       LoadForReview, CommitReview
  <2> HIDE DEF p
  <2>3. p = Validated(InitialPricing(result), LineSum(result.line_items))
    BY DEF p
  <2> QED BY <1>1, <2>1, <2>2, <2>3, ExtractedDraft, ResultFits
<1>2. DraftInv /\ [DraftNext]_draftVars => [Spoken]_draftVars
  <2> SUFFICES ASSUME DraftInv, DraftNext, DraftMade, result.hints.explicit_total # Null
               PROVE  Spoken
    OBVIOUS
  <2> HIDE DEF p
  <2>1. p = Validated(InitialPricing(result), LineSum(result.line_items))
    BY DEF p
  <2>2. doc'.total_amount = p.total_amount /\ review' = NewReview(result, p)
    BY <1>1 DEF PricingFields
  <2>3. \/ /\ p.total_amount = result.hints.explicit_total
           /\ "explicit_total" \in NewReview(result, p).seeded
        \/ /\ LineSum(result.line_items) # Null
           /\ AbsOf(result.hints.explicit_total - LineSum(result.line_items)) <= 1
        \/ \E h \in NewReview(result, p).hidden : h.text \in {TotalConflicts, TotalNeedsReview}
    BY <1>1, <2>1, SpokenTotalKept
  <2> QED BY <2>2, <2>3
<1>3. DraftInv /\ [DraftNext]_draftVars => [Nothing]_draftVars
  <2> SUFFICES ASSUME DraftInv, DraftNext, DraftMade
               PROVE  Nothing
    OBVIOUS
  <2> HIDE DEF p
  <2>1. p = Validated(InitialPricing(result), LineSum(result.line_items))
    BY DEF p
  <2>2. ASSUME NEW f \in PricingFields \ {"total_amount"}, doc'[f] # Null
        PROVE  /\ doc'[f] = result.hints[f]
               /\ {f, "discount"} \cap review'.seeded # {}
               /\ review'.pricing_pending
    <3>1. doc'[f] = p[f] /\ p[f] # Null
      BY <1>1, <2>2
    <3>2. /\ p[f] = result.hints[f]
          /\ {f, "discount"} \cap NewReview(result, p).seeded # {}
          /\ NewReview(result, p).pricing_pending
      BY <1>1, <2>1, <3>1, PricingWasCaptured
    <3> QED BY <1>1, <3>1, <3>2
  <2>3. ASSUME doc'.line_items = <<>>, capture.long
        PROVE  review'.degraded # Null
    <3>1. DOMAIN result.line_items = {}
      BY <1>1, <2>3
    <3>2. result.line_items = <<>>
      BY <1>1, <3>1, NoPositions
    <3>3. result.degraded # Null
      BY <2>3, <3>2, EmptyIsExplained DEF DraftMade
    <3>4. review'.degraded = result.degraded
      BY <1>1 DEF NewReview
    <3> QED BY <3>3, <3>4
  <2> QED BY <2>2, <2>3
<1>4. DraftSpec => [][Spoken]_draftVars /\ [][Nothing]_draftVars
  BY <1>2, <1>3, DraftInvHolds, PTL DEF DraftSpec
<1> QED BY <1>4 DEF DraftTellsCapture, SpokenTotalAccountedFor, NothingInvented

-------------------------------------------------------------------------------
(* What an edit leaves of the subtotal *)

\* The amount that was taxed comes back exactly.
LEMMA TaxUndone ==
  ASSUME NEW S \in Nat, S # 0, NEW r \in 0 .. S, NEW t \in Int, NEW tax \in Int, NEW h \in Int,
         NEW m \in Nat, m = S + r, r = 0 => tax = 0,
         -S <= 2 * (S * tax - t * r), 2 * (S * tax - t * r) <= S,
         -m <= 2 * (m * h - (t + tax) * S), 2 * (m * h - (t + tax) * S) <= m
  PROVE  h = t
<1> DEFINE x == h - t
           e == S * tax - t * r
           mx == m * x
<1>1. x \in Int /\ e \in Int /\ mx \in Int
  OBVIOUS
<1>2. mx = m * h - m * t /\ m * t = S * t + r * t /\ (t + tax) * S = S * t + S * tax /\ t * r = r * t
  OBVIOUS
<1>3. m * h - (t + tax) * S = mx - e
  <2> DEFINE mh == m * h
             mt == m * t
             St == S * t
             rt == r * t
             Stax == S * tax
  <2>1. /\ mh \in Int /\ mt \in Int /\ St \in Int /\ rt \in Int /\ Stax \in Int
        /\ mx = mh - mt /\ mt = St + rt /\ (t + tax) * S = St + Stax /\ e = Stax - rt
    BY <1>2
  <2> HIDE DEF mx, e, mh, mt, St, rt, Stax
  <2>2. mh - (St + Stax) = mx - e
    BY <2>1
  <2> QED BY <2>1, <2>2 DEF mh
<1>4. -S <= 2 * e /\ 2 * e <= S /\ -m <= 2 * (mx - e) /\ 2 * (mx - e) <= m
  BY <1>3
<1>5. r = 0 => e = 0
  OBVIOUS
<1> HIDE DEF e, mx
<1>6. -(m * 1) < mx /\ mx < m * 1
  BY <1>1, <1>4, <1>5
<1> HIDE DEF x
<1>7. -1 < x /\ x < 1
  BY <1>1, <1>6, WholeError DEF mx
<1>8. x = 0
  BY <1>1, <1>7
<1> QED BY <1>8 DEF x

\* With a percentage off, the subtotal comes back but for what rounding costs.
LEMMA DiscountUndone ==
  ASSUME NEW S \in Nat, S # 0, NEW r \in 0 .. S, NEW v \in 1 .. 99, NEW s \in Int,
         NEW disc \in Int, NEW tax \in Int, NEW h \in Int,
         NEW k \in Nat, k = 100 - v, NEW m \in Nat, m = S + r,
         -100 <= 2 * (100 * disc - s * v), 2 * (100 * disc - s * v) <= 100,
         -S <= 2 * (S * tax - (s - disc) * r), 2 * (S * tax - (s - disc) * r) <= S,
         -(m * k) <= 2 * ((m * k) * h - 100 * ((s - disc + tax) * S)),
         2 * ((m * k) * h - 100 * ((s - disc + tax) * S)) <= m * k
  PROVE  -150 <= k * (h - s) /\ k * (h - s) <= 150
<1> DEFINE t == s - disc
           e == S * tax - t * r
           d == 100 * disc - s * v
           P == k * (h - s)
           mP == m * P
           mk == m * k
           md == m * d
<1>1. t \in Int /\ e \in Int /\ d \in Int /\ P \in Int /\ mP \in Int /\ mk \in Int /\ md \in Int
  OBVIOUS
<1>2. (t + tax) * S = m * t + e
  <2>1. m * t = S * t + r * t /\ (t + tax) * S = S * t + S * tax /\ t * r = r * t
    OBVIOUS
  <2> DEFINE St == S * t
             rt == r * t
             Stax == S * tax
  <2>2. St \in Int /\ rt \in Int /\ Stax \in Int /\ e = Stax - rt
        /\ m * t = St + rt /\ (t + tax) * S = St + Stax
    BY <2>1
  <2> HIDE DEF St, rt, Stax, e, t
  <2> QED BY <2>2
<1>3. 100 * t = k * s - d
  <2>1. k * s = 100 * s - v * s /\ s * v = v * s
    OBVIOUS
  <2> QED BY <2>1
<1>4. 100 * (m * t) = m * (k * s) - md
  <2>1. 100 * (m * t) = m * (100 * t)
    OBVIOUS
  <2> DEFINE ks == k * s
  <2>2. ks \in Int /\ 100 * t = ks - d
    BY <1>3
  <2> HIDE DEF ks, d, t
  <2>3. m * (ks - d) = m * ks - m * d
    BY <1>1, <2>2
  <2> QED BY <2>1, <2>2, <2>3 DEF ks
<1>5. mP = (m * k) * h - m * (k * s)
  <2>1. k * (h - s) = k * h - k * s
    OBVIOUS
  <2> DEFINE kh == k * h
             ks == k * s
  <2>2. kh \in Int /\ ks \in Int /\ P = kh - ks
    BY <2>1
  <2>3. (m * k) * h = m * kh
    OBVIOUS
  <2> HIDE DEF kh, ks, P
  <2>4. m * (kh - ks) = m * kh - m * ks
    BY <2>2
  <2> QED BY <2>2, <2>3, <2>4 DEF ks
<1>6. (m * k) * h - 100 * ((t + tax) * S) = mP + md - 100 * e
  <2> DEFINE mkh == (m * k) * h
             mt == m * t
             mks == m * (k * s)
  <2>1. mkh \in Int /\ mt \in Int /\ mks \in Int /\ 100 * mt = mks - md /\ mP = mkh - mks
        /\ (t + tax) * S = mt + e
    BY <1>2, <1>4, <1>5
  <2> HIDE DEF mkh, mt, mks, mP, md, e, t
  <2>2. mkh - 100 * (mt + e) = mP + md - 100 * e
    BY <1>1, <2>1
  <2> QED BY <2>1, <2>2 DEF mkh
<1>7. /\ -100 <= 2 * d /\ 2 * d <= 100 /\ -S <= 2 * e /\ 2 * e <= S
      /\ -mk <= 2 * (mP + md - 100 * e) /\ 2 * (mP + md - 100 * e) <= mk
  BY <1>6
<1>8. -(m * 50) <= md /\ md <= m * 50
  <2>1. -50 <= d /\ d <= 50
    BY <1>1, <1>7
  <2> HIDE DEF d
  <2> QED BY <1>1, <2>1, Scaled
<1>9. mk <= m * 99
  <2>1. m * (99 - k) >= 0 /\ m * (99 - k) = m * 99 - m * k
    OBVIOUS
  <2> QED BY <2>1
<1>10. -(m * 151) < mP /\ mP < m * 151
  <2> HIDE DEF d, e, mP, md, mk
  <2>1. 2 * mP <= mk - 2 * md + 200 * e /\ -mk - 2 * md + 200 * e <= 2 * mP
    BY <1>1, <1>7
  <2>2. 2 * mP <= m * 99 + m * 100 + 100 * S /\ -(m * 99) - m * 100 - 100 * S <= 2 * mP
    BY <1>1, <1>7, <1>8, <1>9, <2>1
  <2>3. 100 * S <= m * 100 /\ m * 99 + m * 100 + m * 100 < m * 302
    OBVIOUS
  <2> QED BY <1>1, <2>2, <2>3
<1> HIDE DEF P
<1>11. -151 < P /\ P < 151
  BY <1>1, <1>10, WholeError DEF mP
<1>12. -150 <= P /\ P <= 150
  BY <1>1, <1>11
<1> QED BY <1>12 DEF P

\* The subtotal that is computed back from the total it made
LEMMA SubtotalBack ==
  ASSUME NEW p, p.discount_type \in DiscountTypes \cup {Null}, p.discount_value \in Amount,
         p.tax_rate = Null \/ p.tax_rate \in 1 .. TaxScale,
         p.discount_type = "percent" => p.discount_value \in 1 .. 100,
         NEW s \in Int, p.total_amount = Total(p, s), NEW sum \in Amount
  PROVE  IF p.discount_type = "percent"
           THEN AbsOf(Resolved(p, sum) - s) * (100 - p.discount_value) <= 150
           ELSE AbsOf(Resolved(p, sum) - s) = 0
<1> DEFINE T == p.total_amount
           r == OrZero(p.tax_rate)
           m == TaxScale + r
           v == OrZero(p.discount_value)
           disc == Discount(p, s)
           t == s - disc
           tax == Tax(p, t)
           h == Resolved(p, sum)
<1>1. Null # "fixed" /\ Null # "percent" /\ Null \notin Int
  BY NullIsNoValue DEF DiscountTypes
<1>2. TaxScale \in Nat /\ TaxScale # 0
  BY TaxScaleAssumption
<1>3. r \in 0 .. TaxScale /\ m \in Nat /\ m # 0 /\ v \in Int
  BY <1>1, <1>2 DEF OrZero, Amount
<1>4. disc \in Int /\ t \in Int
  <2>1. disc \in Int
    BY DiscountType
  <2> QED BY <2>1
<1>5. t * r \in Int
  BY <1>3, <1>4
<1>6. tax \in Int /\ -TaxScale <= 2 * (TaxScale * tax - t * r) /\ 2 * (TaxScale * tax - t * r) <= TaxScale
  <2> HIDE DEF t, r
  <2> QED BY <1>2, <1>5, Rounding DEF Tax, r
<1>7. r = 0 => tax = 0
  <2>1. r = 0 => p.tax_rate = Null
    BY <1>2 DEF OrZero
  <2> HIDE DEF t, r
  <2> QED BY <1>4, <2>1, NoTax
<1>8. T = t + tax /\ T \in Int /\ T # Null
  <2>1. Total(p, s) = t + tax
    BY <1>1 DEF Total
  <2> HIDE DEF t, tax
  <2> QED BY <1>1, <1>4, <1>6, <2>1
<1>9. T * TaxScale \in Int
  BY <1>2, <1>8
<1>10. CASE p.discount_type = Null
  <2>1. h = HalfUp(T * TaxScale, m)
    BY <1>1, <1>8, <1>10 DEF Resolved
  <2>2. disc = 0
    BY <1>1, <1>10 DEF Discount
  <2> HIDE DEF h, m, T, tax, r, disc
  <2>3. h \in Int /\ -m <= 2 * (m * h - T * TaxScale) /\ 2 * (m * h - T * TaxScale) <= m
    BY <1>3, <1>9, <2>1, Rounding
  <2>4. t = s
    BY <2>2
  <2> HIDE DEF t
  <2>5. m = TaxScale + r
    BY DEF m
  <2>6. h = t
    BY <1>2, <1>3, <1>4, <1>6, <1>7, <1>8, <2>3, <2>5, TaxUndone
  <2>7. AbsOf(h - s) = 0
    BY <2>4, <2>6 DEF AbsOf
  <2> QED BY <1>1, <1>10, <2>7 DEF h
<1>11. CASE p.discount_type = "fixed"
  <2>1. h = HalfUp(T * TaxScale + v * m, m)
    BY <1>1, <1>8, <1>11 DEF Resolved
  <2>2. disc = v
    BY <1>1, <1>11 DEF Discount
  <2> HIDE DEF h, m, T, tax, r, disc, v
  <2>3. v * m \in Int /\ T * TaxScale + v * m \in Int
    BY <1>3, <1>9
  <2>4. h \in Int /\ -m <= 2 * (m * h - (T * TaxScale + v * m))
        /\ 2 * (m * h - (T * TaxScale + v * m)) <= m
    BY <1>3, <2>1, <2>3, Rounding
  <2>5. m * (h - v) = m * h - v * m /\ h - v \in Int
    BY <1>3, <2>4
  <2>6. -m <= 2 * (m * (h - v) - T * TaxScale) /\ 2 * (m * (h - v) - T * TaxScale) <= m
    <3> DEFINE a == m * h
               b == v * m
               c == T * TaxScale
    <3>1. a \in Int /\ b \in Int /\ c \in Int /\ m * (h - v) = a - b
          /\ -m <= 2 * (a - (c + b)) /\ 2 * (a - (c + b)) <= m
      BY <1>3, <1>9, <2>3, <2>4, <2>5
    <3> HIDE DEF a, b, c
    <3>2. -m <= 2 * ((a - b) - c) /\ 2 * ((a - b) - c) <= m
      BY <1>3, <3>1
    <3> QED BY <3>1, <3>2 DEF c
  <2>7. t = s - v
    BY <2>2
  <2> HIDE DEF t
  <2>8. m = TaxScale + r
    BY DEF m
  <2> DEFINE g == h - v
  <2>9. g \in Int /\ -m <= 2 * (m * g - T * TaxScale) /\ 2 * (m * g - T * TaxScale) <= m
    BY <2>5, <2>6
  <2> HIDE DEF g
  <2>10. g = t
    BY <1>2, <1>3, <1>4, <1>6, <1>7, <1>8, <2>8, <2>9, TaxUndone
  <2>11. AbsOf(h - s) = 0
    BY <1>3, <2>4, <2>7, <2>10 DEF AbsOf, g
  <2> QED BY <1>1, <1>11, <2>11 DEF h
<1>12. CASE p.discount_type = "percent"
  <2>1. v = p.discount_value /\ v \in 1 .. 100
    BY <1>1, <1>12 DEF OrZero
  <2>2. h \in Int
    <3> HIDE DEF T
    <3>1. p.total_amount # Null /\ p.total_amount \in Amount
      BY <1>8 DEF Amount, T
    <3> HIDE DEF h
    <3> QED BY <1>1, <3>1, ResolvedType DEF h
  <2>3. CASE v = 100
    <3>1. AbsOf(h - s) \in Int
      <4> HIDE DEF h
      <4> QED BY <2>2 DEF AbsOf
    <3> DEFINE a == AbsOf(h - s)
    <3> HIDE DEF a, h
    <3>2. a \in Int /\ a * (100 - p.discount_value) = 0
      BY <2>1, <2>3, <3>1 DEF a
    <3> QED BY <1>12, <3>2 DEF a, h
  <2>4. CASE v # 100
    <3> DEFINE k == 100 - v
    <3>1. v \in 1 .. 99 /\ k \in 1 .. 99 /\ k \in Nat
      BY <2>1, <2>4
    <3>2. h = HalfUp(100 * (T * TaxScale), m * k)
      BY <1>1, <1>8, <1>12, <2>4 DEF Resolved
    <3>3. disc = HalfUp(s * v, 100)
      BY <1>1, <1>12 DEF Discount, Percent
    <3> HIDE DEF h, m, T, tax, r, disc, k, v
    <3>4. s * v \in Int /\ m * k \in Nat /\ m * k # 0 /\ 100 * (T * TaxScale) \in Int
      BY <1>3, <1>9, <3>1
    <3>5. -100 <= 2 * (100 * disc - s * v) /\ 2 * (100 * disc - s * v) <= 100
      BY <3>3, <3>4, Rounding
    <3> DEFINE mk == m * k
               n == 100 * (T * TaxScale)
    <3> HIDE DEF mk, n
    <3>6. -mk <= 2 * (mk * h - n) /\ 2 * (mk * h - n) <= mk
      BY <3>2, <3>4, Rounding DEF mk, n
    <3>7. -(m * k) <= 2 * ((m * k) * h - 100 * ((s - disc + tax) * TaxScale))
          /\ 2 * ((m * k) * h - 100 * ((s - disc + tax) * TaxScale)) <= m * k
      BY <1>8, <3>6 DEF mk, n
    <3>8. -TaxScale <= 2 * (TaxScale * tax - (s - disc) * r)
          /\ 2 * (TaxScale * tax - (s - disc) * r) <= TaxScale
      BY <1>6
    <3>9. k = 100 - v /\ m = TaxScale + r
      BY DEF k, m
    <3> HIDE DEF t
    <3>10. -150 <= k * (h - s) /\ k * (h - s) <= 150
      BY <1>2, <1>3, <1>4, <1>6, <2>2, <3>1, <3>5, <3>7, <3>8, <3>9, DiscountUndone, ZenonT(60)
    <3>11. AbsOf(h - s) * k <= 150
      <4>1. (h - s) * k = k * (h - s) /\ (-(h - s)) * k = -(k * (h - s))
        BY <2>2, <3>1
      <4>2. AbsOf(h - s) \in {h - s, -(h - s)}
        BY DEF AbsOf
      <4> DEFINE kx == k * (h - s)
      <4>3. kx \in Int /\ AbsOf(h - s) * k \in {kx, -kx}
        BY <2>2, <3>1, <4>1, <4>2
      <4> HIDE DEF kx
      <4>4. -150 <= kx /\ kx <= 150
        BY <3>10 DEF kx
      <4> QED BY <4>3, <4>4
    <3> QED BY <1>12, <2>1, <3>9, <3>11 DEF h
  <2> QED BY <2>3, <2>4
<1> QED BY <1>10, <1>11, <1>12 DEF DiscountTypes

\* The step by which an edit changes the row is its commit.
LEMMA CommittedIsCommit ==
  ASSUME DraftInv, DraftNext, NEW c \in Calls, Committed(c), ~stale'
  PROVE  /\ CommitUpdate(c) /\ doc' = Updated(doc, calls[c]) /\ NextPricing(calls[c]) # Refused
         /\ calls[c].op = "update" /\ calls[c].seen = doc /\ calls[c].patch \in Patches
         /\ RowFits(doc) /\ Whole(doc) /\ RowFits(doc') /\ Whole(doc')
<1>1. calls[c].op = "update" /\ doc' # doc /\ calls'[c] = NoCall
  BY DEF Committed
<1>2. /\ calls[c] # NoCall /\ calls[c].patch \in Patches /\ stage = "made"
      /\ doc # NoDoc /\ RowFits(doc) /\ DOMAIN calls = Calls
  <2>1. CallFits(calls[c])
    BY DEF DraftInv
  <2>2. calls[c] # NoCall /\ calls[c].patch \in Patches
    BY <1>1, <2>1, NoCallFits
  <2> QED BY <2>2, CalledWhenMade DEF DraftInv
<1>3. PICK x \in Calls : CommitUpdate(x)
  BY <1>1, <1>2 DEF DraftNext, AnswerFits, AskRepair, RepairInvalid, RepairEscapes, Extracted,
     CreateExtractedDraft, CreateFromRequest, DuplicateQuote, LoadForUpdate, RefuseUpdate,
     LoadForReview, CommitReview
<1>4. x = c
  <2>1. calls' = [calls EXCEPT ![x] = NoCall]
    BY <1>3 DEF CommitUpdate
  <2> QED BY <1>1, <1>2, <2>1
<1>5. /\ DraftInv' /\ NextPricing(calls[c]) # Refused /\ doc' = Updated(doc, calls[c])
  BY <1>3, <1>4, CommitUpdateStep
<1>6. ~stale /\ calls[c].seen = doc /\ stage' = stage
  BY <1>3, <1>4 DEF CommitUpdate, DraftInv
<1>7. RowFits(doc') /\ Whole(doc')
  BY <1>2, <1>5, <1>6 DEF DraftInv
<1>8. Whole(doc)
  BY <1>2, <1>6 DEF DraftInv
<1> QED BY <1>1, <1>2, <1>3, <1>4, <1>5, <1>6, <1>7, <1>8

\* The subtotal that is shown is the one that is computed back.
LEMMA ShownIs ==
  ASSUME NEW d
  PROVE  Shown(d) = Resolved(PricingOf(d), LineSum(d.line_items))
BY DEF Shown, Breakdown

\* The columns that an edit computes with, of the row it leaves
LEMMA PercentFits ==
  ASSUME NEW d, RowFits(d), Whole(d)
  PROVE  d.discount_type = "percent" => d.discount_value \in 1 .. 100
<1> SUFFICES ASSUME d.discount_type = "percent" PROVE d.discount_value \in 1 .. 100
  OBVIOUS
<1>1. d.discount_type # Null
  BY NullIsNoValue DEF DiscountTypes
<1>2. d.discount_value # Null /\ d.discount_value > 0 /\ d.discount_value <= 100
  BY <1>1 DEF Whole
<1>3. d.discount_value \in Int
  BY <1>2, RowFields DEF Amount
<1> QED BY <1>2, <1>3

\* An edit of the tax, the discount or the deposit alone leaves the subtotal shown.
LEMMA SubtotalStays ==
  ASSUME NEW d, RowFits(d), Whole(d), d.total_amount # Null,
         NEW call, call.patch \in Patches, call.seen = d, NextPricing(call) # Refused,
         DOMAIN call.patch \cap {"line_items", "total_amount"} = {},
         NEW u, u = Updated(d, call), RowFits(u), Whole(u)
  PROVE  IF u.discount_type = "percent"
           THEN AbsOf(Shown(u) - Shown(d)) * (100 - u.discount_value) <= 150
           ELSE AbsOf(Shown(u) - Shown(d)) = 0
<1> DEFINE next == NextPricing(call)
           asked == AskedPricing(call)
           items == NextItems(call)
           sum == LineSum(d.line_items)
           p == PricingOf(d)
           q == PricingOf(u)
           s == Resolved(p, sum)
           h == Resolved(q, sum)
<1>1. Null \notin Int
  BY NullIsNoValue
<1>2. /\ p.total_amount = d.total_amount /\ p.discount_type = d.discount_type
      /\ p.discount_value = d.discount_value /\ p.tax_rate = d.tax_rate
  BY PricingOfRow
<1>3. /\ q.total_amount = u.total_amount /\ q.discount_type = u.discount_type
      /\ q.discount_value = u.discount_value /\ q.tax_rate = u.tax_rate
  BY PricingOfRow
<1>4. items = d.line_items /\ LineSum(items) = sum /\ sum \in Amount
  <2>1. items = d.line_items
    BY NextItemsFit
  <2>2. LineSum(items) \in Amount
    BY AskedAsks
  <2> QED BY <2>1, <2>2
<1>5. u.line_items = d.line_items
  <2>1. DOMAIN d = PricingFields \cup {"kind", "line_items"} /\ "line_items" \notin PricingFields
    BY DEF RowFits, PricingFields
  <2>2. "line_items" \notin Written(call)
    BY AssignedColumns DEF Written
  <2> QED BY <2>1, <2>2 DEF Updated
<1>6. s \in Int
  <2>1. /\ p.total_amount \in Amount /\ p.total_amount # Null
        /\ p.discount_type \in DiscountTypes \cup {Null} /\ p.discount_value \in Amount
        /\ (p.tax_rate = Null \/ p.tax_rate \in 1 .. TaxScale)
    BY <1>2, RowFields
  <2> HIDE DEF p, sum
  <2> QED BY <1>4, <2>1, ResolvedType
<1>7. Shown(d) = s /\ Shown(u) = h
  <2>1. Shown(u) = Resolved(q, LineSum(u.line_items)) /\ Shown(d) = s
    BY ShownIs
  <2> QED BY <1>5, <2>1
<1>8. CASE DOMAIN call.patch \cap TotalFields # {}
  <2>1. /\ u.total_amount = next.total_amount
        /\ \A f \in PricingFields \ {"total_amount"} : u[f] = next[f]
    BY <1>8, UpdatedPricing
  <2>2. /\ u.total_amount = next.total_amount /\ u.discount_type = next.discount_type
        /\ u.discount_value = next.discount_value /\ u.tax_rate = next.tax_rate
    BY <2>1 DEF PricingFields
  <2>3. asked.total_amount = s
    <3>1. "total_amount" \notin DOMAIN call.patch /\ "line_items" \notin DOMAIN call.patch
      OBVIOUS
    <3>2. asked.total_amount = Resolved(PricingOf(call.seen), LineSum(items))
      BY <3>1 DEF AskedPricing
    <3> QED BY <1>4, <3>2
  <2>4. next.total_amount = Total(next, IF asked.total_amount = Null
                                          THEN LineSum(items) ELSE asked.total_amount)
    <3>1. Asks(asked) /\ LineSum(items) \in Amount
      BY AskedAsks
    <3>2. next = Validated(asked, LineSum(items)) /\ next # Refused
      BY DEF NextPricing
    <3> HIDE DEF next, asked, items
    <3> QED BY <3>1, <3>2, Passed
  <2> HIDE DEF s, asked, next, items
  <2>5. next.total_amount = Total(next, s)
    <3>1. (IF asked.total_amount = Null THEN LineSum(items) ELSE asked.total_amount) = s
      BY <1>1, <1>6, <2>3
    <3> QED BY <2>4, <3>1
  <2>6. Total(next, s) = Total(q, s)
    BY <1>3, <2>2 DEF Total, Discount, Tax
  <2>7. q.total_amount = Total(q, s)
    BY <1>3, <2>2, <2>5, <2>6
  <2>8. /\ q.discount_type \in DiscountTypes \cup {Null} /\ q.discount_value \in Amount
        /\ (q.tax_rate = Null \/ q.tax_rate \in 1 .. TaxScale)
        /\ (q.discount_type = "percent" => q.discount_value \in 1 .. 100)
    BY <1>3, RowFields, PercentFits
  <2> HIDE DEF q, sum
  <2>9. IF q.discount_type = "percent"
          THEN AbsOf(Resolved(q, sum) - s) * (100 - q.discount_value) <= 150
          ELSE AbsOf(Resolved(q, sum) - s) = 0
    BY <1>4, <1>6, <2>7, <2>8, SubtotalBack
  <2> QED BY <1>3, <1>7, <2>9
<1>9. CASE DOMAIN call.patch \cap TotalFields = {}
  <2>1. /\ u.total_amount = d.total_amount /\ u.discount_type = d.discount_type
        /\ u.discount_value = d.discount_value /\ u.tax_rate = d.tax_rate
    BY <1>9, UpdatedPricing DEF PricingFields
  <2> HIDE DEF p, q, sum
  <2>2. h = s
    BY <1>2, <1>3, <2>1 DEF Resolved
  <2>3. AbsOf(h - s) = 0
    <3> HIDE DEF h, s
    <3> QED BY <1>6, <2>2 DEF AbsOf
  <2>4. u.discount_type = "percent" => u.discount_value \in Int
    BY PercentFits
  <2>5. \A n \in Int : 0 * (100 - n) = 0
    OBVIOUS
  <2> DEFINE a == AbsOf(h - s)
  <2> HIDE DEF a, h, s
  <2>6. a = 0
    BY <2>3 DEF a, h, s
  <2>7. u.discount_type = "percent" => a * (100 - u.discount_value) <= 150
    BY <2>4, <2>5, <2>6
  <2> QED BY <1>7, <2>6, <2>7 DEF a, h, s
<1> QED BY <1>8, <1>9

-------------------------------------------------------------------------------
(* What rounding each price costs a total *)

\* Rounding a number that is not negative
LEMMA RoundedUp ==
  ASSUME NEW n \in Nat, NEW d \in Nat, d # 0
  PROVE  /\ HalfUp(n, d) \in Nat
         /\ 2 * (d * HalfUp(n, d)) <= 2 * n + d /\ 2 * n < 2 * (d * HalfUp(n, d)) + d
<1> DEFINE w == n \div d
           r == n % d
           up == IF 2 * r >= d THEN 1 ELSE 0
           h == HalfUp(n, d)
           dw == d * w
           dh == d * h
<1>1. AbsOf(n) = n /\ AbsOf(d) = d /\ ~(d < 0) /\ ~(n < 0)
  BY DEF AbsOf
<1>2. w \in Nat /\ r \in Nat /\ r < d /\ n = d * w + r
  OBVIOUS
<1>3. h = w + up
  BY <1>1 DEF HalfUp
<1>4. dw \in Int /\ dh = dw + (IF 2 * r >= d THEN d ELSE 0) /\ n = dw + r
  <2>1. d * (w + up) = d * w + d * up
    BY <1>2
  <2>2. d * up = IF 2 * r >= d THEN d ELSE 0
    OBVIOUS
  <2> QED BY <1>2, <1>3, <2>1, <2>2
<1>5. h \in Nat
  BY <1>2, <1>3
<1> HIDE DEF w, r, h, dw, dh
<1>6. 2 * dh <= 2 * n + d /\ 2 * n < 2 * dh + d
  BY <1>2, <1>4
<1> QED BY <1>5, <1>6 DEF h, dh

\* Rounding is the same on both sides of zero.
LEMMA RoundedDown ==
  ASSUME NEW n \in Int, NEW d \in Nat, d # 0
  PROVE  HalfUp(-n, d) + HalfUp(n, d) = 0
<1>1. AbsOf(-n) = AbsOf(n) /\ ~(d < 0)
  BY DEF AbsOf
<1>2. CASE n = 0
  <2>1. HalfUp(0, d) = 0
    BY RoundingExact
  <2>2. \A k \in Int : k >= 0 /\ k <= 0 => HalfUp(k, d) = 0
    BY <2>1
  <2>3. -n \in Int /\ -n >= 0 /\ -n <= 0
    BY <1>2
  <2> QED BY <1>2, <2>1, <2>2, <2>3
<1>3. CASE n # 0
  <2> DEFINE q == AbsOf(n) \div AbsOf(d) + (IF 2 * (AbsOf(n) % AbsOf(d)) >= AbsOf(d) THEN 1 ELSE 0)
  <2>1. HalfUp(n, d) = IF n < 0 THEN -q ELSE q
    BY <1>1 DEF HalfUp
  <2>2. HalfUp(-n, d) = IF -n < 0 THEN -q ELSE q
    BY <1>1 DEF HalfUp
  <2>3. q \in Int
    <3>1. AbsOf(n) \in Int /\ AbsOf(d) \in Int /\ AbsOf(d) > 0
      BY DEF AbsOf
    <3> QED BY <3>1
  <2> HIDE DEF q
  <2> QED BY <1>3, <2>1, <2>2, <2>3
<1> QED BY <1>2, <1>3

\* A rounded share moves with its amount, and by no more.
LEMMA ShareOfMore ==
  ASSUME NEW a \in Nat, NEW b \in Nat, a <= b, NEW d \in Nat, d # 0, NEW r \in 0 .. d
  PROVE  /\ HalfUp(a * r, d) \in Int /\ HalfUp(b * r, d) \in Int
         /\ HalfUp(a * r, d) <= HalfUp(b * r, d)
         /\ HalfUp(b * r, d) - HalfUp(a * r, d) <= b - a
<1> DEFINE ar == a * r
           br == b * r
           x == HalfUp(ar, d)
           y == HalfUp(br, d)
           c == b - a
<1>1. ar \in Nat /\ br \in Nat /\ c \in Nat
  OBVIOUS
<1>2. ar <= br /\ br - ar <= d * c
  <2>1. br - ar = c * r /\ c * r >= 0
    OBVIOUS
  <2>2. c * (d - r) >= 0 /\ c * (d - r) = c * d - c * r /\ c * d = d * c
    OBVIOUS
  <2> QED BY <1>1, <2>1, <2>2
<1> HIDE DEF ar, br, c
<1>3. /\ x \in Nat /\ 2 * (d * x) <= 2 * ar + d /\ 2 * ar < 2 * (d * x) + d
      /\ y \in Nat /\ 2 * (d * y) <= 2 * br + d /\ 2 * br < 2 * (d * y) + d
  BY <1>1, RoundedUp
<1> HIDE DEF x, y
<1>4. d * (y - x) = d * y - d * x /\ d * (x - y) = d * x - d * y /\ d * 1 = d
      /\ d * (c + 1) = d * c + d
  BY <1>1, <1>3
<1>5. d * (x - y) < d * 1
  <2> DEFINE dx == d * x
             dy == d * y
  <2>1. dx \in Int /\ dy \in Int
    BY <1>3
  <2> HIDE DEF dx, dy
  <2>2. dx - dy < d
    BY <1>1, <1>2, <1>3, <2>1 DEF dx, dy
  <2> QED BY <1>4, <2>2 DEF dx, dy
<1>6. d * (y - x) < d * (c + 1)
  <2> DEFINE dx == d * x
             dy == d * y
             dc == d * c
  <2>1. dx \in Int /\ dy \in Int /\ dc \in Int
    BY <1>1, <1>3
  <2>2. 2 * dy <= 2 * br + d /\ 2 * ar < 2 * dx + d /\ br - ar <= dc
    BY <1>2, <1>3
  <2> HIDE DEF dx, dy, dc
  <2>3. dy - dx < dc + d
    BY <1>1, <2>1, <2>2
  <2> QED BY <1>4, <2>3 DEF dx, dy, dc
<1>7. x - y < 1
  <2>1. ASSUME x - y >= 1 PROVE FALSE
    <3> DEFINE e == x - y - 1
    <3>1. e \in Nat /\ d * e >= 0 /\ d * e = d * (x - y) - d * 1
      BY <1>3, <2>1
    <3>2. d * (x - y) \in Int /\ d * 1 \in Int
      BY <1>3
    <3> HIDE DEF e
    <3> QED BY <1>5, <3>1, <3>2
  <2> QED BY <1>3, <2>1
<1>8. y - x < c + 1
  <2>1. ASSUME y - x >= c + 1 PROVE FALSE
    <3> DEFINE e == y - x - (c + 1)
    <3>1. e \in Nat /\ d * e >= 0 /\ d * e = d * (y - x) - d * (c + 1)
      BY <1>1, <1>3, <2>1
    <3>2. d * (y - x) \in Int /\ d * (c + 1) \in Int
      BY <1>1, <1>3
    <3> HIDE DEF e
    <3> QED BY <1>6, <3>1, <3>2
  <2> QED BY <1>1, <1>3, <2>1
<1>9. x \in Int /\ y \in Int /\ x <= y /\ y - x <= c
  BY <1>1, <1>3, <1>7, <1>8
<1> QED BY <1>9 DEF x, y, ar, br, c

\* So it is for amounts below zero.
LEMMA ShareMoves ==
  ASSUME NEW a \in Int, NEW b \in Int, a <= b, NEW d \in Nat, d # 0, NEW r \in 0 .. d
  PROVE  /\ HalfUp(a * r, d) \in Int /\ HalfUp(b * r, d) \in Int
         /\ HalfUp(a * r, d) <= HalfUp(b * r, d)
         /\ HalfUp(b * r, d) - HalfUp(a * r, d) <= b - a
<1> DEFINE H(n) == HalfUp(n * r, d)
<1>1. ASSUME NEW n \in Int
      PROVE  H(-n) = -H(n) /\ H(n) \in Int
  <2>1. (-n) * r = -(n * r) /\ n * r \in Int
    OBVIOUS
  <2> DEFINE nr == n * r
  <2> HIDE DEF nr
  <2>2. HalfUp(-nr, d) + HalfUp(nr, d) = 0 /\ HalfUp(nr, d) \in Int /\ HalfUp(-nr, d) \in Int
    BY <2>1, RoundedDown, Rounding DEF nr
  <2>3. HalfUp(-nr, d) = -HalfUp(nr, d)
    BY <2>2
  <2> QED BY <2>1, <2>2, <2>3 DEF nr
<1>2. ASSUME NEW x \in Nat, NEW y \in Nat, x <= y
      PROVE  H(x) \in Int /\ H(y) \in Int /\ H(x) <= H(y) /\ H(y) - H(x) <= y - x
  BY <1>2, ShareOfMore
<1>3. H(0) = 0
  <2>1. 0 * r = 0
    OBVIOUS
  <2>2. HalfUp(0, d) = 0
    BY RoundingExact
  <2> QED BY <2>1, <2>2
<1> HIDE DEF H
<1>4. CASE a >= 0
  <2>1. a \in Nat /\ b \in Nat
    BY <1>4
  <2> QED BY <1>2, <2>1 DEF H
<1>5. CASE b < 0
  <2>1. -a \in Nat /\ -b \in Nat /\ -b <= -a /\ H(-a) = -H(a) /\ H(-b) = -H(b)
        /\ H(a) \in Int /\ H(b) \in Int
    BY <1>1, <1>5
  <2>2. H(-b) <= H(-a) /\ H(-a) - H(-b) <= (-a) - (-b)
    BY <1>2, <2>1
  <2>3. H(a) <= H(b) /\ H(b) - H(a) <= b - a
    BY <2>1, <2>2
  <2> QED BY <2>1, <2>3 DEF H
<1>6. CASE a < 0 /\ b >= 0
  <2>1. -a \in Nat /\ b \in Nat /\ 0 \in Nat /\ 0 <= -a /\ 0 <= b
        /\ H(-a) = -H(a) /\ H(a) \in Int /\ H(b) \in Int
    BY <1>1, <1>6
  <2>2. H(0) <= H(-a) /\ H(-a) - H(0) <= (-a) - 0 /\ H(0) <= H(b) /\ H(b) - H(0) <= b - 0
    BY <1>2, <2>1
  <2>3. H(a) <= H(b) /\ H(b) - H(a) <= b - a
    BY <1>3, <2>1, <2>2
  <2> QED BY <2>1, <2>3 DEF H
<1> QED BY <1>4, <1>5, <1>6

\* A total moves by twice as much as its subtotal at most.
LEMMA TotalMoves ==
  ASSUME NEW p, p.discount_type \in DiscountTypes \cup {Null}, p.discount_value \in Amount,
         p.tax_rate = Null \/ p.tax_rate \in 1 .. TaxScale,
         p.discount_type = "percent" => p.discount_value \in 1 .. 100,
         NEW a \in Int, NEW b \in Int, a <= b
  PROVE  /\ Total(p, a) \in Int /\ Total(p, b) \in Int
         /\ Total(p, a) <= Total(p, b) /\ Total(p, b) - Total(p, a) <= 2 * (b - a)
<1> DEFINE r == OrZero(p.tax_rate)
           ta == a - Discount(p, a)
           tb == b - Discount(p, b)
<1>1. Null # "fixed" /\ Null # "percent" /\ Null \notin Int
  BY NullIsNoValue DEF DiscountTypes
<1>2. TaxScale \in Nat /\ TaxScale # 0
  BY TaxScaleAssumption
<1>3. r \in 0 .. TaxScale
  BY <1>1, <1>2 DEF OrZero
<1>4. Discount(p, a) \in Int /\ Discount(p, b) \in Int
  BY DiscountType
<1>5. ta \in Int /\ tb \in Int /\ ta <= tb /\ tb - ta <= b - a
  <2>1. CASE p.discount_type = Null
    <3>1. Discount(p, a) = 0 /\ Discount(p, b) = 0
      BY <1>1, <2>1 DEF Discount
    <3> QED BY <3>1
  <2>2. CASE p.discount_type = "fixed"
    <3>1. Discount(p, a) = Discount(p, b)
      BY <1>1, <2>2 DEF Discount
    <3> QED BY <1>4, <3>1
  <2>3. CASE p.discount_type = "percent"
    <3> DEFINE v == OrZero(p.discount_value)
    <3>1. v \in 0 .. 100
      BY <1>1, <2>3 DEF OrZero
    <3>2. Discount(p, a) = HalfUp(a * v, 100) /\ Discount(p, b) = HalfUp(b * v, 100)
      BY <1>1, <2>3 DEF Discount, Percent
    <3> HIDE DEF v
    <3> DEFINE hundred == 100
    <3>3. hundred \in Nat /\ hundred # 0 /\ v \in 0 .. hundred
      BY <3>1
    <3> HIDE DEF hundred
    <3>4. HalfUp(a * v, hundred) <= HalfUp(b * v, hundred)
          /\ HalfUp(b * v, hundred) - HalfUp(a * v, hundred) <= b - a
      BY <3>3, ShareMoves
    <3>5. HalfUp(a * v, 100) <= HalfUp(b * v, 100) /\ HalfUp(b * v, 100) - HalfUp(a * v, 100) <= b - a
      BY <3>4 DEF hundred
    <3>6. Discount(p, a) <= Discount(p, b) /\ Discount(p, b) - Discount(p, a) <= b - a
      BY <3>2, <3>5
    <3> QED BY <1>4, <3>6
  <2> QED BY <2>1, <2>2, <2>3 DEF DiscountTypes
<1>6. Total(p, a) = ta + Tax(p, ta) /\ Total(p, b) = tb + Tax(p, tb)
  BY <1>1 DEF Total
<1> HIDE DEF ta, tb, r
<1>7. Tax(p, ta) = HalfUp(ta * r, TaxScale) /\ Tax(p, tb) = HalfUp(tb * r, TaxScale)
  BY DEF Tax, r
<1>8. /\ HalfUp(ta * r, TaxScale) \in Int /\ HalfUp(tb * r, TaxScale) \in Int
      /\ HalfUp(ta * r, TaxScale) <= HalfUp(tb * r, TaxScale)
      /\ HalfUp(tb * r, TaxScale) - HalfUp(ta * r, TaxScale) <= tb - ta
  BY <1>2, <1>3, <1>5, ShareMoves
<1> DEFINE x == Tax(p, ta)
           y == Tax(p, tb)
<1>9. x \in Int /\ y \in Int /\ x <= y /\ y - x <= tb - ta
  BY <1>7, <1>8
<1> HIDE DEF x, y
<1>10. ta + x \in Int /\ tb + y \in Int /\ ta + x <= tb + y /\ (tb + y) - (ta + x) <= 2 * (b - a)
  BY <1>5, <1>9
<1> QED BY <1>6, <1>10 DEF x, y

\* Rounding to tens: up to five up, a whole five only above zero, and as much down.
LEMMA RoundedTens ==
  ASSUME NEW n \in Int
  PROVE  /\ HalfUp(n, 10) \in Int
         /\ 10 * HalfUp(n, 10) - n <= 5 /\ (10 * HalfUp(n, 10) - n = 5 => n > 0)
         /\ -5 <= 10 * HalfUp(n, 10) - n /\ (10 * HalfUp(n, 10) - n = -5 => n < 0)
<1>1. AbsOf(10) = 10
  BY DEF AbsOf
<1>2. CASE n < 0
  <2>1. AbsOf(n) = -n
    BY <1>2 DEF AbsOf
  <2>2. HalfUp(n, 10) = -((-n) \div 10 + (IF 2 * ((-n) % 10) >= 10 THEN 1 ELSE 0))
    BY <1>1, <1>2, <2>1 DEF HalfUp
  <2> QED BY <1>2, <2>2
<1>3. CASE n >= 0
  <2>1. AbsOf(n) = n
    BY <1>3 DEF AbsOf
  <2>2. HalfUp(n, 10) = n \div 10 + (IF 2 * (n % 10) >= 10 THEN 1 ELSE 0)
    BY <1>1, <1>3, <2>1 DEF HalfUp
  <2> QED BY <1>3, <2>2
<1> QED BY <1>2, <1>3

\* Sums of prices, and of what the price column keeps of them
LEMMA KeptSums ==
  ASSUME NEW S, NEW T, NEW items \in Seq(S), NEW kept \in Seq(T),
         \A i \in DOMAIN items : items[i].price \in Amount,
         DOMAIN kept = DOMAIN items,
         \A i \in DOMAIN items : kept[i].price = Kept(items[i].price)
  PROVE  /\ (LineSum(kept) = Null) = (LineSum(items) = Null)
         /\ LineSum(items) # Null =>
              /\ LineSum(items) \in Int /\ LineSum(kept) \in Int
              /\ 2 * (LineSum(kept) - LineSum(items)) <= Len(kept)
              /\ -Len(kept) <= 2 * (LineSum(kept) - LineSum(items))
<1> DEFINE n == Len(items)
           X == PriceSums(items)
           K == PriceSums(kept)
           Cents(i) == IF IsPriced(items[i]) THEN items[i].price ELSE 0
           Whole10(i) == IF IsPriced(kept[i]) THEN kept[i].price ELSE 0
           Off(i) == K[i] - X[i]
           G == {i \in 0 .. n : /\ \E k \in Int : K[i] = 10 * k
                                /\ Off(i) <= 5 * i /\ (Off(i) = 5 * i => X[i] >= 0)
                                /\ 0 <= Off(i) + 5 * i /\ (Off(i) + 5 * i = 0 => X[i] <= 0)}
<1>1. Null \notin Int
  BY NullIsNoValue
<1>2. n \in Nat /\ DOMAIN items = 1 .. n /\ Len(kept) = n
  OBVIOUS
<1>3. \A i \in DOMAIN items : /\ kept[i].price \in Amount
                              /\ (kept[i].price = Null) = (items[i].price = Null)
  <2>1. ASSUME NEW i \in DOMAIN items
        PROVE  /\ kept[i].price \in Amount /\ (kept[i].price = Null) = (items[i].price = Null)
    <3>1. items[i].price \in Amount /\ kept[i].price = Kept(items[i].price)
      OBVIOUS
    <3>2. CASE items[i].price = Null
      BY <3>1, <3>2 DEF Kept, Amount
    <3>3. CASE items[i].price # Null
      <4> DEFINE price == items[i].price
      <4>1. price \in Int
        BY <3>1, <3>3 DEF Amount
      <4>2. Kept(price) = 10 * HalfUp(price, 10)
        BY <3>3 DEF Kept
      <4> HIDE DEF price
      <4>3. HalfUp(price, 10) \in Int
        BY <4>1, RoundedTens
      <4>4. Kept(price) \in Int
        BY <4>2, <4>3
      <4> QED BY <1>1, <3>1, <3>3, <4>4 DEF price, Amount
    <3> QED BY <3>2, <3>3
  <2> QED BY <2>1
<1>4. /\ X \in [0 .. n -> Int] /\ X[0] = 0
      /\ \A i \in 1 .. n : X[i] = X[i - 1] + Cents(i)
  <2> HIDE DEF X, n, Cents
  <2>1. /\ PriceSums(items) \in [0 .. Len(items) -> Int] /\ PriceSums(items)[0] = 0
        /\ \A i \in 1 .. Len(items) :
             PriceSums(items)[i] = PriceSums(items)[i - 1]
                                   + (IF IsPriced(items[i]) THEN items[i].price ELSE 0)
    BY Sums
  <2> QED BY <2>1 DEF X, n, Cents
<1>5. /\ K \in [0 .. n -> Int] /\ K[0] = 0
      /\ \A i \in 1 .. n : K[i] = K[i - 1] + Whole10(i)
  <2> HIDE DEF K, n, Whole10
  <2>1. /\ PriceSums(kept) \in [0 .. Len(kept) -> Int] /\ PriceSums(kept)[0] = 0
        /\ \A i \in 1 .. Len(kept) :
             PriceSums(kept)[i] = PriceSums(kept)[i - 1]
                                   + (IF IsPriced(kept[i]) THEN kept[i].price ELSE 0)
    BY <1>3, Sums
  <2> QED BY <1>2, <2>1 DEF K, Whole10
<1>6. ASSUME NEW i \in 1 .. n
      PROVE  /\ Cents(i) \in Int
             /\ \E k \in Int : Whole10(i) = 10 * k
             /\ Whole10(i) - Cents(i) <= 5 /\ (Whole10(i) - Cents(i) = 5 => Cents(i) > 0)
             /\ -5 <= Whole10(i) - Cents(i) /\ (Whole10(i) - Cents(i) = -5 => Cents(i) < 0)
  <2>1. items[i].price \in Amount /\ kept[i].price = Kept(items[i].price)
        /\ (kept[i].price = Null) = (items[i].price = Null)
    BY <1>2, <1>3
  <2>2. CASE items[i].price = Null
    <3>1. Cents(i) = 0 /\ Whole10(i) = 0
      BY <2>1, <2>2 DEF IsPriced
    <3>2. 0 = 10 * 0
      OBVIOUS
    <3> QED BY <3>1, <3>2
  <2>3. CASE items[i].price # Null
    <3> DEFINE price == items[i].price
    <3>1. price \in Int
      BY <2>1, <2>3 DEF Amount
    <3>2. Cents(i) = price /\ Whole10(i) = Kept(price) /\ Kept(price) = 10 * HalfUp(price, 10)
      BY <2>1, <2>3 DEF IsPriced, Kept
    <3> HIDE DEF price, Cents, Whole10
    <3>3. /\ HalfUp(price, 10) \in Int
          /\ 10 * HalfUp(price, 10) - price <= 5 /\ (10 * HalfUp(price, 10) - price = 5 => price > 0)
          /\ -5 <= 10 * HalfUp(price, 10) - price /\ (10 * HalfUp(price, 10) - price = -5 => price < 0)
      BY <3>1, RoundedTens
    <3> QED BY <3>1, <3>2, <3>3
  <2> QED BY <2>2, <2>3
<1>7. 0 \in G
  <2>1. 0 \in 0 .. n /\ 0 = 10 * 0 /\ 0 \in Int /\ 5 * 0 = 0
    BY <1>2
  <2>2. K[0] = 10 * 0 /\ Off(0) = 0 /\ X[0] = 0
    BY <1>4, <1>5
  <2> HIDE DEF X, K, Off
  <2> QED BY <2>1, <2>2
<1>8. ASSUME NEW i \in 1 .. n, i - 1 \in G PROVE i \in G
  <2> DEFINE j == i - 1
  <2>1. i \in 0 .. n /\ j \in 0 .. n /\ j \in Int /\ i = j + 1
    BY <1>2
  <2>2. PICK k \in Int : K[j] = 10 * k
    BY <1>8
  <2>3. PICK l \in Int : Whole10(i) = 10 * l
    BY <1>6
  <2>4. K[i] = K[j] + Whole10(i) /\ X[i] = X[j] + Cents(i)
    BY <1>4, <1>5
  <2>5. /\ K[i] \in Int /\ K[j] \in Int /\ X[i] \in Int /\ X[j] \in Int
    BY <1>4, <1>5, <2>1
  <2>6. /\ K[j] - X[j] <= 5 * j /\ (K[j] - X[j] = 5 * j => X[j] >= 0)
        /\ 0 <= K[j] - X[j] + 5 * j /\ (K[j] - X[j] + 5 * j = 0 => X[j] <= 0)
    BY <1>8
  <2>7. /\ Cents(i) \in Int
        /\ Whole10(i) - Cents(i) <= 5 /\ (Whole10(i) - Cents(i) = 5 => Cents(i) > 0)
        /\ -5 <= Whole10(i) - Cents(i) /\ (Whole10(i) - Cents(i) = -5 => Cents(i) < 0)
    BY <1>6
  <2> HIDE DEF X, K, Cents, Whole10, j, G
  <2>8. k + l \in Int /\ K[i] = 10 * (k + l)
    BY <2>2, <2>3, <2>4
  <2>9. /\ K[i] - X[i] <= 5 * i /\ (K[i] - X[i] = 5 * i => X[i] >= 0)
        /\ 0 <= K[i] - X[i] + 5 * i /\ (K[i] - X[i] + 5 * i = 0 => X[i] <= 0)
    <3> DEFINE Ki == K[i]
               Kj == K[j]
               Xi == X[i]
               Xj == X[j]
               W == Whole10(i)
               C == Cents(i)
    <3>1. /\ Ki \in Int /\ Kj \in Int /\ Xi \in Int /\ Xj \in Int /\ C \in Int /\ W \in Int
          /\ Ki = Kj + W /\ Xi = Xj + C /\ j \in Int /\ i = j + 1
          /\ Kj - Xj <= 5 * j /\ (Kj - Xj = 5 * j => Xj >= 0)
          /\ 0 <= Kj - Xj + 5 * j /\ (Kj - Xj + 5 * j = 0 => Xj <= 0)
          /\ W - C <= 5 /\ (W - C = 5 => C > 0) /\ -5 <= W - C /\ (W - C = -5 => C < 0)
      BY <2>1, <2>3, <2>4, <2>5, <2>6, <2>7
    <3> HIDE DEF Ki, Kj, Xi, Xj, W, C
    <3>2. /\ Ki - Xi <= 5 * i /\ (Ki - Xi = 5 * i => Xi >= 0)
          /\ 0 <= Ki - Xi + 5 * i /\ (Ki - Xi + 5 * i = 0 => Xi <= 0)
      BY <3>1
    <3> QED BY <3>2 DEF Ki, Xi
  <2> QED BY <2>1, <2>8, <2>9 DEF G
<1>9. n \in G
  <2> HIDE DEF G, n
  <2>1. 0 .. n \subseteq G
    BY <1>2, <1>7, <1>8, Upwards
  <2> QED BY <1>2, <2>1
<1>10. (\A i \in DOMAIN items : ~IsPriced(items[i])) <=> (\A i \in DOMAIN kept : ~IsPriced(kept[i]))
  BY <1>3 DEF IsPriced
<1>11. CASE \A i \in DOMAIN items : ~IsPriced(items[i])
  BY <1>10, <1>11 DEF LineSum
<1>12. CASE ~(\A i \in DOMAIN items : ~IsPriced(items[i]))
  <2> DEFINE x == HalfUp(X[n], 10)
             y == HalfUp(K[n], 10)
  <2>1. LineSum(items) = x
    BY <1>12 DEF LineSum
  <2>2. LineSum(kept) = y
    BY <1>2, <1>10, <1>12 DEF LineSum
  <2>3. X[n] \in Int /\ K[n] \in Int
    BY <1>2, <1>4, <1>5
  <2>4. PICK k \in Int : K[n] = 10 * k
    BY <1>9
  <2>5. /\ K[n] - X[n] <= 5 * n /\ (K[n] - X[n] = 5 * n => X[n] >= 0)
        /\ 0 <= K[n] - X[n] + 5 * n /\ (K[n] - X[n] + 5 * n = 0 => X[n] <= 0)
    BY <1>9
  <2> DEFINE tens == 10
             Xn == X[n]
             Kn == K[n]
  <2>6. y = k
    <3> HIDE DEF Kn, tens, K, n
    <3>1. tens \in Nat /\ tens # 0 /\ Kn = tens * k /\ Kn \in Int
      BY <2>3, <2>4 DEF tens, Kn
    <3>2. HalfUp(Kn, tens) = k
      BY <3>1, RoundingExact
    <3> QED BY <3>2 DEF Kn, tens
  <2>7. /\ x \in Int /\ 10 * x - Xn <= 5 /\ (10 * x - Xn = 5 => Xn > 0)
        /\ -5 <= 10 * x - Xn /\ (10 * x - Xn = -5 => Xn < 0)
    <3> HIDE DEF Xn
    <3>1. Xn \in Int /\ x = HalfUp(Xn, 10)
      BY <2>3 DEF Xn
    <3> HIDE DEF x
    <3> QED BY <3>1, RoundedTens
  <2>8. Xn \in Int /\ Kn \in Int /\ Kn = 10 * k
        /\ Kn - Xn <= 5 * n /\ (Kn - Xn = 5 * n => Xn >= 0)
        /\ 0 <= Kn - Xn + 5 * n /\ (Kn - Xn + 5 * n = 0 => Xn <= 0)
    BY <2>3, <2>4, <2>5
  <2> HIDE DEF Xn, Kn, x, y, n, X, K
  <2>9. 2 * (y - x) <= n /\ -n <= 2 * (y - x)
    BY <1>2, <2>6, <2>7, <2>8
  <2>10. x \in Int /\ y \in Int
    BY <2>6, <2>7
  <2> QED BY <1>1, <1>2, <2>1, <2>2, <2>9, <2>10
<1> QED BY <1>11, <1>12

\* An edit that brings line items and no total leaves the total they make.
LEMMA ItemsMake ==
  ASSUME NEW d, RowFits(d), Whole(d),
         NEW call, call.patch \in Patches, call.seen = d, NextPricing(call) # Refused,
         "line_items" \in DOMAIN call.patch, "total_amount" \notin DOMAIN call.patch,
         NEW u, u = Updated(d, call), RowFits(u), Whole(u)
  PROVE  IF LineSum(u.line_items) = Null
           THEN u.total_amount = Null
           ELSE AbsOf(Total(PricingOf(u), LineSum(u.line_items)) - u.total_amount)
                  <= Len(u.line_items)
<1> DEFINE next == NextPricing(call)
           asked == AskedPricing(call)
           items == NextItems(call)
           kept == u.line_items
           q == PricingOf(u)
           x == LineSum(items)
           y == LineSum(kept)
<1>1. Null \notin Int
  BY NullIsNoValue
<1>2. /\ q.total_amount = u.total_amount /\ q.discount_type = u.discount_type
      /\ q.discount_value = u.discount_value /\ q.tax_rate = u.tax_rate
  BY PricingOfRow
<1>3. items \in Seq(StoredItem) /\ kept \in Seq(StoredItem)
  BY NextItemsFit DEF RowFits
<1>4. \A i \in DOMAIN items : /\ items[i].price \in Amount
                              /\ items[i].flagged \in BOOLEAN
                              /\ items[i].flag_reason \in Reasons
  <2>1. \A i \in DOMAIN items : items[i] \in StoredItem
    BY <1>3
  <2> QED BY <2>1 DEF StoredItem
<1>5. Asks(asked) /\ x \in Amount /\ next = Validated(asked, x) /\ next # Refused
  BY AskedAsks DEF NextPricing
<1>6. Asks(next) /\ (next.tax_rate = Null \/ next.tax_rate \in 1 .. TaxScale)
      /\ next.total_amount = Total(next, IF asked.total_amount = Null
                                           THEN x ELSE asked.total_amount)
  <2> HIDE DEF next, asked, x
  <2> QED BY <1>5, Passed
<1>7. DOMAIN kept = DOMAIN items /\ \A i \in DOMAIN items : kept[i].price = Kept(items[i].price)
  <2>1. kept = Made(d.kind, next, items).line_items
    <3>1. DOMAIN d = PricingFields \cup {"kind", "line_items"} /\ "line_items" \notin PricingFields
      BY DEF RowFits, PricingFields
    <3>2. "line_items" \notin Written(call)
      BY AssignedColumns DEF Written
    <3> QED BY <3>1, <3>2 DEF Updated
  <2>2. d.kind \in {"quote", "invoice"}
    BY DEF RowFits
  <2> HIDE DEF next, items, kept
  <2>3. /\ DOMAIN Made(d.kind, next, items).line_items = DOMAIN items
        /\ \A i \in DOMAIN items :
             Made(d.kind, next, items).line_items[i] =
               [price |-> Kept(items[i].price), flagged |-> items[i].flagged,
                flag_reason |-> items[i].flag_reason]
    BY <1>3, <1>4, <1>6, <2>2, MadeFits
  <2> DEFINE rows == Made(d.kind, next, items).line_items
  <2>4. /\ DOMAIN rows = DOMAIN items /\ kept = rows
        /\ \A i \in DOMAIN items :
             rows[i] = [price |-> Kept(items[i].price), flagged |-> items[i].flagged,
                        flag_reason |-> items[i].flag_reason]
    BY <2>1, <2>3, Zenon
  <2> HIDE DEF rows
  <2>5. ASSUME NEW i \in DOMAIN items
        PROVE  rows[i].price = Kept(items[i].price)
    <3>1. rows[i] = [price |-> Kept(items[i].price), flagged |-> items[i].flagged,
                     flag_reason |-> items[i].flag_reason]
      BY <2>4
    <3> QED BY <3>1
  <2> QED BY <2>4, <2>5
<1>8. /\ (y = Null) = (x = Null)
      /\ x # Null => /\ x \in Int /\ y \in Int
                     /\ 2 * (y - x) <= Len(kept) /\ -Len(kept) <= 2 * (y - x)
  <2> HIDE DEF items, kept
  <2> QED BY <1>3, <1>4, <1>7, KeptSums
<1>9. asked.total_amount = x
  BY DEF AskedPricing
<1>10. DOMAIN call.patch \cap TotalFields # {}
  BY DEF TotalFields
<1>11. /\ u.total_amount = next.total_amount /\ u.discount_type = next.discount_type
       /\ u.discount_value = next.discount_value /\ u.tax_rate = next.tax_rate
  BY <1>10, UpdatedPricing DEF PricingFields
<1>12. /\ q.discount_type \in DiscountTypes \cup {Null} /\ q.discount_value \in Amount
       /\ (q.tax_rate = Null \/ q.tax_rate \in 1 .. TaxScale)
       /\ (q.discount_type = "percent" => q.discount_value \in 1 .. 100)
  BY <1>2, RowFields, PercentFits
<1>13. Len(kept) \in Nat
  BY <1>3
<1> HIDE DEF next, asked, items, x, y, q, kept
<1>14. u.total_amount = Total(next, x)
  <2>1. (IF asked.total_amount = Null THEN x ELSE asked.total_amount) = x
    BY <1>9
  <2> QED BY <1>6, <1>11, <2>1
<1>15. CASE x = Null
  <2>1. Total(next, x) = Null
    BY <1>15 DEF Total
  <2> QED BY <1>8, <1>14, <1>15, <2>1 DEF y, kept
<1>16. CASE x # Null
  <2>1. Total(next, x) = Total(q, x)
    BY <1>2, <1>11 DEF Total, Discount, Tax
  <2>2. x \in Int /\ y \in Int /\ 2 * (y - x) <= Len(kept) /\ -Len(kept) <= 2 * (y - x)
    BY <1>8, <1>16
  <2>3. /\ Total(q, x) \in Int /\ Total(q, y) \in Int
        /\ (x <= y => Total(q, x) <= Total(q, y) /\ Total(q, y) - Total(q, x) <= 2 * (y - x))
        /\ (y <= x => Total(q, y) <= Total(q, x) /\ Total(q, x) - Total(q, y) <= 2 * (x - y))
    <3>1. ASSUME NEW a \in Int, NEW b \in Int, a <= b
          PROVE  /\ Total(q, a) \in Int /\ Total(q, b) \in Int
                 /\ Total(q, a) <= Total(q, b) /\ Total(q, b) - Total(q, a) <= 2 * (b - a)
      BY <1>12, <3>1, TotalMoves
    <3>2. x <= y \/ y <= x
      BY <2>2
    <3> QED BY <2>2, <3>1, <3>2
  <2> DEFINE tx == Total(q, x)
             ty == Total(q, y)
  <2>4. tx \in Int /\ ty \in Int
        /\ (x <= y => tx <= ty /\ ty - tx <= 2 * (y - x))
        /\ (y <= x => ty <= tx /\ tx - ty <= 2 * (x - y))
    BY <2>3
  <2> HIDE DEF tx, ty
  <2>5. AbsOf(ty - tx) <= Len(kept)
    BY <1>13, <2>2, <2>4 DEF AbsOf
  <2>6. u.total_amount = tx
    BY <1>14, <2>1 DEF tx
  <2>7. y # Null
    BY <1>8, <1>16
  <2> QED BY <2>5, <2>6, <2>7 DEF ty, y, q, kept
<1> QED BY <1>15, <1>16

\* An edit moves the money it names and the rest of it stays, for every document,
\* every partial edit and every price: a subtotal that is not named stays but for
\* what a percentage costs in rounding, and new line items make the total.
THEOREM EditsKeepTheRest == DraftSpec => EditsMoveTheirOwn
<1> DEFINE Survives == \A c \in Calls :
                         /\ Committed(c) /\ ~stale'
                         /\ DOMAIN calls[c].patch \cap {"line_items", "total_amount"} = {}
                         /\ doc.total_amount # Null
                         => LET drift == AbsOf(Shown(doc') - Shown(doc))
                            IN  IF doc'.discount_type = "percent"
                                  THEN drift * (100 - doc'.discount_value) <= 150
                                  ELSE drift = 0
           Makes == \A c \in Calls :
                      /\ Committed(c) /\ ~stale'
                      /\ "line_items" \in DOMAIN calls[c].patch
                      /\ "total_amount" \notin DOMAIN calls[c].patch
                      => LET sum == LineSum(doc'.line_items)
                         IN  IF sum = Null
                               THEN doc'.total_amount = Null
                               ELSE AbsOf(Total(PricingOf(doc'), sum) - doc'.total_amount)
                                      <= Len(doc'.line_items)
<1>1. DraftInv /\ [DraftNext]_draftVars => [Survives]_draftVars
  <2> SUFFICES ASSUME DraftInv, DraftNext, NEW c \in Calls, Committed(c), ~stale',
                      DOMAIN calls[c].patch \cap {"line_items", "total_amount"} = {},
                      doc.total_amount # Null
               PROVE  IF doc'.discount_type = "percent"
                        THEN AbsOf(Shown(doc') - Shown(doc)) * (100 - doc'.discount_value) <= 150
                        ELSE AbsOf(Shown(doc') - Shown(doc)) = 0
    BY Zenon
  <2> DEFINE u == doc'
             call == calls[c]
  <2>1. /\ u = Updated(doc, call) /\ NextPricing(call) # Refused
        /\ call.seen = doc /\ call.patch \in Patches
        /\ RowFits(doc) /\ Whole(doc) /\ RowFits(u) /\ Whole(u)
    BY CommittedIsCommit
  <2>2. DOMAIN call.patch \cap {"line_items", "total_amount"} = {}
    OBVIOUS
  <2>3. Shown(doc') = Shown(u)
    OBVIOUS
  <2> HIDE DEF u, call
  <2>4. IF u.discount_type = "percent"
          THEN AbsOf(Shown(u) - Shown(doc)) * (100 - u.discount_value) <= 150
          ELSE AbsOf(Shown(u) - Shown(doc)) = 0
    BY <2>1, <2>2, SubtotalStays
  <2> QED BY <2>4 DEF u
<1>2. DraftInv /\ [DraftNext]_draftVars => [Makes]_draftVars
  <2> SUFFICES ASSUME DraftInv, DraftNext, NEW c \in Calls, Committed(c), ~stale',
                      "line_items" \in DOMAIN calls[c].patch,
                      "total_amount" \notin DOMAIN calls[c].patch
               PROVE  IF LineSum(doc'.line_items) = Null
                        THEN doc'.total_amount = Null
                        ELSE AbsOf(Total(PricingOf(doc'), LineSum(doc'.line_items))
                                   - doc'.total_amount) <= Len(doc'.line_items)
    BY Zenon
  <2> DEFINE u == doc'
             call == calls[c]
  <2>1. /\ u = Updated(doc, call) /\ NextPricing(call) # Refused
        /\ call.seen = doc /\ call.patch \in Patches
        /\ RowFits(doc) /\ Whole(doc) /\ RowFits(u) /\ Whole(u)
    BY CommittedIsCommit
  <2>2. "line_items" \in DOMAIN call.patch /\ "total_amount" \notin DOMAIN call.patch
    OBVIOUS
  <2> HIDE DEF u, call
  <2>3. IF LineSum(u.line_items) = Null
          THEN u.total_amount = Null
          ELSE AbsOf(Total(PricingOf(u), LineSum(u.line_items)) - u.total_amount)
                 <= Len(u.line_items)
    BY <2>1, <2>2, ItemsMake
  <2> QED BY <2>3 DEF u
<1>3. DraftSpec => [][Survives]_draftVars /\ [][Makes]_draftVars
  BY <1>1, <1>2, DraftInvHolds, PTL DEF DraftSpec
<1> QED BY <1>3 DEF EditsMoveTheirOwn, SubtotalSurvivesEdits, ItemsMakeTheTotal

-------------------------------------------------------------------------------
(* What is said, word by word *)

NumberWords == DOMAIN Ones \cup DOMAIN Teens \cup DOMAIN Tens

\* The n words from i on are a number under a hundred.
Small(words, i, n, a) ==
  \/ n = 1 /\ At(words, i) \in DOMAIN Ones /\ a = Ones[At(words, i)]
  \/ n = 1 /\ At(words, i) \in DOMAIN Teens /\ a = Teens[At(words, i)]
  \/ n = 1 /\ At(words, i) \in DOMAIN Tens /\ a = Tens[At(words, i)]
  \/ /\ n = 2 /\ At(words, i) \in DOMAIN Tens /\ At(words, i + 1) \in DOMAIN Ones
     /\ a = Tens[At(words, i)] + Ones[At(words, i + 1)]

\* The words from i up to j are an amount.
Spoken(words, i, j, a) ==
  \/ /\ At(words, i) \in DOMAIN Ones /\ At(words, i + 1) \in DOMAIN Tens
     /\ \E n \in {1, 2}, b \in Nat :
          Small(words, i + 1, n, b) /\ j = i + 1 + n /\ a = 100 * Ones[At(words, i)] + b
  \/ \E n \in {1, 2}, b \in Nat :
       /\ Small(words, i, n, b) /\ At(words, i + n) = "hundred"
       /\ \/ j = i + n + 1 /\ a = 100 * b
          \/ \E m \in {1, 2}, c \in Nat :
               Small(words, i + n + 1, m, c) /\ j = i + n + 1 + m /\ a = 100 * b + c

\* The tables give numbers, and the words around them are in none.
LEMMA Tables ==
  /\ \A w \in DOMAIN Ones : Ones[w] \in Nat /\ Ones[w] > 0
  /\ \A w \in DOMAIN Teens : Teens[w] \in Nat /\ Teens[w] > 0
  /\ \A w \in DOMAIN Tens : Tens[w] \in Nat /\ Tens[w] > 0
  /\ "" \notin NumberWords /\ "hundred" \notin NumberWords /\ "dollars" \notin NumberWords
  /\ "hundred" # "" /\ "hundred" # "dollars"
BY DEF Ones, Teens, Tens, NumberWords

\* A word that is in a table, or is "hundred", is one of the words.
LEMMA AtWord ==
  ASSUME NEW words, NEW i, At(words, i) # ""
  PROVE  i \in DOMAIN words /\ At(words, i) = words[i]
BY DEF At

\* The words of a number under a hundred are in the tables, and the number is positive.
LEMMA SmallIsSaid ==
  ASSUME NEW words, NEW i \in Int, NEW n, NEW a, Small(words, i, n, a)
  PROVE  /\ n \in {1, 2} /\ a \in Nat /\ a > 0
         /\ \A k \in i .. i + n - 1 : At(words, k) \in NumberWords /\ k \in DOMAIN words
<1>1. n \in {1, 2} /\ a \in Nat /\ a > 0
  <2>1. CASE n = 1 /\ At(words, i) \in DOMAIN Ones /\ a = Ones[At(words, i)]
    BY <2>1, Tables
  <2>2. CASE n = 1 /\ At(words, i) \in DOMAIN Teens /\ a = Teens[At(words, i)]
    BY <2>2, Tables
  <2>3. CASE n = 1 /\ At(words, i) \in DOMAIN Tens /\ a = Tens[At(words, i)]
    BY <2>3, Tables
  <2>4. CASE /\ n = 2 /\ At(words, i) \in DOMAIN Tens /\ At(words, i + 1) \in DOMAIN Ones
             /\ a = Tens[At(words, i)] + Ones[At(words, i + 1)]
    <3> DEFINE x == Tens[At(words, i)]
               y == Ones[At(words, i + 1)]
    <3>1. x \in Nat /\ x > 0 /\ y \in Nat /\ y > 0 /\ a = x + y
      BY <2>4, Tables
    <3> HIDE DEF x, y
    <3> QED BY <2>4, <3>1
  <2> QED BY <2>1, <2>2, <2>3, <2>4 DEF Small
<1>2. ASSUME NEW k \in i .. i + n - 1
      PROVE  At(words, k) \in NumberWords
  <2>1. CASE n = 1
    <3>1. k = i
      BY <2>1
    <3> QED BY <2>1, <3>1 DEF Small, NumberWords
  <2>2. CASE n = 2
    <3>1. k = i \/ k = i + 1
      BY <2>2
    <3> QED BY <2>2, <3>1 DEF Small, NumberWords
  <2> QED BY <1>1, <2>1, <2>2
<1>3. \A k \in i .. i + n - 1 : k \in DOMAIN words
  BY <1>2, AtWord, Tables
<1> QED BY <1>1, <1>2, <1>3

\* The reader of a number under a hundred reads one to its end.
LEMMA UnderHundredReads ==
  ASSUME NEW words, NEW i \in Int, NEW u, u = UnderHundred(words, i)
  PROVE  /\ u.amount \in Nat
         /\ u.amount = 0 => u.next = i
         /\ u.amount # 0 => \E n \in {1, 2} : u.next = i + n /\ Small(words, i, n, u.amount)
         /\ \A n, a : Small(words, i, n, a) =>
              /\ u.amount > 0 /\ i + n <= u.next
              /\ i + n < u.next => At(words, i + n) \in DOMAIN Ones
<1> DEFINE first == At(words, i)
           second == At(words, i + 1)
<1>1. /\ DOMAIN Ones \cap DOMAIN Teens = {} /\ DOMAIN Tens \cap DOMAIN Teens = {}
      /\ DOMAIN Tens \cap DOMAIN Ones = {}
  BY TablesDiffer
<1>2. u = CASE first \in DOMAIN Teens -> [amount |-> Teens[first], next |-> i + 1]
            [] first \in DOMAIN Tens /\ second \in DOMAIN Ones ->
                 [amount |-> Tens[first] + Ones[second], next |-> i + 2]
            [] first \in DOMAIN Tens /\ second \notin DOMAIN Ones ->
                 [amount |-> Tens[first], next |-> i + 1]
            [] first \in DOMAIN Ones -> [amount |-> Ones[first], next |-> i + 1]
            [] OTHER -> [amount |-> 0, next |-> i]
  BY DEF UnderHundred
<1>3. \A n, a : Small(words, i, n, a) <=>
        \/ n = 1 /\ first \in DOMAIN Ones /\ a = Ones[first]
        \/ n = 1 /\ first \in DOMAIN Teens /\ a = Teens[first]
        \/ n = 1 /\ first \in DOMAIN Tens /\ a = Tens[first]
        \/ n = 2 /\ first \in DOMAIN Tens /\ second \in DOMAIN Ones
           /\ a = Tens[first] + Ones[second]
  BY DEF Small
<1>4. i + 1 \in Int /\ i + 2 \in Int /\ i + 1 < i + 2
  OBVIOUS
<1>10. /\ first \in DOMAIN Teens => first \notin DOMAIN Tens /\ first \notin DOMAIN Ones
       /\ first \in DOMAIN Tens => first \notin DOMAIN Teens /\ first \notin DOMAIN Ones
       /\ first \in DOMAIN Ones => first \notin DOMAIN Teens /\ first \notin DOMAIN Tens
  BY <1>1
<1> DEFINE Good == /\ u.amount \in Nat
                   /\ u.amount = 0 => u.next = i
                   /\ u.amount # 0 => \E n \in {1, 2} : u.next = i + n /\ Small(words, i, n, u.amount)
                   /\ \A n, a : Small(words, i, n, a) =>
                        /\ u.amount > 0 /\ i + n <= u.next
                        /\ i + n < u.next => At(words, i + n) \in DOMAIN Ones
<1> HIDE DEF first, second
<1>5. CASE first \in DOMAIN Teens
  <2>1. u = [amount |-> Teens[first], next |-> i + 1]
    BY <1>2, <1>5, <1>10
  <2>2. u.amount \in Nat /\ u.amount > 0 /\ u.next = i + 1 /\ u.amount = Teens[first]
    <3>1. u.amount = Teens[first] /\ u.next = i + 1
      BY <2>1
    <3>2. Teens[first] \in Nat /\ Teens[first] > 0
      BY <1>5, Tables
    <3> QED BY <3>1, <3>2
  <2>3. Small(words, i, 1, u.amount)
    BY <1>3, <1>5, <2>2
  <2>4. \A n, a : Small(words, i, n, a) => n = 1
    BY <1>3, <1>5, <1>10
  <2> QED BY <1>4, <2>2, <2>3, <2>4
<1>6. CASE first \in DOMAIN Tens /\ second \in DOMAIN Ones
  <2>1. u = [amount |-> Tens[first] + Ones[second], next |-> i + 2]
    BY <1>1, <1>2, <1>6
  <2> DEFINE x == Tens[first]
             y == Ones[second]
  <2>2. x \in Nat /\ x > 0 /\ y \in Nat /\ y > 0
    BY <1>6, Tables
  <2>3. u.next = i + 2 /\ u.amount = x + y
    BY <2>1
  <2>4. Small(words, i, 2, u.amount)
    BY <1>3, <1>6, <2>3
  <2> HIDE DEF x, y
  <2>5. u.amount \in Nat /\ u.amount > 0
    BY <2>2, <2>3
  <2>6. \A n, a : Small(words, i, n, a) => n \in {1, 2}
    BY <1>3
  <2>7. At(words, i + 1) \in DOMAIN Ones
    BY <1>6 DEF second
  <2> QED BY <1>4, <2>3, <2>4, <2>5, <2>6, <2>7
<1>7. CASE first \in DOMAIN Tens /\ second \notin DOMAIN Ones
  <2>1. u = [amount |-> Tens[first], next |-> i + 1]
    BY <1>2, <1>7, <1>10
  <2>2. u.amount \in Nat /\ u.amount > 0 /\ u.next = i + 1 /\ u.amount = Tens[first]
    <3>1. u.amount = Tens[first] /\ u.next = i + 1
      BY <2>1
    <3>2. Tens[first] \in Nat /\ Tens[first] > 0
      BY <1>7, Tables
    <3> QED BY <3>1, <3>2
  <2>3. Small(words, i, 1, u.amount)
    BY <1>3, <1>7, <2>2
  <2>4. \A n, a : Small(words, i, n, a) => n = 1
    BY <1>3, <1>7, <1>10
  <2> QED BY <1>4, <2>2, <2>3, <2>4
<1>8. CASE first \in DOMAIN Ones
  <2>1. u = [amount |-> Ones[first], next |-> i + 1]
    BY <1>2, <1>8, <1>10
  <2>2. u.amount \in Nat /\ u.amount > 0 /\ u.next = i + 1 /\ u.amount = Ones[first]
    <3>1. u.amount = Ones[first] /\ u.next = i + 1
      BY <2>1
    <3>2. Ones[first] \in Nat /\ Ones[first] > 0
      BY <1>8, Tables
    <3> QED BY <3>1, <3>2
  <2>3. Small(words, i, 1, u.amount)
    BY <1>3, <1>8, <2>2
  <2>4. \A n, a : Small(words, i, n, a) => n = 1
    BY <1>3, <1>8, <1>10
  <2> QED BY <1>4, <2>2, <2>3, <2>4
<1>9. CASE first \notin NumberWords
  <2>1. u = [amount |-> 0, next |-> i]
    BY <1>2, <1>9 DEF NumberWords
  <2>2. u.amount = 0 /\ u.next = i
    BY <2>1
  <2>3. \A n, a : ~Small(words, i, n, a)
    BY <1>3, <1>9 DEF NumberWords
  <2> QED BY <2>2, <2>3
<1> QED BY <1>5, <1>6, <1>7, <1>8, <1>9 DEF NumberWords

\* A phrase that starts with a digit and tens is read to its end.
LEMMA ShortReads ==
  ASSUME NEW words, NEW i \in Int, i \in DOMAIN words, NEW r, r = ReadPhrase(words, i),
         At(words, i) \in DOMAIN Ones, At(words, i + 1) \in DOMAIN Tens
  PROVE  /\ r.amount \in Nat /\ r.amount > 0
         /\ Spoken(words, i, r.next, r.amount)
         /\ \A j, a : Spoken(words, i, j, a) => j \in Int /\ j <= r.next
<1> DEFINE first == At(words, i)
           second == At(words, i + 1)
           third == At(words, i + 2)
           x == 100 * Ones[first]
           y == Tens[second]
           z == Ones[third]
<1>1. first = words[i] /\ second = words[i + 1]
  BY AtWord, Tables DEF NumberWords
<1>2. r = [amount |-> x + y + (IF third \in DOMAIN Ones THEN z ELSE 0),
           next |-> IF third \in DOMAIN Ones THEN i + 3 ELSE i + 2,
           extreme |-> second \notin NonContextTens]
  BY <1>1 DEF ReadPhrase, ShortReading
<1>3. Ones[first] \in Nat /\ Ones[first] > 0 /\ y \in Nat /\ y > 0
  BY Tables
<1>4. third \in DOMAIN Ones => z \in Nat /\ z > 0
  BY Tables
<1>5. x \in Nat /\ x > 0
  BY <1>3
<1>6. /\ second \notin DOMAIN Ones /\ second \notin DOMAIN Teens
      /\ first \notin DOMAIN Tens /\ first \notin DOMAIN Teens /\ second # "hundred"
  <2>1. DOMAIN Ones \cap DOMAIN Teens = {} /\ DOMAIN Tens \cap DOMAIN Teens = {}
        /\ DOMAIN Tens \cap DOMAIN Ones = {}
    BY TablesDiffer
  <2>2. \A w \in DOMAIN Tens : w # "hundred"
    BY Tables DEF NumberWords
  <2> QED BY <2>1, <2>2
<1>7. i + 1 + 1 = i + 2 /\ i + 1 + 2 = i + 3 /\ i + 2 <= i + 3 /\ i + 2 \in Int /\ i + 3 \in Int
  OBVIOUS
<1>8. \A n, b : Small(words, i + 1, n, b) =>
        \/ n = 1
        \/ n = 2 /\ third \in DOMAIN Ones
  BY <1>6, <1>7 DEF Small
<1>9. \A n, b : Small(words, i, n, b) => n = 1
  BY <1>6 DEF Small
<1>10. \A j, a : Spoken(words, i, j, a) =>
         \/ j = i + 2
         \/ j = i + 3 /\ third \in DOMAIN Ones
  <2> SUFFICES ASSUME NEW j, NEW a, Spoken(words, i, j, a)
               PROVE  \/ j = i + 2
                      \/ j = i + 3 /\ third \in DOMAIN Ones
    OBVIOUS
  <2>1. ASSUME NEW n \in {1, 2}, NEW b \in Nat, Small(words, i + 1, n, b), j = i + 1 + n
        PROVE  \/ j = i + 2
               \/ j = i + 3 /\ third \in DOMAIN Ones
    BY <1>7, <1>8, <2>1
  <2>2. ASSUME NEW n \in {1, 2}, NEW b \in Nat, Small(words, i, n, b),
               At(words, i + n) = "hundred"
        PROVE  FALSE
    BY <1>6, <1>9, <2>2
  <2> QED BY <2>1, <2>2 DEF Spoken
<1>11. CASE third \in DOMAIN Ones
  <2>1. r.amount = x + y + z /\ r.next = i + 3
    BY <1>2, <1>11
  <2>2. Small(words, i + 1, 2, y + z)
    BY <1>7, <1>11 DEF Small
  <2> HIDE DEF x, y, z
  <2>3. y + z \in Nat /\ x + y + z = x + (y + z) /\ x + y + z \in Nat /\ x + y + z > 0
    BY <1>3, <1>4, <1>5, <1>11
  <2>4. Spoken(words, i, i + 3, x + (y + z))
    <3>1. \E n \in {1, 2}, b \in Nat :
            Small(words, i + 1, n, b) /\ i + 3 = i + 1 + n /\ x + (y + z) = 100 * Ones[first] + b
      BY <1>7, <2>2, <2>3 DEF x
    <3> QED BY <3>1 DEF Spoken
  <2> QED BY <1>7, <1>10, <2>1, <2>3, <2>4
<1>12. CASE third \notin DOMAIN Ones
  <2>1. r.amount = x + y + 0 /\ r.next = i + 2
    BY <1>2, <1>12
  <2>2. Small(words, i + 1, 1, y)
    BY <1>7 DEF Small
  <2> HIDE DEF x, y, z
  <2>3. x + y + 0 = x + y /\ x + y \in Nat /\ x + y > 0
    BY <1>3, <1>5
  <2>4. Spoken(words, i, i + 2, x + y)
    <3>1. \E n \in {1, 2}, b \in Nat :
            Small(words, i + 1, n, b) /\ i + 2 = i + 1 + n /\ x + y = 100 * Ones[first] + b
      BY <1>3, <1>7, <2>2 DEF x
    <3> QED BY <3>1 DEF Spoken
  <2> QED BY <1>7, <1>10, <1>12, <2>1, <2>3, <2>4
<1> QED BY <1>11, <1>12

\* Any other phrase is read to its end, and nothing is read where there is none.
LEMMA HundredReads ==
  ASSUME NEW words, NEW i \in Int, i \in DOMAIN words, NEW r, r = ReadPhrase(words, i),
         ~(At(words, i) \in DOMAIN Ones /\ At(words, i + 1) \in DOMAIN Tens)
  PROVE  /\ r.amount \in Nat
         /\ r.amount > 0 => Spoken(words, i, r.next, r.amount) /\ r.extreme
         /\ \A j, a : Spoken(words, i, j, a) => r.amount > 0 /\ j \in Int /\ j <= r.next
<1> DEFINE p == UnderHundred(words, i)
           rest == UnderHundred(words, p.next + 1)
           nothing == p.amount = 0 \/ At(words, p.next) # "hundred"
<1>1. At(words, i) = words[i]
  BY DEF At
<1>2. r = IF nothing THEN Unread
          ELSE [amount |-> 100 * p.amount + rest.amount, next |-> rest.next, extreme |-> TRUE]
  BY <1>1 DEF ReadPhrase, HundredReading
<1>3. /\ p.amount \in Nat
      /\ p.amount = 0 => p.next = i
      /\ p.amount # 0 => \E n \in {1, 2} : p.next = i + n /\ Small(words, i, n, p.amount)
      /\ \A n, a : Small(words, i, n, a) =>
           /\ p.amount > 0 /\ i + n <= p.next
           /\ i + n < p.next => At(words, i + n) \in DOMAIN Ones
  BY UnderHundredReads
<1>4. p.next \in Int /\ p.next + 1 \in Int
  BY <1>3
<1>5. /\ rest.amount \in Nat
      /\ rest.amount = 0 => rest.next = p.next + 1
      /\ rest.amount # 0 =>
           \E m \in {1, 2} : rest.next = p.next + 1 + m /\ Small(words, p.next + 1, m, rest.amount)
      /\ \A m, a : Small(words, p.next + 1, m, a) =>
           /\ rest.amount > 0 /\ p.next + 1 + m <= rest.next
           /\ p.next + 1 + m < rest.next => At(words, p.next + 1 + m) \in DOMAIN Ones
  BY <1>4, UnderHundredReads
<1>6. \A w \in DOMAIN Ones : w # "hundred"
  BY Tables DEF NumberWords
<1> DEFINE Behind(n, j, a, b) ==
             \/ j = i + n + 1 /\ a = 100 * b
             \/ \E m \in {1, 2}, c \in Nat :
                  Small(words, i + n + 1, m, c) /\ j = i + n + 1 + m /\ a = 100 * b + c
<1> HIDE DEF p, rest
<1>7. \A j, a : Spoken(words, i, j, a) =>
        \E n \in {1, 2}, b \in Nat :
          Small(words, i, n, b) /\ At(words, i + n) = "hundred" /\ Behind(n, j, a, b)
  BY DEF Spoken
<1>8. ASSUME NEW n \in {1, 2}, NEW b \in Nat, Small(words, i, n, b),
             At(words, i + n) = "hundred"
      PROVE  p.amount > 0 /\ i + n = p.next
  BY <1>3, <1>4, <1>6, <1>8
<1>9. CASE nothing
  <2>1. r.amount = 0
    BY <1>2, <1>9 DEF Unread
  <2>2. \A j, a : ~Spoken(words, i, j, a)
    <3> SUFFICES ASSUME NEW j, NEW a, Spoken(words, i, j, a) PROVE FALSE
      OBVIOUS
    <3>1. PICK n \in {1, 2}, b \in Nat : Small(words, i, n, b) /\ At(words, i + n) = "hundred"
      BY <1>7
    <3>2. p.amount > 0 /\ i + n = p.next
      BY <1>8, <3>1
    <3> QED BY <1>9, <3>1, <3>2
  <2> QED BY <2>1, <2>2
<1>10. CASE ~nothing
  <2> DEFINE x == 100 * p.amount
  <2>1. r.amount = x + rest.amount /\ r.next = rest.next /\ r.extreme = TRUE
    BY <1>2, <1>10
  <2>2. p.amount > 0 /\ x \in Nat /\ x > 0 /\ At(words, p.next) = "hundred"
    BY <1>3, <1>10
  <2>3. PICK n \in {1, 2} : p.next = i + n /\ Small(words, i, n, p.amount)
    BY <1>3, <2>2
  <2>4. p.next + 1 = i + n + 1
    BY <2>3
  <2> HIDE DEF x
  <2>5. r.amount \in Nat /\ r.amount > 0
    BY <1>5, <2>1, <2>2
  <2>6. rest.next \in Int /\ p.next + 1 <= rest.next
    BY <1>4, <1>5
  <2>7. Behind(n, r.next, r.amount, p.amount)
    <3>1. CASE rest.amount = 0
      <4>1. r.amount = x /\ r.next = i + n + 1
        BY <1>5, <2>1, <2>2, <2>4, <3>1
      <4> QED BY <4>1 DEF x
    <3>2. CASE rest.amount # 0
      <4>1. PICK m \in {1, 2} :
              rest.next = p.next + 1 + m /\ Small(words, p.next + 1, m, rest.amount)
        BY <1>5, <3>2
      <4>2. Small(words, i + n + 1, m, rest.amount) /\ r.next = i + n + 1 + m
        BY <2>1, <2>4, <4>1
      <4> QED BY <1>5, <2>1, <4>2 DEF x
    <3> QED BY <3>1, <3>2
  <2>8. Spoken(words, i, r.next, r.amount)
    <3>1. \E k \in {1, 2}, b \in Nat :
            Small(words, i, k, b) /\ At(words, i + k) = "hundred" /\ Behind(k, r.next, r.amount, b)
      BY <1>3, <2>2, <2>3, <2>7
    <3> QED BY <3>1 DEF Spoken
  <2>9. ASSUME NEW j, NEW a, Spoken(words, i, j, a)
        PROVE  j \in Int /\ j <= r.next
    <3>1. PICK k \in {1, 2}, b \in Nat :
            Small(words, i, k, b) /\ At(words, i + k) = "hundred" /\ Behind(k, j, a, b)
      BY <1>7, <2>9
    <3>2. i + k + 1 = p.next + 1
      BY <1>8, <3>1
    <3>3. CASE j = i + k + 1
      BY <1>4, <2>1, <2>6, <3>2, <3>3
    <3>4. ASSUME NEW m \in {1, 2}, NEW c \in Nat,
                 Small(words, i + k + 1, m, c), j = i + k + 1 + m
          PROVE  j \in Int /\ j <= r.next
      BY <1>4, <1>5, <2>1, <3>2, <3>4
    <3> QED BY <3>1, <3>3, <3>4
  <2> QED BY <2>1, <2>5, <2>8, <2>9
<1> QED BY <1>9, <1>10

-------------------------------------------------------------------------------
(* The list of the ways to say an amount *)

\* The words from i on begin with the phrase s.
Fits(words, i, s) == \A k \in 1 .. Len(s) : At(words, i + k - 1) = s[k]

\* The words of a transcript are among its words.
LEMMA OwnWords ==
  ASSUME NEW words \in Seq(STRING)
  PROVE  /\ words \in Seq(ToSet(words)) /\ DOMAIN words = 1 .. Len(words) /\ Len(words) \in Nat
         /\ \A i : At(words, i) # "" => At(words, i) \in ToSet(words)
<1>1. DOMAIN words = 1 .. Len(words) /\ Len(words) \in Nat
  BY LenProperties
<1>2. \A i \in DOMAIN words : words[i] \in ToSet(words)
  BY DEF ToSet
<1>3. words \in [1 .. Len(words) -> ToSet(words)]
  <2>1. words \in [1 .. Len(words) -> STRING]
    BY LenProperties
  <2> QED BY <1>1, <1>2, <2>1
<1>4. words \in Seq(ToSet(words))
  <2> DEFINE W == ToSet(words)
             n == Len(words)
  <2>1. words \in [1 .. n -> W] /\ n \in Nat
    BY <1>1, <1>3
  <2> HIDE DEF W, n
  <2>2. words \in Seq(W)
    BY <2>1
  <2> QED BY <2>2 DEF W
<1>5. \A i : At(words, i) # "" => At(words, i) \in ToSet(words)
  BY <1>2, AtWord
<1> QED BY <1>1, <1>4, <1>5

\* A phrase of two parts is there when both are.
LEMMA FitsInParts ==
  ASSUME NEW W, NEW s \in Seq(W), NEW t \in Seq(W), NEW words, NEW i \in Int
  PROVE  /\ s \o t \in Seq(W) /\ Len(s \o t) = Len(s) + Len(t)
         /\ Len(s) \in Nat /\ Len(t) \in Nat
         /\ Fits(words, i, s \o t) <=> Fits(words, i, s) /\ Fits(words, i + Len(s), t)
<1> DEFINE m == Len(s)
           n == Len(t)
<1>1. /\ s \o t \in Seq(W) /\ Len(s \o t) = m + n
      /\ \A k \in 1 .. m + n : (s \o t)[k] = IF k <= m THEN s[k] ELSE t[k - m]
  BY ConcatProperties
<1>2. m \in Nat /\ n \in Nat
  BY LenProperties
<1> HIDE DEF m, n
<1>3. ASSUME \A k \in 1 .. m + n : At(words, i + k - 1) = (s \o t)[k]
      PROVE  /\ \A k \in 1 .. m : At(words, i + k - 1) = s[k]
             /\ \A k \in 1 .. n : At(words, i + m + k - 1) = t[k]
  <2>1. ASSUME NEW k \in 1 .. m
        PROVE  At(words, i + k - 1) = s[k]
    <3>1. k \in 1 .. m + n /\ k <= m
      BY <1>2
    <3> QED BY <1>1, <1>3, <3>1
  <2>2. ASSUME NEW k \in 1 .. n
        PROVE  At(words, i + m + k - 1) = t[k]
    <3>1. m + k \in 1 .. m + n /\ ~(m + k <= m) /\ (m + k) - m = k /\ i + (m + k) - 1 = i + m + k - 1
      BY <1>2
    <3> QED BY <1>1, <1>3, <3>1
  <2> QED BY <2>1, <2>2
<1>4. ASSUME \A k \in 1 .. m : At(words, i + k - 1) = s[k],
             \A k \in 1 .. n : At(words, i + m + k - 1) = t[k],
             NEW k \in 1 .. m + n
      PROVE  At(words, i + k - 1) = (s \o t)[k]
  <2>1. CASE k <= m
    <3>1. k \in 1 .. m
      BY <1>2, <2>1
    <3> QED BY <1>1, <1>4, <2>1, <3>1
  <2>2. CASE ~(k <= m)
    <3>1. k - m \in 1 .. n /\ i + m + (k - m) - 1 = i + k - 1
      BY <1>2, <2>2
    <3> QED BY <1>1, <1>4, <2>2, <3>1
  <2> QED BY <2>1, <2>2
<1> QED BY <1>1, <1>2, <1>3, <1>4 DEF Fits, m, n

\* A phrase of one word, or of two.
LEMMA FitsWords ==
  ASSUME NEW W, NEW v \in W, NEW w \in W, NEW words, NEW i \in Int
  PROVE  /\ <<v>> \in Seq(W) /\ Len(<<v>>) = 1 /\ <<v>>[1] = v
         /\ <<v, w>> \in Seq(W) /\ Len(<<v, w>>) = 2 /\ <<v, w>>[1] = v
         /\ Fits(words, i, <<v>>) <=> At(words, i) = v
         /\ Fits(words, i, <<v, w>>) <=> At(words, i) = v /\ At(words, i + 1) = w
<1>1. /\ <<v>> \in Seq(W) /\ Len(<<v>>) = 1 /\ <<v>>[1] = v
      /\ <<v, w>> \in Seq(W) /\ Len(<<v, w>>) = 2 /\ <<v, w>>[1] = v /\ <<v, w>>[2] = w
  OBVIOUS
<1>2. i + 1 - 1 = i /\ i + 2 - 1 = i + 1 /\ 1 .. 1 = {1} /\ 1 .. 2 = {1, 2}
  OBVIOUS
<1>3. Fits(words, i, <<v>>) <=> At(words, i) = v
  BY <1>1, <1>2 DEF Fits
<1>4. Fits(words, i, <<v, w>>) <=> At(words, i) = v /\ At(words, i + 1) = w
  BY <1>1, <1>2 DEF Fits
<1> QED BY <1>1, <1>3, <1>4

\* A phrase that is there is a part of the transcript, and the other way round.
LEMMA FitsIsPart ==
  ASSUME NEW words \in Seq(STRING), NEW W, words \in Seq(W),
         NEW i \in DOMAIN words, NEW l \in i .. Len(words)
  PROVE  /\ \A s : s = SubSeq(words, i, l) =>
              s \in Seq(W) /\ Len(s) = l - i + 1 /\ Fits(words, i, s)
         /\ \A s \in Seq(W) : Len(s) = l - i + 1 /\ Fits(words, i, s) => s = SubSeq(words, i, l)
<1> DEFINE p == SubSeq(words, i, l)
<1>1. DOMAIN words = 1 .. Len(words) /\ Len(words) \in Nat
  BY LenProperties
<1>2. i \in Nat /\ i >= 1 /\ l \in Int /\ i <= l /\ l <= Len(words)
  BY <1>1
<1>3. \A k \in i .. l : k \in DOMAIN words /\ words[k] \in W /\ At(words, k) = words[k]
  <2>1. \A k \in DOMAIN words : words[k] \in W
    BY LenProperties
  <2>2. \A k \in i .. l : k \in DOMAIN words
    BY <1>1, <1>2
  <2>3. \A k \in DOMAIN words : At(words, k) = words[k]
    BY DEF At
  <2> QED BY <2>1, <2>2, <2>3
<1>4. p \in Seq(W) /\ Len(p) = l - i + 1 /\ \A k \in 1 .. l - i + 1 : p[k] = words[i + k - 1]
  BY <1>2, <1>3, SubSeqProperties
<1>5. \A k \in 1 .. l - i + 1 : i + k - 1 \in i .. l
  BY <1>2
<1> HIDE DEF p
<1>6. Fits(words, i, p)
  BY <1>3, <1>4, <1>5 DEF Fits
<1>7. ASSUME NEW s \in Seq(W), Len(s) = l - i + 1, Fits(words, i, s)
      PROVE  s = p
  <2>1. \A k \in 1 .. Len(s) : s[k] = p[k]
    BY <1>3, <1>4, <1>5, <1>7 DEF Fits
  <2> QED BY <1>4, <1>7, <2>1, SeqEqual
<1> QED BY <1>4, <1>6, <1>7 DEF p

\* A phrase of one word.
LEMMA FitsWord ==
  ASSUME NEW W, NEW v \in W, NEW words, NEW i \in Int
  PROVE  /\ <<v>> \in Seq(W) /\ Len(<<v>>) = 1
         /\ Fits(words, i, <<v>>) <=> At(words, i) = v
<1>1. <<v>> \in Seq(W) /\ Len(<<v>>) = 1 /\ <<v>>[1] = v
  OBVIOUS
<1>2. i + 1 - 1 = i /\ 1 .. 1 = {1}
  OBVIOUS
<1> QED BY <1>1, <1>2 DEF Fits

\* The list of the numbers under a hundred is right about the words it fits.
LEMMA SmallIsListed ==
  ASSUME NEW words \in Seq(STRING), NEW W, W = ToSet(words), NEW i \in Int
  PROVE  /\ \A u \in SaysUnderHundred(W) :
              /\ u.says \in Seq(W) /\ Len(u.says) \in {1, 2} /\ u.amount \in Nat
              /\ Fits(words, i, u.says) =>
                   Small(words, i, Len(u.says), u.amount) /\ At(words, i) = u.says[1]
         /\ \A n, a : Small(words, i, n, a) =>
              \E u \in SaysUnderHundred(W) :
                Len(u.says) = n /\ u.amount = a /\ Fits(words, i, u.says)
                /\ u.says[1] = At(words, i)
<1> DEFINE first == At(words, i)
           second == At(words, i + 1)
<1>1. \A n, a : Small(words, i, n, a) <=>
        \/ n = 1 /\ first \in DOMAIN Ones /\ a = Ones[first]
        \/ n = 1 /\ first \in DOMAIN Teens /\ a = Teens[first]
        \/ n = 1 /\ first \in DOMAIN Tens /\ a = Tens[first]
        \/ n = 2 /\ first \in DOMAIN Tens /\ second \in DOMAIN Ones
           /\ a = Tens[first] + Ones[second]
  BY DEF Small
<1>2. /\ first \in DOMAIN Ones \cup DOMAIN Teens \cup DOMAIN Tens => first \in W
      /\ second \in DOMAIN Ones => second \in W
  BY OwnWords, Tables DEF NumberWords
<1>11. \A v, w \in W :
         /\ <<v>> \in Seq(W) /\ Len(<<v>>) = 1 /\ <<v>>[1] = v
         /\ <<v, w>> \in Seq(W) /\ Len(<<v, w>>) = 2 /\ <<v, w>>[1] = v
         /\ Fits(words, i, <<v>>) <=> first = v
         /\ Fits(words, i, <<v, w>>) <=> first = v /\ second = w
  BY FitsWords
<1> HIDE DEF first, second
<1> DEFINE Right(u) == /\ u.says \in Seq(W) /\ Len(u.says) \in {1, 2} /\ u.amount \in Nat
                       /\ Fits(words, i, u.says) =>
                            Small(words, i, Len(u.says), u.amount) /\ first = u.says[1]
           One(w, a) == [says |-> <<w>>, amount |-> a]
           Two(v, w, a) == [says |-> <<v, w>>, amount |-> a]
           Means(w, a) == \/ w \in DOMAIN Ones /\ a = Ones[w]
                          \/ w \in DOMAIN Teens /\ a = Teens[w]
                          \/ w \in DOMAIN Tens /\ a = Tens[w]
<1>3. ASSUME NEW w \in W, NEW a, Means(w, a)
      PROVE  /\ Right(One(w, a))
             /\ first = w => LET u == One(w, a)
                             IN  Len(u.says) = 1 /\ u.amount = a /\ Fits(words, i, u.says)
                                 /\ u.says[1] = first
  <2>1. a \in Nat
    BY <1>3, Tables
  <2>2. One(w, a).says = <<w>> /\ One(w, a).amount = a
    OBVIOUS
  <2>3. /\ <<w>> \in Seq(W) /\ Len(<<w>>) = 1 /\ <<w>>[1] = w
        /\ Fits(words, i, <<w>>) <=> first = w
    BY <1>11
  <2>4. first = w => Small(words, i, 1, a)
    BY <1>1, <1>3
  <2> HIDE DEF One
  <2> QED BY <2>1, <2>2, <2>3, <2>4
<1>4. ASSUME NEW v \in W, NEW w \in W, NEW a, v \in DOMAIN Tens, w \in DOMAIN Ones,
             a = Tens[v] + Ones[w]
      PROVE  /\ Right(Two(v, w, a))
             /\ first = v /\ second = w =>
                  LET u == Two(v, w, a)
                  IN  Len(u.says) = 2 /\ u.amount = a /\ Fits(words, i, u.says)
                      /\ u.says[1] = first
  <2>1. a \in Nat
    <3>1. Tens[v] \in Nat /\ Ones[w] \in Nat
      BY <1>4, Tables
    <3> QED BY <1>4, <3>1
  <2>2. Two(v, w, a).says = <<v, w>> /\ Two(v, w, a).amount = a
    OBVIOUS
  <2>3. /\ <<v, w>> \in Seq(W) /\ Len(<<v, w>>) = 2 /\ <<v, w>>[1] = v
        /\ Fits(words, i, <<v, w>>) <=> first = v /\ second = w
    BY <1>11
  <2>4. first = v /\ second = w => Small(words, i, 2, a)
    BY <1>1, <1>4
  <2> HIDE DEF Two
  <2> QED BY <2>1, <2>2, <2>3, <2>4
<1>5. SaysUnderHundred(W) =
        {One(w, Ones[w]) : w \in W \cap DOMAIN Ones}
        \cup {One(w, Teens[w]) : w \in W \cap DOMAIN Teens}
        \cup {One(w, Tens[w]) : w \in W \cap DOMAIN Tens}
        \cup {Two(v, w, Tens[v] + Ones[w]) : v \in W \cap DOMAIN Tens, w \in W \cap DOMAIN Ones}
  BY DEF SaysUnderHundred
<1>10. /\ \A w \in DOMAIN Ones : Means(w, Ones[w])
       /\ \A w \in DOMAIN Teens : Means(w, Teens[w])
       /\ \A w \in DOMAIN Tens : Means(w, Tens[w])
  OBVIOUS
<1> HIDE DEF One, Two, Means, Right
<1>6. \A u \in SaysUnderHundred(W) :
        \/ \E w \in W \cap DOMAIN Ones : u = One(w, Ones[w])
        \/ \E w \in W \cap DOMAIN Teens : u = One(w, Teens[w])
        \/ \E w \in W \cap DOMAIN Tens : u = One(w, Tens[w])
        \/ \E v \in W \cap DOMAIN Tens, w \in W \cap DOMAIN Ones :
             u = Two(v, w, Tens[v] + Ones[w])
  BY <1>5
<1>7. /\ \A w \in W \cap DOMAIN Ones : One(w, Ones[w]) \in SaysUnderHundred(W)
      /\ \A w \in W \cap DOMAIN Teens : One(w, Teens[w]) \in SaysUnderHundred(W)
      /\ \A w \in W \cap DOMAIN Tens : One(w, Tens[w]) \in SaysUnderHundred(W)
      /\ \A v \in W \cap DOMAIN Tens, w \in W \cap DOMAIN Ones :
           Two(v, w, Tens[v] + Ones[w]) \in SaysUnderHundred(W)
  BY <1>5
<1>8. ASSUME NEW u \in SaysUnderHundred(W)
      PROVE  Right(u)
  <2>1. ASSUME NEW w \in W \cap DOMAIN Ones, u = One(w, Ones[w]) PROVE Right(u)
    BY <1>3, <1>10, <2>1
  <2>2. ASSUME NEW w \in W \cap DOMAIN Teens, u = One(w, Teens[w]) PROVE Right(u)
    BY <1>3, <1>10, <2>2
  <2>3. ASSUME NEW w \in W \cap DOMAIN Tens, u = One(w, Tens[w]) PROVE Right(u)
    BY <1>3, <1>10, <2>3
  <2>4. ASSUME NEW v \in W \cap DOMAIN Tens, NEW w \in W \cap DOMAIN Ones,
               u = Two(v, w, Tens[v] + Ones[w])
        PROVE  Right(u)
    BY <1>4, <2>4
  <2> QED BY <1>6, <2>1, <2>2, <2>3, <2>4
<1>9. ASSUME NEW n, NEW a, Small(words, i, n, a)
      PROVE  \E u \in SaysUnderHundred(W) :
               Len(u.says) = n /\ u.amount = a /\ Fits(words, i, u.says) /\ u.says[1] = first
  <2>1. CASE n = 1 /\ first \in DOMAIN Ones /\ a = Ones[first]
    BY <1>2, <1>3, <1>7, <1>10, <2>1
  <2>2. CASE n = 1 /\ first \in DOMAIN Teens /\ a = Teens[first]
    BY <1>2, <1>3, <1>7, <1>10, <2>2
  <2>3. CASE n = 1 /\ first \in DOMAIN Tens /\ a = Tens[first]
    BY <1>2, <1>3, <1>7, <1>10, <2>3
  <2>4. CASE n = 2 /\ first \in DOMAIN Tens /\ second \in DOMAIN Ones
             /\ a = Tens[first] + Ones[second]
    BY <1>2, <1>4, <1>7, <2>4
  <2> QED BY <1>1, <1>9, <2>1, <2>2, <2>3, <2>4
<1> QED BY <1>8, <1>9 DEF Right, first

\* An amount by way of hundreds, in a hundred's own words.
Hundreds(words, i, n, b, j, a) ==
  /\ At(words, i + n) = "hundred"
  /\ \/ j = i + n + 1 /\ a = 100 * b
     \/ \E m \in {1, 2}, c \in Nat :
          Small(words, i + n + 1, m, c) /\ j = i + n + 1 + m /\ a = 100 * b + c

\* The words of an amount are in the tables or "hundred".
LEMMA SpokenWords ==
  ASSUME NEW words, NEW i \in Int, NEW j, NEW a, Spoken(words, i, j, a)
  PROVE  /\ j \in Int /\ i < j
         /\ \A k \in i .. j - 1 : At(words, k) \in NumberWords \cup {"hundred"} /\ k \in DOMAIN words
<1> DEFINE Good(k) == At(words, k) \in NumberWords \cup {"hundred"} /\ k \in DOMAIN words
<1>1. \A k : At(words, k) = "hundred" => Good(k)
  BY AtWord, Tables
<1>2. \A h \in Int : \A n, b : Small(words, h, n, b) =>
        n \in {1, 2} /\ \A k \in h .. h + n - 1 : Good(k)
  BY SmallIsSaid
<1>3. ASSUME NEW n \in {1, 2}, NEW b \in Nat, Small(words, i + 1, n, b), j = i + 1 + n,
             At(words, i) \in DOMAIN Ones
      PROVE  j \in Int /\ i < j /\ \A k \in i .. j - 1 : Good(k)
  <2>1. Good(i)
    BY <1>3, AtWord, Tables DEF NumberWords
  <2>2. \A k \in i + 1 .. i + 1 + n - 1 : Good(k)
    BY <1>2, <1>3
  <2> HIDE DEF Good
  <2>3. \A k \in i .. j - 1 : k = i \/ k \in i + 1 .. i + 1 + n - 1
    BY <1>3
  <2> QED BY <1>3, <2>1, <2>2, <2>3
<1>4. ASSUME NEW n \in {1, 2}, NEW b \in Nat, Small(words, i, n, b),
             Hundreds(words, i, n, b, j, a)
      PROVE  j \in Int /\ i < j /\ \A k \in i .. j - 1 : Good(k)
  <2>1. Good(i + n)
    BY <1>1, <1>4 DEF Hundreds
  <2>2. \A k \in i .. i + n - 1 : Good(k)
    BY <1>2, <1>4
  <2>3. CASE j = i + n + 1
    <3> HIDE DEF Good
    <3>1. \A k \in i .. j - 1 : k = i + n \/ k \in i .. i + n - 1
      BY <2>3
    <3> QED BY <2>1, <2>2, <2>3, <3>1
  <2>4. ASSUME NEW m \in {1, 2}, NEW c \in Nat, Small(words, i + n + 1, m, c),
               j = i + n + 1 + m
        PROVE  j \in Int /\ i < j /\ \A k \in i .. j - 1 : Good(k)
    <3>1. \A k \in i + n + 1 .. i + n + 1 + m - 1 : Good(k)
      BY <1>2, <2>4
    <3> HIDE DEF Good
    <3>2. \A k \in i .. j - 1 :
            k = i + n \/ k \in i .. i + n - 1 \/ k \in i + n + 1 .. i + n + 1 + m - 1
      BY <2>4
    <3> QED BY <2>1, <2>2, <2>4, <3>1, <3>2
  <2> QED BY <1>4, <2>3, <2>4 DEF Hundreds
<1> QED BY <1>3, <1>4 DEF Spoken, Hundreds

\* A phrase of the list that is there is an amount.
LEMMA ListedIsSpoken ==
  ASSUME NEW words \in Seq(STRING), NEW W, W = ToSet(words), NEW i \in Int,
         NEW s \in SaysAmount(W), Fits(words, i, s.says)
  PROVE  s.says \in Seq(W) /\ Spoken(words, i, i + Len(s.says), s.amount)
<1> DEFINE small == SaysUnderHundred(W)
           Is(says, amount) == s.says = says /\ s.amount = amount
           Goal == s.says \in Seq(W) /\ Spoken(words, i, i + Len(s.says), s.amount)
<1>1. \/ \E u \in W \cap DOMAIN Ones, v \in small :
           v.says[1] \in DOMAIN Tens /\ Is(<<u>> \o v.says, 100 * Ones[u] + v.amount)
      \/ "hundred" \in W /\ \E u \in small : Is(Append(u.says, "hundred"), 100 * u.amount)
      \/ "hundred" \in W /\ \E u, v \in small :
           Is(u.says \o <<"hundred">> \o v.says, 100 * u.amount + v.amount)
  <2> DEFINE Meaning(says, amount) == [says |-> says, amount |-> amount]
             hundreds == IF "hundred" \in W THEN small ELSE {}
             A == {Meaning(<<u>> \o v.says, 100 * Ones[u] + v.amount) :
                     u \in W \cap DOMAIN Ones, v \in {w \in small : w.says[1] \in DOMAIN Tens}}
             B == {Meaning(Append(u.says, "hundred"), 100 * u.amount) : u \in hundreds}
             C == {Meaning(u.says \o <<"hundred">> \o v.says, 100 * u.amount + v.amount) :
                     u \in hundreds, v \in small}
  <2>1. SaysAmount(W) = A \cup B \cup C
    BY DEF SaysAmount
  <2>2. \A says, amount : s = Meaning(says, amount) => Is(says, amount)
    OBVIOUS
  <2> HIDE DEF Meaning, small, Is
  <2>3. \/ \E u \in W \cap DOMAIN Ones, v \in {w \in small : w.says[1] \in DOMAIN Tens} :
             s = Meaning(<<u>> \o v.says, 100 * Ones[u] + v.amount)
        \/ \E u \in hundreds : s = Meaning(Append(u.says, "hundred"), 100 * u.amount)
        \/ \E u \in hundreds, v \in small :
             s = Meaning(u.says \o <<"hundred">> \o v.says, 100 * u.amount + v.amount)
    <3>1. s \in A \/ s \in B \/ s \in C
      <4> HIDE DEF A, B, C
      <4> QED BY <2>1
    <3> QED BY <3>1
  <2>4. \A u \in hundreds : "hundred" \in W /\ u \in small
    OBVIOUS
  <2> HIDE DEF hundreds
  <2> QED BY <2>2, <2>3, <2>4, Zenon
<1>8. \A h \in Int, p, q \in Seq(W) :
         /\ p \o q \in Seq(W) /\ Len(p \o q) = Len(p) + Len(q)
         /\ Len(p) \in Nat /\ Len(q) \in Nat
         /\ Fits(words, h, p \o q) <=> Fits(words, h, p) /\ Fits(words, h + Len(p), q)
  BY FitsInParts
<1>2. \A h \in Int, u \in small :
        /\ u.says \in Seq(W) /\ Len(u.says) \in {1, 2} /\ u.amount \in Nat
        /\ Fits(words, h, u.says) =>
             Small(words, h, Len(u.says), u.amount) /\ At(words, h) = u.says[1]
  BY SmallIsListed
<1> HIDE DEF small
<1>3. ASSUME NEW u \in W \cap DOMAIN Ones, NEW v \in small, v.says[1] \in DOMAIN Tens,
             Is(<<u>> \o v.says, 100 * Ones[u] + v.amount)
      PROVE  Goal
  <2> DEFINE n == Len(v.says)
             t == <<u>>
  <2>1. t \in Seq(W) /\ Len(t) = 1 /\ (Fits(words, i, t) <=> At(words, i) = u)
    BY FitsWord
  <2>2. v.says \in Seq(W) /\ n \in {1, 2} /\ v.amount \in Nat
    BY <1>2
  <2>3. /\ s.says \in Seq(W) /\ Len(s.says) = 1 + n
        /\ At(words, i) = u /\ Fits(words, i + 1, v.says)
    <3> HIDE DEF t
    <3>1. s.says = t \o v.says
      BY <1>3 DEF t
    <3>2. Fits(words, i, t \o v.says)
      BY <3>1
    <3>3. /\ t \o v.says \in Seq(W) /\ Len(t \o v.says) = 1 + n
          /\ Fits(words, i, t) /\ Fits(words, i + 1, v.says)
      BY <1>8, <2>1, <2>2, <3>2
    <3> QED BY <2>1, <3>1, <3>3
  <2>4. Small(words, i + 1, n, v.amount) /\ At(words, i + 1) = v.says[1]
    BY <1>2, <2>3
  <2> HIDE DEF n
  <2>5. i + Len(s.says) = i + 1 + n
    BY <2>2, <2>3
  <2>6. \E k \in {1, 2}, b \in Nat :
          Small(words, i + 1, k, b) /\ i + Len(s.says) = i + 1 + k
          /\ s.amount = 100 * Ones[At(words, i)] + b
    BY <1>3, <2>2, <2>3, <2>4, <2>5
  <2> QED BY <1>3, <2>3, <2>4, <2>6 DEF Spoken
<1>4. ASSUME "hundred" \in W, NEW u \in small
      PROVE  LET t == u.says \o <<"hundred">>
             IN  /\ t = Append(u.says, "hundred") /\ t \in Seq(W) /\ Len(t) = Len(u.says) + 1
                 /\ Fits(words, i, t) =>
                      /\ Small(words, i, Len(u.says), u.amount)
                      /\ At(words, i + Len(u.says)) = "hundred"
  <2> DEFINE n == Len(u.says)
  <2>1. u.says \in Seq(W) /\ n \in {1, 2} /\ u.amount \in Nat
    BY <1>2
  <2>2. i + n \in Int
    BY <2>1
  <2>3. /\ <<"hundred">> \in Seq(W) /\ Len(<<"hundred">>) = 1
        /\ Fits(words, i + n, <<"hundred">>) <=> At(words, i + n) = "hundred"
    BY <1>4, <2>2, FitsWord
  <2>4. Append(u.says, "hundred") = u.says \o <<"hundred">>
    BY <1>4, <2>1, AppendIsConcat
  <2>5. LET t == u.says \o <<"hundred">>
        IN  /\ t \in Seq(W) /\ Len(t) = Len(u.says) + 1
            /\ Fits(words, i, t) => Fits(words, i, u.says) /\ Fits(words, i + n, <<"hundred">>)
    BY <1>8, <2>1, <2>3
  <2> QED BY <1>2, <2>3, <2>4, <2>5
<1>5. ASSUME NEW u \in small, Small(words, i, Len(u.says), u.amount),
             Hundreds(words, i, Len(u.says), u.amount, i + Len(s.says), s.amount)
      PROVE  Spoken(words, i, i + Len(s.says), s.amount)
  <2>1. Len(u.says) \in {1, 2} /\ u.amount \in Nat
    BY <1>2
  <2> QED BY <1>5, <2>1 DEF Spoken, Hundreds
<1>6. ASSUME "hundred" \in W, NEW u \in small, Is(Append(u.says, "hundred"), 100 * u.amount)
      PROVE  Goal
  <2> DEFINE n == Len(u.says)
  <2>1. /\ s.says \in Seq(W) /\ Len(s.says) = n + 1
        /\ Small(words, i, n, u.amount) /\ At(words, i + n) = "hundred"
    BY <1>4, <1>6
  <2>2. n \in {1, 2} /\ u.amount \in Nat
    BY <1>2
  <2>3. i + Len(s.says) = i + n + 1
    BY <2>1, <2>2
  <2>4. Hundreds(words, i, n, u.amount, i + Len(s.says), s.amount)
    BY <1>6, <2>1, <2>3 DEF Hundreds
  <2> QED BY <1>5, <2>1, <2>4
<1>7. ASSUME "hundred" \in W, NEW u \in small, NEW v \in small,
             Is(u.says \o <<"hundred">> \o v.says, 100 * u.amount + v.amount)
      PROVE  Goal
  <2> DEFINE n == Len(u.says)
             m == Len(v.says)
             t == u.says \o <<"hundred">>
  <2>1. /\ t \in Seq(W) /\ Len(t) = n + 1
        /\ Fits(words, i, t) => Small(words, i, n, u.amount) /\ At(words, i + n) = "hundred"
    BY <1>4, <1>7
  <2>2. n \in {1, 2} /\ u.amount \in Nat /\ v.says \in Seq(W) /\ m \in {1, 2} /\ v.amount \in Nat
    BY <1>2
  <2>3. s.says = t \o v.says /\ s.amount = 100 * u.amount + v.amount
    BY <1>7
  <2> HIDE DEF t
  <2>4. /\ s.says \in Seq(W) /\ Len(s.says) = Len(t) + m
        /\ Fits(words, i, t) /\ Fits(words, i + Len(t), v.says)
    <3>1. Fits(words, i, t \o v.says)
      BY <2>3
    <3>2. /\ t \o v.says \in Seq(W) /\ Len(t \o v.says) = Len(t) + m
          /\ Fits(words, i, t) /\ Fits(words, i + Len(t), v.says)
      BY <1>8, <2>1, <2>2, <3>1
    <3> QED BY <2>3, <3>2
  <2>5. i + Len(t) = i + n + 1 /\ i + n + 1 \in Int /\ i + Len(s.says) = i + n + 1 + m
    <3> HIDE DEF n, m
    <3>1. Len(t) = n + 1 /\ n \in Int /\ m \in Int /\ Len(s.says) = n + 1 + m
      BY <2>1, <2>2, <2>4
    <3> QED BY <3>1
  <2>6. Small(words, i + n + 1, m, v.amount)
    BY <1>2, <2>4, <2>5
  <2>7. Hundreds(words, i, n, u.amount, i + Len(s.says), s.amount)
    BY <2>1, <2>2, <2>3, <2>4, <2>5, <2>6 DEF Hundreds
  <2> QED BY <1>5, <2>1, <2>4, <2>7
<1> QED BY <1>1, <1>3, <1>6, <1>7

\* An amount that is there is in the list.
LEMMA SpokenIsListed ==
  ASSUME NEW words \in Seq(STRING), NEW W, W = ToSet(words), NEW i \in Int, NEW j, NEW a,
         Spoken(words, i, j, a)
  PROVE  \E t \in Seq(W) :
           [says |-> t, amount |-> a] \in SaysAmount(W) /\ Fits(words, i, t) /\ j = i + Len(t)
<1> DEFINE small == SaysUnderHundred(W)
           Meaning(says, amount) == [says |-> says, amount |-> amount]
           Listed == \E t \in Seq(W) :
                       Meaning(t, a) \in SaysAmount(W) /\ Fits(words, i, t) /\ j = i + Len(t)
<1>1. /\ \A u \in W \cap DOMAIN Ones, v \in small :
           v.says[1] \in DOMAIN Tens =>
             Meaning(<<u>> \o v.says, 100 * Ones[u] + v.amount) \in SaysAmount(W)
      /\ "hundred" \in W => \A u \in small :
           Meaning(Append(u.says, "hundred"), 100 * u.amount) \in SaysAmount(W)
      /\ "hundred" \in W => \A u, v \in small :
           Meaning(u.says \o <<"hundred">> \o v.says, 100 * u.amount + v.amount) \in SaysAmount(W)
  <2> DEFINE hundreds == IF "hundred" \in W THEN small ELSE {}
             A == {Meaning(<<u>> \o v.says, 100 * Ones[u] + v.amount) :
                     u \in W \cap DOMAIN Ones, v \in {w \in small : w.says[1] \in DOMAIN Tens}}
             B == {Meaning(Append(u.says, "hundred"), 100 * u.amount) : u \in hundreds}
             C == {Meaning(u.says \o <<"hundred">> \o v.says, 100 * u.amount + v.amount) :
                     u \in hundreds, v \in small}
  <2>1. SaysAmount(W) = A \cup B \cup C
    BY DEF SaysAmount
  <2>2. "hundred" \in W => hundreds = small
    OBVIOUS
  <2> HIDE DEF Meaning, small, hundreds
  <2>3. \A u \in W \cap DOMAIN Ones, v \in small :
          v.says[1] \in DOMAIN Tens => Meaning(<<u>> \o v.says, 100 * Ones[u] + v.amount) \in A
    OBVIOUS
  <2>4. \A u \in hundreds : Meaning(Append(u.says, "hundred"), 100 * u.amount) \in B
    OBVIOUS
  <2>5. \A u \in hundreds, v \in small :
          Meaning(u.says \o <<"hundred">> \o v.says, 100 * u.amount + v.amount) \in C
    OBVIOUS
  <2> HIDE DEF A, B, C
  <2> QED BY <2>1, <2>2, <2>3, <2>4, <2>5
<1>2. \A u \in small :
        u.says \in Seq(W) /\ Len(u.says) \in {1, 2} /\ u.amount \in Nat
  BY SmallIsListed
<1>3. \A h \in Int : \A n, b : Small(words, h, n, b) =>
        \E u \in small :
          Len(u.says) = n /\ u.amount = b /\ Fits(words, h, u.says) /\ u.says[1] = At(words, h)
  BY SmallIsListed
<1>4. \A h \in Int, p, q \in Seq(W) :
         /\ p \o q \in Seq(W) /\ Len(p \o q) = Len(p) + Len(q)
         /\ Len(p) \in Nat /\ Len(q) \in Nat
         /\ Fits(words, h, p \o q) <=> Fits(words, h, p) /\ Fits(words, h + Len(p), q)
  BY FitsInParts
<1>5. \A h \in Int, v \in W :
        /\ <<v>> \in Seq(W) /\ Len(<<v>>) = 1
        /\ Fits(words, h, <<v>>) <=> At(words, h) = v
  BY FitsWord
<1> HIDE DEF small, Meaning
<1>6. ASSUME At(words, i) \in DOMAIN Ones, At(words, i + 1) \in DOMAIN Tens,
             NEW n \in {1, 2}, NEW b \in Nat, Small(words, i + 1, n, b),
             j = i + 1 + n, a = 100 * Ones[At(words, i)] + b
      PROVE  Listed
  <2> DEFINE first == At(words, i)
             t == <<first>>
  <2>1. first \in W
    BY <1>6, OwnWords, Tables DEF NumberWords
  <2>2. t \in Seq(W) /\ Len(t) = 1 /\ Fits(words, i, t)
    BY <1>5, <2>1
  <2>3. PICK v \in small : Len(v.says) = n /\ v.amount = b /\ Fits(words, i + 1, v.says)
                           /\ v.says[1] = At(words, i + 1)
    BY <1>3, <1>6
  <2>4. Meaning(t \o v.says, a) \in SaysAmount(W)
    BY <1>1, <1>6, <2>1, <2>3
  <2> HIDE DEF t
  <2>5. t \o v.says \in Seq(W) /\ Len(t \o v.says) = 1 + n /\ Fits(words, i, t \o v.says)
    <3>1. v.says \in Seq(W) /\ Len(v.says) = n
      BY <1>2, <2>3
    <3>2. t \o v.says \in Seq(W) /\ Len(t \o v.says) = Len(t) + Len(v.says)
          /\ (Fits(words, i, t \o v.says) <=>
                 Fits(words, i, t) /\ Fits(words, i + Len(t), v.says))
      BY <1>4, <2>2, <3>1
    <3> QED BY <2>2, <2>3, <3>1, <3>2
  <2>6. j = i + Len(t \o v.says)
    BY <1>6, <2>5
  <2> QED BY <2>4, <2>5, <2>6
<1>7. ASSUME NEW n \in {1, 2}, NEW b \in Nat, Small(words, i, n, b),
             Hundreds(words, i, n, b, j, a)
      PROVE  Listed
  <2> DEFINE h == <<"hundred">>
  <2>1. PICK u \in small : Len(u.says) = n /\ u.amount = b /\ Fits(words, i, u.says)
    BY <1>3, <1>7
  <2>2. At(words, i + n) = "hundred" /\ "hundred" \in W
    BY <1>7, OwnWords, Tables DEF Hundreds
  <2>3. h \in Seq(W) /\ Len(h) = 1 /\ Fits(words, i + n, h)
    BY <1>5, <2>2
  <2>4. Append(u.says, "hundred") = u.says \o h
    BY <1>2, <2>2, AppendIsConcat
  <2> DEFINE t == u.says \o h
  <2>5. /\ Meaning(t, 100 * b) \in SaysAmount(W)
        /\ \A v \in small : Meaning(t \o v.says, 100 * b + v.amount) \in SaysAmount(W)
    BY <1>1, <2>1, <2>2, <2>4
  <2> HIDE DEF h
  <2>6. t \in Seq(W) /\ Len(t) = n + 1 /\ Fits(words, i, t)
    <3>1. u.says \in Seq(W) /\ Len(u.says) = n
      BY <1>2, <2>1
    <3>2. u.says \o h \in Seq(W) /\ Len(u.says \o h) = Len(u.says) + Len(h)
          /\ (Fits(words, i, u.says \o h) <=>
                 Fits(words, i, u.says) /\ Fits(words, i + Len(u.says), h))
      BY <1>4, <2>3, <3>1
    <3> QED BY <2>1, <2>3, <3>1, <3>2
  <2> HIDE DEF t
  <2>7. CASE j = i + n + 1 /\ a = 100 * b
    <3>1. j = i + Len(t)
      BY <2>6, <2>7
    <3> QED BY <2>5, <2>6, <2>7, <3>1
  <2>8. ASSUME NEW m \in {1, 2}, NEW c \in Nat, Small(words, i + n + 1, m, c),
               j = i + n + 1 + m, a = 100 * b + c
        PROVE  Listed
    <3>1. i + n + 1 \in Int /\ i + (n + 1) = i + n + 1 /\ i + (n + 1 + m) = i + n + 1 + m
      OBVIOUS
    <3>2. PICK v \in small : Len(v.says) = m /\ v.amount = c /\ Fits(words, i + n + 1, v.says)
      BY <1>3, <2>8, <3>1
    <3>3. Meaning(t \o v.says, a) \in SaysAmount(W)
      BY <2>5, <2>8, <3>2
    <3>4. t \o v.says \in Seq(W) /\ Len(t \o v.says) = n + 1 + m /\ Fits(words, i, t \o v.says)
      BY <1>2, <1>4, <2>6, <3>1, <3>2
    <3>5. j = i + Len(t \o v.says)
      BY <2>8, <3>1, <3>4
    <3> QED BY <3>3, <3>4, <3>5
  <2> QED BY <1>7, <2>7, <2>8 DEF Hundreds
<1>8. Listed
  BY <1>6, <1>7 DEF Spoken, Hundreds
<1> QED BY <1>8 DEF Meaning

\* A reading of a phrase is one of the amounts that begin at its first word, and the
\* longest of them.
LEMMA PhraseReads ==
  ASSUME NEW words \in Seq(STRING), NEW i \in DOMAIN words, NEW r, r = ReadPhrase(words, i)
  PROVE  /\ i \in Int /\ r.amount \in Nat
         /\ r.amount > 0 => Spoken(words, i, r.next, r.amount)
         /\ \A j, a : Spoken(words, i, j, a) => r.amount > 0 /\ j \in Int /\ j <= r.next
<1>1. i \in Int
  BY LenProperties
<1> QED BY <1>1, ShortReads, HundredReads

\* The reader of spoken amounts agrees with the list of the ways to say one.
LEMMA HintsMean ==
  ASSUME NEW words \in Seq(STRING)
  PROVE  HintsMeanWhatTheySay(words)
<1> DEFINE W == ToSet(words)
           said == SaysAmount(W)
           phrases == {s.says : s \in said}
<1> SUFFICES ASSUME NEW hint \in SpokenHints(words)
             PROVE  /\ [says |-> PhraseOf(words, hint), amount |-> hint.amount] \in said
                    /\ \A last \in hint.next .. Len(words) :
                         SubSeq(words, hint.start, last) \notin phrases
  BY DEF HintsMeanWhatTheySay
<1>1. PICK i \in DOMAIN words : hint = HintAt(words, i) /\ hint.amount > 0
  BY DEF SpokenHints
<1> DEFINE r == ReadPhrase(words, i)
<1>2. hint.start = i /\ hint.next = r.next /\ hint.amount = r.amount /\ r.amount > 0
  BY <1>1 DEF HintAt
<1>3. /\ i \in Int /\ r.amount \in Nat
      /\ Spoken(words, i, r.next, r.amount)
      /\ \A j, a : Spoken(words, i, j, a) => j \in Int /\ j <= r.next
  BY <1>2, PhraseReads
<1>4. words \in Seq(W) /\ DOMAIN words = 1 .. Len(words) /\ Len(words) \in Nat
  BY OwnWords
<1> HIDE DEF W, said, r
<1>5. /\ r.next \in Int /\ i < r.next
      /\ \A k \in i .. r.next - 1 : k \in DOMAIN words
  BY <1>3, SpokenWords
<1>6. r.next - 1 \in i .. Len(words)
  <2>1. r.next - 1 \in i .. r.next - 1
    BY <1>3, <1>5
  <2>2. r.next - 1 \in DOMAIN words
    BY <1>5, <2>1
  <2> QED BY <1>4, <2>1, <2>2
<1>7. [says |-> PhraseOf(words, hint), amount |-> hint.amount] \in said
  <2>1. PICK t \in Seq(W) :
          [says |-> t, amount |-> r.amount] \in said /\ Fits(words, i, t) /\ r.next = i + Len(t)
    BY <1>3, SpokenIsListed DEF W, said
  <2>2. Len(t) \in Nat
    BY LenProperties
  <2> DEFINE l == r.next - 1
  <2>3. Len(t) = l - i + 1 /\ l \in i .. Len(words)
    BY <1>3, <1>5, <1>6, <2>1, <2>2
  <2> HIDE DEF l
  <2>4. t = SubSeq(words, i, l)
    BY <1>4, <2>1, <2>3, FitsIsPart
  <2> QED BY <1>2, <2>1, <2>4 DEF PhraseOf, l
<1>8. ASSUME NEW last \in hint.next .. Len(words), SubSeq(words, hint.start, last) \in phrases
      PROVE  FALSE
  <2>1. PICK s \in said : s.says = SubSeq(words, i, last)
    BY <1>2, <1>8
  <2>2. last \in i .. Len(words) /\ last \in Int /\ r.next <= last
    BY <1>2, <1>3, <1>4, <1>5
  <2>3. Fits(words, i, s.says) /\ Len(s.says) = last - i + 1
    <3>1. \A t : t = SubSeq(words, i, last) =>
            t \in Seq(W) /\ Len(t) = last - i + 1 /\ Fits(words, i, t)
      BY <1>4, <2>2, FitsIsPart
    <3> QED BY <2>1, <3>1
  <2>4. Spoken(words, i, i + Len(s.says), s.amount)
    BY <1>3, <2>3, ListedIsSpoken DEF W, said
  <2>5. i + (last - i + 1) = last + 1
    BY <1>3, <2>2
  <2>6. last + 1 <= r.next
    BY <1>3, <2>3, <2>4, <2>5
  <2> QED BY <1>5, <2>2, <2>6
<1> QED BY <1>7, <1>8

\* An amount with "dollars" behind it and nothing against it is heard to its end.
LEMMA DollarsHeard ==
  ASSUME NEW words \in Seq(STRING)
  PROVE  DollarsAreHeard(words)
<1> DEFINE W == ToSet(words)
           said == SaysAmount(W)
           phrases == {s.says : s \in said}
<1> SUFFICES ASSUME NEW start \in DOMAIN words, NEW last \in DOMAIN words, start <= last,
                    At(words, last + 1) = "dollars",
                    At(words, start - 1) \notin AdjacencySkip \cup {"around", "about", "at"},
                    At(words, last + 2) \notin StreetWords,
                    SubSeq(words, start, last) \in phrases
             PROVE  \E hint \in SpokenHints(words) : hint.start = start /\ hint.next = last + 1
  BY DEF DollarsAreHeard
<1> DEFINE r == ReadPhrase(words, start)
           hint == HintAt(words, start)
<1>1. words \in Seq(W) /\ DOMAIN words = 1 .. Len(words) /\ Len(words) \in Nat
  BY OwnWords
<1> HIDE DEF W, said
<1>2. PICK s \in said : s.says = SubSeq(words, start, last)
  OBVIOUS
<1>3. start \in Int /\ last \in start .. Len(words) /\ last \in Int
  BY <1>1
<1>4. Fits(words, start, s.says) /\ Len(s.says) = last - start + 1
  <2>1. \A t : t = SubSeq(words, start, last) =>
          t \in Seq(W) /\ Len(t) = last - start + 1 /\ Fits(words, start, t)
    BY <1>1, <1>3, FitsIsPart
  <2> QED BY <1>2, <2>1
<1>5. Spoken(words, start, start + Len(s.says), s.amount)
  BY <1>3, <1>4, ListedIsSpoken DEF W, said
<1>6. start + Len(s.says) = last + 1
  BY <1>3, <1>4
<1>7. /\ r.amount \in Nat
      /\ r.amount > 0 => Spoken(words, start, r.next, r.amount)
      /\ \A j, a : Spoken(words, start, j, a) => r.amount > 0 /\ j \in Int /\ j <= r.next
  BY PhraseReads
<1> HIDE DEF r
<1>8. r.amount > 0 /\ last + 1 <= r.next
  BY <1>5, <1>6, <1>7
<1>9. r.next \in Int /\ \A k \in start .. r.next - 1 : At(words, k) \in NumberWords \cup {"hundred"}
  BY <1>3, <1>7, <1>8, SpokenWords
<1>10. r.next = last + 1
  <2>1. ASSUME last + 1 < r.next PROVE FALSE
    <3>1. last + 1 \in start .. r.next - 1
      BY <1>3, <1>9, <2>1
    <3>2. "dollars" \in NumberWords \cup {"hundred"}
      BY <1>9, <3>1
    <3> QED BY <3>2, Tables
  <2> QED BY <1>3, <1>8, <1>9, <2>1
<1>11. last + 1 + 1 = last + 2
  BY <1>3
<1>12. ~NextToNoMoney(words, start, r.next)
  <2>1. "dollars" \notin AdjacencySkip /\ "dollars" # "bucks"
    BY DEF AdjacencySkip, StreetWords, TimeWords
  <2> QED BY <1>10, <1>11, <2>1 DEF NextToNoMoney
<1>13. ~LooksLikeTime(words, start, r.next)
  <2>1. "dollars" \notin TimeWords
    BY DEF TimeWords
  <2> QED BY <1>10, <2>1 DEF LooksLikeTime
<1>14. HasMoneyContext(words, start, r.next)
  BY <1>10 DEF HasMoneyContext
<1>15. hint.amount = r.amount /\ hint.start = start /\ hint.next = r.next
  BY <1>8, <1>12, <1>13, <1>14 DEF HintAt, r
<1>16. hint \in SpokenHints(words)
  BY <1>8, <1>15 DEF SpokenHints
<1> QED BY <1>10, <1>15, <1>16

\* The reader of spoken amounts (_extract_spoken_money_hints) agrees with the list of
\* the ways to say an amount, for every transcript: what it hears is such a phrase, to
\* its end and for what it means, and a phrase with "dollars" behind it is not missed.
THEOREM AmountsAlwaysHeard == DraftSpec => []AmountsAreHeardRight
<1>1. DraftInv => AmountsAreHeardRight
  <2> SUFFICES ASSUME DraftInv, stage = "asked"
               PROVE  HintsMeanWhatTheySay(capture.words) /\ DollarsAreHeard(capture.words)
    BY DEF AmountsAreHeardRight
  <2>1. capture \in Captures
    BY DEF DraftInv
  <2>2. capture.words \in Seq(STRING)
    BY <2>1, DraftContentAssumption, Zenon
  <2> QED BY <2>2, HintsMean, DollarsHeard
<1> QED BY <1>1, DraftInvHolds, PTL

(***************************************************************************)
(* EditHistory                                                             *)
(***************************************************************************)
-------------------------------------------------------------------------------
(* The inductive invariant.  Besides what was promised to the edits of the *)
(* log, it says what the edits under way still know.                       *)

IsLog(l) ==
  /\ \E S : l \in Seq(S)
  /\ \A i \in DOMAIN l : l[i].read \in 0 .. i - 1

\* The columns d are those that the call loaded, but where an edit of the log that it
\* has not read, beyond the first n, set them.
ColumnsKnown(l, d, call, n) ==
  \A f \in OwnColumns :
    (\A j \in DOMAIN l : j > n => ~Sets(l[j], f)) => d[f] = call.seen[f]

\* What a call that has loaded the row when the log had n edits knows of it
Knows(l, d, before, call, n) ==
  /\ call # NoCall => n \in 0 .. Len(l)
  /\ call.op = "update" => ColumnsKnown(l, d, call, n)
  /\ call.op = "review" => /\ ReviewsStand(l, call.seen, n)
                           /\ SidecarAsked(l, call.seen, before)

HistoryInv ==
  /\ DraftInv
  /\ IsLog(log)
  /\ DOMAIN began = Calls
  /\ AnsweredEditsStand
  /\ \A c \in Calls : Knows(log, doc, made.review, calls[c], began[c])

-------------------------------------------------------------------------------
(* A log that grows *)

\* An entry is appended behind all the others.
LEMMA Appended ==
  ASSUME NEW l, IsLog(l), NEW e, e.read \in 0 .. Len(l)
  PROVE  /\ IsLog(Append(l, e))
         /\ Len(l) \in Nat /\ DOMAIN l = 1 .. Len(l)
         /\ Len(Append(l, e)) = Len(l) + 1 /\ DOMAIN Append(l, e) = 1 .. Len(l) + 1
         /\ \A i \in DOMAIN l : Append(l, e)[i] = l[i]
         /\ Append(l, e)[Len(l) + 1] = e
<1>1. PICK S : l \in Seq(S)
  BY DEF IsLog
<1> DEFINE T == S \cup {e}
           k == Append(l, e)
<1>2. l \in Seq(T) /\ e \in T
  BY <1>1
<1> HIDE DEF T
<1>3. /\ Len(l) \in Nat /\ DOMAIN l = 1 .. Len(l)
      /\ k \in Seq(T) /\ Len(k) = Len(l) + 1
      /\ \A i \in 1 .. Len(l) : k[i] = l[i]
      /\ k[Len(l) + 1] = e
  BY <1>2, AppendProperties
<1>4. DOMAIN k = 1 .. Len(l) + 1
  BY <1>3
<1> HIDE DEF k
<1>5. \A i \in DOMAIN k : k[i].read \in 0 .. i - 1
  <2> TAKE i \in DOMAIN k
  <2>1. CASE i \in DOMAIN l
    BY <1>3, <2>1 DEF IsLog
  <2>2. CASE i \notin DOMAIN l
    <3>1. i = Len(l) + 1
      BY <1>3, <1>4, <2>2
    <3> QED BY <1>3, <3>1
  <2> QED BY <2>1, <2>2
<1>6. IsLog(k)
  BY <1>3, <1>5 DEF IsLog
<1> QED BY <1>3, <1>4, <1>6 DEF k

\* What an edit has read stands however the log goes on.
LEMMA StandsOn ==
  ASSUME NEW l, IsLog(l), NEW e, e.read \in 0 .. Len(l), NEW r, NEW n \in 0 .. Len(l),
         ReviewsStand(l, r, n)
  PROVE  ReviewsStand(Append(l, e), r, n)
<1> DEFINE k == Append(l, e)
<1>1. /\ Len(l) \in Nat /\ DOMAIN l = 1 .. Len(l) /\ DOMAIN k = 1 .. Len(l) + 1
      /\ \A i \in DOMAIN l : k[i] = l[i]
  BY Appended
<1> HIDE DEF k
<1> SUFFICES ASSUME NEW i \in Reviews(k), i <= n
             PROVE  \/ InEffect(k[i].patch, r)
                    \/ \E j \in Reviews(k) : i < j /\ j <= n /\ k[j].read < i
  BY DEF ReviewsStand, k
<1>2. i \in DOMAIN l
  BY <1>1 DEF Reviews
<1>3. i \in Reviews(l) /\ k[i] = l[i]
  BY <1>1, <1>2 DEF Reviews
<1>4. CASE InEffect(l[i].patch, r)
  BY <1>3, <1>4
<1>5. CASE \E j \in Reviews(l) : i < j /\ j <= n /\ l[j].read < i
  <2>1. PICK j \in Reviews(l) : i < j /\ j <= n /\ l[j].read < i
    BY <1>5
  <2>2. k[j] = l[j] /\ j \in Reviews(k)
    BY <1>1 DEF Reviews
  <2> QED BY <2>1, <2>2
<1> QED BY <1>3, <1>4, <1>5 DEF ReviewsStand

\* An edit of the columns leaves the sidecar alone.
LEMMA StandsBeside ==
  ASSUME NEW l, IsLog(l), NEW e, e.read \in 0 .. Len(l), e.op # "review", NEW r,
         ReviewsStand(l, r, Len(l))
  PROVE  ReviewsStand(Append(l, e), r, Len(l) + 1)
<1> DEFINE k == Append(l, e)
<1>1. /\ Len(l) \in Nat /\ DOMAIN l = 1 .. Len(l) /\ DOMAIN k = 1 .. Len(l) + 1
      /\ k[Len(l) + 1] = e
  BY Appended
<1>2. ReviewsStand(k, r, Len(l))
  BY <1>1, StandsOn
<1> HIDE DEF k
<1>3. \A i \in Reviews(k) : i <= Len(l)
  <2> TAKE i \in Reviews(k)
  <2>1. i \in 1 .. Len(l) + 1 /\ k[i].op = "review"
    BY <1>1 DEF Reviews
  <2>2. i # Len(l) + 1
    BY <1>1, <2>1
  <2> QED BY <1>1, <2>1, <2>2
<1>4. \A i \in Reviews(k) : i \in Nat
  BY <1>1 DEF Reviews
<1>5. ReviewsStand(k, r, Len(l) + 1)
  <2> SUFFICES ASSUME NEW i \in Reviews(k)
               PROVE  \/ InEffect(k[i].patch, r)
                      \/ \E j \in Reviews(k) : i < j /\ j <= Len(l) + 1 /\ k[j].read < i
    BY DEF ReviewsStand
  <2>1. \/ InEffect(k[i].patch, r)
        \/ \E j \in Reviews(k) : i < j /\ j <= Len(l) /\ k[j].read < i
    BY <1>2, <1>3 DEF ReviewsStand
  <2>2. CASE InEffect(k[i].patch, r)
    BY <2>2
  <2>3. CASE \E j \in Reviews(k) : i < j /\ j <= Len(l) /\ k[j].read < i
    <3>1. PICK j \in Reviews(k) : i < j /\ j <= Len(l) /\ k[j].read < i
      BY <2>3
    <3>2. j <= Len(l) + 1
      BY <1>1, <1>4, <3>1
    <3> QED BY <3>1, <3>2
  <2> QED BY <2>1, <2>2, <2>3
<1> QED BY <1>5 DEF k

\* What a request makes of a sidecar
LEMMA ReviewedFields ==
  ASSUME NEW seen, ReviewFits(seen), NEW patch, patch.notes \in BOOLEAN,
         patch.pricing \in BOOLEAN
  PROVE  LET r == Reviewed(seen, patch)
         IN  /\ r.hidden = seen.hidden /\ r.seeded = seen.seeded /\ r.degraded = seen.degraded
             /\ r.dismissed = seen.dismissed \cup patch.dismiss
             /\ r.notes_pending = (seen.notes_pending /\ ~patch.notes)
             /\ r.pricing_pending = (seen.pricing_pending /\ ~patch.pricing)
<1>1. DOMAIN seen = {"hidden", "dismissed", "notes_pending", "pricing_pending", "seeded", "degraded"}
  BY DEF ReviewFits, NoReview
<1> QED BY <1>1 DEF Reviewed

\* A request is in effect in what it writes, and what was in effect stays so.
LEMMA EffectOfReview ==
  ASSUME NEW seen, ReviewFits(seen), NEW patch, patch.notes \in BOOLEAN,
         patch.pricing \in BOOLEAN
  PROVE  /\ InEffect(patch, Reviewed(seen, patch))
         /\ \A other : InEffect(other, seen) => InEffect(other, Reviewed(seen, patch))
<1> DEFINE r == Reviewed(seen, patch)
<1>1. /\ r.dismissed = seen.dismissed \cup patch.dismiss
      /\ r.notes_pending = (seen.notes_pending /\ ~patch.notes)
      /\ r.pricing_pending = (seen.pricing_pending /\ ~patch.pricing)
  BY ReviewedFields
<1>2. seen.notes_pending \in BOOLEAN /\ seen.pricing_pending \in BOOLEAN
  BY DEF ReviewFits
<1> HIDE DEF r
<1>3. InEffect(patch, r)
  BY <1>1, <1>2 DEF InEffect
<1>4. ASSUME NEW other, InEffect(other, seen)
      PROVE  InEffect(other, r)
  <2>1. other.dismiss \subseteq r.dismissed
    BY <1>1, <1>4 DEF InEffect
  <2>2. r.notes_pending => seen.notes_pending
    BY <1>1, <1>2
  <2>3. r.pricing_pending => seen.pricing_pending
    BY <1>1, <1>2
  <2> QED BY <1>4, <2>1, <2>2, <2>3 DEF InEffect
<1> QED BY <1>3, <1>4 DEF r

\* A review writes over those that it has not read, and no other.
LEMMA StandsReviewed ==
  ASSUME NEW l, IsLog(l), NEW e, e.op = "review", e.read \in 0 .. Len(l),
         NEW seen, ReviewFits(seen), ReviewsStand(l, seen, e.read),
         e.patch.notes \in BOOLEAN, e.patch.pricing \in BOOLEAN
  PROVE  ReviewsStand(Append(l, e), Reviewed(seen, e.patch), Len(l) + 1)
<1> DEFINE k == Append(l, e)
           r == Reviewed(seen, e.patch)
           n == e.read
<1>1. n \in Nat /\ IsLog(l) /\ n \in 0 .. Len(l)
  <2>1. PICK S : l \in Seq(S)
    BY DEF IsLog
  <2> QED BY <2>1
<1>2. /\ Len(l) \in Nat /\ DOMAIN l = 1 .. Len(l) /\ DOMAIN k = 1 .. Len(l) + 1
      /\ k[Len(l) + 1] = e
  BY <1>1, Appended
<1>3. ReviewsStand(k, seen, n)
  BY <1>1, StandsOn
<1>4. InEffect(e.patch, r) /\ \A other : InEffect(other, seen) => InEffect(other, r)
  BY EffectOfReview
<1> HIDE DEF k, r
<1>5. Len(l) + 1 \in Reviews(k)
  BY <1>2 DEF Reviews
<1> SUFFICES ASSUME NEW i \in Reviews(k), i <= Len(l) + 1
             PROVE  \/ InEffect(k[i].patch, r)
                    \/ \E j \in Reviews(k) : i < j /\ j <= Len(l) + 1 /\ k[j].read < i
  BY DEF ReviewsStand, k, r
<1>6. i \in 1 .. Len(l) + 1 /\ \A j \in Reviews(k) : j \in Nat
  BY <1>2 DEF Reviews
<1>7. CASE i = Len(l) + 1
  BY <1>2, <1>4, <1>7
<1>8. CASE n < i /\ i # Len(l) + 1
  <2>1. i < Len(l) + 1 /\ k[Len(l) + 1].read < i
    BY <1>2, <1>6, <1>8
  <2> QED BY <1>2, <1>5, <2>1
<1>9. CASE i <= n
  <2>1. CASE InEffect(k[i].patch, seen)
    BY <1>4, <2>1
  <2>2. CASE \E j \in Reviews(k) : i < j /\ j <= n /\ k[j].read < i
    <3>1. PICK j \in Reviews(k) : i < j /\ j <= n /\ k[j].read < i
      BY <2>2
    <3>2. j <= Len(l) + 1
      BY <1>1, <1>2, <1>6, <3>1
    <3> QED BY <3>1, <3>2
  <2> QED BY <1>3, <1>9, <2>1, <2>2 DEF ReviewsStand
<1> QED BY <1>1, <1>6, <1>7, <1>8, <1>9

\* Nothing unasked happens to a sidecar while other edits are committed.
LEMMA AskedOn ==
  ASSUME NEW l, IsLog(l), NEW e, e.read \in 0 .. Len(l), NEW r, NEW before, SidecarAsked(l, r, before)
  PROVE  SidecarAsked(Append(l, e), r, before)
<1> DEFINE k == Append(l, e)
<1>1. /\ Len(l) \in Nat /\ DOMAIN l = 1 .. Len(l) /\ DOMAIN k = 1 .. Len(l) + 1
      /\ \A i \in DOMAIN l : k[i] = l[i]
  BY Appended
<1> HIDE DEF k
<1>2. \A i \in Reviews(l) : i \in Reviews(k) /\ k[i] = l[i]
  BY <1>1 DEF Reviews
<1>3. UNION {l[i].patch.dismiss : i \in Reviews(l)} \subseteq UNION {k[i].patch.dismiss : i \in Reviews(k)}
  BY <1>2
<1>4. /\ (\E i \in Reviews(l) : l[i].patch.notes) => \E i \in Reviews(k) : k[i].patch.notes
      /\ (\E i \in Reviews(l) : l[i].patch.pricing) => \E i \in Reviews(k) : k[i].patch.pricing
  BY <1>2
<1>5. SidecarAsked(k, r, before)
  BY <1>3, <1>4 DEF SidecarAsked
<1> QED BY <1>5 DEF k

\* A review does what it was asked for, and nothing else.
LEMMA AskedReviewed ==
  ASSUME NEW l, IsLog(l), NEW e, e.op = "review", e.read \in 0 .. Len(l),
         NEW seen, ReviewFits(seen), NEW before, SidecarAsked(l, seen, before),
         e.patch.notes \in BOOLEAN, e.patch.pricing \in BOOLEAN
  PROVE  SidecarAsked(Append(l, e), Reviewed(seen, e.patch), before)
<1> DEFINE k == Append(l, e)
           r == Reviewed(seen, e.patch)
<1>1. /\ Len(l) \in Nat /\ DOMAIN k = 1 .. Len(l) + 1 /\ k[Len(l) + 1] = e
  BY Appended
<1>2. SidecarAsked(k, seen, before)
  BY AskedOn
<1>3. /\ r.hidden = seen.hidden /\ r.seeded = seen.seeded /\ r.degraded = seen.degraded
      /\ r.dismissed = seen.dismissed \cup e.patch.dismiss
      /\ r.notes_pending = (seen.notes_pending /\ ~e.patch.notes)
      /\ r.pricing_pending = (seen.pricing_pending /\ ~e.patch.pricing)
  BY ReviewedFields
<1>4. seen.notes_pending \in BOOLEAN /\ seen.pricing_pending \in BOOLEAN
  BY DEF ReviewFits
<1> HIDE DEF k, r
<1>5. Len(l) + 1 \in Reviews(k)
  BY <1>1 DEF Reviews
<1>6. e.patch.dismiss \subseteq UNION {k[i].patch.dismiss : i \in Reviews(k)}
  BY <1>1, <1>5
<1>7. /\ e.patch.notes => \E i \in Reviews(k) : k[i].patch.notes
      /\ e.patch.pricing => \E i \in Reviews(k) : k[i].patch.pricing
  BY <1>1, <1>5
<1>8. r.dismissed \subseteq before.dismissed \cup UNION {k[i].patch.dismiss : i \in Reviews(k)}
  BY <1>2, <1>3, <1>6 DEF SidecarAsked
<1>9. /\ r.notes_pending => before.notes_pending
      /\ before.notes_pending => r.notes_pending \/ \E i \in Reviews(k) : k[i].patch.notes
  <2>1. /\ seen.notes_pending => before.notes_pending
        /\ before.notes_pending => seen.notes_pending \/ \E i \in Reviews(k) : k[i].patch.notes
    BY <1>2 DEF SidecarAsked
  <2> QED BY <1>3, <1>4, <1>7, <2>1
<1>10. /\ r.pricing_pending => before.pricing_pending
       /\ before.pricing_pending => r.pricing_pending \/ \E i \in Reviews(k) : k[i].patch.pricing
  <2>1. /\ seen.pricing_pending => before.pricing_pending
        /\ before.pricing_pending => seen.pricing_pending \/ \E i \in Reviews(k) : k[i].patch.pricing
    BY <1>2 DEF SidecarAsked
  <2> QED BY <1>3, <1>4, <1>7, <2>1
<1>11. SidecarAsked(k, r, before)
  BY <1>2, <1>3, <1>8, <1>9, <1>10 DEF SidecarAsked
<1> QED BY <1>11 DEF k, r

\* What an edit sets, and what it leaves alone
LEMMA ColumnsOn ==
  ASSUME NEW l, IsLog(l), NEW e, e.read \in 0 .. Len(l), NEW d, NEW u,
         \A f \in OwnColumns : ~Sets(e, f) => u[f] = d[f]
  PROVE  /\ \A call : \A n \in 0 .. Len(l) :
              ColumnsKnown(l, d, call, n) => ColumnsKnown(Append(l, e), u, call, n)
         /\ \A before : ColumnsAsked(l, d, before) => ColumnsAsked(Append(l, e), u, before)
         /\ /\ PricingStands(l, d)
            /\ \A f \in OwnColumns :
                 /\ Sets(e, f)
                 /\ \A j \in DOMAIN l : j > e.read => ~Sets(l[j], f)
                 => u[f] = ZeroIsNull(e.patch[f])
            => PricingStands(Append(l, e), u)
<1> DEFINE k == Append(l, e)
           m == Len(l) + 1
<1>1. /\ Len(l) \in Nat /\ DOMAIN l = 1 .. Len(l) /\ DOMAIN k = 1 .. m
      /\ \A i \in DOMAIN l : k[i] = l[i]
      /\ k[m] = e
  BY Appended
<1> HIDE DEF k
<1>2. m \in DOMAIN k /\ \A i \in DOMAIN l : i \in DOMAIN k /\ i # m /\ i \in Nat
  BY <1>1
<1>3. \A i \in DOMAIN k : i = m \/ i \in DOMAIN l
  BY <1>1
<1>4. ASSUME NEW call, NEW n \in 0 .. Len(l), ColumnsKnown(l, d, call, n)
      PROVE  ColumnsKnown(k, u, call, n)
  <2> SUFFICES ASSUME NEW f \in OwnColumns, \A j \in DOMAIN k : j > n => ~Sets(k[j], f)
               PROVE  u[f] = call.seen[f]
    BY DEF ColumnsKnown
  <2>1. ~Sets(e, f)
    <3>1. m > n
      BY <1>1
    <3> QED BY <1>1, <1>2, <3>1
  <2>2. \A j \in DOMAIN l : j > n => ~Sets(l[j], f)
    BY <1>1, <1>2
  <2> QED BY <1>4, <2>1, <2>2 DEF ColumnsKnown
<1>5. ASSUME NEW before, ColumnsAsked(l, d, before)
      PROVE  ColumnsAsked(k, u, before)
  <2> SUFFICES ASSUME NEW f \in OwnColumns, \A j \in DOMAIN k : ~Sets(k[j], f)
               PROVE  u[f] = before[f]
    BY DEF ColumnsAsked
  <2>1. ~Sets(e, f)
    BY <1>1, <1>2
  <2>2. \A j \in DOMAIN l : ~Sets(l[j], f)
    BY <1>1, <1>2
  <2> QED BY <1>5, <2>1, <2>2 DEF ColumnsAsked
<1>6. ASSUME PricingStands(l, d),
             \A f \in OwnColumns :
               /\ Sets(e, f)
               /\ \A j \in DOMAIN l : j > e.read => ~Sets(l[j], f)
               => u[f] = ZeroIsNull(e.patch[f])
      PROVE  PricingStands(k, u)
  <2> SUFFICES ASSUME NEW i \in DOMAIN k, NEW f \in OwnColumns, Sets(k[i], f),
                      \A j \in DOMAIN k \ {i} : j > k[i].read => ~Sets(k[j], f)
               PROVE  u[f] = ZeroIsNull(k[i].patch[f])
    BY DEF PricingStands
  <2>1. CASE i = m
    <3>1. \A j \in DOMAIN l : j > e.read => ~Sets(l[j], f)
      BY <1>1, <1>2, <2>1
    <3> QED BY <1>1, <1>6, <2>1, <3>1
  <2>2. CASE i \in DOMAIN l
    <3>1. k[i] = l[i] /\ m > l[i].read
      BY <1>1, <2>2 DEF IsLog
    <3>2. ~Sets(e, f)
      BY <1>1, <1>2, <2>2, <3>1
    <3>3. \A j \in DOMAIN l \ {i} : j > l[i].read => ~Sets(l[j], f)
      BY <1>1, <1>2, <3>1
    <3>4. d[f] = ZeroIsNull(l[i].patch[f])
      BY <1>6, <2>2, <3>1, <3>3 DEF PricingStands
    <3> QED BY <3>1, <3>2, <3>4
  <2> QED BY <1>3, <2>1, <2>2
<1> QED BY <1>4, <1>5, <1>6 DEF k

\* What an edit writes to a column of its own
LEMMA OwnUpdated ==
  ASSUME NEW d, RowFits(d), NEW call, call.patch \in Patches, RowFits(call.seen),
         NextPricing(call) # Refused, NEW f \in OwnColumns
  PROVE  Updated(d, call)[f] =
           IF f \in DOMAIN call.patch /\ ZeroIsNull(call.patch[f]) # call.seen[f]
             THEN ZeroIsNull(call.patch[f])
             ELSE d[f]
<1> DEFINE next == NextPricing(call)
           asked == AskedPricing(call)
<1>1. next[f] = ZeroIsNull(asked[f])
  BY AskedAsks, Passed DEF NextPricing, OwnColumns
<1>2. f \in DOMAIN call.patch => asked[f] = call.patch[f]
  BY DEF AskedPricing, OwnColumns
<1>3. f \in Assigned(call, next) <=> f \in DOMAIN call.patch
  BY DEF Assigned, OwnColumns
<1>4. f \in DOMAIN d /\ f # "line_items"
  BY DEF RowFits, OwnColumns, PricingFields
<1> HIDE DEF next, asked
<1>5. Updated(d, call)[f] = IF f \in Assigned(call, next) /\ next[f] # call.seen[f]
                              THEN next[f] ELSE d[f]
  BY <1>4 DEF Updated, Written, next
<1> QED BY <1>1, <1>2, <1>3, <1>5

-------------------------------------------------------------------------------
(* The steps *)

\* What a call knows does not depend on the calls beside it.
LEMMA NoCallKnows ==
  ASSUME NEW l, NEW d, NEW before, NEW n
  PROVE  Knows(l, d, before, NoCall, n)
BY DEF Knows, NoCall

\* A new document has a history of its own.
LEMMA BeginsStep ==
  ASSUME HistoryInv, DraftInv', Begins, \A c \in Calls : calls[c] = NoCall, calls' = calls
  PROVE  HistoryInv'
<1>1. log' = <<>> /\ made'.doc = doc' /\ made'.review = review' /\ began' = began
  BY DEF Begins
<1>2. IsLog(<<>>)
  BY DEF IsLog
<1>3. Reviews(<<>>) = {}
  BY DEF Reviews
<1>4. AnsweredEditsStand'
  <2>1. \A r, n : ReviewsStand(<<>>, r, n)
    BY <1>3 DEF ReviewsStand
  <2>2. \A d : PricingStands(<<>>, d)
    BY DEF PricingStands
  <2>3. \A r : SidecarAsked(<<>>, r, r)
    BY DEF SidecarAsked
  <2>4. \A d : ColumnsAsked(<<>>, d, d)
    BY DEF ColumnsAsked
  <2> QED BY <1>1, <2>1, <2>2, <2>3, <2>4 DEF AnsweredEditsStand
<1>5. \A c \in Calls : Knows(log', doc', made'.review, calls'[c], began'[c])
  BY NoCallKnows
<1> QED BY <1>1, <1>2, <1>4, <1>5 DEF HistoryInv

\* An edit that loads the row knows all of the log.
LEMMA LoadsStep ==
  ASSUME HistoryInv, DraftInv', NEW c \in Calls, Loads(c), NEW call,
         calls' = [calls EXCEPT ![c] = call], stage = "made",
         \/ call.op = "update" /\ call.seen = doc
         \/ call.op = "review" /\ call.seen = review,
         UNCHANGED <<stage, doc, review>>
  PROVE  HistoryInv'
<1>1. /\ log' = log /\ made' = made /\ began' = [began EXCEPT ![c] = Len(log)]
      /\ DOMAIN began = Calls /\ DOMAIN calls = Calls
  BY DEF Loads, HistoryInv, DraftInv
<1>2. Len(log) \in Nat /\ DOMAIN log = 1 .. Len(log)
  <2>1. PICK S : log \in Seq(S)
    BY DEF HistoryInv, IsLog
  <2> QED BY <2>1
<1>3. /\ ReviewsStand(log, review, Len(log))
      /\ SidecarAsked(log, review, made.review)
  BY DEF HistoryInv, AnsweredEditsStand
<1>4. Knows(log, doc, made.review, call, Len(log))
  <2>1. call.op = "update" => ColumnsKnown(log, doc, call, Len(log))
    BY DEF ColumnsKnown
  <2> QED BY <1>2, <1>3, <2>1 DEF Knows
<1>5. ASSUME NEW x \in Calls
      PROVE  Knows(log', doc', made'.review, calls'[x], began'[x])
  <2>1. Knows(log, doc, made.review, calls[x], began[x])
    BY DEF HistoryInv
  <2> QED BY <1>1, <1>4, <2>1
<1>6. AnsweredEditsStand'
  BY <1>1 DEF HistoryInv, AnsweredEditsStand
<1> QED BY <1>1, <1>5, <1>6 DEF HistoryInv

\* An edit that was refused knows nothing any more.
LEMMA RefusesStep ==
  ASSUME HistoryInv, DraftInv', NEW c \in Calls, Refuses(c),
         calls' = [calls EXCEPT ![c] = NoCall], UNCHANGED <<stage, doc, review>>
  PROVE  HistoryInv'
<1>1. /\ log' = log /\ made' = made /\ began' = [began EXCEPT ![c] = 0]
      /\ DOMAIN began = Calls /\ DOMAIN calls = Calls
  BY DEF Refuses, HistoryInv, DraftInv
<1>2. ASSUME NEW x \in Calls
      PROVE  Knows(log', doc', made'.review, calls'[x], began'[x])
  <2>1. Knows(log, doc, made.review, calls[x], began[x])
    BY DEF HistoryInv
  <2> QED BY <1>1, <2>1, NoCallKnows
<1>3. AnsweredEditsStand'
  BY <1>1 DEF HistoryInv, AnsweredEditsStand
<1> QED BY <1>1, <1>2, <1>3 DEF HistoryInv

\* An edit of the columns is committed.
LEMMA UpdateLogged ==
  ASSUME HistoryInv, DraftInv', NEW c \in Calls, CommitUpdate(c), Commits(c)
  PROVE  HistoryInv'
<1> DEFINE call == calls[c]
           e == [op |-> calls[c].op, patch |-> calls[c].patch, read |-> began[c]]
<1>1. /\ call.op = "update" /\ DraftInv /\ IsLog(log)
      /\ DOMAIN calls = Calls /\ DOMAIN began = Calls
      /\ calls' = [calls EXCEPT ![c] = NoCall] /\ began' = [began EXCEPT ![c] = 0]
      /\ log' = Append(log, e) /\ made' = made /\ review' = review /\ stage' = stage
  BY DEF CommitUpdate, Commits, HistoryInv, DraftInv
<1>2. CallFits(call)
  BY <1>1 DEF DraftInv
<1>3. call # NoCall /\ call.patch \in Patches /\ RowFits(call.seen)
  BY <1>1, <1>2, NoCallFits
<1>4. stage = "made" /\ RowFits(doc)
  BY <1>1, <1>3, CalledWhenMade
<1>5. NextPricing(call) # Refused /\ doc' = Updated(doc, call)
  BY <1>1, CommitUpdateStep
<1>6. began[c] \in 0 .. Len(log) /\ ColumnsKnown(log, doc, call, began[c])
  BY <1>1, <1>3 DEF HistoryInv, Knows
<1>7. e.op = "update" /\ e.patch = call.patch /\ e.read = began[c]
  BY <1>1
<1> HIDE DEF call, e
<1>8. /\ IsLog(log') /\ Len(log) \in Nat /\ Len(log') = Len(log) + 1
      /\ \A n \in 0 .. Len(log) : n \in 0 .. Len(log')
  BY <1>1, <1>6, <1>7, Appended
<1>9. \A f \in OwnColumns :
        doc'[f] = IF f \in DOMAIN call.patch /\ ZeroIsNull(call.patch[f]) # call.seen[f]
                    THEN ZeroIsNull(call.patch[f]) ELSE doc[f]
  BY <1>3, <1>4, <1>5, OwnUpdated
<1>10. /\ ReviewsStand(log, review, Len(log)) /\ PricingStands(log, doc)
       /\ SidecarAsked(log, review, made.review) /\ ColumnsAsked(log, doc, made.doc)
  BY <1>4 DEF HistoryInv, AnsweredEditsStand
<1>11. \A f \in OwnColumns : ~Sets(e, f) => doc'[f] = doc[f]
  BY <1>7, <1>9 DEF Sets
<1>12. \A f \in OwnColumns :
         /\ Sets(e, f)
         /\ \A j \in DOMAIN log : j > e.read => ~Sets(log[j], f)
         => doc'[f] = ZeroIsNull(e.patch[f])
  <2> SUFFICES ASSUME NEW f \in OwnColumns, Sets(e, f),
                      \A j \in DOMAIN log : j > e.read => ~Sets(log[j], f)
               PROVE  doc'[f] = ZeroIsNull(e.patch[f])
    OBVIOUS
  <2>1. doc[f] = call.seen[f]
    BY <1>6, <1>7 DEF ColumnsKnown
  <2> QED BY <1>7, <1>9, <2>1 DEF Sets
<1>13. /\ PricingStands(log', doc') /\ ColumnsAsked(log', doc', made'.doc)
       /\ \A other : \A n \in 0 .. Len(log) :
            ColumnsKnown(log, doc, other, n) => ColumnsKnown(log', doc', other, n)
  <2>1. e.read \in 0 .. Len(log) /\ PricingStands(log, doc) /\ ColumnsAsked(log, doc, made.doc)
    BY <1>6, <1>7, <1>10
  <2>2. PricingStands(Append(log, e), doc')
    BY <1>1, <1>11, <1>12, <2>1, ColumnsOn
  <2>3. ColumnsAsked(Append(log, e), doc', made.doc)
    BY <1>1, <1>11, <2>1, ColumnsOn
  <2>4. \A other : \A n \in 0 .. Len(log) :
          ColumnsKnown(log, doc, other, n) => ColumnsKnown(Append(log, e), doc', other, n)
    BY <1>1, <1>11, <2>1, ColumnsOn
  <2> QED BY <1>1, <2>2, <2>3, <2>4
<1>14. ReviewsStand(log', review', Len(log')) /\ SidecarAsked(log', review', made'.review)
  BY <1>1, <1>6, <1>7, <1>8, <1>10, StandsBeside, AskedOn
<1>15. ASSUME NEW x \in Calls
       PROVE  Knows(log', doc', made'.review, calls'[x], began'[x])
  <2>1. CASE x = c
    BY <1>1, <2>1, NoCallKnows
  <2>2. CASE x # c
    <3> DEFINE other == calls[x]
               n == began[x]
    <3>1. calls'[x] = other /\ began'[x] = n
      BY <1>1, <2>2
    <3>2. Knows(log, doc, made.review, other, n)
      BY DEF HistoryInv
    <3>3. other.op = "update" \/ other.op = "review" => other # NoCall
      BY DEF NoCall
    <3> HIDE DEF other, n
    <3>4. other.op = "update" => ColumnsKnown(log', doc', other, n)
      BY <1>13, <3>2, <3>3 DEF Knows
    <3>5. ASSUME other.op = "review"
          PROVE  ReviewsStand(log', other.seen, n) /\ SidecarAsked(log', other.seen, made.review)
      <4>1. /\ n \in 0 .. Len(log) /\ ReviewsStand(log, other.seen, n)
            /\ SidecarAsked(log, other.seen, made.review)
        BY <3>2, <3>3, <3>5 DEF Knows
      <4> QED BY <1>1, <1>6, <1>7, <4>1, StandsOn, AskedOn
    <3> QED BY <1>1, <1>8, <3>1, <3>2, <3>4, <3>5 DEF Knows
  <2> QED BY <2>1, <2>2
<1>16. AnsweredEditsStand'
  BY <1>13, <1>14 DEF AnsweredEditsStand
<1> QED BY <1>1, <1>8, <1>15, <1>16 DEF HistoryInv

\* A review is committed.
LEMMA ReviewLogged ==
  ASSUME HistoryInv, DraftInv', NEW c \in Calls, CommitReview(c), Commits(c)
  PROVE  HistoryInv'
<1> DEFINE call == calls[c]
           e == [op |-> calls[c].op, patch |-> calls[c].patch, read |-> began[c]]
<1>1. /\ call.op = "review" /\ DraftInv /\ IsLog(log)
      /\ DOMAIN calls = Calls /\ DOMAIN began = Calls
      /\ calls' = [calls EXCEPT ![c] = NoCall] /\ began' = [began EXCEPT ![c] = 0]
      /\ log' = Append(log, e) /\ made' = made /\ doc' = doc /\ stage' = stage
      /\ review' = Reviewed(call.seen, call.patch)
  BY DEF CommitReview, Commits, HistoryInv, DraftInv
<1>2. CallFits(call)
  BY <1>1 DEF DraftInv
<1>3. /\ call # NoCall /\ ReviewFits(call.seen)
      /\ call.patch.notes \in BOOLEAN /\ call.patch.pricing \in BOOLEAN
  BY <1>1, <1>2, NoCallFits
<1>4. stage = "made"
  BY <1>1, <1>3, CalledWhenMade
<1>5. /\ began[c] \in 0 .. Len(log) /\ ReviewsStand(log, call.seen, began[c])
      /\ SidecarAsked(log, call.seen, made.review)
  BY <1>1, <1>3 DEF HistoryInv, Knows
<1>6. e.op = "review" /\ e.patch = call.patch /\ e.read = began[c]
  BY <1>1
<1> HIDE DEF call, e
<1>7. /\ IsLog(log') /\ Len(log) \in Nat /\ Len(log') = Len(log) + 1
      /\ \A n \in 0 .. Len(log) : n \in 0 .. Len(log')
  BY <1>1, <1>5, <1>6, Appended
<1>8. PricingStands(log, doc) /\ ColumnsAsked(log, doc, made.doc)
  BY <1>4 DEF HistoryInv, AnsweredEditsStand
<1>9. \A f \in OwnColumns : ~Sets(e, f)
  BY <1>6 DEF Sets
<1>10. /\ PricingStands(log', doc') /\ ColumnsAsked(log', doc', made'.doc)
       /\ \A other : \A n \in 0 .. Len(log) :
            ColumnsKnown(log, doc, other, n) => ColumnsKnown(log', doc', other, n)
  BY <1>1, <1>5, <1>6, <1>8, <1>9, ColumnsOn
<1>11. ReviewsStand(log', review', Len(log')) /\ SidecarAsked(log', review', made'.review)
  BY <1>1, <1>3, <1>5, <1>6, <1>7, StandsReviewed, AskedReviewed
<1>12. ASSUME NEW x \in Calls
       PROVE  Knows(log', doc', made'.review, calls'[x], began'[x])
  <2>1. CASE x = c
    BY <1>1, <2>1, NoCallKnows
  <2>2. CASE x # c
    <3> DEFINE other == calls[x]
               n == began[x]
    <3>1. calls'[x] = other /\ began'[x] = n
      BY <1>1, <2>2
    <3>2. Knows(log, doc, made.review, other, n)
      BY DEF HistoryInv
    <3>3. other.op = "update" \/ other.op = "review" => other # NoCall
      BY DEF NoCall
    <3> HIDE DEF other, n
    <3>4. other.op = "update" => ColumnsKnown(log', doc', other, n)
      BY <1>10, <3>2, <3>3 DEF Knows
    <3>5. ASSUME other.op = "review"
          PROVE  ReviewsStand(log', other.seen, n) /\ SidecarAsked(log', other.seen, made.review)
      <4>1. /\ n \in 0 .. Len(log) /\ ReviewsStand(log, other.seen, n)
            /\ SidecarAsked(log, other.seen, made.review)
        BY <3>2, <3>3, <3>5 DEF Knows
      <4> QED BY <1>1, <1>5, <1>6, <4>1, StandsOn, AskedOn
    <3> QED BY <1>1, <1>7, <3>1, <3>2, <3>4, <3>5 DEF Knows
  <2> QED BY <2>1, <2>2
<1>13. AnsweredEditsStand'
  BY <1>10, <1>11 DEF AnsweredEditsStand
<1> QED BY <1>1, <1>7, <1>12, <1>13 DEF HistoryInv

\* The history only looks on: a step is one of the document.
LEMMA HistoryLooksOn ==
  ASSUME [HistoryNext]_historyVars
  PROVE  [DraftNext]_draftVars
<1>1. CASE HistoryNext
  BY <1>1 DEF HistoryNext, DraftNext
<1>2. CASE UNCHANGED historyVars
  BY <1>2 DEF historyVars
<1> QED BY <1>1, <1>2

\* Every step keeps the invariant.
LEMMA HistorySteps ==
  ASSUME HistoryInv, [HistoryNext]_historyVars
  PROVE  HistoryInv'
<1>1. DraftInv'
  BY HistoryLooksOn, DraftSteps DEF HistoryInv
<1>2. DraftInv
  BY DEF HistoryInv
<1>3. stage # "made" => \A c \in Calls : calls[c] = NoCall
  BY <1>2 DEF DraftInv
<1>4. CASE (AnswerFits \/ AskRepair \/ RepairInvalid \/ RepairEscapes) /\ UNCHANGED history
  <2>1. stage = "asked" /\ stage' # "made" /\ calls' = calls
    BY <1>4 DEF AnswerFits, AskRepair, RepairInvalid, RepairEscapes, Extracted
  <2>2. log' = log /\ began' = began
    BY <1>4 DEF history
  <2>3. \A c \in Calls : Knows(log', doc', made'.review, calls'[c], began'[c])
    BY <1>3, <2>1, NoCallKnows
  <2> QED BY <1>1, <2>1, <2>2, <2>3 DEF HistoryInv, AnsweredEditsStand
<1>5. CASE CreateExtractedDraft /\ Begins
  BY <1>1, <1>3, <1>5, BeginsStep DEF CreateExtractedDraft
<1>6. CASE \E kind \in {"quote", "invoice"}, request \in Requests :
             CreateFromRequest(kind, request) /\ Begins
  BY <1>1, <1>3, <1>6, BeginsStep DEF CreateFromRequest
<1>7. CASE DuplicateQuote /\ Begins
  BY <1>1, <1>7, BeginsStep DEF DuplicateQuote
<1>8. ASSUME NEW c \in Calls, NEW patch \in Patches, LoadForUpdate(c, patch) /\ Loads(c)
      PROVE  HistoryInv'
  <2> DEFINE call == [op |-> "update", patch |-> patch, seen |-> doc]
  <2>1. /\ calls' = [calls EXCEPT ![c] = call] /\ stage = "made"
        /\ call.op = "update" /\ call.seen = doc /\ UNCHANGED <<stage, doc, review>>
    BY <1>8 DEF LoadForUpdate, Editable
  <2> HIDE DEF call
  <2> QED BY <1>1, <1>8, <2>1, LoadsStep
<1>9. ASSUME NEW c \in Calls, LoadForReview(c) /\ Loads(c)
      PROVE  HistoryInv'
  <2>1. PICK patch \in ReviewPatches :
          calls' = [calls EXCEPT ![c] = [op |-> "review", patch |-> patch, seen |-> review]]
    BY <1>9 DEF LoadForReview
  <2> DEFINE call == [op |-> "review", patch |-> patch, seen |-> review]
  <2>2. /\ calls' = [calls EXCEPT ![c] = call] /\ stage = "made"
        /\ call.op = "review" /\ call.seen = review /\ UNCHANGED <<stage, doc, review>>
    BY <1>9, <2>1 DEF LoadForReview, Editable
  <2> HIDE DEF call
  <2> QED BY <1>1, <1>9, <2>2, LoadsStep
<1>10. ASSUME NEW c \in Calls, RefuseUpdate(c) /\ Refuses(c)
       PROVE  HistoryInv'
  BY <1>1, <1>10, RefusesStep DEF RefuseUpdate
<1>11. ASSUME NEW c \in Calls, CommitUpdate(c) /\ Commits(c)
       PROVE  HistoryInv'
  BY <1>1, <1>11, UpdateLogged
<1>12. ASSUME NEW c \in Calls, CommitReview(c) /\ Commits(c)
       PROVE  HistoryInv'
  BY <1>1, <1>12, ReviewLogged
<1>13. CASE UNCHANGED historyVars
  BY <1>1, <1>13 DEF historyVars, history, draftVars, HistoryInv, AnsweredEditsStand
<1> QED BY <1>4, <1>5, <1>6, <1>7, <1>8, <1>9, <1>10, <1>11, <1>12, <1>13 DEF HistoryNext

\* It holds at first.
LEMMA HistoryInitially ==
  ASSUME HistoryInit
  PROVE  HistoryInv
<1>1. DraftInv
  BY DraftInitially DEF HistoryInit
<1>2. stage # "made" /\ \A c \in Calls : calls[c] = NoCall
  BY DEF HistoryInit, DraftInit
<1>3. log = <<>> /\ DOMAIN began = Calls
  BY DEF HistoryInit
<1>4. IsLog(<<>>)
  BY DEF IsLog
<1>5. \A c \in Calls : Knows(log, doc, made.review, calls[c], began[c])
  BY <1>2, NoCallKnows
<1> QED BY <1>1, <1>2, <1>3, <1>4, <1>5 DEF HistoryInv, AnsweredEditsStand

\* However edits overlap: an edit of a column is undone only by one of that column, and
\* a review only by one that had read the sidecar before it was committed; nothing
\* happens unasked.  For every sidecar, any patches and any number of callers.
THEOREM AnswersStand == HistorySpec => []AnsweredEditsStand
<1>1. HistoryInit => HistoryInv
  BY HistoryInitially
<1>2. HistoryInv /\ [HistoryNext]_historyVars => HistoryInv'
  BY HistorySteps
<1>3. HistoryInv => AnsweredEditsStand
  BY DEF HistoryInv
<1> QED BY <1>1, <1>2, <1>3, PTL DEF HistorySpec
===============================================================================
