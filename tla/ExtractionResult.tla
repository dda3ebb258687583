--------------------------- MODULE ExtractionResult ---------------------------
(***************************************************************************)
(* From the provider's tool output to an extraction result, and from the   *)
(* result to the pricing, the notes and the review sidecar of a draft, as  *)
(* operators: coercion of older layouts, the semantic guard with its       *)
(* spoken-money correction, the initial pricing.                           *)
(*                                                                         *)
(* A text is the sequence of its words, the numbers in it (in mills) and   *)
(* whether it says a currency or "price" or "total"; texts that are equal  *)
(* here are the ones that are equal once trimmed and case-folded.  An      *)
(* object of the payload is a function from the keys it has.  Confidence,  *)
(* the raw text of an item beyond its words and the pipeline version are   *)
(* left out.                                                               *)
(***************************************************************************)
EXTENDS Pricing, SpokenMoney, FiniteSetsExt

Text(words) == [words |-> words, prices |-> <<>>, marker |-> FALSE]
IsBlank(text) == text.words = <<>>

SpokenMoneyCorrection == "spoken_money_correction"
TotalWithoutPricedItems == Text(<<"Explicit", "total", "without", "priced", "items">>)
TotalConflicts == Text(<<"Total", "conflicts", "with", "line-item", "subtotal">>)
TotalNeedsReview == Text(<<"Total", "needs", "review">>)

HintFields ==
  {"explicit_total", "deposit_amount", "tax_rate", "discount_type", "discount_value"}

-------------------------------------------------------------------------------
(* Coercion of the tool output *)

NotGiven == [f \in {} |-> Null]

\* A key of the payload; Null when it is absent or is not of the expected type
Key(payload, k) == IF k \in DOMAIN payload THEN payload[k] ELSE Null

SourceOfReason ==
  [ambiguous_scope |-> "leftover_classification",
   possible_conflict |-> "transcript_conflict",
   unplaced_content |-> "leftover_classification"]

\* A source the table does not have becomes "unplaced_content"
ReasonOfSource ==
  [leftover_classification |-> "unplaced_content",
   typed_conflict |-> "possible_conflict",
   transcript_conflict |-> "possible_conflict",
   unknown |-> "unplaced_content"]

CoercedHints(payload) ==
  LET candidates == Key(payload, "pricing_candidates")
      legacy == IF Key(payload, "pricing_hints") = Null
                  THEN NotGiven ELSE payload.pricing_hints
      total == Key(payload, "total")
  IN  CASE candidates # Null -> candidates
        [] candidates = Null /\ (total = Null \/ "explicit_total" \in DOMAIN legacy) -> legacy
        [] OTHER -> [f \in DOMAIN legacy \cup {"explicit_total"} |->
                       IF f \in DOMAIN legacy THEN legacy[f] ELSE total]

CoercedUnresolved(payload) ==
  IF Key(payload, "unresolved_items") # Null
    THEN payload.unresolved_items
    ELSE IF Key(payload, "unresolved_segments") = Null
      THEN {}
      ELSE {[text |-> s.text, reason |-> ReasonOfSource[s.source]] :
              s \in {r \in payload.unresolved_segments : ~IsBlank(r.text)}}

Coerced(payload) ==
  [line_items |-> IF Key(payload, "line_items") = Null THEN <<>> ELSE payload.line_items,
   hints |-> LET given == CoercedHints(payload)
             IN  [f \in HintFields |-> Key(given, f)],
   notes |-> IF Key(payload, "notes_candidate") # Null
               THEN payload.notes_candidate
               ELSE Key(payload, "customer_notes_suggestion"),
   unresolved |-> CoercedUnresolved(payload)]

\* The candidate schema lets a blank text pass, the segment built from it does not.
BuildFails(candidate) == \E item \in candidate.unresolved : IsBlank(item.text)

-------------------------------------------------------------------------------
(* The semantic guard *)

\* raw_text, description and details, in one text
ItemWords(item) ==
  LET details == IF item.details = Null THEN <<>> ELSE item.details.words
  IN  (IF details = <<>> THEN item.desc.words ELSE details) \o item.desc.words \o details

Says(words, phrase) ==
  \E i \in 0 .. (Len(words) - Len(phrase)) : SubSeq(words, i + 1, i + Len(phrase)) = phrase

\* Prices are in mills, spoken amounts in dollars: the price was read as cents
LooksLikeCentsMisread(price, amount) ==
  price # Null /\ amount >= 100 /\ price * 100 = amount * 1000

\* The item a hint is about, 0 for none: the first that repeats its phrase, or
\* the only one whose price could be a misreading of it.
MatchIndex(words, hint, items, used) ==
  LET free == DOMAIN items \ used
      repeats == {i \in free : Says(ItemWords(items[i]), PhraseOf(words, hint))}
      misread == {i \in free \ repeats : LooksLikeCentsMisread(items[i].price, hint.amount)}
  IN  CASE repeats # {} -> Min(repeats)
        [] repeats = {} /\ Cardinality(misread) = 1 -> Min(misread)
        [] OTHER -> 0

\* Mutant: an item that was flagged already gets no new reason.
CorrectOneFlagsOnce(words, done, hint) ==
  LET i == MatchIndex(words, hint, done.items, done.used)
      fits == i # 0 /\ LooksLikeCentsMisread(done.items[i].price, hint.amount)
  IN  [items |-> IF fits
                   THEN [done.items EXCEPT ![i].price = 1000 * hint.amount,
                                           ![i].flagged = TRUE,
                                           ![i].flag_reason = IF done.items[i].flagged
                                                                THEN @ ELSE SpokenMoneyCorrection]
                   ELSE done.items,
       used |-> done.used \cup ({i} \ {0})]

CorrectOne(words, done, hint) ==
  LET i == MatchIndex(words, hint, done.items, done.used)
      fits == i # 0 /\ LooksLikeCentsMisread(done.items[i].price, hint.amount)
  IN  [items |-> IF fits
                   THEN [done.items EXCEPT ![i].price = 1000 * hint.amount,
                                           ![i].flagged = TRUE,
                                           ![i].flag_reason = SpokenMoneyCorrection]
                   ELSE done.items,
       used |-> done.used \cup ({i} \ {0})]

Heed(words, done, hint) ==
  IF hint.amount > 0 THEN CorrectOne(words, done, hint) ELSE done

\* What the hints at the first words have done, in the order of those words
Corrections(items, words) ==
  LET done[n \in 0 .. Len(words)] ==
        IF n = 0
          THEN [items |-> items, used |-> {}]
          ELSE Heed(words, done[n - 1], HintAt(words, n))
  IN  done

CorrectedItems(items, words) == Corrections(items, words)[Len(words)].items

\* Flags some of the items; the first reason of each is kept.
Flagged(items, which, reason) ==
  [i \in DOMAIN items |->
     IF i \in which
       THEN [items[i] EXCEPT !.flagged = TRUE,
                             !.flag_reason = IF @ = Null THEN reason ELSE @]
       ELSE items[i]]

PriceIsInDescription(item) ==
  LET tokens == item.desc.prices
  IN  /\ tokens # <<>>
      /\ item.price # Null =>
           /\ \A k \in DOMAIN tokens : AbsOf(tokens[k] - item.price) >= 10
           /\ Len(tokens) # 1 \/ item.desc.marker

HasTwin(items, i) ==
  /\ ~IsBlank(items[i].desc)
  /\ \E j \in DOMAIN items \ {i} : /\ items[j].desc = items[i].desc
                                   /\ items[j].price = items[i].price

PriceTokensFlagged(items) ==
  Flagged(items, {i \in DOMAIN items : PriceIsInDescription(items[i])}, "price_tokens")

SameDetailsFlagged(items) ==
  Flagged(items, {i \in DOMAIN items : items[i].details = items[i].desc}, "same_details")

TwinsFlagged(items) == Flagged(items, {i \in DOMAIN items : HasTwin(items, i)}, "duplicate")

GuardedItems(given, words) ==
  TwinsFlagged(SameDetailsFlagged(PriceTokensFlagged(CorrectedItems(given, words))))

\* An extraction result.  long: the transcript has 120 characters and 18 words
Guarded(candidate, words, long) ==
  LET items == candidate.line_items
      segments == {[text |-> u.text, source |-> SourceOfReason[u.reason]] :
                     u \in candidate.unresolved}
      unplaced == /\ candidate.hints.explicit_total # Null
                  /\ items # <<>>
                  /\ \A i \in DOMAIN items : items[i].price = Null
  IN  [line_items |-> GuardedItems(items, words),
       hints |-> candidate.hints,
       notes |-> IF candidate.notes = Null THEN Null
                 ELSE IF IsBlank(candidate.notes) THEN Null ELSE candidate.notes,
       unresolved |-> segments \cup
          (IF unplaced
             THEN {[text |-> TotalWithoutPricedItems, source |-> "leftover_classification"]}
             ELSE {}),
       degraded |-> IF items = <<>> /\ long THEN "semantic_empty_line_items" ELSE Null]

\* What a repair that failed too leaves of a capture: its transcript
RepairFailedResult ==
  [line_items |-> <<>>, hints |-> [f \in HintFields |-> Null], notes |-> Null,
   unresolved |-> {}, degraded |-> "validation_repair_failed"]

-------------------------------------------------------------------------------
(* The notes of a draft *)

StopWords == {"a", "an", "and", "at", "for", "from", "in", "is", "it", "of", "on", "or",
              "the", "to", "with"}
PricingTokens == {"amount", "cost", "dollar", "dollars", "price", "priced", "subtotal",
                  "tax", "total"}
UncertaintyTokens == {"check", "confirm", "conflict", "maybe", "unclear", "unknown", "verify"}

Meaningful(words) == {w \in ToSet(words) : w \notin StopWords /\ Len(w) > 2}

Overlaps(note, words) ==
  /\ words # <<>>
  /\ \/ Says(words, note) \/ Says(note, words)
     \/ LET common == Cardinality(Meaningful(note) \cap Meaningful(words))
            smaller == Min({Cardinality(Meaningful(note)), Cardinality(Meaningful(words))})
        IN  common >= 3 /\ 10 * common >= 6 * smaller

IsRedundant(note, result) ==
  \/ Meaningful(note) = {}
  \/ Meaningful(note) \cap PricingTokens # {}
  \/ \E i \in DOMAIN result.line_items :
       LET item == result.line_items[i]
       IN  Overlaps(note, item.desc.words
                          \o (IF item.details = Null THEN <<>> ELSE item.details.words))
  \/ \E segment \in result.unresolved : Overlaps(note, segment.text.words)
  \/ result.unresolved # {} /\ Meaningful(note) \cap UncertaintyTokens # {}

SeededNotes(result) ==
  IF result.notes = Null THEN Null
  ELSE IF IsRedundant(result.notes.words, result) THEN Null ELSE result.notes

-------------------------------------------------------------------------------
(* The pricing of a draft *)

\* Mutant: with priced items the spoken total is not looked at.
InitialTotalOfItems(result) ==
  LET hints == result.hints
      lineSum == LineSum(result.line_items)
      plain == hints.tax_rate = Null /\ {hints.discount_type, hints.discount_value} \cap {Null} # {}
      spoken == IF lineSum = Null THEN hints.explicit_total ELSE Null
  IN  [total |-> IF lineSum # Null THEN lineSum ELSE IF plain THEN spoken ELSE Null,
       seeded |-> plain /\ spoken # Null,
       hide |-> IF ~plain /\ spoken # Null THEN {TotalNeedsReview} ELSE {}]

\* The total a draft starts from, whether it is the spoken one, and what to say
\* of a spoken total that is not used.
InitialTotal(result) ==
  LET hints == result.hints
      lineSum == LineSum(result.line_items)
      spoken == hints.explicit_total
      discounted == hints.discount_type # Null /\ hints.discount_value # Null
      adjusted == hints.tax_rate # Null \/ discounted
  IN  CASE lineSum # Null ->
             [total |-> lineSum, seeded |-> FALSE,
              hide |-> IF Differs(spoken, lineSum) THEN {TotalConflicts} ELSE {}]
        [] lineSum = Null /\ spoken # Null /\ ~adjusted ->
             [total |-> spoken, seeded |-> TRUE, hide |-> {}]
        [] OTHER ->
             [total |-> Null, seeded |-> FALSE,
              hide |-> IF spoken # Null THEN {TotalNeedsReview} ELSE {}]

\* Without a total nothing else is applied; half a discount is no discount.
InitialPricing(result) ==
  LET total == InitialTotal(result).total
      hints == result.hints
      whole == hints.discount_type # Null /\ hints.discount_value # Null
      Applied(f, when) == IF total # Null /\ when THEN hints[f] ELSE Null
  IN  [total_amount |-> total,
       tax_rate |-> Applied("tax_rate", TRUE),
       deposit_amount |-> Applied("deposit_amount", TRUE),
       discount_type |-> Applied("discount_type", whole),
       discount_value |-> Applied("discount_value", whole)]

SeededFields(result, stored) ==
  {f \in {"explicit_total", "deposit_amount", "tax_rate", "discount"} :
     CASE f = "explicit_total" -> InitialTotal(result).seeded /\ stored.total_amount # Null
       [] f = "discount" -> /\ result.hints.discount_type # Null
                            /\ result.hints.discount_value # Null
                            /\ stored.discount_type # Null
       [] OTHER -> result.hints[f] # Null /\ stored[f] # Null}

\* The sidecar of a new draft.  Its hidden items are told apart by text and source.
NewReview(result, stored) ==
  [hidden |-> result.unresolved \cup
                {[text |-> t, source |-> "transcript_conflict"] : t \in InitialTotal(result).hide},
   dismissed |-> {},
   notes_pending |-> SeededNotes(result) # Null,
   pricing_pending |-> SeededFields(result, stored) # {},
   seeded |-> SeededFields(result, stored),
   degraded |-> result.degraded]
===============================================================================
