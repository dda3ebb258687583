----------------------------- MODULE DraftContent -----------------------------
(***************************************************************************)
(* The content of one document: the draft made of a capture's extraction   *)
(* (or of a request), and the partial edits of its pricing, its line items *)
(* and its review sidecar.                                                 *)
(*                                                                         *)
(* An edit loads the row, computes every column from what it loaded and    *)
(* writes, at its commit, the columns that its request touches and whose   *)
(* value it changed; nothing locks the row in between, so that edits       *)
(* overlap.  Statuses, customers and document numbers are in Documents and *)
(* QuoteLifecycle, the calls to the provider in ExtractionCalls.           *)
(***************************************************************************)
EXTENDS ExtractionResult

CONSTANTS
  Captures,    \* captures: [words, long, answers], answers the tool outputs
  Requests,    \* bodies of POST /quotes and POST /invoices
  Patches,     \* bodies of PATCH: functions from the fields set to their values
  Calls,       \* edits that may overlap
  MaxEdits     \* bound: edits

\* What a column of the row, or a field of a request, may hold
Amount == Int \cup {Null}
DiscountTypes == {"fixed", "percent"}
Columns(f) == IF f = "discount_type" THEN DiscountTypes \cup {Null} ELSE Amount

PricingFields ==
  {"total_amount", "discount_type", "discount_value", "tax_rate", "deposit_amount"}

\* The reasons of the semantic guard, and those an answer may come with
GuardReasons == {SpokenMoneyCorrection, "price_tokens", "same_details", "duplicate"}
Reasons == GuardReasons \cup STRING \cup {Null}

Degradations == {"semantic_empty_line_items", "validation_repair_failed"}

StoredItem == [price : Amount, flagged : BOOLEAN, flag_reason : Reasons]

Texts == [words : Seq(STRING), prices : Seq(Int), marker : BOOLEAN]

ExtractedItem ==
  [desc : Texts, details : Texts \cup {Null}, price : Amount, flagged : BOOLEAN,
   flag_reason : Reasons]

\* The schema of an extraction's answer, as far as it bears on the draft
FitsSchema(candidate) ==
  /\ candidate.line_items \in Seq(ExtractedItem)
  /\ \A f \in HintFields : candidate.hints[f] \in Columns(f)

ASSUME DraftContentAssumption ==
  /\ MaxEdits \in Nat
  /\ Null \notin Int \cup DiscountTypes \cup GuardReasons \cup Degradations
  /\ \A c \in Captures :
       /\ c.words \in Seq(STRING)
       /\ \A k \in {1, 2} : c.answers[k].valid => FitsSchema(Coerced(c.answers[k]))
  /\ \A r \in Requests :
       /\ r.line_items \in Seq(StoredItem)
       /\ \A f \in PricingFields : Key(r, f) \in Columns(f)
  /\ \A p \in Patches :
       /\ DOMAIN p \subseteq PricingFields \cup {"line_items"}
       /\ \A f \in DOMAIN p \ {"line_items"} : p[f] \in Columns(f)
       /\ "line_items" \in DOMAIN p => p.line_items \in Seq(StoredItem)

VARIABLES
  stage,    \* how far the capture or the request came
  capture,  \* the capture, until its draft is made
  tries,    \* which of the provider's answers is looked at
  result,   \* the extraction result, until its draft is made
  doc,      \* the pricing and the line items in the documents row
  review,   \* its extraction_review_metadata
  calls,    \* what each edit is about to write
  edits,    \* auxiliary: edits so far
  stale     \* auxiliary: an edit was committed over a row it had not loaded

draftVars == <<stage, capture, tries, result, doc, review, calls, edits, stale>>

-------------------------------------------------------------------------------
(* Types *)

Stages == {"asked", "extracted", "requested", "made", "lost"}

NoDoc == [kind |-> "none"]
NoResult == [line_items |-> <<>>]
NoCapture == [answers |-> <<>>]
NoReview == [hidden |-> {}, dismissed |-> {}, notes_pending |-> FALSE,
             pricing_pending |-> FALSE, seeded |-> {}, degraded |-> Null]
NoCall == [op |-> "none"]

Made(kind, pricing, items) ==
  [f \in PricingFields \cup {"kind", "line_items"} |->
     CASE f = "kind" -> kind
       [] f = "line_items" ->
            [i \in DOMAIN items |->
               [price |-> Kept(items[i].price), flagged |-> items[i].flagged,
                flag_reason |-> items[i].flag_reason]]
       [] OTHER -> pricing[f]]

PricingOf(record) == [f \in PricingFields |-> Key(record, f)]

-------------------------------------------------------------------------------
(* From a capture to its draft *)

Candidate == Coerced(capture.answers[tries])

\* The tool output does not fit the schema, or the result built from it does not.
InvalidAnswer == ~capture.answers[tries].valid \/ BuildFails(Candidate)

Extracted(r) ==
  /\ result' = r
  /\ stage' = "extracted"
  /\ UNCHANGED <<capture, tries, doc, review, calls, edits, stale>>

AnswerFits ==
  /\ stage = "asked"
  /\ ~InvalidAnswer
  /\ Extracted(Guarded(Candidate, capture.words, capture.long))

\* The first answer that does not fit is sent back once.
AskRepair ==
  /\ stage = "asked" /\ tries = 1
  /\ InvalidAnswer
  /\ tries' = 2
  /\ UNCHANGED <<stage, capture, result, doc, review, calls, edits, stale>>

RepairInvalid ==
  /\ stage = "asked" /\ tries = 2
  /\ ~capture.answers[2].valid
  /\ Extracted(RepairFailedResult)

\* The result of a repaired answer is built outside the try: its error escapes.
RepairEscapes ==
  /\ stage = "asked" /\ tries = 2
  /\ capture.answers[2].valid /\ BuildFails(Candidate)
  /\ stage' = "lost"
  /\ UNCHANGED <<capture, tries, result, doc, review, calls, edits, stale>>

\* create_extracted_draft: pricing that breaks the rules ends in a 422, and the
\* draft is not made.
CreateExtractedDraft ==
  LET pricing == Validated(InitialPricing(result), LineSum(result.line_items))
  IN  /\ stage = "extracted"
      /\ IF pricing = Refused
           THEN /\ stage' = "lost"
                /\ UNCHANGED <<doc, review>>
           ELSE /\ stage' = "made"
                /\ doc' = Made("quote", pricing, result.line_items)
                /\ review' = NewReview(result, pricing)
      /\ capture' = NoCapture
      /\ tries' = 1
      /\ result' = NoResult
      /\ UNCHANGED <<calls, edits, stale>>

\* create_quote and create_invoice
CreateFromRequest(kind, request) ==
  LET pricing == Validated(PricingOf(request), LineSum(request.line_items))
  IN  /\ stage = "requested"
      /\ pricing # Refused
      /\ stage' = "made"
      /\ doc' = Made(kind, pricing, request.line_items)
      /\ UNCHANGED <<capture, tries, result, review, calls, edits, stale>>

-------------------------------------------------------------------------------
(* Edits *)

Editable == stage = "made" /\ edits < MaxEdits

\* duplicate_quote: the copy has no flags and no sidecar, and its pricing is not
\* checked again (it is the document the model goes on with).
DuplicateQuote ==
  /\ Editable
  /\ doc.kind = "quote"
  /\ \A c \in Calls : calls[c] = NoCall
  /\ doc' = [doc EXCEPT !.line_items =
               [i \in DOMAIN @ |-> [@[i] EXCEPT !.flagged = FALSE, !.flag_reason = Null]]]
  /\ review' = NoReview
  /\ edits' = edits + 1
  /\ UNCHANGED <<stage, capture, tries, result, calls, stale>>

\* update_quote and update_invoice read the row
LoadForUpdate(c, patch) ==
  /\ Editable
  /\ calls[c] = NoCall
  /\ calls' = [calls EXCEPT ![c] = [op |-> "update", patch |-> patch, seen |-> doc]]
  /\ edits' = edits + 1
  /\ UNCHANGED <<stage, capture, tries, result, doc, review, stale>>

\* _clear_spoken_money_flag_on_manual_price_edit: only quotes, by position
ClearedFlags(seen, items) ==
  [i \in DOMAIN items |->
     IF /\ i \in DOMAIN seen
        /\ seen[i].flagged /\ seen[i].flag_reason = SpokenMoneyCorrection
        /\ \/ (seen[i].price = Null) # (items[i].price = Null)
           \/ /\ {seen[i].price, items[i].price} \cap {Null} = {}
              /\ AbsOf(seen[i].price - items[i].price) >= 10
       THEN [items[i] EXCEPT !.flagged = FALSE, !.flag_reason = Null]
       ELSE items[i]]

NextItems(call) ==
  CASE "line_items" \notin DOMAIN call.patch -> call.seen.line_items
    [] "line_items" \in DOMAIN call.patch /\ call.seen.kind = "quote" ->
         ClearedFlags(call.seen.line_items, call.patch.line_items)
    [] OTHER -> call.patch.line_items

\* Mutant: the stored total is taken for the subtotal.
AskedPricingFromTotal(call) ==
  LET patch == call.patch
      lineSum == LineSum(NextItems(call))
      From(f) == IF f \in DOMAIN patch THEN patch[f] ELSE call.seen[f]
  IN  [total_amount |-> CASE "total_amount" \in DOMAIN patch -> patch.total_amount
                          [] "total_amount" \notin DOMAIN patch
                             /\ "line_items" \in DOMAIN patch -> lineSum
                          [] OTHER -> call.seen.total_amount,
       discount_type |-> IF "discount_value" \in DOMAIN patch
                            /\ From("discount_value") = Null
                           THEN Null ELSE From("discount_type"),
       discount_value |-> From("discount_value"),
       tax_rate |-> From("tax_rate"),
       deposit_amount |-> From("deposit_amount")]

\* What an edit asks the rules about: the fields of its request over the row's,
\* the subtotal from the request, from new line items, or back from the total.
AskedPricing(call) ==
  LET patch == call.patch
      lineSum == LineSum(NextItems(call))
      From(f) == IF f \in DOMAIN patch THEN patch[f] ELSE call.seen[f]
  IN  [total_amount |-> CASE "total_amount" \in DOMAIN patch -> patch.total_amount
                          [] "total_amount" \notin DOMAIN patch
                             /\ "line_items" \in DOMAIN patch -> lineSum
                          [] OTHER -> Resolved(PricingOf(call.seen), lineSum),
       discount_type |-> IF "discount_value" \in DOMAIN patch
                            /\ From("discount_value") = Null
                           THEN Null ELSE From("discount_type"),
       discount_value |-> From("discount_value"),
       tax_rate |-> From("tax_rate"),
       deposit_amount |-> From("deposit_amount")]

NextPricing(call) == Validated(AskedPricing(call), LineSum(NextItems(call)))

\* Mutant: the type of a discount is only assigned when the request has it.
AssignedAsSent(call, next) ==
  LET set == DOMAIN call.patch
  IN  {f \in {"tax_rate", "discount_type", "discount_value", "deposit_amount"} : f \in set}
      \cup (IF set \cap {"total_amount", "line_items", "discount_type",
                         "discount_value", "tax_rate"} # {}
              THEN {"total_amount"} ELSE {})

\* The columns an edit assigns; an edit of the deposit alone leaves the total.
Assigned(call, next) ==
  LET set == DOMAIN call.patch
  IN  {f \in {"tax_rate", "discount_value", "deposit_amount"} : f \in set}
      \cup (IF set \cap {"total_amount", "line_items", "discount_type",
                         "discount_value", "tax_rate"} # {}
              THEN {"total_amount"} ELSE {})
      \cup (IF \/ "discount_type" \in set
               \/ "discount_value" \in set /\ next.discount_type = Null
              THEN {"discount_type"} ELSE {})

\* The UPDATE names the columns whose value differs from the one loaded.
CommitUpdate(c) ==
  LET call == calls[c]
      next == NextPricing(call)
      written == {f \in Assigned(call, next) : next[f] # call.seen[f]}
      items == Made(doc.kind, next, NextItems(call)).line_items
  IN  /\ call.op = "update"
      /\ next # Refused
      /\ doc' = [f \in DOMAIN doc |->
                   CASE f \in written -> next[f]
                     [] f = "line_items" /\ f \in DOMAIN call.patch -> items
                     [] OTHER -> doc[f]]
      /\ calls' = [calls EXCEPT ![c] = NoCall]
      /\ stale' = (stale \/ call.seen # doc)
      /\ UNCHANGED <<stage, capture, tries, result, review, edits>>

\* 422, nothing is written
RefuseUpdate(c) ==
  /\ calls[c].op = "update"
  /\ NextPricing(calls[c]) = Refused
  /\ calls' = [calls EXCEPT ![c] = NoCall]
  /\ UNCHANGED <<stage, capture, tries, result, doc, review, edits, stale>>

-------------------------------------------------------------------------------
(* The review sidecar: one JSON column, read, changed and written whole *)

\* An id that the sidecar has no hidden detail for: the endpoint takes any text.
UnknownId == [text |-> Null, source |-> Null]

ReviewPatches ==
  [dismiss : {{}} \cup {{id} : id \in review.hidden \cup {UnknownId}},
   notes : BOOLEAN, pricing : BOOLEAN]

\* Mutant: the dismissals of the request replace the stored ones.
ReviewedOverwrites(seen, patch) ==
  [seen EXCEPT !.dismissed = patch.dismiss,
               !.notes_pending = @ /\ ~patch.notes,
               !.pricing_pending = @ /\ ~patch.pricing]

Reviewed(seen, patch) ==
  [seen EXCEPT !.dismissed = @ \cup patch.dismiss,
               !.notes_pending = @ /\ ~patch.notes,
               !.pricing_pending = @ /\ ~patch.pricing]

LoadForReview(c) ==
  /\ Editable
  /\ doc.kind = "quote"
  /\ calls[c] = NoCall
  /\ \E patch \in ReviewPatches :
       /\ Reviewed(review, patch) # review   \* one that changes nothing writes nothing
       /\ calls' = [calls EXCEPT ![c] = [op |-> "review", patch |-> patch, seen |-> review]]
  /\ edits' = edits + 1
  /\ UNCHANGED <<stage, capture, tries, result, doc, review, stale>>

CommitReview(c) ==
  /\ calls[c].op = "review"
  /\ review' = Reviewed(calls[c].seen, calls[c].patch)
  /\ calls' = [calls EXCEPT ![c] = NoCall]
  /\ stale' = (stale \/ calls[c].seen # review)
  /\ UNCHANGED <<stage, capture, tries, result, doc, edits>>

-------------------------------------------------------------------------------

DraftInit ==
  /\ \/ stage = "asked" /\ capture \in Captures
     \/ stage = "requested" /\ capture = NoCapture
  /\ tries = 1
  /\ result = NoResult
  /\ doc = NoDoc
  /\ review = NoReview
  /\ calls = [c \in Calls |-> NoCall]
  /\ edits = 0
  /\ stale = FALSE

DraftNext ==
  \/ AnswerFits \/ AskRepair \/ RepairInvalid \/ RepairEscapes
  \/ CreateExtractedDraft
  \/ \E kind \in {"quote", "invoice"}, request \in Requests : CreateFromRequest(kind, request)
  \/ DuplicateQuote
  \/ \E c \in Calls : \/ \E patch \in Patches : LoadForUpdate(c, patch)
                      \/ CommitUpdate(c) \/ RefuseUpdate(c)
                      \/ LoadForReview(c) \/ CommitReview(c)

DraftSpec == DraftInit /\ [][DraftNext]_draftVars

-------------------------------------------------------------------------------
(* Properties *)

DraftTypeOK ==
  /\ stage \in Stages
  /\ tries \in {1, 2}
  /\ stage = "made" <=> doc # NoDoc
  /\ doc # NoDoc =>
       /\ \A f \in PricingFields : doc[f] \in Columns(f)
       /\ \A i \in DOMAIN doc.line_items :
            LET item == doc.line_items[i]
            IN  /\ item.price = Null \/ item.price % 10 = 0
                /\ item.flagged \in BOOLEAN
  /\ review.dismissed \subseteq review.hidden \cup {UnknownId}
  /\ edits \in 0 .. MaxEdits
  /\ stale \in BOOLEAN

\* The reader of spoken amounts (_extract_spoken_money_hints) agrees with the list
\* of the ways to say an amount: it reads each phrase to its end and for what it
\* means, and misses none that has "dollars" behind it.
AmountsAreHeardRight ==
  stage = "asked" =>
    HintsMeanWhatTheySay(capture.words) /\ DollarsAreHeard(capture.words)

\* The semantic guard changes nothing of what was extracted but prices that are a
\* hundredth of a spoken amount; each such amount mends as many items as it was
\* spoken, and whatever the guard touches is flagged with a reason, so that a
\* person sees it (docs/adr/007 asks for flags rather than hidden correction).
CorrectionsAreVisible ==
  stage = "extracted" /\ result # RepairFailedResult =>
    LET given == Candidate.line_items
        kept == result.line_items
        mended == {i \in DOMAIN given : kept[i].price # given[i].price}
        hints == SpokenHints(capture.words)
    IN  /\ DOMAIN kept = DOMAIN given
        /\ \A i \in mended : /\ kept[i].price = 100 * given[i].price
                             /\ kept[i].flag_reason = SpokenMoneyCorrection
        /\ \A i \in mended :
             Cardinality({j \in mended : kept[j].price = kept[i].price})
               <= Cardinality({hint \in hints : 1000 * hint.amount = kept[i].price})
        /\ \A i \in DOMAIN given :
             /\ given[i].flagged => kept[i].flagged
             /\ kept[i] # given[i] => kept[i].flagged /\ kept[i].flag_reason # Null

DraftMade == stage = "extracted" /\ stage' = "made"

\* create_extracted_draft loses no spoken total: it is the draft's total, or agrees
\* with the line items to the cent, or the sidecar keeps it for review.
SpokenTotalAccountedFor ==
  [][DraftMade /\ result.hints.explicit_total # Null =>
       LET spoken == result.hints.explicit_total
       IN  \/ doc'.total_amount = spoken /\ "explicit_total" \in review'.seeded
           \/ /\ LineSum(result.line_items) # Null
              /\ AbsOf(spoken - LineSum(result.line_items)) <= 1
           \/ \E h \in review'.hidden : h.text \in {TotalConflicts, TotalNeedsReview}]_draftVars

\* A draft has no tax, discount or deposit that was not captured, and each one it
\* has is marked for review; a long capture that leaves a draft without line items
\* says why.
NothingInvented ==
  [][DraftMade =>
       /\ \A f \in PricingFields \ {"total_amount"} :
            doc'[f] # Null =>
              /\ doc'[f] = result.hints[f]
              /\ {f, "discount"} \cap review'.seeded # {}
              /\ review'.pricing_pending
       /\ doc'.line_items = <<>> /\ capture.long => review'.degraded # Null]_draftVars

\* The money of a draft is the money of its capture: none is lost, none is added.
DraftTellsCapture == SpokenTotalAccountedFor /\ NothingInvented

\* As long as no edit was committed over a row it had not loaded, the next edit is
\* possible: type and value of the discount are both set or both not, or every
\* later edit that leaves the discount alone would be refused.
DiscountStaysWhole ==
  doc # NoDoc /\ ~stale => (doc.discount_type = Null) = (doc.discount_value = Null)

\* What computing the subtotal back may cost: a cent, or two when a percentage came
\* off and more than half was added as tax.
BackwardError(p) ==
  IF p.discount_type = "percent" /\ 2 * OrZero(p.tax_rate) > TaxScale THEN 2 ELSE 1

\* As long as the columns fit each other, the rows a customer reads add up to the
\* stored total, and the deposit is covered by it, but for that error.
RowsAddUp ==
  doc # NoDoc /\ ~stale /\ doc.total_amount # Null =>
    LET rows == Breakdown(PricingOf(doc), LineSum(doc.line_items))
    IN  /\ AbsOf(rows.subtotal - rows.discount + rows.tax - rows.total) <= BackwardError(doc)
        /\ doc.deposit_amount # Null => rows.balance >= -BackwardError(doc)

\* The pricing columns of a document fit each other after any sequence of partial
\* edits: the next edit is possible, and what a customer reads adds up.
ColumnsFit == DraftTypeOK /\ DiscountStaysWhole /\ RowsAddUp

Committed(c) == calls[c].op = "update" /\ doc' # doc /\ calls'[c] = NoCall

Shown(d) == Breakdown(PricingOf(d), LineSum(d.line_items)).subtotal

\* An edit of the tax, the discount or the deposit alone leaves the subtotal that is
\* shown: exactly without a percentage, and with p percent off by what rounding
\* costs, a cent and a half over 1 - p.
SubtotalSurvivesEdits ==
  [][\A c \in Calls :
       /\ Committed(c) /\ ~stale'
       /\ DOMAIN calls[c].patch \cap {"line_items", "total_amount"} = {}
       /\ doc.total_amount # Null
       => LET drift == AbsOf(Shown(doc') - Shown(doc))
          IN  IF doc'.discount_type = "percent"
                THEN drift * (100 - doc'.discount_value) <= 150
                ELSE drift = 0]_draftVars

\* An edit that brings line items and no total of its own leaves the total those
\* items make, whatever total was stored before, up to the half cent by which each
\* price was rounded when it was stored.
ItemsMakeTheTotal ==
  [][\A c \in Calls :
       /\ Committed(c) /\ ~stale'
       /\ "line_items" \in DOMAIN calls[c].patch
       /\ "total_amount" \notin DOMAIN calls[c].patch
       => LET sum == LineSum(doc'.line_items)
          IN  IF sum = Null
                THEN doc'.total_amount = Null
                ELSE AbsOf(Total(PricingOf(doc'), sum) - doc'.total_amount)
                       <= Len(doc'.line_items)]_draftVars

\* An edit moves the money it names, and the rest of it stays.
EditsMoveTheirOwn == SubtotalSurvivesEdits /\ ItemsMakeTheTotal

===============================================================================
