------------------------------ MODULE EditHistory ------------------------------
(***************************************************************************)
(* What a client that edits a document has been promised by an answer of   *)
(* 200: DraftContent with the history of its edits.  Every action is one   *)
(* of DraftContent together with what it adds to the history, which no     *)
(* action reads.                                                           *)
(*                                                                         *)
(* Nothing locks the row between the load and the commit of an edit, so    *)
(* that an edit may undo one that it has not seen.  The history tells      *)
(* which those are: the edits committed after the place where it read.     *)
(***************************************************************************)
EXTENDS DraftContent

VARIABLES
  log,    \* the edits of the present document that were committed, in their order
  began,  \* how long the log was when each call loaded the row
  made    \* the row as it was made

history == <<log, began, made>>
historyVars == <<draftVars, history>>

-------------------------------------------------------------------------------
(* The actions *)

\* A draft, a document of a request or a copy begins a history of its own.
Begins ==
  /\ log' = <<>>
  /\ made' = [doc |-> doc', review |-> review']
  /\ UNCHANGED began

Loads(c) ==
  /\ began' = [began EXCEPT ![c] = Len(log)]
  /\ UNCHANGED <<log, made>>

\* The answer is given when the edit is committed.
Commits(c) ==
  /\ log' = Append(log, [op |-> calls[c].op, patch |-> calls[c].patch, read |-> began[c]])
  /\ began' = [began EXCEPT ![c] = 0]
  /\ UNCHANGED made

\* A refused edit is answered with 422 and promises nothing.
Refuses(c) ==
  /\ began' = [began EXCEPT ![c] = 0]
  /\ UNCHANGED <<log, made>>

HistoryInit ==
  /\ DraftInit
  /\ log = <<>>
  /\ began = [c \in Calls |-> 0]
  /\ made = [doc |-> NoDoc, review |-> NoReview]

HistoryNext ==
  \/ (AnswerFits \/ AskRepair \/ RepairInvalid \/ RepairEscapes) /\ UNCHANGED history
  \/ CreateExtractedDraft /\ Begins
  \/ \E kind \in {"quote", "invoice"}, request \in Requests :
       CreateFromRequest(kind, request) /\ Begins
  \/ DuplicateQuote /\ Begins
  \/ \E c \in Calls : \/ \E patch \in Patches : LoadForUpdate(c, patch) /\ Loads(c)
                      \/ CommitUpdate(c) /\ Commits(c)
                      \/ RefuseUpdate(c) /\ Refuses(c)
                      \/ LoadForReview(c) /\ Loads(c)
                      \/ CommitReview(c) /\ Commits(c)

HistorySpec == HistoryInit /\ [][HistoryNext]_historyVars

-------------------------------------------------------------------------------
(* Properties.  A log l, a sidecar r and the columns d are parameters, since an    *)
(* edit under way has a sidecar and columns of its own: those it loaded.           *)

\* The columns an edit takes from its request alone; the total is computed from all
\* of them, and the type of a discount goes with its value.
OwnColumns == {"tax_rate", "discount_value", "deposit_amount"}

Sets(edit, f) == edit.op = "update" /\ f \in DOMAIN edit.patch

Reviews(l) == {i \in DOMAIN l : l[i].op = "review"}

InEffect(patch, r) ==
  /\ patch.dismiss \subseteq r.dismissed
  /\ patch.notes => ~r.notes_pending
  /\ patch.pricing => ~r.pricing_pending

\* Of the first n edits each review is in effect, whole, but for those that a later
\* one of them wrote over, having read the sidecar before.
ReviewsStand(l, r, n) ==
  \A i \in Reviews(l) : i <= n =>
    \/ InEffect(l[i].patch, r)
    \/ \E j \in Reviews(l) : i < j /\ j <= n /\ l[j].read < i

\* An edit of a column decides it, unless another edit of that column was committed
\* after the place where it read: then either of the two may be lost.
PricingStands(l, d) ==
  \A i \in DOMAIN l, f \in OwnColumns :
    /\ Sets(l[i], f)
    /\ \A j \in DOMAIN l \ {i} : j > l[i].read => ~Sets(l[j], f)
    => d[f] = ZeroIsNull(l[i].patch[f])

\* Nothing is dismissed or cleared that no edit dismissed or cleared.
SidecarAsked(l, r, before) ==
  /\ r.hidden = before.hidden /\ r.seeded = before.seeded /\ r.degraded = before.degraded
  /\ r.dismissed \subseteq before.dismissed \cup UNION {l[i].patch.dismiss : i \in Reviews(l)}
  /\ r.notes_pending => before.notes_pending
  /\ before.notes_pending => r.notes_pending \/ \E i \in Reviews(l) : l[i].patch.notes
  /\ r.pricing_pending => before.pricing_pending
  /\ before.pricing_pending => r.pricing_pending \/ \E i \in Reviews(l) : l[i].patch.pricing

\* A column that no edit sets is as it was.
ColumnsAsked(l, d, before) ==
  \A f \in OwnColumns : (\A i \in DOMAIN l : ~Sets(l[i], f)) => d[f] = before[f]

\* However edits overlap (update_quote and update_extraction_review_metadata lock
\* nothing): edits of different columns, and edits of the pricing and of the sidecar,
\* never undo each other; a review is lost only to one that had read the sidecar before
\* it was committed, and to none that came after its answer; nothing happens unasked.
AnsweredEditsStand ==
  stage = "made" =>
    /\ ReviewsStand(log, review, Len(log))
    /\ PricingStands(log, doc)
    /\ SidecarAsked(log, review, made.review)
    /\ ColumnsAsked(log, doc, made.doc)

===============================================================================
