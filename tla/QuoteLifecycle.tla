----------------------------- MODULE QuoteLifecycle ---------------------------
(***************************************************************************)
(* One quote from draft to outcome: the owner's requests that share it,    *)
(* revoke its link, edit, convert or delete it, the worker that marks it   *)
(* ready, and the customers who open its public link.                      *)
(*                                                                         *)
(* An owner's request loads the row, decides on what it loaded and writes  *)
(* later, by UPDATE ... WHERE id, only the columns it changed (Flush).  The *)
(* public view and the outcome write by a conditional UPDATE instead.      *)
(***************************************************************************)
EXTENDS Naturals

CONSTANTS
  Requests,    \* owner requests and renders that may overlap
  Viewers,     \* public requests that may overlap
  Customers,
  NoCustomer,  \* customer_id is NULL
  MaxTokens    \* bound: share tokens made for the quote

ASSUME QuoteAssumption ==
  /\ NoCustomer \notin Customers
  /\ MaxTokens \in Nat \ {0}

VARIABLES
  doc,        \* the committed row, and whether an invoice names it as its source
  expired,    \* the tokens whose expiry time has passed
  request,    \* what each request is about to write
  viewer,     \* what each public request has seen
  issued,     \* how many tokens were made
  issuedFor,  \* auxiliary: the customer of the quote when a token was made
  race        \* auxiliary: what was written on the strength of an old row

vars == <<doc, expired, request, viewer, issued, issuedFor, race>>

-------------------------------------------------------------------------------
(* Types *)

NoToken == 0
Tokens == 1 .. MaxTokens

Statuses == {"draft", "ready", "shared", "viewed", "approved", "declined"}
Outcomes == {"approved", "declined"}

\* _POST_SHARE_NON_REGRESSION_STATUSES, _PUBLIC_QUOTE_STATUSES
PostShare == {"viewed"} \cup Outcomes
Public == {"shared"} \cup PostShare

\* Only a token can be revoked.
Doc ==
  {d \in [status : Statuses \cup {"deleted"}, type : {"quote", "invoice"},
          customer : Customers \cup {NoCustomer}, token : Tokens \cup {NoToken},
          revoked : BOOLEAN, linked : BOOLEAN] : d.revoked => d.token # NoToken}

NewDoc == [status |-> "draft", type |-> "quote", customer |-> NoCustomer,
           token |-> NoToken, revoked |-> FALSE, linked |-> FALSE]

Request == [pc : {"idle", "write", "delete", "convert"}, seen : Doc, wanted : Doc]

NoRequest == [pc |-> "idle", seen |-> NewDoc, wanted |-> NewDoc]

\* mark: the page was read while the quote was shared.
Viewer == [pc : {"idle", "checked", "mark"}, token : Tokens \cup {NoToken}]

NoViewer == [pc |-> "idle", token |-> NoToken]

TypeOK ==
  /\ doc \in Doc
  /\ expired \subseteq Tokens
  /\ request \in [Requests -> Request]
  /\ viewer \in [Viewers -> Viewer]
  /\ issued \in 0 .. MaxTokens
  /\ issuedFor \in [Tokens -> Customers \cup {NoCustomer}]
  /\ race \subseteq {"lost_update", "stale_decision"}

-------------------------------------------------------------------------------
(* The session *)

IsQuote(d) == d.status # "deleted" /\ d.type = "quote"

\* The row is loaded, and the request has decided what to do with it.
Loaded(r, pc, wanted) ==
  /\ request[r].pc = "idle"
  /\ request' = [request EXCEPT ![r] = [pc |-> pc, seen |-> doc, wanted |-> wanted]]

Finish(r) == request' = [request EXCEPT ![r] = NoRequest]

Changed(seen, wanted) == {c \in DOMAIN seen : wanted[c] # seen[c]}

\* The repository assigns, the session flushes and commits: the changed columns are
\* written over whatever they hold by then; a row that was deleted makes the flush
\* fail.
Flush(r) ==
  LET seen == request[r].seen
      wanted == request[r].wanted
  IN  /\ request[r].pc = "write"
      /\ doc' = IF doc.status = "deleted" THEN doc
                ELSE [c \in DOMAIN doc |->
                        IF c \in Changed(seen, wanted) THEN wanted[c] ELSE doc[c]]
      /\ race' = race \cup
           (IF doc.status = "deleted" \/ doc = seen THEN {}
            ELSE IF Changed(seen, wanted) \cap Changed(seen, doc) # {}
                 THEN {"lost_update", "stale_decision"} ELSE {"stale_decision"})
      /\ Finish(r)
      /\ UNCHANGED <<expired, viewer, issued, issuedFor>>

-------------------------------------------------------------------------------
(* Sharing *)

\* Mutation: a share makes a revoked link work again.
RefreshUnlessRevoked(d, regenerate) == regenerate \/ d.token = NoToken \/ d.token \in expired

\* should_refresh_token
RefreshNeeded(d, regenerate) ==
  regenerate \/ d.token = NoToken \/ d.revoked \/ d.token \in expired

\* share_quote: a fresh token where one is needed, and the status is shared
\* unless the customer or the owner has moved it further.
Share(r) ==
  /\ IsQuote(doc)
  /\ doc.customer # NoCustomer
  /\ \E regenerate \in BOOLEAN :
       LET refresh == RefreshNeeded(doc, regenerate)
           token == IF refresh THEN issued + 1 ELSE doc.token
       IN  /\ refresh \/ doc.status \notin PostShare
           /\ token <= MaxTokens
           /\ Loaded(r, "write",
                     [doc EXCEPT !.token = token,
                                 !.revoked = FALSE,
                                 !.status = IF @ \in PostShare THEN @ ELSE "shared"])
           /\ issued' = IF refresh THEN token ELSE issued
           /\ issuedFor' = IF refresh THEN [issuedFor EXCEPT ![token] = doc.customer]
                                      ELSE issuedFor
  /\ UNCHANGED <<doc, expired, viewer, race>>

\* revoke_public_share
Revoke(r) ==
  /\ IsQuote(doc)
  /\ doc.token # NoToken /\ ~doc.revoked
  /\ Loaded(r, "write", [doc EXCEPT !.revoked = TRUE])
  /\ UNCHANGED <<doc, expired, viewer, issued, issuedFor, race>>

-------------------------------------------------------------------------------
(* Editing, conversion, deletion *)

\* Mutation: a shared quote may be given to another customer.
ReassignableUnlessLinked(d) == ~d.linked

\* _CUSTOMER_REASSIGNABLE_STATUSES
Reassignable(d) == d.status \in {"draft", "ready"} /\ ~d.linked

\* _apply_doc_type_transition
Retypeable(d) ==
  /\ d.token = NoToken
  /\ d.status \in {"draft", "ready"}
  /\ ~d.linked
  /\ d.customer # NoCustomer

\* update_quote, as far as it moves the quote to a customer or makes it an
\* invoice.  (What it does to the content and the artifact: PdfArtifact.)
Update(r) ==
  /\ IsQuote(doc)
  /\ \E customer \in Customers \cup {doc.customer}, type \in {"quote", "invoice"} :
       /\ customer # doc.customer => Reassignable(doc)
       /\ type # doc.type => Retypeable(doc)
       /\ customer # doc.customer \/ type # doc.type
       /\ Loaded(r, "write", [doc EXCEPT !.customer = customer, !.type = type])
  /\ UNCHANGED <<doc, expired, viewer, issued, issuedFor, race>>

\* convert_quote_to_invoice, up to the query for an existing invoice.
Convert(r) ==
  /\ IsQuote(doc)
  /\ doc.customer # NoCustomer
  /\ ~doc.linked
  /\ Loaded(r, "convert", doc)
  /\ UNCHANGED <<doc, expired, viewer, issued, issuedFor, race>>

\* The invoice is inserted: the foreign key wants the quote, the unique index
\* refuses a second invoice.
ConvertCommit(r) ==
  /\ request[r].pc = "convert"
  /\ \/ /\ doc.status # "deleted" /\ ~doc.linked
        /\ doc' = [doc EXCEPT !.linked = TRUE]
        /\ race' = race \cup (IF doc = request[r].seen THEN {} ELSE {"stale_decision"})
     \/ /\ doc.status = "deleted" \/ doc.linked
        /\ UNCHANGED <<doc, race>>
  /\ Finish(r)
  /\ UNCHANGED <<expired, viewer, issued, issuedFor>>

\* _NON_DELETABLE_QUOTE_STATUSES and has_linked_invoice
Deletable(d) == d.status \notin Public /\ ~d.linked

Delete(r) ==
  /\ IsQuote(doc)
  /\ Deletable(doc)
  /\ Loaded(r, "delete", doc)
  /\ UNCHANGED <<doc, expired, viewer, issued, issuedFor, race>>

\* DELETE ... WHERE id: the foreign key of an invoice is all that can stop it.
DeleteCommit(r) ==
  /\ request[r].pc = "delete"
  /\ doc' = IF doc.linked THEN doc ELSE [doc EXCEPT !.status = "deleted"]
  /\ race' = race \cup (IF doc = request[r].seen \/ doc.status = "deleted" \/ doc.linked
                        THEN {} ELSE {"stale_decision"})
  /\ Finish(r)
  /\ UNCHANGED <<expired, viewer, issued, issuedFor>>

\* persist_generated_artifact: a rendered draft is ready.
Render(r) ==
  /\ doc.status = "draft"
  /\ doc.customer # NoCustomer
  /\ Loaded(r, "write", [doc EXCEPT !.status = "ready"])
  /\ UNCHANGED <<doc, expired, viewer, issued, issuedFor, race>>

\* mark_quote_outcome: one UPDATE with the eligible statuses in its WHERE.
MarkOutcome(outcome) ==
  /\ IsQuote(doc)
  /\ doc.status # outcome
  /\ doc' = [doc EXCEPT !.status = outcome]
  /\ UNCHANGED <<expired, request, viewer, issued, issuedFor, race>>

Abandon(r) ==
  /\ request[r].pc # "idle"
  /\ Finish(r)
  /\ UNCHANGED <<doc, expired, viewer, issued, issuedFor, race>>

Serve(r) == \/ Share(r) \/ Revoke(r) \/ Update(r) \/ Convert(r) \/ Delete(r) \/ Render(r)
            \/ Flush(r) \/ ConvertCommit(r) \/ DeleteCommit(r) \/ Abandon(r)

-------------------------------------------------------------------------------
(* The public link *)

Usable(t) == doc.token = t /\ ~doc.revoked /\ t \notin expired

\* get_public_share_record and the checks on it.  A token that fails them is
\* answered 404.
CheckToken(v) ==
  /\ viewer[v].pc = "idle"
  /\ IsQuote(doc)
  /\ \E t \in Tokens :
       /\ Usable(t)
       /\ viewer' = [viewer EXCEPT ![v] = [pc |-> "checked", token |-> t]]
  /\ UNCHANGED <<doc, expired, request, issued, issuedFor, race>>

Holds(v) == IsQuote(doc) /\ doc.token = viewer[v].token

\* get_render_context_by_share_token, a later statement: the token again and
\* the status, not the revocation.  Any page but that of a shared quote only
\* moves the time of the last access, which is not modelled.
ReadQuote(v) ==
  /\ viewer[v].pc = "checked"
  /\ viewer' = [viewer EXCEPT ![v] =
                  IF Holds(v) /\ doc.status = "shared"
                  THEN [@ EXCEPT !.pc = "mark"] ELSE NoViewer]
  /\ UNCHANGED <<doc, expired, request, issued, issuedFor, race>>

\* Mutation: the update trusts the status read with the context.
MarkViewedBlindly(v) ==
  /\ viewer[v].pc = "mark"
  /\ doc' = IF Holds(v)
            THEN [doc EXCEPT !.status = "viewed"] ELSE doc
  /\ viewer' = [viewer EXCEPT ![v] = NoViewer]
  /\ UNCHANGED <<expired, request, issued, issuedFor, race>>

\* _mark_public_quote_viewed_once, and the answer.
MarkViewed(v) ==
  /\ viewer[v].pc = "mark"
  /\ doc' = IF Holds(v) /\ doc.status = "shared"
            THEN [doc EXCEPT !.status = "viewed"] ELSE doc
  /\ viewer' = [viewer EXCEPT ![v] = NoViewer]
  /\ UNCHANGED <<expired, request, issued, issuedFor, race>>

View(v) == CheckToken(v) \/ ReadQuote(v) \/ MarkViewed(v)

\* The expiry time of the current token passes.
Expire ==
  /\ doc.token # NoToken /\ doc.token \notin expired
  /\ expired' = expired \cup {doc.token}
  /\ UNCHANGED <<doc, request, viewer, issued, issuedFor, race>>

-------------------------------------------------------------------------------
Init ==
  /\ doc \in {NewDoc} \cup {[NewDoc EXCEPT !.customer = c] : c \in Customers}
  /\ expired = {}
  /\ request = [r \in Requests |-> NoRequest]
  /\ viewer = [v \in Viewers |-> NoViewer]
  /\ issued = 0
  /\ issuedFor = [t \in Tokens |-> NoCustomer]
  /\ race = {}

Next ==
  \/ \E r \in Requests : Serve(r)
  \/ \E v \in Viewers : View(v)
  \/ \E outcome \in Outcomes : MarkOutcome(outcome)
  \/ Expire

Spec == Init /\ [][Next]_vars

-------------------------------------------------------------------------------
(* Properties *)

\* Where a status may lead.
Onward ==
  [s \in Statuses |->
     CASE s = "draft"    -> Statuses \cup {"deleted"}
       [] s = "ready"    -> (Statuses \ {"draft"}) \cup {"deleted"}
       [] s = "shared"   -> Public
       [] s = "viewed"   -> PostShare
       [] OTHER          -> Outcomes]

\* The status never goes back, and a quote that a customer may have the link of,
\* or that has an outcome, is not deleted, in whatever order views, outcomes,
\* shares and renders interleave.  Only a lost update breaks it,
\* as a share that loaded the quote before it was approved, or a deletion decided
\* on an old row.
NeverGoesBack ==
  [][doc.status \in Statuses =>
       \/ doc'.status \in Onward[doc.status]
       \/ "lost_update" \in race'
       \/ doc'.status = "deleted" /\ "stale_decision" \in race']_vars

\* Token t was made and is still to be written.
Coming(t) ==
  \E r \in Requests : request[r].wanted.token = t /\ request[r].seen.token # t

\* A link that was revoked, replaced or has expired never works again, also
\* when shares and revocations overwrite each other.
DeadLinkStaysDead ==
  [][\A t \in 1 .. issued : ~Coming(t) /\ ~Usable(t) => ~Usable(t)']_vars

\* A working link shows the quote of the customer it was made for.
LinkKeepsCustomer ==
  race = {} => \A t \in Tokens : Usable(t) => doc.customer = issuedFor[t]

\* A quote leads to one invoice: it is converted or becomes one, never both,
\* and what became an invoice has no link that was sent as a quote's.
InvoicedOnce ==
  (race = {} /\ doc.type = "invoice") => ~doc.linked /\ doc.token = NoToken

\* The columns of the row, each written on its own by an UPDATE of its own request,
\* agree: status and token, customer and token, type, token and invoice.
ColumnsAgree == TypeOK /\ LinkKeepsCustomer /\ InvoicedOnce
===============================================================================
