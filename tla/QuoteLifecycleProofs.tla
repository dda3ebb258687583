------------------------- MODULE QuoteLifecycleProofs -------------------------
(***************************************************************************)
(* Proofs about QuoteLifecycle for every set of requests, viewers and      *)
(* customers and every number of tokens.                                   *)
(***************************************************************************)
EXTENDS QuoteLifecycle, TLAPS

-------------------------------------------------------------------------------
(* The inductive invariant *)

\* What a request may have decided to write on the row it loaded.

Sharing(seen, wanted) ==
  /\ IsQuote(seen)
  /\ wanted = [seen EXCEPT !.token = wanted.token, !.revoked = FALSE,
                           !.status = IF @ \in PostShare THEN @ ELSE "shared"]
  /\ wanted.token # NoToken
  /\ wanted.token = seen.token => ~seen.revoked

Revoking(seen, wanted) ==
  /\ seen.token # NoToken
  /\ wanted = [seen EXCEPT !.revoked = TRUE]

Updating(seen, wanted) ==
  /\ IsQuote(seen)
  /\ wanted = [seen EXCEPT !.customer = wanted.customer, !.type = wanted.type]
  /\ wanted.customer # seen.customer => Reassignable(seen)
  /\ wanted.type # seen.type => Retypeable(seen)

Rendering(seen, wanted) ==
  /\ seen.status = "draft"
  /\ wanted = [seen EXCEPT !.status = "ready"]

Plan(pc, seen, wanted) ==
  /\ pc = "write" => \/ Sharing(seen, wanted) \/ Revoking(seen, wanted)
                     \/ Updating(seen, wanted) \/ Rendering(seen, wanted)
  /\ pc = "convert" => IsQuote(seen)
  /\ pc = "delete" => Deletable(seen)

\* Every write was decided on the loaded row, every conversion is of a quote and
\* every deletion of a quote that may go; a new token was made for the customer
\* of the loaded row.
Decided(r) ==
  LET seen == request[r].seen
      wanted == request[r].wanted
  IN  /\ Plan(request[r].pc, seen, wanted)
      /\ wanted.token # seen.token => /\ wanted.token \in 1 .. issued
                                      /\ issuedFor[wanted.token] = seen.customer

\* A row that has a token keeps one.
TokensStay ==
  /\ doc.token <= issued
  /\ \A r \in Requests : request[r].seen.token # NoToken => doc.token # NoToken

\* A row nobody overwrote has a token only if it was shared, with the customer
\* the token was made for, and only as a quote.
SharedAsMade ==
  /\ doc.token # NoToken => /\ doc.status \in Public
                            /\ doc.customer = issuedFor[doc.token]
  /\ doc.type = "invoice" => ~doc.linked /\ doc.token = NoToken

IInv ==
  /\ TypeOK
  /\ TokensStay
  /\ \A r \in Requests : Decided(r)
  /\ race = {} => SharedAsMade
-------------------------------------------------------------------------------
(* Rows and requests *)

\* The columns of a row.
LEMMA Columns ==
  ASSUME NEW d \in Doc
  PROVE  /\ DOMAIN d = {"status", "type", "customer", "token", "revoked", "linked"}
         /\ d.status \in Statuses \cup {"deleted"} /\ d.type \in {"quote", "invoice"}
         /\ d.customer \in Customers \cup {NoCustomer}
         /\ d.token \in 0 .. MaxTokens
         /\ d.revoked \in BOOLEAN /\ d.linked \in BOOLEAN
         /\ d.revoked => d.token # NoToken
         /\ d = [status |-> d.status, type |-> d.type, customer |-> d.customer,
                 token |-> d.token, revoked |-> d.revoked, linked |-> d.linked]
BY QuoteAssumption DEF Doc, Tokens, NoToken

\* A row is made of its columns.
LEMMA IsRow ==
  ASSUME NEW status \in Statuses \cup {"deleted"}, NEW type \in {"quote", "invoice"},
         NEW customer \in Customers \cup {NoCustomer}, NEW token \in 0 .. MaxTokens,
         NEW revoked \in BOOLEAN, NEW linked \in BOOLEAN, revoked => token # NoToken
  PROVE  [status |-> status, type |-> type, customer |-> customer,
          token |-> token, revoked |-> revoked, linked |-> linked] \in Doc
<1>1. token \in Tokens \cup {NoToken}
  BY QuoteAssumption DEF Tokens, NoToken
<1> QED BY <1>1 DEF Doc

\* What a share writes, column by column.
LEMMA SharedRow ==
  ASSUME NEW d \in Doc, NEW token, NEW status
  PROVE  [d EXCEPT !.token = token, !.revoked = FALSE, !.status = status]
           = [status |-> status, type |-> d.type, customer |-> d.customer,
              token |-> token, revoked |-> FALSE, linked |-> d.linked]
<1> DEFINE e == [d EXCEPT !.token = token, !.revoked = FALSE, !.status = status]
<1>1. e \in [status : {status}, type : {"quote", "invoice"},
             customer : Customers \cup {NoCustomer}, token : {token},
             revoked : {FALSE}, linked : BOOLEAN]
  BY DEF Doc
<1>2. e.type = d.type /\ e.customer = d.customer /\ e.linked = d.linked
  BY DEF Doc
<1> HIDE DEF e
<1>3. e = [status |-> e.status, type |-> e.type, customer |-> e.customer,
           token |-> e.token, revoked |-> e.revoked, linked |-> e.linked]
  BY <1>1
<1>4. e.status = status /\ e.token = token /\ e.revoked = FALSE
  BY <1>1
<1> QED BY <1>2, <1>3, <1>4 DEF e

\* The empty records have their types.
LEMMA TypeEmpty == NewDoc \in Doc /\ NoRequest \in Request /\ NoViewer \in Viewer
<1>1. NewDoc \in Doc
  BY DEF NewDoc, Doc, Statuses, NoToken
<1> QED BY <1>1 DEF NoRequest, Request, NoViewer, Viewer

\* A request that loads the row.
LEMMA LoadedRequest ==
  ASSUME TypeOK, NEW r \in Requests, NEW pc \in {"write", "delete", "convert"},
         NEW wanted \in Doc, Loaded(r, pc, wanted)
  PROVE  /\ request' \in [Requests -> Request]
         /\ request'[r] = [pc |-> pc, seen |-> doc, wanted |-> wanted]
         /\ \A q \in Requests \ {r} : request'[q] = request[q]
<1>1. [pc |-> pc, seen |-> doc, wanted |-> wanted] \in Request
  BY DEF TypeOK, Request
<1> QED BY <1>1 DEF Loaded, TypeOK

\* A request that is over.
LEMMA FinishedRequest ==
  ASSUME TypeOK, NEW r \in Requests, Finish(r)
  PROVE  /\ request' \in [Requests -> Request]
         /\ request'[r] = NoRequest
         /\ \A q \in Requests \ {r} : request'[q] = request[q]
BY TypeEmpty DEF Finish, TypeOK

\* What a flush leaves in the row.
LEMMA Flushed ==
  ASSUME TypeOK, NEW r \in Requests, Flush(r)
  PROVE  LET seen == request[r].seen
             wanted == request[r].wanted
             col(old, new, now) == IF new # old THEN new ELSE now
         IN  /\ seen \in Doc /\ wanted \in Doc
             /\ doc.status = "deleted" => doc' = doc
             /\ doc.status # "deleted" => doc' =
                  [status   |-> col(seen.status, wanted.status, doc.status),
                   type     |-> col(seen.type, wanted.type, doc.type),
                   customer |-> col(seen.customer, wanted.customer, doc.customer),
                   token    |-> col(seen.token, wanted.token, doc.token),
                   revoked  |-> col(seen.revoked, wanted.revoked, doc.revoked),
                   linked   |-> col(seen.linked, wanted.linked, doc.linked)]
             /\ race' = {} => race = {} /\ (doc.status = "deleted" \/ doc = seen)
             /\ wanted.status # seen.status /\ doc.status # seen.status
                  => doc.status = "deleted" \/ "lost_update" \in race'
<1> DEFINE seen == request[r].seen
           wanted == request[r].wanted
<1>1. seen \in Doc /\ wanted \in Doc /\ doc \in Doc
  BY DEF TypeOK, Request
<1>2. DOMAIN seen = {"status", "type", "customer", "token", "revoked", "linked"}
  BY <1>1, Columns
<1>3. DOMAIN doc = {"status", "type", "customer", "token", "revoked", "linked"}
  BY <1>1, Columns
<1>4. doc' = IF doc.status = "deleted" THEN doc
             ELSE [c \in DOMAIN doc |->
                     IF c \in Changed(seen, wanted) THEN wanted[c] ELSE doc[c]]
  BY DEF Flush
<1>5. race' = race \cup
        (IF doc.status = "deleted" \/ doc = seen THEN {}
         ELSE IF Changed(seen, wanted) \cap Changed(seen, doc) # {}
              THEN {"lost_update", "stale_decision"} ELSE {"stale_decision"})
  BY DEF Flush
<1> HIDE DEF seen, wanted
<1>6. race' = {} => race = {} /\ (doc.status = "deleted" \/ doc = seen)
  BY <1>5
<1>7. ASSUME wanted.status # seen.status, doc.status # seen.status, doc.status # "deleted"
      PROVE  "lost_update" \in race'
  <2>1. "status" \in Changed(seen, wanted) \cap Changed(seen, doc)
    BY <1>2, <1>7 DEF Changed
  <2> QED BY <1>5, <1>7, <2>1
<1>8. ASSUME doc.status # "deleted"
      PROVE  doc' =
                [status   |-> IF wanted.status # seen.status THEN wanted.status ELSE doc.status,
                 type     |-> IF wanted.type # seen.type THEN wanted.type ELSE doc.type,
                 customer |-> IF wanted.customer # seen.customer THEN wanted.customer
                                                                 ELSE doc.customer,
                 token    |-> IF wanted.token # seen.token THEN wanted.token ELSE doc.token,
                 revoked  |-> IF wanted.revoked # seen.revoked THEN wanted.revoked
                                                               ELSE doc.revoked,
                 linked   |-> IF wanted.linked # seen.linked THEN wanted.linked ELSE doc.linked]
  BY <1>2, <1>3, <1>4, <1>8 DEF Changed
<1> QED BY <1>1, <1>4, <1>6, <1>7, <1>8 DEF seen, wanted

-------------------------------------------------------------------------------
(* The steps *)

\* A decision holds as long as its request does and its token stays made for the
\* same customer.
LEMMA DecidedKept ==
  ASSUME TypeOK, NEW r \in Requests, Decided(r), request'[r] = request[r],
         issued' >= issued, issued' \in Nat,
         \A t \in Tokens : t <= issued => issuedFor'[t] = issuedFor[t]
  PROVE  Decided(r)'
<1>1. issued \in Nat /\ issued <= MaxTokens
  BY QuoteAssumption DEF TypeOK
<1>2. \A t \in 1 .. issued : t \in 1 .. issued' /\ issuedFor'[t] = issuedFor[t]
  BY <1>1, QuoteAssumption DEF Tokens
<1> QED BY <1>2 DEF Decided

\* An idle request has decided nothing.
LEMMA NothingDecided ==
  ASSUME NEW r \in Requests, request'[r] = NoRequest
  PROVE  Decided(r)'
BY DEF Decided, NoRequest, Plan

\* A request loads the row.
LEMMA LoadStep ==
  ASSUME IInv, NEW r \in Requests, NEW pc \in {"write", "delete", "convert"},
         NEW wanted \in Doc, Loaded(r, pc, wanted),
         UNCHANGED <<doc, expired, viewer, race>>,
         issued' \in 0 .. MaxTokens, issued' >= issued,
         issuedFor' \in [Tokens -> Customers \cup {NoCustomer}],
         \A t \in Tokens : t <= issued => issuedFor'[t] = issuedFor[t],
         Plan(pc, doc, wanted),
         wanted.token # doc.token => /\ wanted.token \in 1 .. issued'
                                     /\ issuedFor'[wanted.token] = doc.customer
  PROVE  IInv'
<1>1. TypeOK
  BY DEF IInv
<1>2. /\ request' \in [Requests -> Request]
      /\ request'[r] = [pc |-> pc, seen |-> doc, wanted |-> wanted]
      /\ \A q \in Requests \ {r} : request'[q] = request[q]
  BY <1>1, LoadedRequest
<1>3. TypeOK'
  BY <1>1, <1>2 DEF TypeOK
<1>4. /\ doc.token \in Nat /\ issued \in Nat /\ issued' \in Nat
      /\ doc.token # NoToken => doc.token \in Tokens
  BY <1>1, Columns DEF TypeOK, Tokens, NoToken
<1>5. TokensStay'
  BY <1>2, <1>4 DEF IInv, TokensStay
<1>6. ASSUME NEW q \in Requests
      PROVE  Decided(q)'
  <2>1. CASE q = r
    BY <1>2, <2>1 DEF Decided
  <2>2. CASE q # r
    BY <1>1, <1>2, <1>4, <2>2, DecidedKept DEF IInv
  <2> QED BY <2>1, <2>2
<1>7. race' = {} => SharedAsMade'
  BY <1>4 DEF IInv, SharedAsMade, TokensStay
<1> QED BY <1>3, <1>5, <1>6, <1>7 DEF IInv

\* The requests that load: each writes what it may.
LEMMA LoadsInv ==
  ASSUME IInv, NEW r \in Requests,
         Share(r) \/ Revoke(r) \/ Update(r) \/ Convert(r) \/ Delete(r) \/ Render(r)
  PROVE  IInv'
<1>1. /\ doc \in Doc /\ issued \in 0 .. MaxTokens
      /\ issuedFor \in [Tokens -> Customers \cup {NoCustomer}]
      /\ doc.token <= issued
  BY DEF IInv, TypeOK, TokensStay
<1>2. MaxTokens \in Nat /\ issued \in Nat /\ doc.token \in Nat
  BY <1>1, QuoteAssumption, Columns
<1>3. CASE Share(r)
  <2>1. PICK regenerate \in BOOLEAN :
          LET refresh == RefreshNeeded(doc, regenerate)
              token == IF refresh THEN issued + 1 ELSE doc.token
          IN  /\ token <= MaxTokens
              /\ Loaded(r, "write",
                        [doc EXCEPT !.token = token,
                                    !.revoked = FALSE,
                                    !.status = IF @ \in PostShare THEN @ ELSE "shared"])
              /\ issued' = IF refresh THEN token ELSE issued
              /\ issuedFor' = IF refresh THEN [issuedFor EXCEPT ![token] = doc.customer]
                                         ELSE issuedFor
    BY <1>3 DEF Share
  <2> DEFINE refresh == RefreshNeeded(doc, regenerate)
             token == IF refresh THEN issued + 1 ELSE doc.token
             status == IF doc.status \in PostShare THEN doc.status ELSE "shared"
             wanted == [doc EXCEPT !.token = token, !.revoked = FALSE,
                                   !.status = IF @ \in PostShare THEN @ ELSE "shared"]
  <2>2. token \in 0 .. MaxTokens
    BY <1>1, <1>2, <2>1
  <2>3. /\ ~refresh => token # NoToken /\ ~doc.revoked /\ token = doc.token
        /\ refresh => token \in Tokens /\ token # doc.token /\ token = issued + 1
    BY <1>1, <1>2, <2>1 DEF RefreshNeeded, Tokens, NoToken
  <2> HIDE DEF refresh, token
  <2>4. wanted = [status |-> status, type |-> doc.type, customer |-> doc.customer,
                  token |-> token, revoked |-> FALSE, linked |-> doc.linked]
    BY <1>1, SharedRow
  <2>5. status \in Statuses
    BY <1>1, Columns DEF Statuses, PostShare, Outcomes
  <2>6. wanted \in Doc
    <3>1. /\ doc.type \in {"quote", "invoice"} /\ doc.linked \in BOOLEAN
          /\ doc.customer \in Customers \cup {NoCustomer}
      BY <1>1, Columns
    <3> HIDE DEF status, wanted
    <3> QED BY <2>2, <2>4, <2>5, <3>1, IsRow
  <2>7. /\ Loaded(r, "write", wanted)
        /\ token <= MaxTokens
        /\ issued' = IF refresh THEN token ELSE issued
        /\ issuedFor' = IF refresh THEN [issuedFor EXCEPT ![token] = doc.customer]
                                   ELSE issuedFor
    BY <2>1 DEF refresh, token
  <2>8. /\ issued' \in 0 .. MaxTokens /\ issued' >= issued
        /\ issuedFor' \in [Tokens -> Customers \cup {NoCustomer}]
    <3>1. doc.customer \in Customers \cup {NoCustomer}
      BY <1>1, Columns
    <3> QED BY <1>1, <1>2, <2>2, <2>3, <2>7, <3>1
  <2>9. \A t \in Tokens : t <= issued => issuedFor'[t] = issuedFor[t]
    BY <1>1, <1>2, <2>3, <2>7
  <2>10. refresh => issued' = token /\ issuedFor'[token] = doc.customer
    BY <1>1, <2>3, <2>7
  <2>11. UNCHANGED <<doc, expired, viewer, race>> /\ IsQuote(doc)
    BY <1>3 DEF Share
  <2>12. wanted.token = token
    BY <2>4
  <2>13. wanted = [doc EXCEPT !.token = wanted.token, !.revoked = FALSE,
                              !.status = IF @ \in PostShare THEN @ ELSE "shared"]
    BY <2>12
  <2> HIDE DEF wanted
  <2>14. Plan("write", doc, wanted)
    BY <1>2, <2>2, <2>3, <2>11, <2>12, <2>13 DEF Plan, Sharing, NoToken
  <2>15. wanted.token # doc.token => /\ wanted.token \in 1 .. issued'
                                     /\ issuedFor'[wanted.token] = doc.customer
    BY <2>3, <2>10, <2>12 DEF Tokens
  <2> QED BY <2>6, <2>7, <2>8, <2>9, <2>11, <2>14, <2>15, LoadStep
<1>4. ASSUME UNCHANGED <<issued, issuedFor>>
      PROVE  /\ issued' \in 0 .. MaxTokens /\ issued' >= issued
             /\ issuedFor' \in [Tokens -> Customers \cup {NoCustomer}]
             /\ \A t \in Tokens : t <= issued => issuedFor'[t] = issuedFor[t]
  BY <1>1, <1>2, <1>4
<1>5. CASE Revoke(r)
  <2> DEFINE wanted == [doc EXCEPT !.revoked = TRUE]
  <2>1. wanted \in Doc
    BY <1>1, <1>5 DEF Revoke, Doc
  <2>2. Plan("write", doc, wanted) /\ wanted.token = doc.token
    BY <1>1, <1>5 DEF Revoke, Plan, Revoking, Doc
  <2> QED BY <1>4, <1>5, <2>1, <2>2, LoadStep DEF Revoke
<1>6. CASE Update(r)
  <2>1. PICK customer \in Customers \cup {doc.customer}, type \in {"quote", "invoice"} :
          /\ customer # doc.customer => Reassignable(doc)
          /\ type # doc.type => Retypeable(doc)
          /\ Loaded(r, "write", [doc EXCEPT !.customer = customer, !.type = type])
    BY <1>6 DEF Update
  <2> DEFINE wanted == [doc EXCEPT !.customer = customer, !.type = type]
  <2>2. doc.customer \in Customers \cup {NoCustomer}
    BY <1>1, Columns
  <2>3. wanted \in Doc /\ wanted.customer = customer /\ wanted.type = type
    BY <1>1, <2>2 DEF Doc
  <2>4. UNCHANGED doc /\ IsQuote(doc)
    BY <1>6 DEF Update
  <2>5. Plan("write", doc, wanted) /\ wanted.token = doc.token
    BY <1>1, <2>1, <2>3, <2>4 DEF Plan, Updating, Doc
  <2> QED BY <1>4, <1>6, <2>1, <2>3, <2>5, LoadStep DEF Update
<1>7. CASE Render(r)
  <2> DEFINE wanted == [doc EXCEPT !.status = "ready"]
  <2>1. wanted \in Doc
    BY <1>1 DEF Doc, Statuses
  <2>2. Plan("write", doc, wanted) /\ wanted.token = doc.token
    BY <1>1, <1>7 DEF Render, Plan, Rendering, Doc
  <2> QED BY <1>4, <1>7, <2>1, <2>2, LoadStep DEF Render
<1>8. CASE Convert(r)
  <2>1. Plan("convert", doc, doc)
    BY <1>8 DEF Convert, Plan
  <2> QED BY <1>1, <1>4, <1>8, <2>1, LoadStep DEF Convert
<1>9. CASE Delete(r)
  <2>1. Plan("delete", doc, doc)
    BY <1>9 DEF Delete, Plan
  <2> QED BY <1>1, <1>4, <1>9, <2>1, LoadStep DEF Delete
<1> QED BY <1>3, <1>5, <1>6, <1>7, <1>8, <1>9

\* A step that ends a request, or is no request's, keeps what the requests
\* decided; what is left to show is the row.
LEMMA RowStep ==
  ASSUME IInv, doc' \in Doc, UNCHANGED <<issued, issuedFor>>,
         expired' \subseteq Tokens, viewer' \in [Viewers -> Viewer],
         race' \subseteq {"lost_update", "stale_decision"},
         request' \in [Requests -> Request],
         \A q \in Requests : request'[q] \in {request[q], NoRequest},
         doc'.token <= issued,
         doc.token # NoToken => doc'.token # NoToken,
         race' = {} => SharedAsMade'
  PROVE  IInv'
<1>1. TypeOK'
  BY DEF IInv, TypeOK
<1>2. TokensStay'
  BY DEF IInv, TokensStay, NoRequest, NewDoc
<1>3. issued \in Nat
  BY QuoteAssumption DEF IInv, TypeOK
<1>4. ASSUME NEW q \in Requests
      PROVE  Decided(q)'
  BY <1>3, DecidedKept, NothingDecided DEF IInv
<1> QED BY <1>1, <1>2, <1>4 DEF IInv

\* What was decided, column by column.
LEMMA PlanColumns ==
  ASSUME NEW seen \in Doc, NEW wanted \in Doc, Plan("write", seen, wanted)
  PROVE  /\ wanted.linked = seen.linked
         /\ wanted.token = NoToken => seen.token = NoToken
         /\ wanted.revoked # seen.revoked =>
              \/ wanted.token # seen.token
              \/ wanted.revoked /\ seen.token # NoToken
         /\ wanted.token # seen.token => IsQuote(seen) /\ wanted.status \in Public
         /\ wanted.status # seen.status =>
              \/ seen.status = "draft" /\ wanted.status = "ready"
              \/ seen.status \notin Public /\ wanted.status = "shared"
         /\ wanted.customer # seen.customer => Reassignable(seen) /\ wanted.token = seen.token
         /\ wanted.type # seen.type => Retypeable(seen) /\ wanted.token = seen.token
                                       /\ wanted.status = seen.status
<1>1. CASE Sharing(seen, wanted)
  <2> DEFINE status == IF seen.status \in PostShare THEN seen.status ELSE "shared"
  <2>1. wanted = [status |-> status, type |-> seen.type, customer |-> seen.customer,
                  token |-> wanted.token, revoked |-> FALSE, linked |-> seen.linked]
    BY <1>1, SharedRow DEF Sharing
  <2>2. /\ wanted.status = status /\ wanted.type = seen.type
        /\ wanted.customer = seen.customer
        /\ wanted.revoked = FALSE /\ wanted.linked = seen.linked
    BY <2>1
  <2>3. seen.status \in Statuses /\ seen.revoked \in BOOLEAN
    BY <1>1, Columns DEF Sharing, IsQuote
  <2> QED BY <1>1, <2>2, <2>3 DEF Sharing, Public, PostShare, Outcomes, Statuses
<1>2. CASE Revoking(seen, wanted)
  BY <1>2 DEF Revoking, Doc
<1>3. CASE Updating(seen, wanted)
  BY <1>3 DEF Updating, Doc
<1>4. CASE Rendering(seen, wanted)
  BY <1>4 DEF Rendering, Doc
<1> QED BY <1>1, <1>2, <1>3, <1>4 DEF Plan

\* A flush keeps the invariant: whatever the row holds by then, a column is
\* written only as decided, and a decision on the row as it is was right.
LEMMA FlushInv ==
  ASSUME IInv, NEW r \in Requests, Flush(r)
  PROVE  IInv'
<1> DEFINE seen == request[r].seen
           wanted == request[r].wanted
<1>1. TypeOK /\ doc \in Doc
  BY DEF IInv, TypeOK
<1>2. /\ request' \in [Requests -> Request]
      /\ \A q \in Requests : request'[q] \in {request[q], NoRequest}
  BY <1>1, FinishedRequest DEF Flush
<1>3. UNCHANGED <<expired, viewer, issued, issuedFor>>
  BY DEF Flush
<1>4. race' \subseteq {"lost_update", "stale_decision"}
  BY <1>1 DEF Flush, TypeOK
<1>5. /\ seen \in Doc /\ wanted \in Doc /\ Plan("write", seen, wanted)
      /\ wanted.token # seen.token => /\ wanted.token \in 1 .. issued
                                      /\ issuedFor[wanted.token] = seen.customer
      /\ seen.token # NoToken => doc.token # NoToken
      /\ doc.token <= issued
  BY <1>1, Flushed DEF Flush, IInv, Decided, TokensStay
<1>6. race' = {} => race = {} /\ (doc.status = "deleted" \/ doc = seen)
  BY <1>1, Flushed
<1>7. issued \in Nat /\ issued <= MaxTokens
  BY <1>1, QuoteAssumption DEF TypeOK
<1>8. CASE doc.status = "deleted"
  <2>1. doc' = doc
    BY <1>1, <1>8, Flushed
  <2>2. race' = {} => SharedAsMade'
    BY <1>3, <1>6, <2>1 DEF IInv, SharedAsMade
  <2> QED BY <1>1, <1>2, <1>3, <1>4, <1>5, <2>1, <2>2, RowStep DEF TypeOK
<1>9. CASE doc.status # "deleted"
  <2>1. doc' = [status   |-> IF wanted.status # seen.status THEN wanted.status ELSE doc.status,
                type     |-> IF wanted.type # seen.type THEN wanted.type ELSE doc.type,
                customer |-> IF wanted.customer # seen.customer THEN wanted.customer
                                                                ELSE doc.customer,
                token    |-> IF wanted.token # seen.token THEN wanted.token ELSE doc.token,
                revoked  |-> IF wanted.revoked # seen.revoked THEN wanted.revoked
                                                              ELSE doc.revoked,
                linked   |-> IF wanted.linked # seen.linked THEN wanted.linked ELSE doc.linked]
    BY <1>1, <1>9, Flushed
  <2> HIDE DEF seen, wanted
  <2>2. /\ doc'.status = IF wanted.status # seen.status THEN wanted.status ELSE doc.status
        /\ doc'.type = IF wanted.type # seen.type THEN wanted.type ELSE doc.type
        /\ doc'.customer = IF wanted.customer # seen.customer THEN wanted.customer
                                                             ELSE doc.customer
        /\ doc'.token = IF wanted.token # seen.token THEN wanted.token ELSE doc.token
        /\ doc'.revoked = IF wanted.revoked # seen.revoked THEN wanted.revoked ELSE doc.revoked
        /\ doc'.linked = doc.linked
    BY <1>5, <2>1, PlanColumns
  <2>3. /\ doc'.token <= issued
        /\ doc.token # NoToken => doc'.token # NoToken
    BY <1>5, <1>7, <2>2 DEF NoToken
  <2>4. doc'.revoked => doc'.token # NoToken
    <3>1. doc.revoked => doc.token # NoToken
      BY <1>1, Columns
    <3>2. wanted.revoked # seen.revoked /\ wanted.token = seen.token => seen.token # NoToken
      BY <1>5, PlanColumns
    <3> QED BY <1>5, <2>2, <2>3, <3>1, <3>2 DEF NoToken
  <2>5. doc' \in Doc
    <3>1. /\ doc'.status \in Statuses \cup {"deleted"} /\ doc'.type \in {"quote", "invoice"}
          /\ doc'.customer \in Customers \cup {NoCustomer}
          /\ doc'.token \in 0 .. MaxTokens
          /\ doc'.revoked \in BOOLEAN /\ doc'.linked \in BOOLEAN
      BY <1>1, <1>5, <2>2, Columns
    <3>2. doc' = [status |-> doc'.status, type |-> doc'.type, customer |-> doc'.customer,
                  token |-> doc'.token, revoked |-> doc'.revoked, linked |-> doc'.linked]
      BY <2>1
    <3> QED BY <2>4, <3>1, <3>2, IsRow
  <2>6. ASSUME race' = {}
        PROVE  SharedAsMade'
    <3>1. race = {} /\ doc = seen
      BY <1>6, <1>9, <2>6 DEF seen
    <3>2. SharedAsMade
      BY <3>1 DEF IInv
    <3>3. /\ doc'.status = wanted.status /\ doc'.type = wanted.type
          /\ doc'.customer = wanted.customer
          /\ doc'.token = wanted.token
          /\ doc'.linked = seen.linked
      BY <2>2, <3>1
    <3>4. /\ wanted.token # seen.token => IsQuote(seen) /\ wanted.status \in Public
          /\ wanted.status # seen.status =>
               \/ seen.status = "draft" /\ wanted.status = "ready"
               \/ seen.status \notin Public /\ wanted.status = "shared"
          /\ wanted.customer # seen.customer => Reassignable(seen) /\ wanted.token = seen.token
          /\ wanted.type # seen.type => Retypeable(seen) /\ wanted.token = seen.token
                                        /\ wanted.status = seen.status
      BY <1>5, PlanColumns
    <3>5. ASSUME wanted.token # NoToken
          PROVE  /\ wanted.status \in Public
                 /\ wanted.customer = issuedFor[wanted.token]
      <4>1. CASE wanted.token # seen.token
        BY <1>5, <3>4, <4>1
      <4>2. CASE wanted.token = seen.token
        <5>1. seen.status \in Public /\ seen.customer = issuedFor[seen.token]
          BY <3>1, <3>2, <3>5, <4>2 DEF SharedAsMade
        <5>2. ~Reassignable(seen)
          BY <5>1 DEF Reassignable, Public, PostShare, Outcomes
        <5> QED BY <3>4, <4>2, <5>1, <5>2 DEF Public, PostShare, Outcomes
      <4> QED BY <4>1, <4>2
    <3>6. ASSUME wanted.type = "invoice"
          PROVE  ~seen.linked /\ wanted.token = NoToken
      <4>1. CASE wanted.type # seen.type
        BY <3>4, <4>1 DEF Retypeable
      <4>2. CASE wanted.type = seen.type
        <5>1. ~seen.linked /\ seen.token = NoToken /\ ~IsQuote(seen)
          BY <3>1, <3>2, <3>6, <4>2 DEF SharedAsMade, IsQuote
        <5> QED BY <3>4, <5>1
      <4> QED BY <4>1, <4>2
    <3> QED BY <1>3, <3>3, <3>5, <3>6 DEF SharedAsMade
  <2> QED BY <1>1, <1>2, <1>3, <1>4, <2>3, <2>5, <2>6, RowStep DEF TypeOK
<1> QED BY <1>8, <1>9

\* The statements that end a conversion, a deletion or nothing.
LEMMA EndsInv ==
  ASSUME IInv, NEW r \in Requests, ConvertCommit(r) \/ DeleteCommit(r) \/ Abandon(r)
  PROVE  IInv'
<1>1. TypeOK /\ doc \in Doc /\ TokensStay
  BY DEF IInv, TypeOK
<1>2. /\ request' \in [Requests -> Request]
      /\ \A q \in Requests : request'[q] \in {request[q], NoRequest}
  BY <1>1, FinishedRequest DEF ConvertCommit, DeleteCommit, Abandon
<1>3. UNCHANGED <<expired, viewer, issued, issuedFor>>
  BY DEF ConvertCommit, DeleteCommit, Abandon
<1>4. race' \subseteq {"lost_update", "stale_decision"}
  BY <1>1 DEF ConvertCommit, DeleteCommit, Abandon, TypeOK
<1>5. Plan(request[r].pc, request[r].seen, request[r].wanted)
  BY DEF IInv, Decided
<1>6. ASSUME UNCHANGED <<doc, race>>
      PROVE  IInv'
  <2>1. race' = {} => SharedAsMade'
    BY <1>3, <1>6 DEF IInv, SharedAsMade
  <2> QED BY <1>1, <1>2, <1>3, <1>4, <1>6, <2>1, RowStep DEF TypeOK, TokensStay
<1>7. CASE ConvertCommit(r) /\ ~UNCHANGED <<doc, race>>
  <2>1. /\ doc' = [doc EXCEPT !.linked = TRUE]
        /\ race' = race \cup (IF doc = request[r].seen THEN {} ELSE {"stale_decision"})
    BY <1>7 DEF ConvertCommit
  <2>2. doc' \in Doc /\ doc'.token = doc.token
        /\ doc'.status = doc.status /\ doc'.customer = doc.customer /\ doc'.type = doc.type
    BY <1>1, <2>1 DEF Doc
  <2>3. race' = {} => race = {} /\ doc = request[r].seen
    BY <2>1
  <2>4. race' = {} => IsQuote(doc)
    BY <1>5, <1>7, <2>3 DEF ConvertCommit, Plan
  <2>5. race' = {} => SharedAsMade'
    BY <1>3, <2>2, <2>3, <2>4 DEF IInv, SharedAsMade, IsQuote
  <2> QED BY <1>1, <1>2, <1>3, <1>4, <2>2, <2>5, RowStep DEF TypeOK, TokensStay
<1>8. CASE DeleteCommit(r)
  <2>1. /\ doc' = IF doc.linked THEN doc ELSE [doc EXCEPT !.status = "deleted"]
        /\ race' = race \cup (IF doc = request[r].seen \/ doc.status = "deleted" \/ doc.linked
                              THEN {} ELSE {"stale_decision"})
    BY <1>8 DEF DeleteCommit
  <2>2. /\ doc' \in Doc /\ doc'.token = doc.token /\ doc'.customer = doc.customer
        /\ doc'.type = doc.type /\ doc'.linked = doc.linked
        /\ doc'.status = IF doc.linked THEN doc.status ELSE "deleted"
    BY <1>1, <2>1 DEF Doc
  <2>3. race' = {} => race = {} /\ (doc = request[r].seen \/ doc.status = "deleted" \/ doc.linked)
    BY <2>1
  <2>4. Deletable(request[r].seen)
    BY <1>5, <1>8 DEF DeleteCommit, Plan
  <2>5. ASSUME race' = {}
        PROVE  SharedAsMade'
    <3>1. SharedAsMade
      BY <2>3, <2>5 DEF IInv
    <3>2. doc'.status # doc.status => doc.token = NoToken
      BY <2>2, <2>3, <2>4, <2>5, <3>1 DEF SharedAsMade, Deletable
    <3> QED BY <1>3, <2>2, <3>1, <3>2 DEF SharedAsMade
  <2> QED BY <1>1, <1>2, <1>3, <1>4, <2>2, <2>5, RowStep DEF TypeOK, TokensStay
<1>9. CASE Abandon(r)
  BY <1>6, <1>9 DEF Abandon
<1> QED BY <1>6, <1>7, <1>8, <1>9

\* The public link, the outcome and the passing of time.
LEMMA PublicInv ==
  ASSUME IInv,
         \/ \E v \in Viewers : View(v)
         \/ \E outcome \in Outcomes : MarkOutcome(outcome)
         \/ Expire
  PROVE  IInv'
<1>1. TypeOK /\ doc \in Doc /\ TokensStay
  BY DEF IInv, TypeOK
<1>2. UNCHANGED <<request, issued, issuedFor, race>>
  BY DEF View, CheckToken, ReadQuote, MarkViewed, MarkOutcome, Expire
<1>3. viewer' \in [Viewers -> Viewer]
  <2>1. ASSUME NEW v \in Viewers, View(v)
        PROVE  viewer' \in [Viewers -> Viewer]
    <3>1. \A t \in Tokens : [pc |-> "checked", token |-> t] \in Viewer
      BY DEF Viewer
    <3>2. [viewer[v] EXCEPT !.pc = "mark"] \in Viewer
      BY <1>1 DEF TypeOK, Viewer
    <3> QED BY <1>1, <2>1, <3>1, <3>2, TypeEmpty DEF View, CheckToken, ReadQuote, MarkViewed, TypeOK
  <2> QED BY <1>1, <2>1 DEF MarkOutcome, Expire, TypeOK
<1>4. expired' \subseteq Tokens
  BY <1>1, Columns DEF View, CheckToken, ReadQuote, MarkViewed, MarkOutcome, Expire, TypeOK,
     Tokens, NoToken
<1>5. \/ doc' = doc
      \/ \E status \in PostShare : /\ doc' = [doc EXCEPT !.status = status]
                                 /\ IsQuote(doc)
  BY DEF View, CheckToken, ReadQuote, MarkViewed, MarkOutcome, Expire, PostShare, Holds
<1>6. /\ doc' \in Doc /\ doc'.token = doc.token /\ doc'.customer = doc.customer
      /\ doc'.type = doc.type /\ doc'.linked = doc.linked
      /\ doc'.status \in {doc.status} \cup PostShare
  <2>1. ASSUME NEW status \in PostShare, doc' = [doc EXCEPT !.status = status]
        PROVE  <1>6!:
    BY <1>1, <2>1 DEF Doc, PostShare, Outcomes, Statuses
  <2> QED BY <1>1, <1>5, <2>1
<1>7. race' = {} => SharedAsMade'
  BY <1>2, <1>6 DEF IInv, SharedAsMade, Public
<1> QED BY <1>1, <1>2, <1>3, <1>4, <1>6, <1>7, RowStep DEF TypeOK, TokensStay

-------------------------------------------------------------------------------
(* The theorems *)

\* The invariant holds at first.
THEOREM InitInv == Init => IInv
<1> SUFFICES ASSUME Init PROVE IInv
  OBVIOUS
<1>1. /\ doc \in Doc /\ doc.token = NoToken /\ doc.type = "quote"
  <2>1. NewDoc \in Doc /\ NewDoc.token = NoToken /\ NewDoc.type = "quote"
    BY TypeEmpty DEF NewDoc
  <2>2. ASSUME NEW c \in Customers, doc = [NewDoc EXCEPT !.customer = c]
        PROVE  doc \in Doc /\ doc.token = NoToken /\ doc.type = "quote"
    BY <2>1, <2>2 DEF Doc
  <2> QED BY <2>1, <2>2 DEF Init
<1>2. TypeOK
  BY <1>1, TypeEmpty, QuoteAssumption DEF Init, TypeOK
<1>3. TokensStay
  BY <1>1 DEF Init, TokensStay, NoRequest, NewDoc, NoToken
<1>4. \A r \in Requests : Decided(r)
  BY DEF Init, Decided, Plan, NoRequest
<1>5. SharedAsMade
  BY <1>1 DEF SharedAsMade
<1> QED BY <1>2, <1>3, <1>4, <1>5 DEF IInv

\* Every step keeps the invariant.
THEOREM NextInv == IInv /\ [Next]_vars => IInv'
<1> SUFFICES ASSUME IInv, [Next]_vars PROVE IInv'
  OBVIOUS
<1>1. CASE UNCHANGED vars
  BY <1>1 DEF vars, IInv, TypeOK, TokensStay, Decided, SharedAsMade
<1>2. CASE Next
  BY <1>2, LoadsInv, FlushInv, EndsInv, PublicInv DEF Next, Serve
<1> QED BY <1>1, <1>2

\* The inductive invariant holds in every behaviour.
THEOREM Invariance == Spec => []IInv
BY InitInv, NextInv, PTL DEF Spec

\* The columns agree: every record has its type in whatever order columns are
\* written, and as long as no request wrote on the strength of an old row, a
\* working link belongs to the customer of the quote, and a quote leads to one
\* invoice.
THEOREM RowsAgree == Spec => []ColumnsAgree
<1>1. ASSUME IInv PROVE ColumnsAgree
  <2>1. LinkKeepsCustomer
    BY <1>1 DEF IInv, LinkKeepsCustomer, SharedAsMade, Usable, Tokens, NoToken
  <2>2. InvoicedOnce
    BY <1>1 DEF IInv, InvoicedOnce, SharedAsMade
  <2> QED BY <1>1, <2>1, <2>2 DEF IInv, ColumnsAgree
<1> QED BY <1>1, Invariance, PTL

\* No status goes back unless an update was lost, and nothing that a customer may
\* have the link of is deleted unless the deletion was decided on an old row:
\* the writes that are conditional move forward by their condition, and the
\* others by what was loaded.
THEOREM StatusGoesOnward == Spec => NeverGoesBack
<1> DEFINE Onwards ==
      doc.status \in Statuses =>
        \/ doc'.status \in Onward[doc.status]
        \/ "lost_update" \in race'
        \/ doc'.status = "deleted" /\ "stale_decision" \in race'
<1>1. ASSUME IInv, [Next]_vars, doc.status \in Statuses
      PROVE  \/ doc'.status \in Onward[doc.status]
             \/ "lost_update" \in race'
             \/ doc'.status = "deleted" /\ "stale_decision" \in race'
  <2>1. doc \in Doc /\ TypeOK
    BY <1>1 DEF IInv, TypeOK
  <2>2. doc.status \in Onward[doc.status]
    BY <1>1 DEF Onward, Statuses, Public, PostShare, Outcomes
  <2>3. ASSUME NEW r \in Requests, Flush(r)
        PROVE  doc'.status \in Onward[doc.status] \/ "lost_update" \in race'
    <3> DEFINE seen == request[r].seen
               wanted == request[r].wanted
    <3>1. /\ seen \in Doc /\ wanted \in Doc
          /\ doc'.status = IF wanted.status # seen.status THEN wanted.status ELSE doc.status
          /\ wanted.status # seen.status /\ doc.status # seen.status => "lost_update" \in race'
      BY <1>1, <2>1, <2>3, Flushed DEF Statuses
    <3>2. Plan("write", seen, wanted)
      BY <1>1, <2>3 DEF IInv, Decided, Flush
    <3> HIDE DEF seen, wanted
    <3>3. wanted.status # seen.status =>
            \/ seen.status = "draft" /\ wanted.status = "ready"
            \/ seen.status \notin Public /\ wanted.status = "shared"
      BY <3>1, <3>2, PlanColumns
    <3>4. wanted.status # seen.status /\ doc.status = seen.status =>
            wanted.status \in Onward[doc.status]
      BY <1>1, <3>3 DEF Onward, Statuses, Public, PostShare, Outcomes
    <3> QED BY <2>2, <3>1, <3>4
  <2>4. ASSUME NEW r \in Requests, DeleteCommit(r)
        PROVE  \/ doc'.status \in Onward[doc.status]
               \/ doc'.status = "deleted" /\ "stale_decision" \in race'
    <3>1. CASE doc.linked
      BY <2>2, <2>4, <3>1 DEF DeleteCommit
    <3>2. CASE ~doc.linked /\ doc = request[r].seen
      <4>1. Deletable(doc)
        BY <1>1, <2>4, <3>2 DEF IInv, Decided, Plan, DeleteCommit
      <4>2. doc'.status = "deleted"
        BY <2>1, <2>4, <3>2 DEF DeleteCommit, Doc
      <4> QED BY <1>1, <4>1, <4>2 DEF Deletable, Onward, Statuses, Public, PostShare, Outcomes
    <3>3. CASE ~doc.linked /\ doc # request[r].seen
      <4>1. doc'.status = "deleted"
        BY <2>1, <2>4, <3>3 DEF DeleteCommit, Doc
      <4> QED BY <1>1, <2>4, <3>3, <4>1 DEF DeleteCommit, Statuses
    <3> QED BY <3>1, <3>2, <3>3
  <2>5. ASSUME NEW r \in Requests, Serve(r), ~Flush(r), ~DeleteCommit(r)
        PROVE  doc'.status = doc.status
    BY <2>1, <2>5 DEF Serve, Share, Revoke, Update, Convert, Delete, Render, ConvertCommit,
       Abandon, Doc
  <2>6. ASSUME NEW outcome \in Outcomes, MarkOutcome(outcome)
        PROVE  doc'.status \in Onward[doc.status]
    BY <1>1, <2>1, <2>6 DEF MarkOutcome, Doc, Onward, Statuses, Public, PostShare, Outcomes
  <2>7. ASSUME NEW v \in Viewers, View(v)
        PROVE  doc'.status \in Onward[doc.status]
    <3>1. \/ doc'.status = doc.status
          \/ doc.status = "shared" /\ doc'.status = "viewed"
      BY <2>1, <2>7 DEF View, CheckToken, ReadQuote, MarkViewed, Doc
    <3> QED BY <1>1, <2>2, <3>1 DEF Onward, Statuses, Public, PostShare, Outcomes
  <2>8. CASE Expire \/ UNCHANGED vars
    BY <2>2, <2>8 DEF Expire, vars
  <2> QED BY <1>1, <2>2, <2>3, <2>4, <2>5, <2>6, <2>7, <2>8 DEF Next
<1>2. IInv /\ [Next]_vars => [Onwards]_vars
  BY <1>1
<1>3. NeverGoesBack <=> [][Onwards]_vars
  BY DEF NeverGoesBack
<1> QED BY <1>2, <1>3, Invariance, PTL DEF Spec

\* A dead link stays dead under every race: only the share that made a token
\* writes it, and it makes a token anew whenever the loaded one was revoked, so no
\* write takes a revocation back.
THEOREM LinksStayDead == Spec => DeadLinkStaysDead
<1> DEFINE Dead == \A t \in 1 .. issued : ~Coming(t) /\ ~Usable(t) => ~Usable(t)'
<1>1. ASSUME IInv, [Next]_vars, NEW t \in 1 .. issued, ~Coming(t), ~Usable(t)
      PROVE  ~Usable(t)'
  <2>1. doc \in Doc /\ TypeOK
    BY <1>1 DEF IInv, TypeOK
  <2>2. expired \subseteq expired'
    BY <1>1 DEF Next, Serve, Share, Revoke, Update, Convert, Delete, Render, Flush,
       ConvertCommit, DeleteCommit, Abandon, View, CheckToken, ReadQuote, MarkViewed,
       MarkOutcome, Expire, vars
  <2>3. ASSUME doc'.token = doc.token, doc'.revoked = doc.revoked
        PROVE  ~Usable(t)'
    BY <1>1, <2>2, <2>3 DEF Usable
  <2>4. ASSUME NEW r \in Requests, Flush(r)
        PROVE  ~Usable(t)'
    <3> DEFINE seen == request[r].seen
               wanted == request[r].wanted
    <3>1. /\ seen \in Doc /\ wanted \in Doc
          /\ \/ doc' = doc
             \/ /\ doc'.token = IF wanted.token # seen.token THEN wanted.token ELSE doc.token
                /\ doc'.revoked = IF wanted.revoked # seen.revoked THEN wanted.revoked
                                                                   ELSE doc.revoked
      BY <2>1, <2>4, Flushed
    <3>2. Plan("write", seen, wanted)
      BY <1>1, <2>4 DEF IInv, Decided, Flush
    <3>3. wanted.token # seen.token => wanted.token # t
      BY <1>1 DEF Coming
    <3> HIDE DEF seen, wanted
    <3>4. wanted.revoked # seen.revoked => wanted.token # seen.token \/ wanted.revoked
      BY <3>1, <3>2, PlanColumns
    <3> QED BY <1>1, <2>2, <3>1, <3>3, <3>4 DEF Usable
  <2>5. ASSUME NEW r \in Requests, Serve(r), ~Flush(r)
        PROVE  doc'.token = doc.token /\ doc'.revoked = doc.revoked
    BY <2>1, <2>5 DEF Serve, Share, Revoke, Update, Convert, Delete, Render, ConvertCommit,
       DeleteCommit, Abandon, Doc
  <2>6. ASSUME NEW v \in Viewers, View(v)
        PROVE  doc'.token = doc.token /\ doc'.revoked = doc.revoked
    BY <2>1, <2>6 DEF View, CheckToken, ReadQuote, MarkViewed, Doc
  <2>7. ASSUME NEW outcome \in Outcomes, MarkOutcome(outcome)
        PROVE  doc'.token = doc.token /\ doc'.revoked = doc.revoked
    BY <2>1, <2>7 DEF MarkOutcome, Doc
  <2>8. CASE Expire \/ UNCHANGED vars
    BY <2>3, <2>8 DEF Expire, vars
  <2> QED BY <1>1, <2>3, <2>4, <2>5, <2>6, <2>7, <2>8 DEF Next
<1>2. IInv /\ [Next]_vars => [Dead]_vars
  BY <1>1
<1>3. DeadLinkStaysDead <=> [][Dead]_vars
  BY DEF DeadLinkStaysDead
<1> QED BY <1>2, <1>3, Invariance, PTL DEF Spec
===============================================================================
