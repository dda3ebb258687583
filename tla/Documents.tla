------------------------------- MODULE Documents -------------------------------
(***************************************************************************)
(* The documents of one user: quotes and invoices in one table, numbered   *)
(* per type by the highest number in use plus one, copied, converted,      *)
(* changed from one type into the other, shared, paid, archived, deleted   *)
(* one by one, in bulk, and with their customer.                           *)
(*                                                                         *)
(* A request loads a row, decides on it and writes later, by id, only what *)
(* it changed; bulk archiving, first views and quote outcomes are one      *)
(* conditional UPDATE.  draft and ready are one status here ("open"), and  *)
(* so are viewed, approved and declined ("answered"), and a link that was  *)
(* revoked or has expired is "dead": no rule below tells them apart.  The  *)
(* tokens behind a link are in QuoteLifecycle, the content of a document   *)
(* is in DraftContent, its artifact in PdfArtifact.                        *)
(***************************************************************************)
EXTENDS Naturals, FiniteSets, FiniteSetsExt

CONSTANTS
  MaxDocs,      \* bound: documents made
  Requests,     \* requests that may overlap
  Customers,
  NoCustomer,   \* customer_id is NULL
  MaxStarts     \* bound: requests

ASSUME DocumentsAssumption ==
  /\ NoCustomer \notin Customers
  /\ MaxDocs \in Nat \ {0}
  /\ MaxStarts \in Nat

VARIABLES
  rows,       \* the documents rows, by id
  made,       \* how many documents were inserted
  customers,  \* the customers that were not deleted
  request,    \* what each request is about to do
  starts,     \* auxiliary: requests so far
  shown,      \* auxiliary: the numbers customers have seen through a link
  viewEvents, \* auxiliary: the invoice_viewed events of each document
  stale       \* auxiliary: documents written on the strength of an old row

vars == <<rows, made, customers, request, starts, shown, viewEvents, stale>>

-------------------------------------------------------------------------------
(* Types *)

Docs == 1 .. MaxDocs
NoDoc == 0

Types == {"quote", "invoice"}
Sequences == Nat   \* no document has number 0

QuoteStatuses == {"open", "shared", "answered"}
Statuses == QuoteStatuses \cup {"sent", "paid", "void"}

\* _PUBLIC_INVOICE_STATUSES, _OUTCOME_SHARE_NON_REGRESSION_STATUSES and
\* _INVOICE_OUTCOME_MUTABLE_STATUSES, which are the same
Issued == {"sent", "paid", "void"}

Row == [there : BOOLEAN, type : Types, seq : Sequences, status : Statuses,
        link : {"none", "usable", "dead"},
        customer : Customers \cup {NoCustomer}, source : Docs \cup {NoDoc},
        archived : BOOLEAN, viewed : BOOLEAN]

NoRow == [there |-> FALSE, type |-> "quote", seq |-> 0, status |-> "open",
          link |-> "none", customer |-> NoCustomer, source |-> NoDoc,
          archived |-> FALSE, viewed |-> FALSE]

NewQuote(c) == [NoRow EXCEPT !.there = TRUE, !.customer = c]
NewInvoice(c, source) ==
  [NewQuote(c) EXCEPT !.type = "invoice", !.source = source]

\* doc is the document the request is about, seen what it read of it, wanted the
\* row it is to write.  rivals counts, for a request that creates a document, the
\* numbers of its type that others took meanwhile.
Request == [pc : {"idle", "numbering", "inserting", "writing", "deleting", "viewing", "bulk"},
            doc : Docs \cup {NoDoc}, seen : [row : Row, linked : BOOLEAN], wanted : Row,
            retried : BOOLEAN, bulk : {"none", "archive", "unarchive", "delete"},
            over : Types, todo : SUBSET Docs, refused : BOOLEAN, rivals : 0 .. 2]

NoRequest == [pc |-> "idle", doc |-> NoDoc, seen |-> [row |-> NoRow, linked |-> FALSE],
              wanted |-> NoRow, retried |-> FALSE, bulk |-> "none", over |-> "quote",
              todo |-> {}, refused |-> FALSE, rivals |-> 0]

TypeOK ==
  /\ rows \in [Docs -> Row]
  /\ made \in 0 .. MaxDocs
  /\ \A d \in Docs : rows[d].there => d <= made /\ rows[d].seq > 0
  /\ \A d \in Docs : rows[d].type = "invoice" => rows[d].customer # NoCustomer
  /\ customers \subseteq Customers
  /\ request \in [Requests -> Request]
  /\ starts \in 0 .. MaxStarts
  /\ shown \subseteq Docs \X Types \X Sequences
  /\ viewEvents \in [Docs -> Nat]
  /\ stale \subseteq Docs

-------------------------------------------------------------------------------
(* The table *)

There == {d \in Docs : rows[d].there}

Has(d, type) == d \in There /\ rows[d].type = type

\* has_linked_invoice, get_by_source_document_id
Linked(d) == \E i \in Docs : Has(i, "invoice") /\ rows[i].source = d

\* get_next_doc_sequence_for_type
NextSequence(type) == Max({0} \cup {rows[d].seq : d \in {e \in Docs : Has(e, type)}}) + 1

\* uq_documents_user_type_sequence
Taken(type, seq, except) ==
  \E d \in Docs \ {except} : Has(d, type) /\ rows[d].seq = seq

\* What decisions rest on.
Seen(d) == [row |-> [rows[d] EXCEPT !.archived = FALSE, !.viewed = FALSE], linked |-> Linked(d)]

Outdated(r) == IF request[r].seen # Seen(request[r].doc) THEN {request[r].doc} ELSE {}

Starts(r, what) ==
  /\ request[r].pc = "idle"
  /\ starts < MaxStarts
  /\ starts' = starts + 1
  /\ request' = [request EXCEPT ![r] = what]

\* The row is loaded, and the request has decided to make it this one.
Loads(r, d, pc, wanted) ==
  Starts(r, [NoRequest EXCEPT !.pc = pc, !.doc = d, !.seen = Seen(d), !.wanted = wanted])

Finish(r) == request' = [request EXCEPT ![r] = NoRequest]

table == <<rows, made, customers>>
aux == <<shown, viewEvents, stale>>

-------------------------------------------------------------------------------
(* Creation and conversion *)

\* create_quote, create_manual_draft and create_extracted_draft.
CreateQuote(r) ==
  /\ \E c \in customers \cup {NoCustomer} :
       Starts(r, [NoRequest EXCEPT !.pc = "numbering", !.wanted = NewQuote(c)])
  /\ UNCHANGED <<table, aux>>

CreateInvoice(r) ==
  /\ \E c \in customers :
       Starts(r, [NoRequest EXCEPT !.pc = "numbering", !.wanted = NewInvoice(c, NoDoc)])
  /\ UNCHANGED <<table, aux>>

\* duplicate_quote: what was read of the copied quote is not looked at again.
Duplicate(r, d) ==
  /\ Has(d, "quote")
  /\ Starts(r, [NoRequest EXCEPT !.pc = "numbering", !.wanted = NewQuote(rows[d].customer)])
  /\ UNCHANGED <<table, aux>>

\* convert_quote_to_invoice, up to the query for an invoice that exists.
Convert(r, d) ==
  /\ Has(d, "quote")
  /\ rows[d].customer # NoCustomer
  /\ ~Linked(d)
  /\ Loads(r, d, "numbering", NewInvoice(rows[d].customer, d))
  /\ UNCHANGED <<table, aux>>

\* A change of type writes the row with its new number, a creation inserts one.
TakeNumber(r) ==
  LET q == request[r] IN
  /\ q.pc = "numbering"
  /\ request' = [request EXCEPT
       ![r].pc = IF q.wanted.seq = 0 THEN "inserting" ELSE "writing",
       ![r].wanted.seq = NextSequence(q.wanted.type)]
  /\ UNCHANGED <<table, starts, aux>>

\* The requests that create a document of this type lost a number to it.
Rivals(type) ==
  [q \in Requests |->
     IF request[q].pc \in {"numbering", "inserting"} /\ request[q].wanted.type = type
        /\ request[q].wanted.source = NoDoc /\ request[q].rivals < 2
     THEN [request[q] EXCEPT !.rivals = @ + 1] ELSE request[q]]

\* The foreign keys, and the unique index over the sources of invoices.
Insertable(row) ==
  /\ row.customer \in customers \cup {NoCustomer}
  /\ row.source # NoDoc => row.source \in There /\ ~Linked(row.source)

Insert(r) ==
  LET q == request[r] IN
  /\ q.pc = "inserting"
  /\ ~Taken(q.wanted.type, q.wanted.seq, NoDoc)
  /\ Insertable(q.wanted)
  /\ made < MaxDocs
  /\ made' = made + 1
  /\ rows' = [rows EXCEPT ![made'] = q.wanted]
  /\ request' = [Rivals(q.wanted.type) EXCEPT ![r] = NoRequest]
  /\ stale' = stale \cup (IF q.doc = NoDoc THEN {} ELSE Outdated(r))
  /\ UNCHANGED <<customers, starts, shown, viewEvents>>

\* A collision of numbers is met with one more attempt.  A conversion has none:
\* the rollback expires the quote it goes on to read.
InsertCollides(r) ==
  LET q == request[r] IN
  /\ q.pc = "inserting"
  /\ Taken(q.wanted.type, q.wanted.seq, NoDoc)
  /\ request' = [request EXCEPT ![r] =
       IF q.doc = NoDoc /\ ~q.retried
       THEN [q EXCEPT !.pc = "numbering", !.retried = TRUE, !.wanted.seq = 0]
       ELSE [NoRequest EXCEPT !.refused = (q.doc = NoDoc), !.rivals = q.rivals]]
  /\ UNCHANGED <<table, starts, aux>>

InsertFails(r) ==
  /\ request[r].pc = "inserting"
  /\ ~Insertable(request[r].wanted)
  /\ Finish(r)
  /\ UNCHANGED <<table, starts, aux>>

-------------------------------------------------------------------------------
(* Changes of a row *)

\* Mutant: a document whose link was taken back may change its type.
RetypeableUnlessUsable(d) == rows[d].link # "usable" /\ rows[d].customer # NoCustomer

\* _apply_doc_type_transition, of a quote and of an invoice.
Retypeable(d) ==
  /\ rows[d].link = "none"
  /\ rows[d].status = "open"
  /\ IF rows[d].type = "quote" THEN ~Linked(d) /\ rows[d].customer # NoCustomer
     ELSE rows[d].source = NoDoc

Other(type) == IF type = "quote" THEN "invoice" ELSE "quote"

\* update_quote and update_invoice, where they change the type.
Retype(r, d) ==
  /\ d \in There
  /\ Retypeable(d)
  /\ Loads(r, d, "numbering", [rows[d] EXCEPT !.type = Other(@)])
  /\ UNCHANGED <<table, aux>>

\* update_quote, where it changes the customer.
Assign(r, d) ==
  /\ Has(d, "quote")
  /\ rows[d].status = "open" /\ ~Linked(d)
  /\ \E c \in customers \ {rows[d].customer} :
       Loads(r, d, "writing", [rows[d] EXCEPT !.customer = c])
  /\ UNCHANGED <<table, aux>>

\* share_quote: the link works afterwards, whatever it was before.
ShareQuote(r, d) ==
  /\ Has(d, "quote")
  /\ rows[d].customer # NoCustomer
  /\ Loads(r, d, "writing", [rows[d] EXCEPT !.link = "usable",
                                            !.status = IF @ = "answered" THEN @ ELSE "shared"])
  /\ UNCHANGED <<table, aux>>

\* Mutant: a new link makes the invoice a sent one.
ShareInvoiceAsSent(r, d) ==
  /\ Has(d, "invoice")
  /\ Loads(r, d, "writing", [rows[d] EXCEPT !.link = "usable", !.status = "sent"])
  /\ UNCHANGED <<table, aux>>

\* share_invoice
ShareInvoice(r, d) ==
  /\ Has(d, "invoice")
  /\ Loads(r, d, "writing", [rows[d] EXCEPT !.link = "usable",
                                            !.status = IF @ \in Issued THEN @ ELSE "sent"])
  /\ UNCHANGED <<table, aux>>

\* revoke_public_share, of either type.
Revoke(r, d) ==
  /\ d \in There
  /\ rows[d].link = "usable"
  /\ Loads(r, d, "writing", [rows[d] EXCEPT !.link = "dead"])
  /\ UNCHANGED <<table, aux>>

\* _mark_invoice_outcome; an outcome may replace the other.
PayOrVoid(r, d) ==
  /\ Has(d, "invoice")
  /\ rows[d].status \in Issued
  /\ \E outcome \in {"paid", "void"} \ {rows[d].status} :
       Loads(r, d, "writing", [rows[d] EXCEPT !.status = outcome])
  /\ UNCHANGED <<table, aux>>

\* set_quote_outcome: one UPDATE with what it wants in its WHERE.
QuoteOutcome(d) ==
  /\ Has(d, "quote")
  /\ rows[d].status \in QuoteStatuses \ {"answered"}
  /\ rows' = [rows EXCEPT ![d].status = "answered"]
  /\ UNCHANGED <<made, customers, request, starts, aux>>

Expire(d) ==
  /\ d \in There /\ rows[d].link = "usable"
  /\ rows' = [rows EXCEPT ![d].link = "dead"]
  /\ UNCHANGED <<made, customers, request, starts, aux>>

Changed(q) == {c \in DOMAIN NoRow : q.wanted[c] # q.seen.row[c]} \ {"archived", "viewed"}

\* The flush and the commit: a row that is gone, or a number that is taken, makes
\* them fail.
Flush(r) ==
  LET q == request[r]
      written == [c \in DOMAIN NoRow |->
                    IF c \in Changed(q) THEN q.wanted[c] ELSE rows[q.doc][c]]
  IN
  /\ q.pc = "writing"
  /\ \/ /\ q.doc \in There
        /\ ~Taken(written.type, written.seq, q.doc)
        /\ rows' = [rows EXCEPT ![q.doc] = written]
        /\ stale' = stale \cup Outdated(r)
        /\ request' = [(IF "type" \in Changed(q) THEN Rivals(q.wanted.type) ELSE request)
                         EXCEPT ![r] = NoRequest]
     \/ /\ q.doc \notin There \/ Taken(written.type, written.seq, q.doc)
        /\ Finish(r)
        /\ UNCHANGED <<rows, stale>>
  /\ UNCHANGED <<made, customers, starts, shown, viewEvents>>

-------------------------------------------------------------------------------
(* Public views *)

\* The checks on the link and the read of the page.
View(r, d) ==
  /\ d \in There
  /\ rows[d].link = "usable"
  /\ rows[d].status \in IF rows[d].type = "quote" THEN {"shared", "answered"} ELSE Issued
  /\ Loads(r, d, "viewing", rows[d])
  /\ UNCHANGED <<table, aux>>

\* Mutant: the timestamp of the first view is not looked at.
FirstViewAlways(d) == Has(d, "invoice") /\ rows[d].status \in Issued

\* mark_first_public_view_by_share_token
FirstView(d) == Has(d, "invoice") /\ rows[d].status \in Issued /\ ~rows[d].viewed

\* transition_to_viewed_by_share_token, and the answer with the page.
MarkViewed(r) ==
  LET d == request[r].doc
      page == request[r].seen.row
  IN
  /\ request[r].pc = "viewing"
  /\ rows' = CASE d \in There /\ page.type = "quote" /\ rows[d].type = "quote"
                  /\ rows[d].status = "shared" -> [rows EXCEPT ![d].status = "answered"]
               [] page.type = "invoice" /\ FirstView(d) -> [rows EXCEPT ![d].viewed = TRUE]
               [] OTHER -> rows
  /\ viewEvents' = IF page.type = "invoice" /\ FirstView(d)
                   THEN [viewEvents EXCEPT ![d] = @ + 1] ELSE viewEvents
  /\ shown' = IF rows[d].there THEN shown \cup {<<d, page.type, page.seq>>} ELSE shown
  /\ Finish(r)
  /\ UNCHANGED <<made, customers, starts, stale>>

-------------------------------------------------------------------------------
(* Deletion and bulk actions *)

\* _NON_DELETABLE_QUOTE_STATUSES and has_linked_invoice
Deletable(d) == rows[d].status \notin {"shared", "answered"} /\ ~Linked(d)

DeleteQuote(r, d) ==
  /\ Has(d, "quote")
  /\ Deletable(d)
  /\ Loads(r, d, "deleting", NoRow)
  /\ UNCHANGED <<table, aux>>

\* The endpoints of quotes and of invoices; invoices are not deleted.
BulkAction(r) ==
  /\ \E over \in Types, action \in {"archive", "unarchive", "delete"}, ids \in SUBSET There :
       /\ Cardinality(ids) = 2
       /\ over = "invoice" => action # "delete"
       /\ Starts(r, [NoRequest EXCEPT !.pc = "bulk", !.bulk = action, !.over = over,
                                      !.todo = ids])
  /\ UNCHANGED <<table, aux>>

NextId(q, d) == [q EXCEPT !.pc = "bulk", !.doc = NoDoc, !.seen = NoRequest.seen, !.todo = @ \ {d}]

\* A document of another type, or one whose state is not the one asked for, is
\* reported as blocked; each of the others is committed on its own.
BulkArchive(r, d) ==
  LET q == request[r]
      archived == (q.bulk = "archive")
  IN
  /\ q.pc = "bulk" /\ d \in q.todo
  /\ q.bulk # "delete"
  /\ rows' = IF Has(d, q.over) /\ rows[d].archived # archived
             THEN [rows EXCEPT ![d].archived = archived] ELSE rows
  /\ request' = [request EXCEPT ![r] = NextId(@, d)]
  /\ UNCHANGED <<made, customers, starts, aux>>

BulkDelete(r, d) ==
  LET q == request[r] IN
  /\ q.pc = "bulk" /\ d \in q.todo
  /\ q.bulk = "delete"
  /\ request' = [request EXCEPT ![r] =
       IF Has(d, "quote") /\ Deletable(d)
       THEN [q EXCEPT !.pc = "deleting", !.doc = d, !.seen = Seen(d)] ELSE NextId(q, d)]
  /\ UNCHANGED <<table, starts, aux>>

\* A bulk action ends, or its process does, with what was committed so far.
BulkEnds(r) ==
  /\ request[r].pc = "bulk"
  /\ Finish(r)
  /\ UNCHANGED <<table, starts, aux>>

AfterDelete(r) ==
  request' = [request EXCEPT ![r] = IF @.bulk = "none" THEN NoRequest ELSE NextId(@, @.doc)]

\* Mutant: a document an invoice names as its source is deleted too.
DeleteCommitUnrestricted(r) ==
  LET d == request[r].doc IN
  /\ request[r].pc = "deleting"
  /\ rows' = [rows EXCEPT ![d] = NoRow]
  /\ stale' = IF d \in There THEN stale \cup Outdated(r) ELSE stale
  /\ AfterDelete(r)
  /\ UNCHANGED <<made, customers, starts, shown, viewEvents>>

\* DELETE ... WHERE id, which an invoice of this source refuses (RESTRICT).
DeleteCommit(r) ==
  LET d == request[r].doc IN
  /\ request[r].pc = "deleting"
  /\ \/ /\ ~Linked(d)
        /\ rows' = [rows EXCEPT ![d] = NoRow]
        /\ stale' = IF d \in There THEN stale \cup Outdated(r) ELSE stale
     \/ /\ Linked(d)
        /\ UNCHANGED <<rows, stale>>
  /\ AfterDelete(r)
  /\ UNCHANGED <<made, customers, starts, shown, viewEvents>>

\* The documents of a customer go with it, in one cascade that the invoice of
\* another customer can refuse; numbers they had shown are free again.
DeleteCustomer(c) ==
  LET gone == {d \in There : rows[d].customer = c} IN
  /\ c \in customers
  /\ \A i \in There \ gone : rows[i].source \notin gone
  /\ customers' = customers \ {c}
  /\ rows' = [d \in Docs |-> IF d \in gone THEN NoRow ELSE rows[d]]
  /\ shown' = {s \in shown : s[1] \notin gone}
  /\ UNCHANGED <<made, request, starts, viewEvents, stale>>

-------------------------------------------------------------------------------
(* The table may hold a document already, which a customer may have seen. *)

First(row, status, link, seen) ==
  [row EXCEPT !.seq = 1, !.status = status, !.link = link,
              !.viewed = (seen /\ row.type = "invoice")]

FirstRows ==
  {NoRow} \cup {First(NewQuote(NoCustomer), "open", "none", FALSE)} \cup
  UNION {{First(NewQuote(c), "open", "none", FALSE),
          First(NewQuote(c), "answered", "usable", TRUE),
          First(NewQuote(c), "answered", "dead", TRUE),
          First(NewInvoice(c, NoDoc), "open", "none", FALSE),
          First(NewInvoice(c, NoDoc), "sent", "usable", FALSE),
          First(NewInvoice(c, NoDoc), "sent", "dead", TRUE)} : c \in Customers}

Init ==
  /\ \E row \in FirstRows :
       /\ rows = [d \in Docs |-> IF d = 1 THEN row ELSE NoRow]
       /\ made = IF row.there THEN 1 ELSE 0
       /\ shown = IF row.status = "answered" \/ row.viewed
                  THEN {<<1, row.type, 1>>} ELSE {}
       /\ viewEvents = [d \in Docs |-> IF d = 1 /\ row.viewed THEN 1 ELSE 0]
  /\ customers = Customers
  /\ request = [r \in Requests |-> NoRequest]
  /\ starts = 0
  /\ stale = {}

Begin(r) ==
  \/ CreateQuote(r)
  \/ CreateInvoice(r)
  \/ BulkAction(r)
  \/ \E d \in Docs :
       \/ Duplicate(r, d)
       \/ Convert(r, d)
       \/ Retype(r, d)
       \/ Assign(r, d)
       \/ ShareQuote(r, d)
       \/ ShareInvoice(r, d)
       \/ Revoke(r, d)
       \/ PayOrVoid(r, d)
       \/ View(r, d)
       \/ DeleteQuote(r, d)

Proceed(r) ==
  \/ TakeNumber(r)
  \/ Insert(r)
  \/ InsertCollides(r)
  \/ InsertFails(r)
  \/ Flush(r)
  \/ MarkViewed(r)
  \/ DeleteCommit(r)
  \/ BulkEnds(r)
  \/ \E d \in Docs : BulkArchive(r, d) \/ BulkDelete(r, d)

Next ==
  \/ \E r \in Requests : Begin(r) \/ Proceed(r)
  \/ \E d \in Docs : QuoteOutcome(d) \/ Expire(d)
  \/ \E c \in Customers : DeleteCustomer(c)

Spec == Init /\ [][Next]_vars

-------------------------------------------------------------------------------
(* Properties *)

\* A number that a customer has seen through a link is not given to a second
\* document: a document leaves its number only while it has never been shared.  It
\* takes a deletion or a change of type decided on an old row to break it; the
\* deletion of the customer frees the numbers too.
ShownNumberStays ==
  \A s \in shown : \A d \in There :
    d # s[1] /\ rows[d].type = s[2] /\ rows[d].seq = s[3] => s[1] \in stale

\* A creation is refused for its number only when two other documents took one
\* from it: one collision is retried (creation/service.py:340).
RefusedAfterTwoRivals ==
  \A r \in Requests : request[r].refused => request[r].rivals = 2

\* Numbers are taken without a lock and checked by an index: no two documents come
\* to bear one that a customer knows, and no creation is refused without need.
NumbersHold == TypeOK /\ ShownNumberStays /\ RefusedAfterTwoRivals

\* An invoice keeps the quote it was made from: the quote stays, stays a quote and
\* stays with the same customer, unless it was written on the strength of an old
\* row (or the conversion was).
SourceStays ==
  \A i \in There :
    rows[i].source # NoDoc =>
      /\ rows[i].source \in There
      /\ rows[i].source \notin stale =>
           /\ rows[rows[i].source].type = "quote"
           /\ rows[rows[i].source].customer = rows[i].customer

\* The event of the first view of an invoice is emitted once, however many
\* customers open it at once, and however often it is shared anew.
FirstViewOnce == \A d \in Docs : viewEvents[d] <= 1

\* Paid and void are not taken back by a share, a new link or an edit: only by a
\* share that loaded the invoice before it was first sent.
PaidStays ==
  [][\A d \in Docs :
       rows[d].status \in {"paid", "void"} =>
         rows'[d].status \in {"paid", "void"} \/ ~rows'[d].there \/ d \in stale']_vars

\* An invoice leaves the table only with its customer: no quote endpoint deletes
\* it, in bulk or alone, except one that loaded it while it was still a quote.
InvoicesRemain ==
  [][\A d \in Docs :
       Has(d, "invoice") => Has(d, "invoice")' \/ d \in stale' \/ customers' # customers
                            \/ (rows[d].link = "none" /\ rows[d].source = NoDoc /\ rows'[d].there)]_vars

\* An invoice that was issued stays in the books as it was settled.
InvoicesStay == PaidStays /\ InvoicesRemain
===============================================================================
