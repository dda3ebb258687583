---------------------------- MODULE DocumentsProofs ----------------------------
(***************************************************************************)
(* Proofs about Documents for every set of requests and customers, every   *)
(* number of documents and every number of requests made in all.           *)
(***************************************************************************)
EXTENDS Documents, FiniteSetTheorems, WellFoundedInduction, TLAPS

-------------------------------------------------------------------------------
(* The inductive invariant *)

\* A row that is gone leaves nothing; only invoices have a source; unless it was
\* overwritten, a row has a status of its type, and a link only once it is shared.
RowInv(d) ==
  /\ ~rows[d].there => rows[d] = NoRow
  /\ rows[d].source # NoDoc => rows[d].type = "invoice"
  /\ d \notin stale =>
       /\ rows[d].status \in IF rows[d].type = "quote" THEN QuoteStatuses ELSE {"open"} \cup Issued
       /\ rows[d].link # "none" => rows[d].status # "open"

\* uq_documents_user_type_sequence
UniqueNumbers ==
  \A d, e \in There : rows[d].type = rows[e].type /\ rows[d].seq = rows[e].seq => d = e

\* What a customer has seen is there under its number, and has a link.
ShownIsThere(s) ==
  s[1] \notin stale =>
    /\ rows[s[1]].there
    /\ rows[s[1]].type = s[2] /\ rows[s[1]].seq = s[3]
    /\ rows[s[1]].link # "none"

ShownInv == \A s \in shown : ShownIsThere(s)

ViewInv(d) ==
  /\ viewEvents[d] <= 1
  /\ viewEvents[d] = 1 => d <= made /\ (rows[d].there => rows[d].viewed)

\* A creation: the source of the new document is the quote that was loaded.
Creates(q) ==
  LET seen == q.seen.row
      w == q.wanted
  IN /\ w.there /\ w.status = "open" /\ w.link = "none"
     /\ w.type = "invoice" => w.customer # NoCustomer
     /\ w.source = q.doc
     /\ q.doc # NoDoc => /\ w.type = "invoice"
                         /\ seen.type = "quote" /\ seen.customer = w.customer

\* What a change wants of the row it loaded.
Changes(q) ==
  LET seen == q.seen.row
      w == q.wanted
  IN /\ q.doc # NoDoc
     /\ w.there /\ w.seq > 0 /\ w.source = seen.source
     /\ seen.source # NoDoc => seen.type = "invoice"
     /\ w.customer # seen.customer =>
          /\ w.customer # NoCustomer /\ seen.type = "quote" /\ ~q.seen.linked
     /\ w.type = seen.type => w.seq = seen.seq
     /\ w.type # seen.type => /\ seen.link = "none" /\ seen.status = "open"
                              /\ w.link = "none" /\ w.status = "open"
                              /\ IF seen.type = "quote"
                                 THEN ~q.seen.linked /\ seen.customer # NoCustomer
                                 ELSE seen.source = NoDoc
     /\ seen.link # "none" => w.link # "none"
     /\ w.link # "none" => w.status # "open" \/ (seen.link # "none" /\ w.status = seen.status)
     /\ w.status # seen.status =>
          w.status \in IF w.type = "quote" THEN {"shared", "answered"} ELSE Issued
     /\ seen.type = "invoice" /\ seen.status \in {"paid", "void"} => w.status \in {"paid", "void"}

\* What was decided on the loaded row.
Decided(q) ==
  /\ q.pc = "inserting" \/ (q.pc = "numbering" /\ q.wanted.seq = 0) => Creates(q)
  /\ q.pc = "numbering" /\ q.wanted.seq # 0 => Changes(q) /\ q.wanted.type # q.seen.row.type
  /\ q.pc = "inserting" => q.wanted.seq > 0
  /\ q.pc = "writing" => Changes(q)
  /\ q.pc = "deleting" => /\ q.doc # NoDoc
                          /\ q.seen.row.type = "quote"
                          /\ q.seen.row.status \notin {"shared", "answered"}
                          /\ ~q.seen.linked
  /\ q.pc = "viewing" => q.doc # NoDoc /\ q.seen.row.link # "none"

\* A number that is taken, or was, was taken by a rival.
Rivalled(q) ==
  /\ q.refused => q.pc = "idle" /\ q.rivals = 2
  /\ q.pc \in {"numbering", "inserting"} /\ q.doc = NoDoc =>
       /\ q.retried => q.rivals >= 1
       /\ q.pc = "inserting" /\ Taken(q.wanted.type, q.wanted.seq, NoDoc) =>
            q.rivals >= 1 /\ (q.retried => q.rivals = 2)

\* What stays of the loaded row: its source and that it has a customer; and its
\* number while a page is shown.
Known(q) ==
  /\ q.doc <= made
  /\ q.doc # NoDoc => q.seen.row.there
  /\ q.doc # NoDoc /\ rows[q.doc].there =>
       /\ rows[q.doc].source = q.seen.row.source
       /\ q.seen.row.customer # NoCustomer => rows[q.doc].customer # NoCustomer
       /\ q.pc = "viewing" /\ q.doc \notin stale =>
            /\ rows[q.doc].type = q.seen.row.type /\ rows[q.doc].seq = q.seen.row.seq
            /\ rows[q.doc].link # "none"

Fits(q) == Decided(q) /\ Rivalled(q) /\ Known(q)

IInv ==
  /\ TypeOK
  /\ \A d \in Docs : RowInv(d)
  /\ UniqueNumbers
  /\ SourceStays
  /\ ShownInv
  /\ \A d \in Docs : ViewInv(d)
  /\ \A r \in Requests : Fits(request[r])

-------------------------------------------------------------------------------
(* The highest number *)

\* A finite set of numbers has a greatest one: of the sets of the members above
\* a member, one is minimal.
LEMMA Greatest ==
  ASSUME NEW S \in SUBSET Nat, IsFiniteSet(S), S # {}
  PROVE  \E x \in S : \A y \in S : x >= y
<1> DEFINE Above(x) == {y \in S : y > x}
           T == {Above(x) : x \in S}
<1>1. T \subseteq FiniteSubsetsOf(S) /\ T # {}
  <2>1. \A x \in S : Above(x) \in SUBSET S
    OBVIOUS
  <2>2. \A x \in S : IsFiniteSet(Above(x))
    BY <2>1, FS_Subset
  <2> QED BY <2>1, <2>2 DEF FiniteSubsetsOf
<1>2. PICK A \in T : \A B \in T : <<B, A>> \notin StrictSubsetOrdering(S)
  <2> HIDE DEF T
  <2> QED BY <1>1, FS_StrictSubsetOrderingWellFounded, WFMin
<1>3. PICK x \in S : A = Above(x)
  OBVIOUS
<1>4. ASSUME NEW y \in S, y > x
      PROVE  FALSE
  <2>1. x \in Nat /\ y \in Nat
    OBVIOUS
  <2>2. Above(y) \subseteq Above(x)
    <3> SUFFICES ASSUME NEW z \in S, z > y
                 PROVE  z > x
      OBVIOUS
    <3>1. z \in Nat
      OBVIOUS
    <3> QED BY <1>4, <2>1, <3>1
  <2>3. y \in Above(x) /\ y \notin Above(y)
    BY <1>4, <2>1
  <2>4. Above(y) \in SUBSET S /\ Above(x) \in SUBSET S /\ Above(y) \in T
    OBVIOUS
  <2>5. <<Above(y), Above(x)>> \in StrictSubsetOrdering(S)
    <3> HIDE DEF Above
    <3> QED BY <2>2, <2>3, <2>4 DEF StrictSubsetOrdering
  <2> QED BY <1>2, <1>3, <2>4, <2>5
<1>5. ASSUME NEW y \in S
      PROVE  x >= y
  <2>1. x \in Nat /\ y \in Nat
    OBVIOUS
  <2> QED BY <1>4, <1>5, <2>1
<1> QED BY <1>5

\* The maximum of a finite set of numbers is one of them and not below any.
LEMMA MaxType ==
  ASSUME NEW S \in SUBSET Nat, IsFiniteSet(S), S # {}
  PROVE  Max(S) \in S /\ \A y \in S : y <= Max(S)
BY Greatest DEF Max

\* The number a document is given is above those of its type.
LEMMA NextNumber ==
  ASSUME TypeOK, NEW type
  PROVE  /\ NextSequence(type) \in Nat \ {0}
         /\ \A d \in Docs : Has(d, type) => rows[d].seq < NextSequence(type)
<1> DEFINE D == {d \in Docs : Has(d, type)}
           Q == {rows[d].seq : d \in D}
           f == [d \in D |-> rows[d].seq]
<1>1. IsFiniteSet(D)
  <2>1. IsFiniteSet(Docs)
    BY FS_Interval, DocumentsAssumption DEF Docs
  <2>2. D \in SUBSET Docs
    OBVIOUS
  <2> QED BY <2>1, <2>2, FS_Subset
<1>2. f \in Surjection(D, Q)
  BY DEF Surjection
<1>3. IsFiniteSet(Q)
  <2> HIDE DEF f, D, Q
  <2> QED BY <1>1, <1>2, FS_Surjection
<1>4. \A d \in Docs : rows[d].seq \in Nat
  BY DEF TypeOK, Row, Sequences
<1>5. {0} \cup Q \in SUBSET Nat /\ {0} \cup Q # {}
  BY <1>4
<1>6. IsFiniteSet({0} \cup Q)
  <2> HIDE DEF Q
  <2> QED BY <1>3, FS_Singleton, FS_Union
<1> DEFINE m == Max({0} \cup Q)
<1>7. m \in Nat /\ \A y \in {0} \cup Q : y <= m
  <2> HIDE DEF Q
  <2> QED BY <1>5, <1>6, MaxType
<1>8. NextSequence(type) = m + 1
  BY DEF NextSequence
<1>9. \A d \in Docs : Has(d, type) => rows[d].seq <= m
  BY <1>7
<1> HIDE DEF m
<1>10. m + 1 \in Nat \ {0} /\ \A n \in Nat : n <= m => n < m + 1
  BY <1>7
<1> QED BY <1>4, <1>8, <1>9, <1>10

-------------------------------------------------------------------------------
(* Requests that load a row and decide *)

\* What a request has of a row is the row, without what no decision rests on.
LEMMA SeenRow ==
  ASSUME TypeOK, NEW d \in Docs
  PROVE  /\ Seen(d) \in [row : Row, linked : BOOLEAN]
         /\ Seen(d).linked = Linked(d)
         /\ Seen(d).row.there = rows[d].there
         /\ Seen(d).row.type = rows[d].type
         /\ Seen(d).row.seq = rows[d].seq
         /\ Seen(d).row.status = rows[d].status
         /\ Seen(d).row.link = rows[d].link
         /\ Seen(d).row.customer = rows[d].customer
         /\ Seen(d).row.source = rows[d].source
<1>1. rows[d] \in Row
  BY DEF TypeOK
<1>2. [rows[d] EXCEPT !.archived = FALSE, !.viewed = FALSE] \in Row
  BY <1>1 DEF Row
<1>3. Linked(d) \in BOOLEAN
  BY DEF Linked
<1> QED BY <1>1, <1>2, <1>3 DEF Seen, Row

\* A request that is not under way fits everything.
LEMMA Idle ==
  ASSUME TypeOK
  PROVE  NoRequest \in Request /\ Fits(NoRequest)
<1>1. NoRow \in Row
  BY DEF NoRow, Row, Types, Sequences, Statuses, QuoteStatuses
<1>2. NoRequest \in Request
  BY <1>1 DEF NoRequest, Request, Types
<1>3. Fits(NoRequest)
  BY DEF TypeOK, NoRequest, Fits, Decided, Rivalled, Known, NoDoc
<1> QED BY <1>2, <1>3

\* The request of Loads.
Loaded(pc, d, w) ==
  [NoRequest EXCEPT !.pc = pc, !.doc = d, !.seen = Seen(d), !.wanted = w]

\* A request that has just loaded a row knows it.
LEMMA Loading ==
  ASSUME TypeOK, NEW d \in There, NEW w \in Row,
         NEW pc \in {"numbering", "writing", "deleting", "viewing"},
         Decided(Loaded(pc, d, w)), pc = "viewing" => rows[d].link # "none"
  PROVE  Loaded(pc, d, w) \in Request /\ Fits(Loaded(pc, d, w))
<1> DEFINE q == Loaded(pc, d, w)
<1>1. d \in Docs /\ d # NoDoc
  BY DEF There, Docs, NoDoc
<1>2. q \in Request
  BY <1>1, Idle, SeenRow DEF Loaded, Request
<1>3. q.pc = pc /\ q.doc = d /\ q.seen = Seen(d) /\ q.wanted = w /\ ~q.retried /\ ~q.refused
  BY <1>1 DEF Loaded, NoRequest
<1>4. d <= made /\ rows[d].there
  BY DEF TypeOK, There
<1> HIDE DEF q
<1>5. Rivalled(q)
  BY <1>1, <1>3 DEF Rivalled
<1>6. Known(q)
  BY <1>1, <1>3, <1>4, SeenRow DEF Known
<1> QED BY <1>2, <1>5, <1>6 DEF Fits, q

\* A step in which one request goes on, and nothing is written.
LEMMA Requesting ==
  ASSUME IInv, NEW r \in Requests, NEW q \in Request, Fits(q),
         request' = [request EXCEPT ![r] = q], starts' \in 0 .. MaxStarts,
         UNCHANGED <<table, aux>>
  PROVE  IInv'
<1> USE DEF table, aux
<1>1. TypeOK'
  BY DEF IInv, TypeOK, There, Has
<1>2. (\A d \in Docs : RowInv(d))' /\ (\A d \in Docs : ViewInv(d))'
  BY DEF IInv, RowInv, ViewInv
<1>3. UniqueNumbers' /\ SourceStays' /\ ShownInv'
  BY DEF IInv, UniqueNumbers, SourceStays, ShownInv, ShownIsThere, There
<1>4. \A s \in Requests : Fits(request'[s])
  BY DEF IInv, TypeOK
<1>5. \A s \in Requests : Fits(request[s])'
  <2> SUFFICES ASSUME NEW s \in Requests, NEW p, p = request'[s], Fits(p)
               PROVE  Fits(p)'
    BY <1>4
  <2> QED BY DEF Fits, Decided, Rivalled, Known, Taken, Has, There, Creates, Changes
<1> QED BY <1>1, <1>2, <1>3, <1>5 DEF IInv

\* The steps of a request that has just started.
LEMMA Beginning ==
  ASSUME IInv, NEW r \in Requests, NEW q \in Request, Fits(q), Starts(r, q),
         UNCHANGED <<table, aux>>
  PROVE  IInv'
<1>1. starts' \in 0 .. MaxStarts
  BY DocumentsAssumption DEF IInv, TypeOK, Starts
<1>2. request' = [request EXCEPT ![r] = q]
  BY DEF Starts
<1> QED BY <1>1, <1>2, Requesting

\* The rows that are asked for are rows.
LEMMA WantedRows ==
  /\ NoRow \in Row
  /\ \A c \in Customers \cup {NoCustomer} : NewQuote(c) \in Row
  /\ \A c \in Customers, d \in Docs \cup {NoDoc} : NewInvoice(c, d) \in Row
<1>1. NoRow \in Row
  BY DEF NoRow, Row, Types, Sequences, Statuses, QuoteStatuses
<1>2. ASSUME NEW c \in Customers \cup {NoCustomer}
      PROVE  NewQuote(c) \in Row
  BY <1>1, <1>2 DEF NewQuote, Row
<1>3. ASSUME NEW c \in Customers, NEW d \in Docs \cup {NoDoc}
      PROVE  NewInvoice(c, d) \in Row
  <2>1. NewQuote(c) \in Row
    BY <1>2
  <2> QED BY <2>1 DEF NewInvoice, Row, Types
<1> QED BY <1>1, <1>2, <1>3

\* A new document is open, and has neither a link nor a number.
LEMMA NewRow ==
  ASSUME NEW c, NEW d
  PROVE  /\ NewQuote(c).there /\ NewQuote(c).status = "open" /\ NewQuote(c).link = "none"
         /\ NewQuote(c).seq = 0 /\ NewQuote(c).customer = c
         /\ NewQuote(c).type = "quote" /\ NewQuote(c).source = NoDoc
         /\ NewInvoice(c, d).there /\ NewInvoice(c, d).status = "open"
         /\ NewInvoice(c, d).link = "none" /\ NewInvoice(c, d).seq = 0
         /\ NewInvoice(c, d).customer = c
         /\ NewInvoice(c, d).type = "invoice" /\ NewInvoice(c, d).source = d
BY DEF NewQuote, NewInvoice, NoRow

\* A creation starts with a new document that has no number.
LEMMA NumberingIInv ==
  ASSUME IInv, NEW r \in Requests, NEW w \in Row,
         w.there, w.status = "open", w.link = "none", w.seq = 0, w.source = NoDoc,
         w.type = "invoice" => w.customer # NoCustomer,
         Starts(r, [NoRequest EXCEPT !.pc = "numbering", !.wanted = w]),
         UNCHANGED <<table, aux>>
  PROVE  IInv'
<1> DEFINE q == [NoRequest EXCEPT !.pc = "numbering", !.wanted = w]
<1>1. q \in Request
  BY Idle DEF IInv, Request
<1>2. q.pc = "numbering" /\ q.doc = NoDoc /\ q.wanted = w /\ ~q.retried /\ ~q.refused
  BY DEF NoRequest
<1>3. TypeOK
  BY DEF IInv
<1> HIDE DEF q
<1>4. Fits(q)
  BY <1>2, <1>3 DEF TypeOK, Fits, Decided, Creates, Rivalled, Known, NoDoc
<1> QED BY <1>1, <1>4, Beginning DEF q

\* A quote is about to be created.
LEMMA CreateQuoteIInv ==
  ASSUME IInv, NEW r \in Requests, CreateQuote(r)
  PROVE  IInv'
<1>1. PICK c \in customers \cup {NoCustomer} :
        Starts(r, [NoRequest EXCEPT !.pc = "numbering", !.wanted = NewQuote(c)])
  BY DEF CreateQuote
<1>2. c \in Customers \cup {NoCustomer} /\ TypeOK /\ UNCHANGED <<table, aux>>
  BY DEF IInv, TypeOK, CreateQuote
<1> DEFINE w == NewQuote(c)
<1>3. w \in Row /\ w.there /\ w.status = "open" /\ w.link = "none" /\ w.seq = 0
      /\ w.source = NoDoc /\ w.type # "invoice"
  BY <1>2, WantedRows, NewRow
<1> HIDE DEF w
<1> QED BY <1>1, <1>2, <1>3, NumberingIInv DEF w

\* An invoice is about to be created.
LEMMA CreateInvoiceIInv ==
  ASSUME IInv, NEW r \in Requests, CreateInvoice(r)
  PROVE  IInv'
<1>1. PICK c \in customers :
        Starts(r, [NoRequest EXCEPT !.pc = "numbering", !.wanted = NewInvoice(c, NoDoc)])
  BY DEF CreateInvoice
<1>2. c \in Customers /\ c # NoCustomer /\ TypeOK /\ UNCHANGED <<table, aux>>
  BY DocumentsAssumption DEF IInv, TypeOK, CreateInvoice
<1> DEFINE w == NewInvoice(c, NoDoc)
<1>3. w \in Row /\ w.there /\ w.status = "open" /\ w.link = "none" /\ w.seq = 0
      /\ w.source = NoDoc /\ w.customer # NoCustomer
  BY <1>2, WantedRows, NewRow
<1> HIDE DEF w
<1> QED BY <1>1, <1>2, <1>3, NumberingIInv DEF w

\* A quote is about to be created like another.
LEMMA DuplicateIInv ==
  ASSUME IInv, NEW r \in Requests, NEW d \in Docs, Duplicate(r, d)
  PROVE  IInv'
<1> DEFINE w == NewQuote(rows[d].customer)
<1>1. rows[d].customer \in Customers \cup {NoCustomer} /\ TypeOK
  BY DEF IInv, TypeOK, Row
<1>2. w \in Row /\ w.there /\ w.status = "open" /\ w.link = "none" /\ w.seq = 0
      /\ w.source = NoDoc /\ w.type # "invoice"
  BY <1>1, WantedRows, NewRow
<1>3. Starts(r, [NoRequest EXCEPT !.pc = "numbering", !.wanted = w]) /\ UNCHANGED <<table, aux>>
  BY DEF Duplicate
<1> HIDE DEF w
<1> QED BY <1>2, <1>3, NumberingIInv

\* The decision of a request that has just loaded a row, and so its step.
LEMMA DecidingIInv ==
  ASSUME IInv, NEW r \in Requests, NEW d \in There, NEW w \in Row,
         NEW pc \in {"numbering", "writing", "deleting", "viewing"},
         Decided(Loaded(pc, d, w)), pc = "viewing" => rows[d].link # "none",
         Loads(r, d, pc, w), UNCHANGED <<table, aux>>
  PROVE  IInv'
<1>1. Loaded(pc, d, w) \in Request /\ Fits(Loaded(pc, d, w))
  BY Loading DEF IInv
<1>2. Starts(r, Loaded(pc, d, w))
  BY DEF Loads, Loaded
<1> QED BY <1>1, <1>2, Beginning

\* The fields of a request that has loaded a row.
LEMMA LoadedFields ==
  ASSUME NEW pc, NEW d, NEW w
  PROVE  /\ Loaded(pc, d, w).pc = pc
         /\ Loaded(pc, d, w).doc = d
         /\ Loaded(pc, d, w).seen = Seen(d)
         /\ Loaded(pc, d, w).wanted = w
BY DEF Loaded, NoRequest

\* A quote without an invoice was loaded, and an invoice of it is about to be created.
LEMMA ConvertIInv ==
  ASSUME IInv, NEW r \in Requests, NEW d \in Docs, Convert(r, d)
  PROVE  IInv'
<1> DEFINE w == NewInvoice(rows[d].customer, d)
           q == Loaded("numbering", d, w)
<1>1. rows[d].customer \in Customers /\ rows[d].customer # NoCustomer /\ TypeOK
  BY DEF IInv, TypeOK, Row, Convert
<1>2. w \in Row /\ w.there /\ w.status = "open" /\ w.link = "none" /\ w.seq = 0
      /\ w.source = d /\ w.type = "invoice" /\ w.customer = rows[d].customer
  BY <1>1, WantedRows, NewRow
<1>3. Loads(r, d, "numbering", w) /\ UNCHANGED <<table, aux>>
      /\ d \in There /\ rows[d].type = "quote"
  BY DEF Convert, Has
<1> HIDE DEF w
<1>4. q.pc = "numbering" /\ q.doc = d /\ q.seen = Seen(d) /\ q.wanted = w
  BY LoadedFields
<1> HIDE DEF q
<1>5. Decided(q)
  BY <1>1, <1>2, <1>3, <1>4, SeenRow DEF Decided, Creates
<1> QED BY <1>2, <1>3, <1>5, DecidingIInv DEF q

\* What a change asks for, field by field.
LEMMA Changing ==
  ASSUME IInv, NEW r \in Requests, NEW d \in There, NEW w \in Row,
         NEW pc \in {"numbering", "writing"},
         \A q : q.doc = d /\ q.seen = Seen(d) /\ q.wanted = w => Changes(q),
         pc = "numbering" => w.type # rows[d].type,
         Loads(r, d, pc, w), UNCHANGED <<table, aux>>
  PROVE  IInv'
<1> DEFINE q == Loaded(pc, d, w)
<1>1. q.pc = pc /\ q.doc = d /\ q.seen = Seen(d) /\ q.wanted = w
  BY LoadedFields
<1>2. d \in Docs /\ TypeOK
  BY DEF IInv, There
<1> HIDE DEF q
<1>3. Changes(q) /\ w.seq # 0
  BY <1>1, <1>2 DEF Changes, Row, Sequences
<1>4. Decided(q)
  BY <1>1, <1>2, <1>3, SeenRow DEF Decided
<1> QED BY <1>4, DecidingIInv DEF q

\* The row a change starts from.
LEMMA LoadedRow ==
  ASSUME IInv, NEW d \in There
  PROVE  /\ d \in Docs /\ d # NoDoc /\ rows[d] \in Row
         /\ rows[d].there /\ rows[d].seq > 0
         /\ rows[d].source # NoDoc => rows[d].type = "invoice"
         /\ rows[d].type = "invoice" => rows[d].customer # NoCustomer
BY DEF IInv, TypeOK, RowInv, There, Docs, NoDoc

\* A document that was never shared is about to change its type.
LEMMA RetypeIInv ==
  ASSUME IInv, NEW r \in Requests, NEW d \in Docs, Retype(r, d)
  PROVE  IInv'
<1> DEFINE w == [rows[d] EXCEPT !.type = Other(@)]
<1>1. d \in There /\ Retypeable(d) /\ Loads(r, d, "numbering", w) /\ UNCHANGED <<table, aux>>
  BY DEF Retype
<1>2. /\ d \in Docs /\ d # NoDoc /\ rows[d] \in Row /\ TypeOK
      /\ rows[d].there /\ rows[d].seq > 0
      /\ rows[d].source # NoDoc => rows[d].type = "invoice"
      /\ rows[d].type = "invoice" => rows[d].customer # NoCustomer
  BY <1>1, LoadedRow DEF IInv
<1>3. w.type = (IF rows[d].type = "quote" THEN "invoice" ELSE "quote") /\ w.there
      /\ w.seq = rows[d].seq /\ w.status = rows[d].status /\ w.link = rows[d].link
      /\ w.customer = rows[d].customer /\ w.source = rows[d].source
  BY <1>2 DEF Row, Other
<1>4. w \in Row
  BY <1>2 DEF Row, Other, Types
<1> HIDE DEF w
<1>5. ASSUME NEW q, q.doc = d, q.seen = Seen(d), q.wanted = w
      PROVE  Changes(q)
  <2>1. /\ Seen(d).linked = Linked(d) /\ Seen(d).row.type = rows[d].type
        /\ Seen(d).row.seq = rows[d].seq /\ Seen(d).row.status = rows[d].status
        /\ Seen(d).row.link = rows[d].link /\ Seen(d).row.customer = rows[d].customer
        /\ Seen(d).row.source = rows[d].source
    BY <1>2, SeenRow
  <2>2. /\ rows[d].link = "none" /\ rows[d].status = "open"
        /\ rows[d].type = "quote" => ~Linked(d) /\ rows[d].customer # NoCustomer
        /\ rows[d].type # "quote" => rows[d].source = NoDoc
    BY <1>1 DEF Retypeable
  <2>3. /\ q.doc # NoDoc /\ w.there /\ w.seq > 0 /\ w.source = Seen(d).row.source
        /\ w.customer = Seen(d).row.customer /\ w.link = "none" /\ w.status = "open"
        /\ Seen(d).row.link = "none" /\ Seen(d).row.status = "open"
        /\ w.type # Seen(d).row.type
    BY <1>2, <1>3, <1>5, <2>1, <2>2
  <2>4. IF Seen(d).row.type = "quote" THEN ~Seen(d).linked /\ Seen(d).row.customer # NoCustomer
        ELSE Seen(d).row.source = NoDoc
    BY <2>1, <2>2
  <2> QED BY <1>2, <1>5, <2>1, <2>3, <2>4 DEF Changes
<1>6. w.type # rows[d].type
  BY <1>3
<1> QED BY <1>1, <1>4, <1>5, <1>6, Changing

\* The other changes leave there, type, seq and source as they are.
LEMMA WritingIInv ==
  ASSUME IInv, NEW r \in Requests, NEW d \in There, NEW w \in Row,
         w.there, w.type = rows[d].type, w.seq = rows[d].seq, w.source = rows[d].source,
         w.customer # rows[d].customer =>
           w.customer # NoCustomer /\ rows[d].type = "quote" /\ ~Linked(d),
         rows[d].link # "none" => w.link # "none",
         w.link # "none" => \/ w.status # "open"
                            \/ rows[d].link # "none" /\ w.status = rows[d].status,
         w.status # rows[d].status =>
           w.status \in IF w.type = "quote" THEN {"shared", "answered"} ELSE Issued,
         rows[d].type = "invoice" /\ rows[d].status \in {"paid", "void"} =>
           w.status \in {"paid", "void"},
         Loads(r, d, "writing", w), UNCHANGED <<table, aux>>
  PROVE  IInv'
<1>1. /\ d \in Docs /\ d # NoDoc /\ TypeOK /\ rows[d].seq > 0
      /\ rows[d].source # NoDoc => rows[d].type = "invoice"
  BY LoadedRow DEF IInv
<1>2. ASSUME NEW q, q.doc = d, q.seen = Seen(d), q.wanted = w
      PROVE  Changes(q)
  BY <1>1, <1>2, SeenRow DEF Changes
<1> QED BY <1>2, Changing

\* An open quote is about to get another customer.
LEMMA AssignIInv ==
  ASSUME IInv, NEW r \in Requests, NEW d \in Docs, Assign(r, d)
  PROVE  IInv'
<1>1. PICK c \in customers \ {rows[d].customer} :
        Loads(r, d, "writing", [rows[d] EXCEPT !.customer = c])
  BY DEF Assign
<1> DEFINE w == [rows[d] EXCEPT !.customer = c]
<1>2. d \in There /\ rows[d].type = "quote" /\ rows[d].status = "open" /\ ~Linked(d)
      /\ UNCHANGED <<table, aux>>
  BY DEF Assign, Has
<1>3. c \in Customers /\ c # NoCustomer /\ rows[d] \in Row /\ rows[d].there
  BY <1>2, DocumentsAssumption, LoadedRow DEF IInv, TypeOK
<1>4. w \in Row
  BY <1>3 DEF Row
<1>5. w.there /\ w.type = rows[d].type /\ w.seq = rows[d].seq /\ w.source = rows[d].source
      /\ w.status = rows[d].status /\ w.link = rows[d].link /\ w.customer = c
  BY <1>3 DEF Row
<1> HIDE DEF w
<1> QED BY <1>1, <1>2, <1>3, <1>4, <1>5, WritingIInv DEF w

\* A quote is about to be shared.
LEMMA ShareQuoteIInv ==
  ASSUME IInv, NEW r \in Requests, NEW d \in Docs, ShareQuote(r, d)
  PROVE  IInv'
<1> DEFINE w == [rows[d] EXCEPT !.link = "usable",
                                !.status = IF @ = "answered" THEN @ ELSE "shared"]
<1>1. d \in There /\ rows[d].type = "quote" /\ Loads(r, d, "writing", w) /\ UNCHANGED <<table, aux>>
  BY DEF ShareQuote, Has
<1>2. rows[d] \in Row /\ rows[d].there
  BY <1>1, LoadedRow
<1>3. w \in Row
  BY <1>2 DEF Row, Statuses, QuoteStatuses
<1>4. w.there /\ w.type = rows[d].type /\ w.seq = rows[d].seq /\ w.source = rows[d].source
      /\ w.status \in {"shared", "answered"} /\ w.link = "usable"
      /\ w.customer = rows[d].customer
  BY <1>2 DEF Row
<1> HIDE DEF w
<1> QED BY <1>1, <1>3, <1>4, WritingIInv

\* An invoice is about to be shared; one that is issued keeps its status.
LEMMA ShareInvoiceIInv ==
  ASSUME IInv, NEW r \in Requests, NEW d \in Docs, ShareInvoice(r, d)
  PROVE  IInv'
<1> DEFINE w == [rows[d] EXCEPT !.link = "usable", !.status = IF @ \in Issued THEN @ ELSE "sent"]
<1>1. d \in There /\ rows[d].type = "invoice" /\ Loads(r, d, "writing", w)
      /\ UNCHANGED <<table, aux>>
  BY DEF ShareInvoice, Has
<1>2. rows[d] \in Row /\ rows[d].there
  BY <1>1, LoadedRow
<1>3. w \in Row
  BY <1>2 DEF Row, Statuses, QuoteStatuses
<1>4. w.there /\ w.type = rows[d].type /\ w.seq = rows[d].seq /\ w.source = rows[d].source
      /\ w.status \in Issued /\ w.link = "usable" /\ w.customer = rows[d].customer
      /\ (rows[d].status \in {"paid", "void"} => w.status \in {"paid", "void"})
  BY <1>2 DEF Row, Issued
<1> HIDE DEF w
<1> QED BY <1>1, <1>3, <1>4, WritingIInv DEF Issued

\* A link is about to be revoked.
LEMMA RevokeIInv ==
  ASSUME IInv, NEW r \in Requests, NEW d \in Docs, Revoke(r, d)
  PROVE  IInv'
<1> DEFINE w == [rows[d] EXCEPT !.link = "dead"]
<1>1. d \in There /\ rows[d].link = "usable" /\ Loads(r, d, "writing", w) /\ UNCHANGED <<table, aux>>
  BY DEF Revoke
<1>2. rows[d] \in Row /\ rows[d].there
  BY <1>1, LoadedRow
<1>3. w \in Row
  BY <1>2 DEF Row
<1>4. w.there /\ w.type = rows[d].type /\ w.seq = rows[d].seq /\ w.source = rows[d].source
      /\ w.status = rows[d].status /\ w.link = "dead" /\ w.customer = rows[d].customer
  BY <1>2 DEF Row
<1> HIDE DEF w
<1> QED BY <1>1, <1>3, <1>4, WritingIInv

\* An issued invoice is about to be paid or voided.
LEMMA PayOrVoidIInv ==
  ASSUME IInv, NEW r \in Requests, NEW d \in Docs, PayOrVoid(r, d)
  PROVE  IInv'
<1>1. PICK outcome \in {"paid", "void"} \ {rows[d].status} :
        Loads(r, d, "writing", [rows[d] EXCEPT !.status = outcome])
  BY DEF PayOrVoid
<1> DEFINE w == [rows[d] EXCEPT !.status = outcome]
<1>2. d \in There /\ rows[d].type = "invoice" /\ UNCHANGED <<table, aux>>
  BY DEF PayOrVoid, Has
<1>3. rows[d] \in Row /\ rows[d].there
  BY <1>2, LoadedRow
<1>4. w \in Row
  BY <1>3 DEF Row, Statuses
<1>5. w.there /\ w.type = rows[d].type /\ w.seq = rows[d].seq /\ w.source = rows[d].source
      /\ w.status \in {"paid", "void"} /\ w.link = rows[d].link /\ w.customer = rows[d].customer
  BY <1>3 DEF Row
<1>6. Loads(r, d, "writing", w)
  BY <1>1
<1> HIDE DEF w
<1>7. w.status \in Issued /\ w.status # "open"
  BY <1>5 DEF Issued
<1> QED BY <1>2, <1>4, <1>5, <1>6, <1>7, WritingIInv

\* The page of a document is read through its link.
LEMMA ViewIInv ==
  ASSUME IInv, NEW r \in Requests, NEW d \in Docs, View(r, d)
  PROVE  IInv'
<1> DEFINE w == rows[d]
           q == Loaded("viewing", d, w)
<1>1. d \in There /\ rows[d].link = "usable" /\ Loads(r, d, "viewing", w) /\ UNCHANGED <<table, aux>>
  BY DEF View
<1>2. w \in Row /\ d # NoDoc /\ d \in Docs /\ TypeOK
  BY <1>1, LoadedRow DEF IInv
<1> HIDE DEF w
<1>3. q.pc = "viewing" /\ q.doc = d /\ q.seen = Seen(d)
  BY LoadedFields
<1> HIDE DEF q
<1>4. Decided(q)
  BY <1>1, <1>2, <1>3, SeenRow DEF Decided
<1> QED BY <1>1, <1>2, <1>4, DecidingIInv DEF q

\* A quote that was not shared and has no invoice is about to be deleted.
LEMMA DeleteQuoteIInv ==
  ASSUME IInv, NEW r \in Requests, NEW d \in Docs, DeleteQuote(r, d)
  PROVE  IInv'
<1> DEFINE q == Loaded("deleting", d, NoRow)
<1>1. d \in There /\ rows[d].type = "quote" /\ Deletable(d) /\ Loads(r, d, "deleting", NoRow)
      /\ UNCHANGED <<table, aux>>
  BY DEF DeleteQuote, Has
<1>2. d # NoDoc /\ d \in Docs /\ TypeOK /\ NoRow \in Row
  BY <1>1, LoadedRow, WantedRows DEF IInv
<1>3. q.pc = "deleting" /\ q.doc = d /\ q.seen = Seen(d)
  BY LoadedFields
<1> HIDE DEF q
<1>4. Decided(q)
  BY <1>1, <1>2, <1>3, SeenRow DEF Decided, Deletable
<1> QED BY <1>1, <1>2, <1>4, DecidingIInv DEF q

\* A bulk action has its documents.
LEMMA BulkActionIInv ==
  ASSUME IInv, NEW r \in Requests, BulkAction(r)
  PROVE  IInv'
<1>1. PICK over \in Types, action \in {"archive", "unarchive", "delete"}, ids \in SUBSET There :
        Starts(r, [NoRequest EXCEPT !.pc = "bulk", !.bulk = action, !.over = over, !.todo = ids])
  BY DEF BulkAction
<1> DEFINE q == [NoRequest EXCEPT !.pc = "bulk", !.bulk = action, !.over = over, !.todo = ids]
<1>2. q \in Request
  <2>1. ids \in SUBSET Docs
    BY DEF There
  <2> QED BY <2>1, Idle DEF IInv, Request
<1>3. q.pc = "bulk" /\ q.doc = NoDoc /\ ~q.refused
  BY DEF NoRequest
<1> HIDE DEF q
<1>4. Fits(q)
  BY <1>3 DEF IInv, TypeOK, Fits, Decided, Rivalled, Known, NoDoc
<1>5. UNCHANGED <<table, aux>>
  BY DEF BulkAction
<1> QED BY <1>1, <1>2, <1>4, <1>5, Beginning DEF q

-------------------------------------------------------------------------------
(* Requests that go on and write nothing *)

\* The request as it stands.
LEMMA Standing ==
  ASSUME IInv, NEW r \in Requests
  PROVE  TypeOK /\ request[r] \in Request /\ Fits(request[r]) /\ starts \in 0 .. MaxStarts
BY DEF IInv, TypeOK

\* The number that was taken is above those in use: none is taken by it.
LEMMA NotTaken ==
  ASSUME TypeOK, NEW type
  PROVE  ~Taken(type, NextSequence(type), NoDoc)
<1> DEFINE n == NextSequence(type)
<1>1. n \in Nat /\ \A d \in Docs : Has(d, type) => rows[d].seq < n
  BY NextNumber
<1>2. \A d \in Docs : rows[d].seq \in Nat
  BY DEF TypeOK, Row, Sequences
<1> HIDE DEF n
<1>3. ~Taken(type, n, NoDoc)
  BY <1>1, <1>2 DEF Taken
<1> QED BY <1>3 DEF n

\* A request takes the next number, for the document it creates or changes.
LEMMA TakeNumberIInv ==
  ASSUME IInv, NEW r \in Requests, TakeNumber(r)
  PROVE  IInv'
<1> DEFINE q == request[r]
           n == NextSequence(q.wanted.type)
           pc == IF q.wanted.seq = 0 THEN "inserting" ELSE "writing"
           w == [q.wanted EXCEPT !.seq = n]
           p == [q EXCEPT !.pc = pc, !.wanted = w]
<1>1. TypeOK /\ q \in Request /\ Fits(q) /\ starts \in 0 .. MaxStarts
  BY Standing
<1>2. n \in Nat /\ n > 0 /\ ~Taken(q.wanted.type, n, NoDoc)
  <2> HIDE DEF q
  <2> QED BY <1>1, NextNumber, NotTaken
<1>3. q.pc = "numbering" /\ UNCHANGED <<table, starts, aux>>
  BY DEF TakeNumber
<1>4. request' = [request EXCEPT ![r] = p]
  <2>1. request' = [request EXCEPT ![r].pc = pc, ![r].wanted.seq = n]
    BY DEF TakeNumber
  <2> HIDE DEF n, pc
  <2> QED BY <1>1, <2>1 DEF IInv, TypeOK, Request
<1> HIDE DEF n, q
<1>5. q.wanted \in Row
  BY <1>1 DEF Request
<1>6. w \in Row /\ w.seq = n /\ w.there = q.wanted.there /\ w.type = q.wanted.type
      /\ w.status = q.wanted.status /\ w.link = q.wanted.link
      /\ w.customer = q.wanted.customer /\ w.source = q.wanted.source
  BY <1>2, <1>5 DEF Row, Sequences
<1> HIDE DEF w
<1>7. p \in Request
  BY <1>1, <1>6 DEF Request
<1>8. p.pc = pc /\ p.doc = q.doc /\ p.seen = q.seen /\ p.wanted = w /\ p.retried = q.retried
      /\ p.refused = q.refused /\ p.rivals = q.rivals
  BY <1>1 DEF Request
<1> HIDE DEF p
<1>9. Decided(p)
  <2>1. CASE q.wanted.seq = 0
    <3>1. Creates(q) /\ p.pc = "inserting"
      BY <1>1, <1>3, <1>8, <2>1 DEF Fits, Decided
    <3>2. Creates(p)
      BY <1>6, <1>8, <3>1 DEF Creates
    <3> QED BY <1>2, <1>6, <1>8, <3>1, <3>2 DEF Decided
  <2>2. CASE q.wanted.seq # 0
    <3>1. Changes(q) /\ q.wanted.type # q.seen.row.type /\ p.pc = "writing"
      BY <1>1, <1>3, <1>8, <2>2 DEF Fits, Decided
    <3>2. Changes(p)
      BY <1>2, <1>6, <1>8, <3>1 DEF Changes
    <3> QED BY <1>8, <3>1, <3>2 DEF Decided
  <2> QED BY <2>1, <2>2
<1>10. Rivalled(p)
  BY <1>1, <1>2, <1>3, <1>6, <1>8 DEF Fits, Rivalled
<1>11. Known(p)
  BY <1>1, <1>8 DEF Fits, Known
<1> QED BY <1>1, <1>3, <1>4, <1>7, <1>9, <1>10, <1>11, Requesting DEF Fits

\* A creation whose number was taken tries again, once.
LEMMA InsertCollidesIInv ==
  ASSUME IInv, NEW r \in Requests, InsertCollides(r)
  PROVE  IInv'
<1> DEFINE q == request[r]
<1>1. TypeOK /\ q \in Request /\ Fits(q) /\ starts \in 0 .. MaxStarts
  BY Standing
<1>2. q.pc = "inserting" /\ Taken(q.wanted.type, q.wanted.seq, NoDoc)
      /\ UNCHANGED <<table, starts, aux>>
  BY DEF InsertCollides
<1>3. CASE q.doc = NoDoc /\ ~q.retried
  <2> DEFINE w == [q.wanted EXCEPT !.seq = 0]
             p == [q EXCEPT !.pc = "numbering", !.retried = TRUE, !.wanted = w]
  <2>1. request' = [request EXCEPT ![r] =
                      [q EXCEPT !.pc = "numbering", !.retried = TRUE, !.wanted.seq = 0]]
    BY <1>3 DEF InsertCollides
  <2> HIDE DEF q
  <2>2. request' = [request EXCEPT ![r] = p]
    BY <1>1, <2>1 DEF Request
  <2>3. q.wanted \in Row
    BY <1>1 DEF Request
  <2>4. w \in Row /\ w.seq = 0 /\ w.there = q.wanted.there /\ w.type = q.wanted.type
        /\ w.status = q.wanted.status /\ w.link = q.wanted.link
        /\ w.customer = q.wanted.customer /\ w.source = q.wanted.source
    BY <2>3 DEF Row, Sequences
  <2> HIDE DEF w
  <2>5. p \in Request
    BY <1>1, <2>4 DEF Request
  <2>6. p.pc = "numbering" /\ p.doc = NoDoc /\ p.seen = q.seen /\ p.wanted = w
        /\ p.retried /\ p.refused = q.refused /\ p.rivals = q.rivals
    BY <1>1, <1>3 DEF Request
  <2> HIDE DEF p
  <2>7. Creates(p)
    BY <1>1, <1>2, <1>3, <2>4, <2>6 DEF Fits, Decided, Creates
  <2>8. Decided(p)
    BY <2>4, <2>6, <2>7 DEF Decided
  <2>9. Rivalled(p)
    BY <1>1, <1>2, <1>3, <2>6 DEF Fits, Rivalled
  <2>10. Known(p)
    BY <1>1, <1>3, <2>6 DEF Fits, Known
  <2> QED BY <1>1, <1>2, <2>2, <2>5, <2>8, <2>9, <2>10, Requesting DEF Fits
<1>4. CASE ~(q.doc = NoDoc /\ ~q.retried)
  <2> DEFINE p == [NoRequest EXCEPT !.refused = (q.doc = NoDoc), !.rivals = q.rivals]
  <2>1. request' = [request EXCEPT ![r] = p]
    BY <1>4 DEF InsertCollides
  <2> HIDE DEF q
  <2>2. p \in Request
    BY <1>1, Idle DEF Request
  <2>3. p.pc = "idle" /\ p.doc = NoDoc /\ p.refused = (q.doc = NoDoc) /\ p.rivals = q.rivals
    BY DEF NoRequest
  <2> HIDE DEF p
  <2>4. Rivalled(p)
    BY <1>1, <1>2, <1>4, <2>3 DEF Fits, Rivalled
  <2>5. Decided(p) /\ Known(p)
    BY <1>1, <2>3 DEF Decided, Known, TypeOK, NoDoc
  <2> QED BY <1>1, <1>2, <2>1, <2>2, <2>4, <2>5, Requesting DEF Fits
<1> QED BY <1>3, <1>4

\* A request that ends without a write.
LEMMA EndingIInv ==
  ASSUME IInv, NEW r \in Requests, Finish(r), UNCHANGED <<table, starts, aux>>
  PROVE  IInv'
BY Standing, Idle, Requesting DEF Finish

\* The next document of a bulk action.
LEMMA NextIdFits ==
  ASSUME TypeOK, NEW q \in Request, ~q.refused, NEW d
  PROVE  NextId(q, d) \in Request /\ Fits(NextId(q, d))
<1> DEFINE p == NextId(q, d)
<1>1. q.todo \ {d} \in SUBSET Docs
  BY DEF Request
<1>2. p \in Request
  BY <1>1, Idle DEF NextId, Request, NoDoc
<1>3. p.pc = "bulk" /\ p.doc = NoDoc /\ p.refused = q.refused
  BY DEF NextId, Request
<1> HIDE DEF p
<1>4. Fits(p)
  BY <1>3 DEF TypeOK, Fits, Decided, Rivalled, Known, NoDoc
<1> QED BY <1>2, <1>4 DEF p

\* A bulk deletion looks at its next document.
LEMMA BulkDeleteIInv ==
  ASSUME IInv, NEW r \in Requests, NEW d \in Docs, BulkDelete(r, d)
  PROVE  IInv'
<1> DEFINE q == request[r]
           p == [q EXCEPT !.pc = "deleting", !.doc = d, !.seen = Seen(d)]
<1>1. TypeOK /\ q \in Request /\ Fits(q) /\ starts \in 0 .. MaxStarts
  BY Standing
<1>2. q.pc = "bulk" /\ UNCHANGED <<table, starts, aux>>
      /\ request' = [request EXCEPT ![r] = IF Has(d, "quote") /\ Deletable(d) THEN p ELSE NextId(q, d)]
  BY DEF BulkDelete
<1> HIDE DEF q
<1>3. ~q.refused
  BY <1>1, <1>2 DEF Fits, Rivalled
<1>4. CASE Has(d, "quote") /\ Deletable(d)
  <2>1. d \in There /\ rows[d].type = "quote" /\ rows[d].there /\ d # NoDoc /\ d <= made
    BY <1>1, <1>4 DEF Has, There, TypeOK, Docs, NoDoc
  <2>2. p \in Request
    BY <1>1, SeenRow DEF Request
  <2>3. p.pc = "deleting" /\ p.doc = d /\ p.seen = Seen(d) /\ p.refused = q.refused
    BY <1>1 DEF Request
  <2> HIDE DEF p
  <2>4. Decided(p)
    BY <1>1, <1>4, <2>1, <2>3, SeenRow DEF Decided, Deletable
  <2>5. Rivalled(p)
    BY <1>3, <2>3 DEF Rivalled
  <2>6. Known(p)
    BY <1>1, <2>1, <2>3, SeenRow DEF Known
  <2> QED BY <1>1, <1>2, <1>4, <2>2, <2>4, <2>5, <2>6, Requesting DEF Fits
<1>5. CASE ~(Has(d, "quote") /\ Deletable(d))
  BY <1>1, <1>2, <1>3, <1>5, NextIdFits, Requesting
<1> QED BY <1>4, <1>5

\* What a request does after its deletion, done or refused.
LEMMA AfterDeleteFits ==
  ASSUME IInv, NEW r \in Requests, request[r].pc = "deleting", AfterDelete(r)
  PROVE  \E p \in Request : /\ Fits(p) /\ p.doc = NoDoc /\ p.pc \in {"idle", "bulk"} /\ ~p.refused
                            /\ request' = [request EXCEPT ![r] = p]
<1> DEFINE q == request[r]
<1>1. TypeOK /\ q \in Request /\ Fits(q)
  BY Standing
<1>2. ~q.refused
  BY <1>1 DEF Fits, Rivalled
<1>3. request' = [request EXCEPT ![r] = IF q.bulk = "none" THEN NoRequest ELSE NextId(q, q.doc)]
  BY DEF AfterDelete
<1> HIDE DEF q
<1>4. NoRequest \in Request /\ Fits(NoRequest) /\ NoRequest.doc = NoDoc /\ NoRequest.pc = "idle"
      /\ ~NoRequest.refused
  BY <1>1, Idle DEF NoRequest
<1> DEFINE n == NextId(q, q.doc)
<1>5. n \in Request /\ Fits(n)
  BY <1>1, <1>2, NextIdFits
<1>6. n.doc = NoDoc /\ n.pc = "bulk" /\ ~n.refused
  BY <1>1, <1>2 DEF NextId, Request
<1> HIDE DEF n
<1>7. CASE q.bulk = "none"
  BY <1>3, <1>4, <1>7
<1>8. CASE q.bulk # "none"
  <2>1. request' = [request EXCEPT ![r] = n]
    BY <1>3, <1>8 DEF n
  <2> QED BY <1>5, <1>6, <2>1
<1> QED BY <1>7, <1>8

-------------------------------------------------------------------------------
(* Requests that write to the table *)

\* A document that is still there after a step was there, has its source, and has a
\* customer if it had one; and if it has a link and no old row was written over it,
\* it has its number, and a link.
Kept(d) ==
  rows'[d].there =>
    /\ rows[d].there
    /\ rows'[d].source = rows[d].source
    /\ rows[d].customer # NoCustomer => rows'[d].customer # NoCustomer
    /\ rows[d].link # "none" /\ d \notin stale' =>
         /\ rows'[d].type = rows[d].type /\ rows'[d].seq = rows[d].seq
         /\ rows'[d].link # "none"

\* The document has the number it had.
SameNumber(d) ==
  rows'[d].there => rows[d].there /\ rows'[d].type = rows[d].type /\ rows'[d].seq = rows[d].seq

\* What a request knows stays true while the documents are kept.
LEMMA KnownKept ==
  ASSUME TypeOK, made' \in 0 .. MaxDocs, made <= made', stale \subseteq stale',
         \A d \in Docs : d <= made => Kept(d)
  PROVE  \A q \in Request : Known(q) => Known(q)'
<1> SUFFICES ASSUME NEW q \in Request, Known(q)
             PROVE  Known(q)'
  OBVIOUS
<1>1. q.doc \in Docs \cup {NoDoc} /\ q.doc \in Nat
  BY DocumentsAssumption DEF Request, Docs, NoDoc
<1>2. q.doc <= made'
  BY <1>1, DocumentsAssumption DEF Known, TypeOK
<1>3. q.doc # NoDoc => q.doc <= made /\ q.seen.row.there /\ Kept(q.doc)
  BY <1>1 DEF Known
<1> QED BY <1>2, <1>3 DEF Known, Kept

\* No number is taken that was not.
LEMMA RivalledKept ==
  ASSUME \A d \in Docs : SameNumber(d)
  PROVE  \A q \in Request : Rivalled(q) => Rivalled(q)'
<1> SUFFICES ASSUME NEW q \in Request, Rivalled(q)
             PROVE  Rivalled(q)'
  OBVIOUS
<1>1. Taken(q.wanted.type, q.wanted.seq, NoDoc)' => Taken(q.wanted.type, q.wanted.seq, NoDoc)
  BY DEF Taken, Has, There, SameNumber
<1> QED BY <1>1 DEF Rivalled

\* A request still fits, while the documents and the numbers are kept.
LEMMA FitsKept ==
  ASSUME TypeOK, made' \in 0 .. MaxDocs, made <= made', stale \subseteq stale',
         \A d \in Docs : Kept(d) /\ SameNumber(d)
  PROVE  \A q \in Request : Fits(q) => Fits(q)'
<1> SUFFICES ASSUME NEW q \in Request, Fits(q)
             PROVE  Fits(q)'
  OBVIOUS
<1>1. Known(q)'
  BY KnownKept DEF Fits
<1>2. Rivalled(q)'
  BY RivalledKept DEF Fits
<1>3. Decided(q)'
  BY DEF Fits, Decided, Creates, Changes
<1> QED BY <1>1, <1>2, <1>3 DEF Fits

\* One UPDATE of the status, the link, the archive or the first view of a document.
LEMMA Adjusting ==
  ASSUME IInv, NEW d \in There, NEW p \in Row,
         p.there, p.type = rows[d].type, p.seq = rows[d].seq, p.source = rows[d].source,
         p.customer = rows[d].customer, rows[d].link # "none" => p.link # "none",
         d \notin stale =>
           /\ p.status \in IF p.type = "quote" THEN QuoteStatuses ELSE {"open"} \cup Issued
           /\ p.link # "none" => p.status # "open",
         rows' = [rows EXCEPT ![d] = p], UNCHANGED <<made, customers, stale>>
  PROVE  /\ rows' \in [Docs -> Row]
         /\ \A e \in Docs : rows'[e].there => e <= made' /\ rows'[e].seq > 0
         /\ \A e \in Docs : rows'[e].type = "invoice" => rows'[e].customer # NoCustomer
         /\ (\A e \in Docs : RowInv(e))' /\ UniqueNumbers' /\ SourceStays'
         /\ \A s \in shown : ShownIsThere(s)'
         /\ \A q \in Request : Fits(q) => Fits(q)'
<1>1. TypeOK /\ d \in Docs /\ rows[d].there /\ rows \in [Docs -> Row]
  BY DEF IInv, TypeOK, There
<1>2. rows' \in [Docs -> Row]
  BY <1>1
<1>3. \A e \in Docs : /\ rows'[e].there = rows[e].there /\ rows'[e].type = rows[e].type
                      /\ rows'[e].seq = rows[e].seq /\ rows'[e].source = rows[e].source
                      /\ rows'[e].customer = rows[e].customer
                      /\ rows[e].link # "none" => rows'[e].link # "none"
  <2>1. p.there = rows[d].there
    BY <1>1 DEF Row
  <2> QED BY <1>1, <2>1
<1>4. /\ \A e \in Docs : rows'[e].there => e <= made' /\ rows'[e].seq > 0
      /\ \A e \in Docs : rows'[e].type = "invoice" => rows'[e].customer # NoCustomer
  BY <1>1, <1>3 DEF TypeOK
<1>5. (\A e \in Docs : RowInv(e))'
  <2> SUFFICES ASSUME NEW e \in Docs
               PROVE  RowInv(e)'
    OBVIOUS
  <2>1. RowInv(e)
    BY DEF IInv
  <2>2. CASE e # d
    BY <1>1, <2>1, <2>2 DEF RowInv
  <2>3. CASE e = d
    <3>1. rows'[e] = p
      BY <1>1, <2>3
    <3> QED BY <1>1, <2>1, <2>3, <3>1 DEF RowInv
  <2> QED BY <2>2, <2>3
<1>6. There' = There
  BY <1>3 DEF There
<1>7. UniqueNumbers'
  BY <1>3, <1>6 DEF IInv, UniqueNumbers, There
<1>8. SourceStays'
  <2>1. SourceStays
    BY DEF IInv
  <2>2. \A i \in There : i \in Docs /\ rows[i].source \in Docs \cup {NoDoc}
    BY <1>1 DEF There, Row
  <2> QED BY <1>3, <1>6, <2>1, <2>2 DEF SourceStays
<1>9. \A s \in shown : ShownIsThere(s)'
  <2> SUFFICES ASSUME NEW s \in shown
               PROVE  ShownIsThere(s)'
    OBVIOUS
  <2>1. s[1] \in Docs
    BY <1>1 DEF TypeOK
  <2> QED BY <1>3, <2>1 DEF IInv, ShownInv, ShownIsThere
<1>10. \A q \in Request : Fits(q) => Fits(q)'
  <2>1. \A e \in Docs : Kept(e) /\ SameNumber(e)
    BY <1>3 DEF Kept, SameNumber
  <2>2. made' \in 0 .. MaxDocs /\ made <= made' /\ stale \subseteq stale'
    BY <1>1, DocumentsAssumption DEF TypeOK
  <2> QED BY <1>1, <2>1, <2>2, FitsKept
<1> QED BY <1>2, <1>4, <1>5, <1>7, <1>8, <1>9, <1>10

\* Such an update outside a public view, with a request that goes on or none.
LEMMA AdjustingIInv ==
  ASSUME IInv, NEW d \in There, NEW p \in Row,
         p.there, p.type = rows[d].type, p.seq = rows[d].seq, p.source = rows[d].source,
         p.customer = rows[d].customer, rows[d].link # "none" => p.link # "none",
         p.viewed = rows[d].viewed,
         d \notin stale =>
           /\ p.status \in IF p.type = "quote" THEN QuoteStatuses ELSE {"open"} \cup Issued
           /\ p.link # "none" => p.status # "open",
         rows' = [rows EXCEPT ![d] = p], UNCHANGED <<made, customers, starts, aux>>,
         request' \in [Requests -> Request], \A r \in Requests : Fits(request'[r])
  PROVE  IInv'
<1>1. /\ rows' \in [Docs -> Row]
      /\ \A e \in Docs : rows'[e].there => e <= made' /\ rows'[e].seq > 0
      /\ \A e \in Docs : rows'[e].type = "invoice" => rows'[e].customer # NoCustomer
      /\ (\A e \in Docs : RowInv(e))' /\ UniqueNumbers' /\ SourceStays'
      /\ \A s \in shown : ShownIsThere(s)'
      /\ \A q \in Request : Fits(q) => Fits(q)'
  BY Adjusting DEF aux
<1>2. TypeOK'
  BY <1>1 DEF IInv, TypeOK, aux
<1>3. ShownInv'
  BY <1>1 DEF ShownInv, ShownIsThere, aux
<1>4. (\A e \in Docs : ViewInv(e))'
  <2> SUFFICES ASSUME NEW e \in Docs
               PROVE  ViewInv(e)'
    OBVIOUS
  <2>1. ViewInv(e) /\ rows \in [Docs -> Row] /\ d \in Docs /\ rows[d].there
    BY DEF IInv, TypeOK, There
  <2>2. rows'[e].there = rows[e].there /\ rows'[e].viewed = rows[e].viewed
    <3>1. p.there = rows[d].there
      BY <2>1 DEF Row
    <3> QED BY <2>1, <3>1
  <2> QED BY <2>1, <2>2 DEF ViewInv, aux
<1>5. (\A r \in Requests : Fits(request[r]))'
  <2> SUFFICES ASSUME NEW r \in Requests, NEW q, q = request'[r]
               PROVE  Fits(q)'
    OBVIOUS
  <2> QED BY <1>1
<1> QED BY <1>1, <1>2, <1>3, <1>4, <1>5 DEF IInv

\* A quote is answered.
LEMMA QuoteOutcomeIInv ==
  ASSUME IInv, NEW d \in Docs, QuoteOutcome(d)
  PROVE  IInv'
<1> DEFINE p == [rows[d] EXCEPT !.status = "answered"]
<1>1. d \in There /\ rows[d].there /\ rows[d].type = "quote"
      /\ UNCHANGED <<made, customers, request, starts, aux>>
  BY DEF QuoteOutcome, Has, There
<1>2. rows[d] \in Row
  BY DEF IInv, TypeOK
<1>3. rows' = [rows EXCEPT ![d] = p]
  BY DEF QuoteOutcome
<1>4. p \in Row
  BY <1>2 DEF Row, Statuses, QuoteStatuses
<1>5. p.there /\ p.type = rows[d].type /\ p.seq = rows[d].seq /\ p.source = rows[d].source
      /\ p.customer = rows[d].customer /\ p.link = rows[d].link /\ p.viewed = rows[d].viewed
      /\ p.status = "answered"
  BY <1>1, <1>2 DEF Row
<1>6. request' \in [Requests -> Request] /\ \A r \in Requests : Fits(request'[r])
  BY <1>1 DEF IInv, TypeOK
<1> HIDE DEF p
<1> QED BY <1>1, <1>3, <1>4, <1>5, <1>6, AdjustingIInv DEF QuoteStatuses

\* A link expires.
LEMMA ExpireIInv ==
  ASSUME IInv, NEW d \in Docs, Expire(d)
  PROVE  IInv'
<1> DEFINE p == [rows[d] EXCEPT !.link = "dead"]
<1>1. d \in There /\ rows[d].there /\ rows[d].link # "none"
      /\ UNCHANGED <<made, customers, request, starts, aux>>
  BY DEF Expire, There
<1>2. rows[d] \in Row /\ RowInv(d)
  BY DEF IInv, TypeOK
<1>3. rows' = [rows EXCEPT ![d] = p]
  BY DEF Expire
<1>4. p \in Row
  BY <1>2 DEF Row
<1>5. p.there /\ p.type = rows[d].type /\ p.seq = rows[d].seq /\ p.source = rows[d].source
      /\ p.customer = rows[d].customer /\ p.link = "dead" /\ p.viewed = rows[d].viewed
      /\ p.status = rows[d].status
  BY <1>1, <1>2 DEF Row
<1>6. request' \in [Requests -> Request] /\ \A r \in Requests : Fits(request'[r])
  BY <1>1 DEF IInv, TypeOK
<1> HIDE DEF p
<1>7. d \notin stale =>
        /\ p.status \in IF p.type = "quote" THEN QuoteStatuses ELSE {"open"} \cup Issued
        /\ p.link # "none" => p.status # "open"
  BY <1>1, <1>2, <1>5 DEF RowInv
<1> QED BY <1>1, <1>3, <1>4, <1>5, <1>6, <1>7, AdjustingIInv

\* A bulk action archives a document, or takes it out of the archive.
LEMMA BulkArchiveIInv ==
  ASSUME IInv, NEW r \in Requests, NEW d \in Docs, BulkArchive(r, d)
  PROVE  IInv'
<1> DEFINE q == request[r]
           n == NextId(q, d)
           p == [rows[d] EXCEPT !.archived = (q.bulk = "archive")]
<1>1. TypeOK /\ q \in Request /\ Fits(q) /\ starts \in 0 .. MaxStarts
  BY Standing
<1>2. q.pc = "bulk" /\ request' = [request EXCEPT ![r] = n]
      /\ UNCHANGED <<made, customers, starts, aux>>
  BY DEF BulkArchive
<1>3. \/ rows' = rows
      \/ d \in There /\ rows' = [rows EXCEPT ![d] = p]
  BY DEF BulkArchive, Has
<1> HIDE DEF q
<1>4. ~q.refused
  BY <1>1, <1>2 DEF Fits, Rivalled
<1>5. n \in Request /\ Fits(n)
  BY <1>1, <1>4, NextIdFits
<1> HIDE DEF n
<1>6. CASE rows' = rows
  BY <1>1, <1>2, <1>5, <1>6, Requesting DEF table
<1>7. CASE d \in There /\ rows' = [rows EXCEPT ![d] = p]
  <2>1. rows[d] \in Row /\ RowInv(d) /\ rows[d].there
    BY <1>7 DEF IInv, TypeOK, There
  <2>2. p \in Row
    BY <2>1 DEF Row
  <2>3. p.there /\ p.type = rows[d].type /\ p.seq = rows[d].seq /\ p.source = rows[d].source
        /\ p.customer = rows[d].customer /\ p.link = rows[d].link /\ p.viewed = rows[d].viewed
        /\ p.status = rows[d].status
    BY <2>1 DEF Row
  <2>4. request' \in [Requests -> Request] /\ \A s \in Requests : Fits(request'[s])
    BY <1>2, <1>5 DEF IInv, TypeOK
  <2> HIDE DEF p
  <2>5. d \notin stale =>
          /\ p.status \in IF p.type = "quote" THEN QuoteStatuses ELSE {"open"} \cup Issued
          /\ p.link # "none" => p.status # "open"
    BY <2>1, <2>3 DEF RowInv
  <2> QED BY <1>2, <1>7, <2>2, <2>3, <2>4, <2>5, AdjustingIInv
<1> QED BY <1>3, <1>6, <1>7

\* The answer to a public view, which may be the first.
LEMMA MarkViewedIInv ==
  ASSUME IInv, NEW r \in Requests, MarkViewed(r)
  PROVE  IInv'
<1> DEFINE q == request[r]
           d == q.doc
           page == q.seen.row
           asked == [rows[d] EXCEPT !.status = "answered"]
           opened == [rows[d] EXCEPT !.viewed = TRUE]
<1>1. TypeOK /\ q \in Request /\ Fits(q) /\ starts \in 0 .. MaxStarts
  BY Standing
<1>2. q.pc = "viewing" /\ Finish(r) /\ UNCHANGED <<made, customers, starts, stale>>
  BY DEF MarkViewed
<1>3. d \in Docs /\ page.link # "none" /\ page \in Row
  BY <1>1, <1>2 DEF Fits, Decided, Request
<1>4. shown' = IF rows[d].there THEN shown \cup {<<d, page.type, page.seq>>} ELSE shown
  BY DEF MarkViewed
<1>5. \/ /\ d \in There /\ rows[d].type = "quote" /\ rows[d].status = "shared"
         /\ rows' = [rows EXCEPT ![d] = asked] /\ viewEvents' = viewEvents
      \/ /\ FirstView(d)
         /\ rows' = [rows EXCEPT ![d] = opened] /\ viewEvents' = [viewEvents EXCEPT ![d] = @ + 1]
      \/ rows' = rows /\ viewEvents' = viewEvents
  <2>1. CASE d \in There /\ page.type = "quote" /\ rows[d].type = "quote" /\ rows[d].status = "shared"
    BY <2>1 DEF MarkViewed
  <2>2. CASE page.type = "invoice" /\ FirstView(d)
    BY <2>2 DEF MarkViewed
  <2>3. CASE /\ ~(d \in There /\ page.type = "quote" /\ rows[d].type = "quote" /\ rows[d].status = "shared")
             /\ ~(page.type = "invoice" /\ FirstView(d))
    BY <2>3 DEF MarkViewed
  <2> QED BY <2>1, <2>2, <2>3
<1>6. rows[d].there /\ d \notin stale =>
        rows[d].type = page.type /\ rows[d].seq = page.seq /\ rows[d].link # "none"
  BY <1>1, <1>2, <1>3 DEF Fits, Known, Docs, NoDoc
<1>7. request' = [request EXCEPT ![r] = NoRequest] /\ request' \in [Requests -> Request]
      /\ \A s \in Requests : Fits(request'[s])
  BY <1>1, <1>2, Idle DEF IInv, TypeOK, Finish
<1>8. rows[d] \in Row /\ RowInv(d) /\ ViewInv(d) /\ viewEvents[d] \in Nat /\ viewEvents \in [Docs -> Nat]
  BY <1>1, <1>3 DEF IInv, TypeOK
<1> HIDE DEF page, d, q
<1>9. CASE rows[d].there
  <2>1. d \in There /\ d <= made
    BY <1>1, <1>3, <1>9 DEF There, TypeOK
  <2> DEFINE Written(p) ==
               /\ p.there /\ p.type = rows[d].type /\ p.seq = rows[d].seq /\ p.source = rows[d].source
               /\ p.customer = rows[d].customer
               /\ rows[d].link # "none" => p.link # "none"
               /\ d \notin stale =>
                    /\ p.status \in IF p.type = "quote" THEN QuoteStatuses ELSE {"open"} \cup Issued
                    /\ p.link # "none" => p.status # "open"
               /\ rows' = [rows EXCEPT ![d] = p]
               /\ rows[d].viewed => p.viewed
               /\ \/ viewEvents' = viewEvents
                  \/ ~rows[d].viewed /\ p.viewed /\ viewEvents' = [viewEvents EXCEPT ![d] = @ + 1]
  <2>2. \E p \in Row : Written(p)
    <3>1. CASE /\ d \in There /\ rows[d].type = "quote" /\ rows[d].status = "shared"
               /\ rows' = [rows EXCEPT ![d] = asked] /\ viewEvents' = viewEvents
      <4>1. asked \in Row
        BY <1>8 DEF Row, Statuses, QuoteStatuses
      <4>2. asked.there /\ asked.type = rows[d].type /\ asked.seq = rows[d].seq
            /\ asked.source = rows[d].source /\ asked.customer = rows[d].customer
            /\ asked.link = rows[d].link /\ asked.viewed = rows[d].viewed /\ asked.status = "answered"
        BY <1>8, <1>9 DEF Row
      <4> HIDE DEF asked
      <4>3. Written(asked)
        BY <3>1, <4>2 DEF QuoteStatuses
      <4> HIDE DEF Written
      <4> QED BY <4>1, <4>3
    <3>2. CASE /\ FirstView(d)
               /\ rows' = [rows EXCEPT ![d] = opened] /\ viewEvents' = [viewEvents EXCEPT ![d] = @ + 1]
      <4>1. opened \in Row
        BY <1>8 DEF Row
      <4>2. opened.there /\ opened.type = rows[d].type /\ opened.seq = rows[d].seq
            /\ opened.source = rows[d].source /\ opened.customer = rows[d].customer
            /\ opened.link = rows[d].link /\ opened.viewed /\ opened.status = rows[d].status
        BY <1>8, <1>9 DEF Row
      <4> HIDE DEF opened
      <4>3. Written(opened)
        BY <1>8, <3>2, <4>2 DEF RowInv, FirstView
      <4> HIDE DEF Written
      <4> QED BY <4>1, <4>3
    <3>3. CASE rows' = rows /\ viewEvents' = viewEvents
      <4> DEFINE p == rows[d]
      <4>1. rows' = [rows EXCEPT ![d] = p]
        BY <1>1, <3>3 DEF TypeOK
      <4>2. Written(p)
        BY <1>8, <1>9, <3>3, <4>1 DEF RowInv
      <4> HIDE DEF Written
      <4> QED BY <1>8, <4>2
    <3> HIDE DEF asked, opened, Written
    <3> QED BY <1>5, <3>1, <3>2, <3>3
  <2>3. PICK p \in Row : Written(p)
    BY <2>2
  <2>4. /\ rows' \in [Docs -> Row]
        /\ \A e \in Docs : rows'[e].there => e <= made' /\ rows'[e].seq > 0
        /\ \A e \in Docs : rows'[e].type = "invoice" => rows'[e].customer # NoCustomer
        /\ (\A e \in Docs : RowInv(e))' /\ UniqueNumbers' /\ SourceStays'
        /\ \A s \in shown : ShownIsThere(s)'
        /\ \A s \in Request : Fits(s) => Fits(s)'
    BY <1>2, <2>1, <2>3, Adjusting
  <2>5. viewEvents' \in [Docs -> Nat]
    BY <1>3, <1>8, <2>3
  <2>6. page.type \in Types /\ page.seq \in Sequences
    BY <1>3 DEF Row
  <2>7. TypeOK'
    BY <1>1, <1>2, <1>3, <1>4, <1>7, <2>4, <2>5, <2>6 DEF TypeOK
  <2>8. ShownInv'
    <3>1. ASSUME NEW s, s = <<d, page.type, page.seq>>
          PROVE  ShownIsThere(s)'
      <4>1. rows'[d].there /\ rows'[d].type = rows[d].type /\ rows'[d].seq = rows[d].seq
            /\ (rows[d].link # "none" => rows'[d].link # "none")
        BY <1>1, <1>3, <2>3 DEF TypeOK
      <4>2. s[1] = d /\ s[2] = page.type /\ s[3] = page.seq
        BY <3>1
      <4> QED BY <1>2, <1>6, <1>9, <4>1, <4>2 DEF ShownIsThere
    <3>2. \A s \in shown' : s \in shown \/ s = <<d, page.type, page.seq>>
      BY <1>4
    <3>3. ASSUME NEW s \in shown'
          PROVE  ShownIsThere(s)'
      BY <2>4, <3>1, <3>2
    <3> QED BY <3>3 DEF ShownInv, ShownIsThere
  <2>9. (\A e \in Docs : ViewInv(e))'
    <3> SUFFICES ASSUME NEW e \in Docs
                 PROVE  ViewInv(e)'
      OBVIOUS
    <3>1. ViewInv(e) /\ rows \in [Docs -> Row] /\ viewEvents[e] \in Nat
      BY <1>8 DEF IInv, TypeOK
    <3>2. CASE e # d
      <4>1. rows'[e] = rows[e] /\ viewEvents'[e] = viewEvents[e]
        BY <1>8, <2>3, <3>2
      <4> QED BY <1>2, <3>1, <4>1 DEF ViewInv
    <3>3. CASE e = d
      <4>1. rows'[d] = p /\ rows'[d].there
        BY <1>3, <2>3, <3>1
      <4>2. \/ viewEvents'[d] = viewEvents[d]
            \/ ~rows[d].viewed /\ p.viewed /\ viewEvents'[d] = viewEvents[d] + 1
        BY <1>3, <1>8, <2>3
      <4>3. rows[d].viewed => p.viewed
        BY <2>3
      <4> QED BY <1>2, <1>8, <1>9, <2>1, <3>3, <4>1, <4>2, <4>3 DEF ViewInv
    <3> QED BY <3>2, <3>3
  <2>10. (\A s \in Requests : Fits(request[s]))'
    <3> SUFFICES ASSUME NEW s \in Requests, NEW a, a = request'[s]
                 PROVE  Fits(a)'
      OBVIOUS
    <3> QED BY <1>7, <2>4
  <2> QED BY <2>4, <2>7, <2>8, <2>9, <2>10 DEF IInv
<1>10. CASE ~rows[d].there
  <2>1. UNCHANGED <<rows, viewEvents, shown>>
    BY <1>4, <1>5, <1>10 DEF FirstView, Has, There
  <2> QED BY <1>2, <2>1, EndingIInv DEF table, aux
<1> QED BY <1>9, <1>10

\* Documents that no other names as its source go.
LEMMA RemovingIInv ==
  ASSUME IInv, NEW gone \in SUBSET There,
         rows' = [e \in Docs |-> IF e \in gone THEN NoRow ELSE rows[e]],
         \A i \in There \ gone : rows[i].source \notin gone,
         stale \subseteq stale', stale' \subseteq Docs, customers' \subseteq Customers,
         shown' \subseteq shown, \A s \in shown' : s[1] \in gone => s[1] \in stale',
         request' \in [Requests -> Request], \A r \in Requests : Fits(request'[r]),
         UNCHANGED <<made, starts, viewEvents>>
  PROVE  IInv'
<1>1. TypeOK /\ NoRow \in Row /\ gone \subseteq Docs
  BY WantedRows DEF IInv, There
<1>2. NoRow.there = FALSE /\ NoRow.type = "quote" /\ NoRow.source = NoDoc
      /\ NoRow.status = "open" /\ NoRow.link = "none"
  BY DEF NoRow
<1>3. \A e \in Docs : rows'[e] = IF e \in gone THEN NoRow ELSE rows[e]
  OBVIOUS
<1>4. rows' \in [Docs -> Row]
  BY <1>1 DEF TypeOK
<1>5. TypeOK'
  <2>1. /\ \A e \in Docs : rows'[e].there => e <= made' /\ rows'[e].seq > 0
        /\ \A e \in Docs : rows'[e].type = "invoice" => rows'[e].customer # NoCustomer
    BY <1>1, <1>2, <1>3 DEF TypeOK
  <2> QED BY <1>1, <1>4, <2>1 DEF TypeOK
<1>6. (\A e \in Docs : RowInv(e))'
  <2> SUFFICES ASSUME NEW e \in Docs
               PROVE  RowInv(e)'
    OBVIOUS
  <2>1. RowInv(e)
    BY DEF IInv
  <2>2. CASE e \in gone
    BY <1>2, <1>3, <2>2 DEF RowInv, QuoteStatuses
  <2>3. CASE e \notin gone
    BY <1>3, <2>1, <2>3 DEF RowInv
  <2> QED BY <2>2, <2>3
<1>7. There' = There \ gone
  BY <1>2, <1>3 DEF There
<1>8. \A e \in There' : e \in Docs /\ e \in There /\ rows'[e] = rows[e]
  BY <1>3, <1>7 DEF There
<1>9. UniqueNumbers'
  BY <1>8 DEF IInv, UniqueNumbers
<1>10. SourceStays'
  <2>1. SourceStays
    BY DEF IInv
  <2>2. ASSUME NEW i \in There', rows'[i].source # NoDoc
        PROVE  /\ rows'[i].source \in There'
               /\ rows'[i].source \notin stale' =>
                    /\ rows'[rows'[i].source].type = "quote"
                    /\ rows'[rows'[i].source].customer = rows'[i].customer
    <3>1. i \in There \ gone /\ rows'[i] = rows[i]
      BY <1>7, <1>8
    <3>2. rows[i].source \in There /\ rows[i].source \notin gone
      BY <2>1, <2>2, <3>1 DEF SourceStays
    <3>3. rows[i].source \in There' /\ rows'[rows[i].source] = rows[rows[i].source]
      BY <1>7, <1>8, <3>2
    <3> QED BY <2>1, <2>2, <3>1, <3>3 DEF SourceStays
  <2> QED BY <2>2 DEF SourceStays
<1>11. ShownInv'
  <2>1. ASSUME NEW s \in shown', s[1] \notin stale'
        PROVE  /\ rows'[s[1]].there
               /\ rows'[s[1]].type = s[2] /\ rows'[s[1]].seq = s[3]
               /\ rows'[s[1]].link # "none"
    <3>1. s \in shown /\ s[1] \in Docs /\ s[1] \notin gone /\ s[1] \notin stale
      BY <1>1, <2>1 DEF TypeOK
    <3> QED BY <1>3, <3>1 DEF IInv, ShownInv, ShownIsThere
  <2> QED BY <2>1 DEF ShownInv, ShownIsThere
<1>12. (\A e \in Docs : ViewInv(e))'
  BY <1>2, <1>3 DEF IInv, ViewInv
<1>13. (\A r \in Requests : Fits(request[r]))'
  <2>1. \A e \in Docs : Kept(e) /\ SameNumber(e)
    BY <1>2, <1>3 DEF Kept, SameNumber
  <2>2. made' \in 0 .. MaxDocs /\ made <= made'
    BY <1>1, DocumentsAssumption DEF TypeOK
  <2>3. \A q \in Request : Fits(q) => Fits(q)'
    BY <1>1, <2>1, <2>2, FitsKept
  <2> SUFFICES ASSUME NEW r \in Requests, NEW q, q = request'[r]
               PROVE  Fits(q)'
    OBVIOUS
  <2> QED BY <2>3
<1> QED BY <1>5, <1>6, <1>9, <1>10, <1>11, <1>12, <1>13 DEF IInv

\* What a request read of a document it would not write over unseen.
LEMMA NotOutdated ==
  ASSUME TypeOK, NEW r \in Requests, NEW d \in Docs, d = request[r].doc, d \notin Outdated(r)
  PROVE  /\ request[r].seen.linked = Linked(d)
         /\ request[r].seen.row.there = rows[d].there
         /\ request[r].seen.row.type = rows[d].type
         /\ request[r].seen.row.seq = rows[d].seq
         /\ request[r].seen.row.status = rows[d].status
         /\ request[r].seen.row.link = rows[d].link
         /\ request[r].seen.row.customer = rows[d].customer
         /\ request[r].seen.row.source = rows[d].source
<1>1. request[r].seen = Seen(d)
  BY DEF Outdated
<1> QED BY <1>1, SeenRow

\* A quote is deleted, unless an invoice names it as its source.
LEMMA DeleteCommitIInv ==
  ASSUME IInv, NEW r \in Requests, DeleteCommit(r)
  PROVE  IInv'
<1> DEFINE q == request[r]
           d == q.doc
<1>1. TypeOK /\ q \in Request /\ Fits(q) /\ starts \in 0 .. MaxStarts
  BY Standing
<1>2. q.pc = "deleting" /\ AfterDelete(r) /\ UNCHANGED <<made, customers, starts, shown, viewEvents>>
  BY DEF DeleteCommit
<1>3. PICK p \in Request : Fits(p) /\ request' = [request EXCEPT ![r] = p]
  BY <1>2, AfterDeleteFits
<1>4. \/ /\ ~Linked(d)
         /\ rows' = [rows EXCEPT ![d] = NoRow]
         /\ stale' = IF d \in There THEN stale \cup Outdated(r) ELSE stale
      \/ UNCHANGED <<rows, stale>>
  BY DEF DeleteCommit
<1>5. d \in Docs /\ q.seen.row.type = "quote" /\ q.seen.row.status \notin {"shared", "answered"}
  BY <1>1, <1>2 DEF Fits, Decided, Request
<1>6. CASE UNCHANGED <<rows, stale>>
  BY <1>1, <1>2, <1>3, <1>6, Requesting DEF table, aux
<1>7. CASE d \notin There /\ rows' = [rows EXCEPT ![d] = NoRow] /\ stale' = stale
  <2>1. rows[d] = NoRow
    BY <1>5, <1>7 DEF IInv, RowInv, There
  <2>2. rows' = rows
    BY <1>1, <1>7, <2>1 DEF TypeOK
  <2> QED BY <1>1, <1>2, <1>3, <1>7, <2>2, Requesting DEF table, aux
<1>8. CASE /\ d \in There /\ ~Linked(d)
           /\ rows' = [rows EXCEPT ![d] = NoRow] /\ stale' = stale \cup Outdated(r)
  <2> DEFINE gone == {d}
  <2>1. rows' = [e \in Docs |-> IF e \in gone THEN NoRow ELSE rows[e]]
    BY <1>1, <1>8 DEF TypeOK
  <2>2. \A i \in There \ gone : rows[i].source \notin gone
    <3> SUFFICES ASSUME NEW i \in There, rows[i].source = d
                 PROVE  FALSE
      OBVIOUS
    <3>1. i \in Docs /\ RowInv(i) /\ d # NoDoc
      BY <1>5 DEF IInv, There, Docs, NoDoc
    <3> QED BY <1>8, <3>1 DEF RowInv, Linked, Has
  <2>3. Outdated(r) \subseteq Docs
    BY <1>5 DEF Outdated
  <2>4. \A s \in shown : s[1] = d => d \in stale'
    <3> SUFFICES ASSUME NEW s \in shown, s[1] = d, d \notin stale'
                 PROVE  FALSE
      OBVIOUS
    <3>1. d \notin stale /\ d \notin Outdated(r)
      BY <1>8
    <3>2. rows[d].link # "none" /\ RowInv(d)
      BY <1>5, <3>1 DEF IInv, ShownInv, ShownIsThere
    <3>3. rows[d].type = "quote" /\ rows[d].status \notin {"shared", "answered"}
      BY <1>1, <1>5, <3>1, NotOutdated
    <3> QED BY <3>1, <3>2, <3>3 DEF RowInv, QuoteStatuses
  <2>5. request' \in [Requests -> Request] /\ \A s \in Requests : Fits(request'[s])
    BY <1>3 DEF IInv, TypeOK
  <2>6. gone \in SUBSET There
    BY <1>8
  <2>7. stale \subseteq stale' /\ stale' \subseteq Docs /\ customers' \subseteq Customers
    BY <1>1, <1>2, <1>8, <2>3 DEF TypeOK
  <2>8. shown' \subseteq shown /\ \A s \in shown' : s[1] \in gone => s[1] \in stale'
    BY <1>2, <2>4
  <2> HIDE DEF gone
  <2> QED BY <1>2, <2>1, <2>2, <2>5, <2>6, <2>7, <2>8, RemovingIInv
<1> QED BY <1>4, <1>6, <1>7, <1>8

\* A customer goes with the documents.
LEMMA DeleteCustomerIInv ==
  ASSUME IInv, NEW c \in Customers, DeleteCustomer(c)
  PROVE  IInv'
<1> DEFINE gone == {d \in There : rows[d].customer = c}
<1>1. TypeOK /\ request \in [Requests -> Request] /\ \A r \in Requests : Fits(request[r])
  BY DEF IInv, TypeOK
<1>2. /\ \A i \in There \ gone : rows[i].source \notin gone
      /\ rows' = [d \in Docs |-> IF d \in gone THEN NoRow ELSE rows[d]]
      /\ shown' = {s \in shown : s[1] \notin gone}
      /\ customers' = customers \ {c}
      /\ UNCHANGED <<made, request, starts, viewEvents, stale>>
  BY DEF DeleteCustomer
<1>3. gone \in SUBSET There
  OBVIOUS
<1>4. customers' \subseteq Customers /\ stale' \subseteq Docs
  BY <1>1, <1>2 DEF TypeOK
<1> HIDE DEF gone
<1>5. shown' \subseteq shown /\ \A s \in shown' : s[1] \in gone => s[1] \in stale'
  BY <1>2
<1> QED BY <1>1, <1>2, <1>3, <1>4, <1>5, RemovingIInv

\* A request that lost a number is the request, but for the count of its rivals.
LEMMA RivalsRequest ==
  ASSUME TypeOK, NEW type, NEW s \in Requests
  PROVE  LET q == request[s]
             p == Rivals(type)[s]
         IN /\ p \in Request
            /\ p.pc = q.pc /\ p.doc = q.doc /\ p.seen = q.seen /\ p.wanted = q.wanted
            /\ p.retried = q.retried /\ p.refused = q.refused
            /\ q.rivals \in 0 .. 2
            /\ p.rivals = IF /\ q.pc \in {"numbering", "inserting"} /\ q.wanted.type = type
                             /\ q.wanted.source = NoDoc /\ q.rivals < 2
                          THEN q.rivals + 1 ELSE q.rivals
<1> DEFINE q == request[s]
           p == Rivals(type)[s]
           b == [q EXCEPT !.rivals = @ + 1]
           lost == /\ q.pc \in {"numbering", "inserting"} /\ q.wanted.type = type
                   /\ q.wanted.source = NoDoc /\ q.rivals < 2
<1>1. q \in Request
  BY DEF TypeOK
<1>2. p = IF lost THEN b ELSE q
  BY DEF Rivals
<1> HIDE DEF q, p
<1>3. q.rivals \in 0 .. 2
  BY <1>1 DEF Request
<1>4. CASE lost
  <2>1. q.rivals + 1 \in 0 .. 2
    BY <1>3, <1>4
  <2>2. b \in Request
    BY <1>1, <2>1 DEF Request
  <2>3. b.pc = q.pc /\ b.doc = q.doc /\ b.seen = q.seen /\ b.wanted = q.wanted
        /\ b.retried = q.retried /\ b.refused = q.refused /\ b.rivals = q.rivals + 1
    BY <1>1 DEF Request
  <2> HIDE DEF b
  <2> QED BY <1>2, <1>3, <1>4, <2>2, <2>3 DEF q, p
<1>5. CASE ~lost
  BY <1>1, <1>2, <1>3, <1>5 DEF q, p
<1> QED BY <1>4, <1>5

\* A creation that finds its number taken has lost it to a rival: to one from
\* before, or to the document that the step has numbered.
LEMMA RivalsFit ==
  ASSUME TypeOK, NEW type, NEW s \in Requests, Fits(request[s]),
         made' \in 0 .. MaxDocs, made <= made', stale \subseteq stale',
         \A d \in Docs : d <= made => Kept(d),
         \A d \in Docs : SameNumber(d) \/ rows'[d].type = type,
         NEW p, p = Rivals(type)[s]
  PROVE  p \in Request /\ Fits(p)'
<1> DEFINE q == request[s]
<1>1. /\ p \in Request
      /\ p.pc = q.pc /\ p.doc = q.doc /\ p.seen = q.seen /\ p.wanted = q.wanted
      /\ p.retried = q.retried /\ p.refused = q.refused
      /\ q.rivals \in 0 .. 2
      /\ p.rivals = IF /\ q.pc \in {"numbering", "inserting"} /\ q.wanted.type = type
                       /\ q.wanted.source = NoDoc /\ q.rivals < 2
                    THEN q.rivals + 1 ELSE q.rivals
  BY RivalsRequest
<1>2. Fits(q)
  OBVIOUS
<1> HIDE DEF q
<1>3. Decided(p)
  <2>1. (Creates(q) => Creates(p)) /\ (Changes(q) => Changes(p))
    BY <1>1 DEF Creates, Changes
  <2> QED BY <1>1, <1>2, <2>1 DEF Fits, Decided
<1>4. q.pc \in {"numbering", "inserting"} /\ q.doc = NoDoc => q.wanted.source = NoDoc
  BY <1>2 DEF Fits, Decided, Creates, Changes
<1>5. Taken(p.wanted.type, p.wanted.seq, NoDoc)' =>
        Taken(p.wanted.type, p.wanted.seq, NoDoc) \/ p.wanted.type = type
  BY DEF Taken, Has, There, SameNumber
<1>6. Rivalled(p)'
  <2>1. p.refused => p.pc = "idle" /\ p.rivals = 2
    BY <1>1, <1>2 DEF Fits, Rivalled
  <2>2. ASSUME p.pc \in {"numbering", "inserting"}, p.doc = NoDoc
        PROVE  /\ p.retried => p.rivals >= 1
               /\ p.pc = "inserting" /\ Taken(p.wanted.type, p.wanted.seq, NoDoc)' =>
                    p.rivals >= 1 /\ (p.retried => p.rivals = 2)
    BY <1>1, <1>2, <1>4, <1>5, <2>2 DEF Fits, Rivalled
  <2> QED BY <2>1, <2>2 DEF Rivalled
<1>7. Decided(p)'
  BY <1>3 DEF Decided, Creates, Changes
<1>8. Known(p)
  BY <1>1, <1>2 DEF Fits, Known
<1>9. Known(p)'
  BY <1>1, <1>8, KnownKept
<1> QED BY <1>1, <1>6, <1>7, <1>9 DEF Fits

\* A document is inserted under a number nobody has.
LEMMA InsertIInv ==
  ASSUME IInv, NEW r \in Requests, Insert(r)
  PROVE  IInv'
<1> DEFINE q == request[r]
           new == q.wanted
<1>1. TypeOK /\ q \in Request /\ Fits(q) /\ NoRequest \in Request /\ Fits(NoRequest)
  BY Standing, Idle
<1>2. /\ q.pc = "inserting" /\ ~Taken(new.type, new.seq, NoDoc)
      /\ new.customer \in customers \cup {NoCustomer}
      /\ new.source # NoDoc => new.source \in There /\ ~Linked(new.source)
      /\ made < MaxDocs /\ made' = made + 1
      /\ stale' = stale \cup (IF q.doc = NoDoc THEN {} ELSE Outdated(r))
      /\ UNCHANGED <<customers, starts, shown, viewEvents>>
  BY DEF Insert, Insertable
<1>3. request' = [Rivals(new.type) EXCEPT ![r] = NoRequest]
  BY DEF Insert
<1>4. rows' = [rows EXCEPT ![made + 1] = new]
  BY <1>2 DEF Insert
<1>5. new \in Row /\ Creates(q) /\ new.seq > 0 /\ q.doc \in Docs \cup {NoDoc}
  BY <1>1, <1>2 DEF Fits, Decided, Request
<1>6. new.source = q.doc /\ new.there /\ new.status = "open" /\ new.link = "none"
      /\ (new.type = "invoice" => new.customer # NoCustomer)
      /\ (q.doc # NoDoc => new.type = "invoice")
      /\ (q.doc # NoDoc => q.seen.row.type = "quote" /\ q.seen.row.customer = new.customer)
  BY <1>5 DEF Creates
<1>7. \A d \in Docs, s \in Requests : d = request[s].doc /\ d \notin Outdated(s) =>
        request[s].seen.row.type = rows[d].type /\ request[s].seen.row.customer = rows[d].customer
  BY <1>1, NotOutdated
<1>8. q.doc # NoDoc /\ q.doc \notin Outdated(r) =>
        rows[q.doc].type = "quote" /\ rows[q.doc].customer = new.customer
  BY <1>5, <1>6, <1>7
<1>9. Outdated(r) \subseteq {q.doc}
  BY DEF Outdated
<1> HIDE DEF new, q
<1> DEFINE n == made + 1
<1>10. n \in Docs /\ made' = n /\ n \in Nat /\ made \in Nat /\ ~(n <= made) /\ ~rows[n].there
  BY <1>1, <1>2, DocumentsAssumption DEF TypeOK, Docs
<1>11. rows' = [rows EXCEPT ![n] = new]
  BY <1>4
<1> HIDE DEF n
<1>12. rows'[n] = new /\ \A e \in Docs \ {n} : rows'[e] = rows[e]
  BY <1>1, <1>10, <1>11 DEF TypeOK
<1>13. There' = There \cup {n}
  BY <1>6, <1>10, <1>12 DEF There
<1>14. \A e \in There : e \in Docs \ {n} /\ rows'[e] = rows[e]
  BY <1>10, <1>12 DEF There
<1>15. made' \in 0 .. MaxDocs /\ made <= made' /\ stale \subseteq stale' /\ stale' \subseteq Docs
  <2>1. made' \in 0 .. MaxDocs /\ made <= made'
    BY <1>2, <1>10, DocumentsAssumption
  <2>2. stale \subseteq stale' /\ stale' \subseteq Docs
    BY <1>1, <1>2, <1>5, <1>9 DEF TypeOK
  <2> QED BY <2>1, <2>2
<1>16. \A s \in Requests : request'[s] \in Request /\ Fits(request[s])'
  <2> SUFFICES ASSUME NEW s \in Requests, NEW p, p = request'[s]
               PROVE  p \in Request /\ Fits(p)'
    OBVIOUS
  <2>1. \A d \in Docs : d <= made => Kept(d)
    BY <1>10, <1>12 DEF Kept
  <2>2. \A d \in Docs : SameNumber(d) \/ rows'[d].type = new.type
    BY <1>12 DEF SameNumber
  <2>3. CASE s = r
    <3>1. p = NoRequest
      BY <1>3, <2>3 DEF Rivals
    <3>2. made' = made' /\ NoRequest.doc = NoDoc /\ NoRequest.pc = "idle" /\ ~NoRequest.refused
      BY DEF NoRequest
    <3>3. Fits(p)'
      BY <1>10, <3>1, <3>2 DEF Fits, Decided, Rivalled, Known, NoDoc
    <3> QED BY <1>1, <3>1, <3>3
  <2>4. CASE s # r
    <3>1. p = Rivals(new.type)[s]
      BY <1>3, <2>4 DEF Rivals
    <3>2. Fits(request[s])
      BY DEF IInv
    <3> QED BY <1>1, <1>15, <2>1, <2>2, <3>1, <3>2, RivalsFit
  <2> QED BY <2>3, <2>4
<1>17. TypeOK'
  <2>1. rows' \in [Docs -> Row]
    BY <1>1, <1>5, <1>11 DEF TypeOK
  <2>2. /\ \A e \in Docs : rows'[e].there => e <= made' /\ rows'[e].seq > 0
        /\ \A e \in Docs : rows'[e].type = "invoice" => rows'[e].customer # NoCustomer
    <3> SUFFICES ASSUME NEW e \in Docs
                 PROVE  /\ rows'[e].there => e <= made' /\ rows'[e].seq > 0
                        /\ rows'[e].type = "invoice" => rows'[e].customer # NoCustomer
      OBVIOUS
    <3>1. CASE e = n
      BY <1>5, <1>6, <1>10, <1>12, <3>1
    <3>2. CASE e # n
      <4>1. rows[e].there => e <= made
        BY <1>1 DEF TypeOK
      <4>2. e <= made => e <= made'
        BY <1>2, <1>10 DEF Docs
      <4> QED BY <1>1, <1>12, <3>2, <4>1, <4>2 DEF TypeOK
    <3> QED BY <3>1, <3>2
  <2>3. request' \in [Requests -> Request]
    <3>1. request' = [s \in Requests |-> request'[s]]
      BY <1>3 DEF Rivals
    <3> QED BY <1>16, <3>1
  <2> QED BY <1>1, <1>2, <1>15, <2>1, <2>2, <2>3 DEF TypeOK
<1>18. (\A e \in Docs : RowInv(e))'
  <2> SUFFICES ASSUME NEW e \in Docs
               PROVE  RowInv(e)'
    OBVIOUS
  <2>1. CASE e = n
    <3>1. new.status \in QuoteStatuses /\ new.status \in {"open"} \cup Issued
      BY <1>6 DEF QuoteStatuses
    <3> QED BY <1>6, <1>12, <2>1, <3>1 DEF RowInv
  <2>2. CASE e # n
    <3>1. RowInv(e) /\ rows'[e] = rows[e]
      BY <1>12, <2>2 DEF IInv
    <3> QED BY <1>15, <3>1 DEF RowInv
  <2> QED BY <2>1, <2>2
<1>19. UniqueNumbers'
  <2>1. \A e \in There : ~(rows[e].type = new.type /\ rows[e].seq = new.seq)
    BY <1>2 DEF Taken, Has, There, Docs, NoDoc
  <2> QED BY <1>12, <1>13, <1>14, <2>1 DEF IInv, UniqueNumbers
<1>20. SourceStays'
  <2>1. ASSUME NEW i \in There', rows'[i].source # NoDoc
        PROVE  /\ rows'[i].source \in There'
               /\ rows'[i].source \notin stale' =>
                    /\ rows'[rows'[i].source].type = "quote"
                    /\ rows'[rows'[i].source].customer = rows'[i].customer
    <3>1. CASE i = n
      <4>1. rows'[i].source = q.doc /\ q.doc # NoDoc /\ q.doc \in There
            /\ rows'[i].customer = new.customer
        BY <1>2, <1>6, <1>12, <2>1, <3>1
      <4>2. q.doc \in There' /\ rows'[q.doc] = rows[q.doc]
        BY <1>13, <1>14, <4>1
      <4>3. q.doc \notin stale' => q.doc \notin Outdated(r)
        BY <1>2, <4>1
      <4> QED BY <1>8, <4>1, <4>2, <4>3
    <3>2. CASE i # n
      <4>1. i \in There /\ rows'[i] = rows[i]
        BY <1>13, <1>14, <3>2
      <4>2. rows[i].source \in There
        BY <2>1, <4>1 DEF IInv, SourceStays
      <4>3. rows[i].source \in There' /\ rows'[rows[i].source] = rows[rows[i].source]
        BY <1>13, <1>14, <4>2
      <4> QED BY <1>15, <2>1, <4>1, <4>3 DEF IInv, SourceStays
    <3> QED BY <3>1, <3>2
  <2> QED BY <2>1 DEF SourceStays
<1>21. ShownInv'
  <2>1. ASSUME NEW s \in shown, s[1] \notin stale'
        PROVE  /\ rows'[s[1]].there
               /\ rows'[s[1]].type = s[2] /\ rows'[s[1]].seq = s[3]
               /\ rows'[s[1]].link # "none"
    <3>1. s[1] \in Docs /\ s[1] \notin stale /\ rows[s[1]].there
      BY <1>1, <1>15, <2>1 DEF TypeOK, IInv, ShownInv, ShownIsThere
    <3>2. rows'[s[1]] = rows[s[1]]
      BY <1>10, <1>12, <3>1
    <3> QED BY <3>1, <3>2 DEF IInv, ShownInv, ShownIsThere
  <2> QED BY <1>2, <2>1 DEF ShownInv, ShownIsThere
<1>22. (\A e \in Docs : ViewInv(e))'
  <2> SUFFICES ASSUME NEW e \in Docs
               PROVE  ViewInv(e)'
    OBVIOUS
  <2>1. ViewInv(e)
    BY DEF IInv
  <2>2. CASE e = n
    BY <1>2, <1>10, <2>1, <2>2 DEF ViewInv
  <2>3. CASE e # n
    <3>1. rows'[e] = rows[e]
      BY <1>12, <2>3
    <3>2. e <= made => e <= made'
      BY <1>2, <1>10 DEF Docs
    <3> QED BY <1>2, <2>1, <3>1, <3>2 DEF ViewInv
  <2> QED BY <2>2, <2>3
<1>23. (\A s \in Requests : Fits(request[s]))'
  BY <1>16
<1> QED BY <1>17, <1>18, <1>19, <1>20, <1>21, <1>22, <1>23 DEF IInv

\* What a change writes: all but the archive and the first view is as it was wanted
\* where the request wanted another value than it had read, and else as it stands.
Written(d, q) ==
  [c \in DOMAIN NoRow |-> IF c \in Changed(q) THEN q.wanted[c] ELSE rows[d][c]]

\* The row that a change writes, column by column.
LEMMA WrittenRow ==
  ASSUME NEW d, NEW q, NEW p, NEW w, NEW seen,
         p = Written(d, q), w = q.wanted, seen = q.seen.row,
         rows[d] \in Row, w \in Row, seen \in Row
  PROVE  /\ p \in Row
         /\ p.archived = rows[d].archived /\ p.viewed = rows[d].viewed
         /\ p.there = IF w.there # seen.there THEN w.there ELSE rows[d].there
         /\ p.type = IF w.type # seen.type THEN w.type ELSE rows[d].type
         /\ p.seq = IF w.seq # seen.seq THEN w.seq ELSE rows[d].seq
         /\ p.status = IF w.status # seen.status THEN w.status ELSE rows[d].status
         /\ p.link = IF w.link # seen.link THEN w.link ELSE rows[d].link
         /\ p.customer = IF w.customer # seen.customer THEN w.customer ELSE rows[d].customer
         /\ p.source = IF w.source # seen.source THEN w.source ELSE rows[d].source
<1> DEFINE columns == {"there", "type", "seq", "status", "link", "customer", "source", "archived",
                       "viewed"}
           value(c) == IF c \in Changed(q) THEN w[c] ELSE rows[d][c]
<1>1. DOMAIN NoRow = columns
  BY DEF NoRow
<1>2. p = [c \in columns |-> value(c)]
  BY <1>1 DEF Written
<1>3. \A c \in columns : c \in Changed(q) <=> w[c] # seen[c] /\ c \notin {"archived", "viewed"}
  BY <1>1 DEF Changed
<1>4. /\ value("there") \in BOOLEAN /\ value("type") \in Types /\ value("seq") \in Sequences
      /\ value("status") \in Statuses /\ value("link") \in {"none", "usable", "dead"}
      /\ value("customer") \in Customers \cup {NoCustomer} /\ value("source") \in Docs \cup {NoDoc}
      /\ value("archived") \in BOOLEAN /\ value("viewed") \in BOOLEAN
  BY DEF Row
<1>5. p \in Row
  <2> HIDE DEF value
  <2> QED BY <1>2, <1>4 DEF Row
<1> QED BY <1>2, <1>3, <1>5

\* The change that is committed: what it does to the row, and what more is known of
\* it unless it was decided on an old one.
LEMMA Flushing ==
  ASSUME IInv, NEW r \in Requests, request[r].pc = "writing", request[r].doc \in There,
         NEW d, d = request[r].doc, NEW p, p = Written(d, request[r])
  PROVE  LET q == request[r]
             seen == q.seen.row
         IN /\ d \in Docs /\ p \in Row /\ p.there /\ p.seq > 0
            /\ p.source = rows[d].source
            /\ p.viewed = rows[d].viewed
            /\ p.type = "invoice" => p.customer # NoCustomer
            /\ rows[d].customer # NoCustomer => p.customer # NoCustomer
            /\ rows[d].source # NoDoc => p.type = rows[d].type /\ p.customer = rows[d].customer
            /\ \/ q.wanted.type # seen.type /\ p.type = q.wanted.type
               \/ q.wanted.type = seen.type /\ p.type = rows[d].type /\ p.seq = rows[d].seq
            /\ d \notin Outdated(r) =>
                 /\ p.type # rows[d].type =>
                      /\ rows[d].link = "none" /\ rows[d].status = "open"
                      /\ p.link = "none" /\ p.status = "open"
                      /\ rows[d].type = "quote" => ~Linked(d)
                      /\ rows[d].type # "quote" => rows[d].source = NoDoc
                 /\ p.type = rows[d].type => p.seq = rows[d].seq
                 /\ p.customer # rows[d].customer => rows[d].type = "quote" /\ ~Linked(d)
                 /\ rows[d].link # "none" => p.link # "none"
                 /\ p.link # "none" =>
                      p.status # "open" \/ (rows[d].link # "none" /\ p.status = rows[d].status)
                 /\ p.status # rows[d].status =>
                      p.status \in IF p.type = "quote" THEN {"shared", "answered"} ELSE Issued
                 /\ rows[d].type = "invoice" /\ rows[d].status \in {"paid", "void"} =>
                      p.status \in {"paid", "void"}
<1> DEFINE q == request[r]
           seen == q.seen.row
           w == q.wanted
           linked == q.seen.linked
<1>1. TypeOK /\ q \in Request /\ Fits(q)
  BY Standing
<1>2. /\ d \in Docs /\ rows[d] \in Row /\ rows[d].there /\ rows[d].seq > 0
      /\ rows[d].source # NoDoc => rows[d].type = "invoice"
      /\ rows[d].type = "invoice" => rows[d].customer # NoCustomer
      /\ d # NoDoc
  BY LoadedRow
<1>3. w \in Row /\ seen \in Row
  BY <1>1 DEF Request
<1>4. Changes(q) /\ Known(q) /\ d = q.doc
  BY <1>1 DEF Fits, Decided
<1>5. seen.there /\ rows[d].source = seen.source
      /\ (seen.customer # NoCustomer => rows[d].customer # NoCustomer)
  BY <1>2, <1>4 DEF Known
<1>6. /\ w.there /\ w.seq > 0 /\ w.source = seen.source
      /\ seen.source # NoDoc => seen.type = "invoice"
      /\ w.customer # seen.customer => w.customer # NoCustomer /\ seen.type = "quote" /\ ~linked
      /\ w.type = seen.type => w.seq = seen.seq
      /\ w.type # seen.type => /\ seen.link = "none" /\ seen.status = "open"
                               /\ w.link = "none" /\ w.status = "open"
                               /\ seen.type = "quote" => ~linked /\ seen.customer # NoCustomer
                               /\ seen.type # "quote" => seen.source = NoDoc
      /\ seen.link # "none" => w.link # "none"
      /\ w.link # "none" => w.status # "open" \/ (seen.link # "none" /\ w.status = seen.status)
      /\ w.status # seen.status =>
           w.status \in IF w.type = "quote" THEN {"shared", "answered"} ELSE Issued
      /\ seen.type = "invoice" /\ seen.status \in {"paid", "void"} => w.status \in {"paid", "void"}
  BY <1>4 DEF Changes
<1>7. /\ p \in Row
      /\ p.viewed = rows[d].viewed
      /\ p.there = IF w.there # seen.there THEN w.there ELSE rows[d].there
      /\ p.type = IF w.type # seen.type THEN w.type ELSE rows[d].type
      /\ p.seq = IF w.seq # seen.seq THEN w.seq ELSE rows[d].seq
      /\ p.status = IF w.status # seen.status THEN w.status ELSE rows[d].status
      /\ p.link = IF w.link # seen.link THEN w.link ELSE rows[d].link
      /\ p.customer = IF w.customer # seen.customer THEN w.customer ELSE rows[d].customer
      /\ p.source = IF w.source # seen.source THEN w.source ELSE rows[d].source
  <2>1. p = Written(d, q) /\ w = q.wanted /\ seen = q.seen.row
    OBVIOUS
  <2>2. rows[d] \in Row /\ w \in Row /\ seen \in Row
    BY <1>2, <1>3
  <2> HIDE DEF q, w, seen
  <2> QED BY <2>1, <2>2, WrittenRow
<1>8. d \notin Outdated(r) =>
        /\ linked = Linked(d) /\ seen.type = rows[d].type /\ seen.seq = rows[d].seq
        /\ seen.status = rows[d].status /\ seen.link = rows[d].link
        /\ seen.customer = rows[d].customer /\ seen.source = rows[d].source
  BY <1>1, <1>2, NotOutdated
<1>9. seen.type \in Types /\ w.type \in Types /\ rows[d].type \in Types
  BY <1>2, <1>3 DEF Row
<1> HIDE DEF seen, w, linked, q
<1>10. p.there /\ p.seq > 0 /\ p.source = rows[d].source
  BY <1>2, <1>5, <1>6, <1>7
<1>11. /\ p.type = "invoice" => p.customer # NoCustomer
       /\ rows[d].customer # NoCustomer => p.customer # NoCustomer
  BY <1>2, <1>5, <1>6, <1>7, <1>9 DEF Types
<1>12. rows[d].source # NoDoc => p.type = rows[d].type /\ p.customer = rows[d].customer
  BY <1>5, <1>6, <1>7
<1>13. \/ w.type # seen.type /\ p.type = w.type
       \/ w.type = seen.type /\ p.type = rows[d].type /\ p.seq = rows[d].seq
  BY <1>6, <1>7
<1>14. ASSUME d \notin Outdated(r)
       PROVE  /\ p.type # rows[d].type =>
                   /\ rows[d].link = "none" /\ rows[d].status = "open"
                   /\ p.link = "none" /\ p.status = "open"
                   /\ rows[d].type = "quote" => ~Linked(d)
                   /\ rows[d].type # "quote" => rows[d].source = NoDoc
              /\ p.type = rows[d].type => p.seq = rows[d].seq
              /\ p.customer # rows[d].customer => rows[d].type = "quote" /\ ~Linked(d)
              /\ rows[d].link # "none" => p.link # "none"
              /\ p.link # "none" =>
                   p.status # "open" \/ (rows[d].link # "none" /\ p.status = rows[d].status)
              /\ p.status # rows[d].status =>
                   p.status \in IF p.type = "quote" THEN {"shared", "answered"} ELSE Issued
              /\ rows[d].type = "invoice" /\ rows[d].status \in {"paid", "void"} =>
                   p.status \in {"paid", "void"}
  <2>1. p.type = w.type /\ p.seq = w.seq /\ p.status = w.status /\ p.link = w.link
        /\ p.customer = w.customer
    BY <1>7, <1>8, <1>14
  <2> QED BY <1>6, <1>8, <1>14, <2>1
<1> QED BY <1>2, <1>7, <1>10, <1>11, <1>12, <1>13, <1>14 DEF q, seen, w

\* A change is written to the row as it stands.
LEMMA FlushIInv ==
  ASSUME IInv, NEW r \in Requests, Flush(r)
  PROVE  IInv'
<1> DEFINE q == request[r]
<1>1. TypeOK /\ q \in Request /\ Fits(q) /\ NoRequest \in Request /\ Fits(NoRequest)
  BY Standing, Idle
<1>2. CASE Finish(r) /\ UNCHANGED <<rows, stale>>
  BY <1>2, EndingIInv DEF Flush, table, aux
<1>3. ASSUME NEW d, d = q.doc, NEW p, p = Written(d, q), d \in There, ~Taken(p.type, p.seq, d),
             rows' = [rows EXCEPT ![d] = p], stale' = stale \cup Outdated(r),
             request' = [(IF "type" \in Changed(q) THEN Rivals(q.wanted.type) ELSE request)
                           EXCEPT ![r] = NoRequest],
             q.pc = "writing", UNCHANGED <<made, customers, starts, shown, viewEvents>>
      PROVE  IInv'
  <2> DEFINE type == q.wanted.type
             retyped == q.wanted.type # q.seen.row.type
  <2>1. /\ d \in Docs /\ p \in Row /\ p.there /\ p.seq > 0
        /\ p.source = rows[d].source
        /\ p.viewed = rows[d].viewed
        /\ p.type = "invoice" => p.customer # NoCustomer
        /\ rows[d].customer # NoCustomer => p.customer # NoCustomer
        /\ rows[d].source # NoDoc => p.type = rows[d].type /\ p.customer = rows[d].customer
    BY <1>3, Flushing
  <2>2. \/ retyped /\ p.type = type
        \/ ~retyped /\ p.type = rows[d].type /\ p.seq = rows[d].seq
    BY <1>3, Flushing
  <2>3. d \notin stale' =>
          /\ p.type # rows[d].type =>
               /\ rows[d].link = "none" /\ rows[d].status = "open"
               /\ p.link = "none" /\ p.status = "open"
               /\ rows[d].type = "quote" => ~Linked(d)
               /\ rows[d].type # "quote" => rows[d].source = NoDoc
          /\ p.type = rows[d].type => p.seq = rows[d].seq
          /\ p.customer # rows[d].customer => rows[d].type = "quote" /\ ~Linked(d)
          /\ rows[d].link # "none" => p.link # "none"
          /\ p.link # "none" =>
               p.status # "open" \/ (rows[d].link # "none" /\ p.status = rows[d].status)
          /\ p.status # rows[d].status =>
               p.status \in IF p.type = "quote" THEN {"shared", "answered"} ELSE Issued
    <3>1. d \notin stale' => d \notin Outdated(r)
      BY <1>3
    <3> QED BY <1>3, <3>1, Flushing
  <2>4. request' = [(IF retyped THEN Rivals(type) ELSE request) EXCEPT ![r] = NoRequest]
    <3>1. "type" \in Changed(q) <=> retyped
      BY DEF Changed, NoRow
    <3> QED BY <1>3, <3>1
  <2>5. Outdated(r) \subseteq {d} /\ stale \subseteq stale' /\ stale' \subseteq Docs
    BY <1>1, <1>3, <2>1 DEF Outdated, TypeOK
  <2> HIDE DEF type, retyped, q
  <2>6. rows'[d] = p /\ \A e \in Docs \ {d} : rows'[e] = rows[e]
    BY <1>1, <1>3, <2>1 DEF TypeOK
  <2>7. rows[d].there /\ RowInv(d)
    BY <1>3, <2>1 DEF There, IInv
  <2>8. There' = There /\ There \subseteq Docs
    BY <2>1, <2>6, <2>7 DEF There
  <2>9. made' = made /\ made' \in 0 .. MaxDocs /\ made <= made'
    BY <1>1, <1>3, DocumentsAssumption DEF TypeOK
  <2>10. \A e \in Docs : Kept(e)
    BY <2>1, <2>3, <2>6, <2>7 DEF Kept
  <2>11. \A s \in Requests : request'[s] \in Request /\ Fits(request[s])'
    <3> SUFFICES ASSUME NEW s \in Requests, NEW a, a = request'[s]
                 PROVE  a \in Request /\ Fits(a)'
      OBVIOUS
    <3>1. CASE s = r
      <4>1. a = NoRequest
        BY <1>1, <2>4, <3>1 DEF Rivals, TypeOK
      <4>2. NoRequest.doc = NoDoc /\ NoRequest.pc = "idle" /\ ~NoRequest.refused
        BY DEF NoRequest
      <4>3. Fits(a)'
        BY <2>9, <4>1, <4>2 DEF Fits, Decided, Rivalled, Known, NoDoc
      <4> QED BY <1>1, <4>1, <4>3
    <3>2. CASE s # r /\ retyped
      <4>1. a = Rivals(type)[s]
        BY <2>4, <3>2 DEF Rivals
      <4>2. \A e \in Docs : SameNumber(e) \/ rows'[e].type = type
        BY <2>2, <2>6, <3>2 DEF SameNumber
      <4>3. Fits(request[s])
        BY DEF IInv
      <4> QED BY <1>1, <2>5, <2>9, <2>10, <4>1, <4>2, <4>3, RivalsFit
    <3>3. CASE s # r /\ ~retyped
      <4>1. a = request[s] /\ a \in Request /\ Fits(a)
        BY <1>1, <2>4, <3>3 DEF IInv, TypeOK
      <4>2. \A e \in Docs : SameNumber(e)
        BY <2>2, <2>6, <2>7, <3>3 DEF SameNumber
      <4> QED BY <1>1, <2>5, <2>9, <2>10, <4>1, <4>2, FitsKept
    <3> QED BY <3>1, <3>2, <3>3
  <2>12. TypeOK'
    <3>1. rows' \in [Docs -> Row]
      BY <1>1, <1>3, <2>1 DEF TypeOK
    <3>2. /\ \A e \in Docs : rows'[e].there => e <= made' /\ rows'[e].seq > 0
          /\ \A e \in Docs : rows'[e].type = "invoice" => rows'[e].customer # NoCustomer
      BY <1>1, <1>3, <2>1, <2>6, <2>7, <2>9 DEF TypeOK
    <3>3. request' \in [Requests -> Request]
      <4>1. request' = [s \in Requests |-> request'[s]]
        BY <1>1, <2>4 DEF Rivals, TypeOK
      <4> QED BY <2>11, <4>1
    <3> QED BY <1>1, <1>3, <2>5, <3>1, <3>2, <3>3 DEF TypeOK
  <2>13. (\A e \in Docs : RowInv(e))'
    <3> SUFFICES ASSUME NEW e \in Docs
                 PROVE  RowInv(e)'
      OBVIOUS
    <3>1. CASE e # d
      <4>1. RowInv(e) /\ rows'[e] = rows[e]
        BY <2>6, <3>1 DEF IInv
      <4> QED BY <2>5, <4>1 DEF RowInv
    <3>2. CASE e = d
      <4>1. p.source # NoDoc => p.type = "invoice"
        BY <2>1, <2>7 DEF RowInv
      <4>2. ASSUME d \notin stale'
            PROVE  /\ p.status \in IF p.type = "quote" THEN QuoteStatuses ELSE {"open"} \cup Issued
                   /\ p.link # "none" => p.status # "open"
        <5>1. d \notin stale
          BY <2>5, <4>2
        <5> QED BY <2>3, <2>7, <4>2, <5>1 DEF RowInv, QuoteStatuses
      <4> QED BY <2>1, <2>6, <3>2, <4>1, <4>2 DEF RowInv
    <3> QED BY <3>1, <3>2
  <2>14. UniqueNumbers'
    <3>1. \A e \in There \ {d} : ~(rows[e].type = p.type /\ rows[e].seq = p.seq)
      BY <1>3 DEF Taken, Has, There
    <3> QED BY <2>6, <2>8, <3>1 DEF IInv, UniqueNumbers
  <2>15. SourceStays'
    <3>1. ASSUME NEW i \in There', rows'[i].source # NoDoc
          PROVE  /\ rows'[i].source \in There'
                 /\ rows'[i].source \notin stale' =>
                      /\ rows'[rows'[i].source].type = "quote"
                      /\ rows'[rows'[i].source].customer = rows'[i].customer
      <4> DEFINE s == rows[i].source
      <4>1. i \in There /\ i \in Docs /\ rows'[i].source = s /\ s # NoDoc
        BY <2>1, <2>6, <2>8, <3>1
      <4>2. /\ s \in There
            /\ s \notin stale => rows[s].type = "quote" /\ rows[s].customer = rows[i].customer
        BY <4>1 DEF IInv, SourceStays
      <4>3. RowInv(i) /\ rows[i].type = "invoice"
        BY <4>1 DEF IInv, RowInv
      <4> HIDE DEF s
      <4>4. rows'[i].customer = rows[i].customer
        BY <2>1, <2>6, <4>1, <3>1
      <4>5. ASSUME s \notin stale'
            PROVE  rows'[s].type = "quote" /\ rows'[s].customer = rows'[i].customer
        <5>1. s \notin stale
          BY <2>5, <4>5
        <5>2. CASE s # d
          <6>1. rows'[s] = rows[s]
            BY <2>6, <2>8, <4>2, <5>2
          <6> QED BY <4>2, <4>4, <5>1, <6>1
        <5>3. CASE s = d
          <6>1. Linked(d)
            BY <4>1, <4>3, <5>3 DEF Linked, Has, s
          <6>2. p.type = rows[d].type /\ p.customer = rows[d].customer
            BY <2>3, <4>2, <4>5, <5>1, <5>3, <6>1
          <6> QED BY <2>6, <4>2, <4>4, <5>1, <5>3, <6>2
        <5> QED BY <5>2, <5>3
      <4>6. s \in There'
        BY <2>8, <4>2
      <4> QED BY <4>1, <4>5, <4>6
    <3> QED BY <3>1 DEF SourceStays
  <2>16. ShownInv'
    <3>1. ASSUME NEW s \in shown, s[1] \notin stale'
          PROVE  /\ rows'[s[1]].there
                 /\ rows'[s[1]].type = s[2] /\ rows'[s[1]].seq = s[3]
                 /\ rows'[s[1]].link # "none"
      <4>1. s[1] \in Docs /\ s[1] \notin stale
        BY <1>1, <2>5, <3>1 DEF TypeOK
      <4>2. rows[s[1]].there /\ rows[s[1]].type = s[2] /\ rows[s[1]].seq = s[3]
            /\ rows[s[1]].link # "none"
        BY <4>1 DEF IInv, ShownInv, ShownIsThere
      <4>3. CASE s[1] # d
        BY <2>6, <4>1, <4>2, <4>3
      <4>4. CASE s[1] = d
        BY <2>1, <2>3, <2>6, <3>1, <4>2, <4>4
      <4> QED BY <4>3, <4>4
    <3> QED BY <1>3, <3>1 DEF ShownInv, ShownIsThere
  <2>17. (\A e \in Docs : ViewInv(e))'
    <3> SUFFICES ASSUME NEW e \in Docs
                 PROVE  ViewInv(e)'
      OBVIOUS
    <3>1. ViewInv(e)
      BY DEF IInv
    <3> QED BY <1>3, <2>1, <2>6, <2>7, <3>1 DEF ViewInv
  <2> QED BY <2>11, <2>12, <2>13, <2>14, <2>15, <2>16, <2>17 DEF IInv
<1>4. \/ Finish(r) /\ UNCHANGED <<rows, stale>>
      \/ /\ q.doc \in There /\ ~Taken(Written(q.doc, q).type, Written(q.doc, q).seq, q.doc)
         /\ rows' = [rows EXCEPT ![q.doc] = Written(q.doc, q)]
         /\ stale' = stale \cup Outdated(r)
         /\ request' = [(IF "type" \in Changed(q) THEN Rivals(q.wanted.type) ELSE request)
                          EXCEPT ![r] = NoRequest]
  BY DEF Flush, Written
<1>5. q.pc = "writing" /\ UNCHANGED <<made, customers, starts, shown, viewEvents>>
  BY DEF Flush
<1> QED BY <1>2, <1>3, <1>4, <1>5

-------------------------------------------------------------------------------
(* Theorems *)

\* The document the table may hold at first.
LEMMA FirstRow ==
  ASSUME NEW row \in FirstRows
  PROVE  /\ row \in Row
         /\ ~row.there => row = NoRow
         /\ row.there => row.seq = 1
         /\ row.source = NoDoc
         /\ row.type = "invoice" => row.customer # NoCustomer
         /\ row.status \in IF row.type = "quote" THEN QuoteStatuses ELSE {"open"} \cup Issued
         /\ row.link # "none" => row.status # "open"
         /\ row.status = "answered" \/ row.viewed => row.there /\ row.link # "none"
<1>1. CASE row = NoRow
  BY <1>1, WantedRows DEF NoRow, QuoteStatuses
<1>2. ASSUME NEW new \in Row, new.there, new.source = NoDoc, ~new.viewed,
             new.type = "invoice" => new.customer # NoCustomer,
             NEW status \in {"open", "answered", "sent"}, NEW link \in {"none", "usable", "dead"},
             NEW seen \in BOOLEAN, row = First(new, status, link, seen),
             status \in IF new.type = "quote" THEN QuoteStatuses ELSE {"open"} \cup Issued,
             link = "none" <=> status = "open",
             seen => status # "open"
      PROVE  /\ row \in Row
             /\ row.there /\ row.seq = 1 /\ row.source = NoDoc
             /\ row.type = "invoice" => row.customer # NoCustomer
             /\ row.status \in IF row.type = "quote" THEN QuoteStatuses ELSE {"open"} \cup Issued
             /\ row.link # "none" => row.status # "open"
             /\ row.status = "answered" \/ row.viewed => row.there /\ row.link # "none"
  <2>1. row \in Row
    BY <1>2 DEF First, Row, Sequences, Statuses, QuoteStatuses
  <2>2. row.there = new.there /\ row.seq = 1 /\ row.source = new.source /\ row.type = new.type
        /\ row.customer = new.customer /\ row.status = status /\ row.link = link
        /\ row.viewed = (seen /\ new.type = "invoice")
    BY <1>2 DEF First, Row
  <2> QED BY <1>2, <2>1, <2>2
<1>3. ASSUME NEW c \in Customers \cup {NoCustomer}, NEW seen \in BOOLEAN,
             NEW status \in {"open", "answered"}, NEW link \in {"none", "usable", "dead"},
             link = "none" <=> status = "open", seen => status # "open",
             row = First(NewQuote(c), status, link, seen)
      PROVE  row \in Row /\ row.there /\ row.seq = 1 /\ row.source = NoDoc
             /\ (row.type = "invoice" => row.customer # NoCustomer)
             /\ row.status \in (IF row.type = "quote" THEN QuoteStatuses ELSE {"open"} \cup Issued)
             /\ (row.link # "none" => row.status # "open")
             /\ (row.status = "answered" \/ row.viewed => row.there /\ row.link # "none")
  <2> DEFINE new == NewQuote(c)
  <2>1. new \in Row /\ new.there /\ new.source = NoDoc /\ ~new.viewed /\ new.type = "quote"
    BY WantedRows, NewRow DEF NewQuote, NoRow
  <2>2. row = First(new, status, link, seen)
    BY <1>3
  <2> HIDE DEF new
  <2> QED BY <1>2, <1>3, <2>1, <2>2 DEF QuoteStatuses
<1>4. ASSUME NEW c \in Customers, NEW seen \in BOOLEAN,
             NEW status \in {"open", "sent"}, NEW link \in {"none", "usable", "dead"},
             link = "none" <=> status = "open", seen => status # "open",
             row = First(NewInvoice(c, NoDoc), status, link, seen)
      PROVE  row \in Row /\ row.there /\ row.seq = 1 /\ row.source = NoDoc
             /\ (row.type = "invoice" => row.customer # NoCustomer)
             /\ row.status \in (IF row.type = "quote" THEN QuoteStatuses ELSE {"open"} \cup Issued)
             /\ (row.link # "none" => row.status # "open")
             /\ (row.status = "answered" \/ row.viewed => row.there /\ row.link # "none")
  <2> DEFINE new == NewInvoice(c, NoDoc)
  <2>1. new \in Row /\ new.there /\ new.source = NoDoc /\ ~new.viewed /\ new.type = "invoice"
        /\ new.customer # NoCustomer
    <3>1. ~new.viewed
      BY DEF NewInvoice, NewQuote, NoRow
    <3> QED BY <3>1, WantedRows, NewRow, DocumentsAssumption
  <2>2. row = First(new, status, link, seen)
    BY <1>4
  <2> HIDE DEF new
  <2> QED BY <1>2, <1>4, <2>1, <2>2 DEF Issued
<1>5. CASE row # NoRow
  <2>1. \/ row = First(NewQuote(NoCustomer), "open", "none", FALSE)
        \/ \E c \in Customers :
             \/ row = First(NewQuote(c), "open", "none", FALSE)
             \/ row = First(NewQuote(c), "answered", "usable", TRUE)
             \/ row = First(NewQuote(c), "answered", "dead", TRUE)
             \/ row = First(NewInvoice(c, NoDoc), "open", "none", FALSE)
             \/ row = First(NewInvoice(c, NoDoc), "sent", "usable", FALSE)
             \/ row = First(NewInvoice(c, NoDoc), "sent", "dead", TRUE)
    BY <1>5 DEF FirstRows
  <2> QED BY <1>3, <1>4, <2>1
<1> QED BY <1>1, <1>5

\* The invariant holds at first.
LEMMA InitIInv ==
  Init => IInv
<1> SUFFICES ASSUME Init
             PROVE  IInv
  OBVIOUS
<1>1. PICK row \in FirstRows :
        /\ rows = [d \in Docs |-> IF d = 1 THEN row ELSE NoRow]
        /\ made = IF row.there THEN 1 ELSE 0
        /\ shown = IF row.status = "answered" \/ row.viewed
                   THEN {<<1, row.type, 1>>} ELSE {}
        /\ viewEvents = [d \in Docs |-> IF d = 1 /\ row.viewed THEN 1 ELSE 0]
  BY DEF Init
<1>2. customers = Customers /\ request = [r \in Requests |-> NoRequest] /\ starts = 0 /\ stale = {}
  BY DEF Init
<1>3. /\ row \in Row
      /\ ~row.there => row = NoRow
      /\ row.there => row.seq = 1
      /\ row.source = NoDoc
      /\ row.type = "invoice" => row.customer # NoCustomer
      /\ row.status \in IF row.type = "quote" THEN QuoteStatuses ELSE {"open"} \cup Issued
      /\ row.link # "none" => row.status # "open"
      /\ row.status = "answered" \/ row.viewed => row.there /\ row.link # "none"
  BY FirstRow
<1>4. NoRow \in Row /\ ~NoRow.there /\ NoRow.source = NoDoc /\ NoRow.type = "quote"
      /\ NoRow.status = "open" /\ NoRow.link = "none"
  BY WantedRows DEF NoRow
<1>5. 1 \in Docs
  BY DocumentsAssumption DEF Docs
<1>6. rows[1] = row /\ \A d \in Docs \ {1} : rows[d] = NoRow
  BY <1>1, <1>5
<1>7. TypeOK
  <2>1. rows \in [Docs -> Row] /\ viewEvents \in [Docs -> Nat]
    BY <1>1, <1>3, <1>4
  <2>2. made \in 0 .. MaxDocs /\ starts \in 0 .. MaxStarts
    BY <1>1, <1>2, DocumentsAssumption
  <2>3. \A d \in Docs : /\ rows[d].there => d <= made /\ rows[d].seq > 0
                        /\ rows[d].type = "invoice" => rows[d].customer # NoCustomer
    BY <1>1, <1>3, <1>4, <1>6
  <2>4. request \in [Requests -> Request]
    <3>1. NoRequest \in Request
      BY <1>4 DEF NoRequest, Request, Types
    <3> QED BY <1>2, <3>1
  <2>5. shown \subseteq Docs \X Types \X Sequences
    <3>1. row.type \in Types /\ 1 \in Sequences
      BY <1>3 DEF Row, Sequences
    <3> QED BY <1>1, <1>5, <3>1
  <2> QED BY <1>2, <2>1, <2>2, <2>3, <2>4, <2>5 DEF TypeOK
<1>8. ASSUME NEW d \in Docs
      PROVE  RowInv(d)
  BY <1>3, <1>4, <1>6 DEF RowInv, QuoteStatuses
<1>9. There \subseteq {1} /\ \A i \in There : rows[i].source = NoDoc
  BY <1>3, <1>4, <1>6 DEF There
<1>10. UniqueNumbers /\ SourceStays
  BY <1>9 DEF UniqueNumbers, SourceStays
<1>11. ShownInv
  BY <1>1, <1>3, <1>6 DEF ShownInv, ShownIsThere
<1>12. ASSUME NEW d \in Docs
       PROVE  ViewInv(d)
  BY <1>1, <1>3, <1>6 DEF ViewInv
<1>13. \A r \in Requests : Fits(request[r])
  BY <1>2, <1>7, Idle
<1> QED BY <1>7, <1>8, <1>10, <1>11, <1>12, <1>13 DEF IInv

\* Every step preserves the invariant.
LEMMA NextIInv ==
  IInv /\ [Next]_vars => IInv'
<1> SUFFICES ASSUME IInv, [Next]_vars
             PROVE  IInv'
  OBVIOUS
<1>1. CASE UNCHANGED vars
  BY <1>1 DEF vars, IInv, TypeOK, RowInv, UniqueNumbers, SourceStays, ShownInv, ShownIsThere,
              ViewInv, Fits, Decided, Rivalled, Known, Taken, Has, There, Creates, Changes
<1>2. ASSUME NEW r \in Requests, Begin(r)
      PROVE  IInv'
  <2>1. CASE CreateQuote(r)
    BY <2>1, CreateQuoteIInv
  <2>2. CASE CreateInvoice(r)
    BY <2>2, CreateInvoiceIInv
  <2>3. CASE BulkAction(r)
    BY <2>3, BulkActionIInv
  <2>4. ASSUME NEW d \in Docs, Duplicate(r, d)
        PROVE  IInv'
    BY <2>4, DuplicateIInv
  <2>5. ASSUME NEW d \in Docs, Convert(r, d)
        PROVE  IInv'
    BY <2>5, ConvertIInv
  <2>6. ASSUME NEW d \in Docs, Retype(r, d)
        PROVE  IInv'
    BY <2>6, RetypeIInv
  <2>7. ASSUME NEW d \in Docs, Assign(r, d)
        PROVE  IInv'
    BY <2>7, AssignIInv
  <2>8. ASSUME NEW d \in Docs, ShareQuote(r, d)
        PROVE  IInv'
    BY <2>8, ShareQuoteIInv
  <2>9. ASSUME NEW d \in Docs, ShareInvoice(r, d)
        PROVE  IInv'
    BY <2>9, ShareInvoiceIInv
  <2>10. ASSUME NEW d \in Docs, Revoke(r, d)
         PROVE  IInv'
    BY <2>10, RevokeIInv
  <2>11. ASSUME NEW d \in Docs, PayOrVoid(r, d)
         PROVE  IInv'
    BY <2>11, PayOrVoidIInv
  <2>12. ASSUME NEW d \in Docs, View(r, d)
         PROVE  IInv'
    BY <2>12, ViewIInv
  <2>13. ASSUME NEW d \in Docs, DeleteQuote(r, d)
         PROVE  IInv'
    BY <2>13, DeleteQuoteIInv
  <2> QED BY <1>2, <2>1, <2>2, <2>3, <2>4, <2>5, <2>6, <2>7, <2>8, <2>9, <2>10, <2>11, <2>12,
             <2>13 DEF Begin
<1>3. ASSUME NEW r \in Requests, Proceed(r)
      PROVE  IInv'
  <2>1. CASE TakeNumber(r)
    BY <2>1, TakeNumberIInv
  <2>2. CASE Insert(r)
    BY <2>2, InsertIInv
  <2>3. CASE InsertCollides(r)
    BY <2>3, InsertCollidesIInv
  <2>4. CASE InsertFails(r)
    BY <2>4, EndingIInv DEF InsertFails
  <2>5. CASE Flush(r)
    BY <2>5, FlushIInv
  <2>6. CASE MarkViewed(r)
    BY <2>6, MarkViewedIInv
  <2>7. CASE DeleteCommit(r)
    BY <2>7, DeleteCommitIInv
  <2>8. CASE BulkEnds(r)
    BY <2>8, EndingIInv DEF BulkEnds
  <2>9. ASSUME NEW d \in Docs, BulkArchive(r, d)
        PROVE  IInv'
    BY <2>9, BulkArchiveIInv
  <2>10. ASSUME NEW d \in Docs, BulkDelete(r, d)
         PROVE  IInv'
    BY <2>10, BulkDeleteIInv
  <2> QED BY <1>3, <2>1, <2>2, <2>3, <2>4, <2>5, <2>6, <2>7, <2>8, <2>9, <2>10 DEF Proceed
<1>4. ASSUME NEW d \in Docs, QuoteOutcome(d) \/ Expire(d)
      PROVE  IInv'
  BY <1>4, QuoteOutcomeIInv, ExpireIInv
<1>5. ASSUME NEW c \in Customers, DeleteCustomer(c)
      PROVE  IInv'
  BY <1>5, DeleteCustomerIInv
<1> QED BY <1>1, <1>2, <1>3, <1>4, <1>5 DEF Next

\* The inductive invariant holds of every state that the documents reach.
THEOREM Invariance ==
  Spec => []IInv
BY InitIInv, NextIInv, PTL DEF Spec

\* A number that a customer has seen is not given to a second document, and a
\* creation is refused for its number only after two others took one from it
\* (creation/service.py:340), whoever works at once.
THEOREM NumbersAreKept ==
  Spec => []NumbersHold
<1>1. IInv => NumbersHold
  <2> SUFFICES ASSUME IInv
               PROVE  NumbersHold
    OBVIOUS
  <2>1. ShownNumberStays
    <3> SUFFICES ASSUME NEW s \in shown, NEW d \in There, d # s[1], rows[d].type = s[2],
                        rows[d].seq = s[3], s[1] \notin stale
                 PROVE  FALSE
      BY DEF ShownNumberStays
    <3>1. s[1] \in Docs /\ rows[s[1]].there /\ rows[s[1]].type = s[2] /\ rows[s[1]].seq = s[3]
      BY DEF IInv, TypeOK, ShownInv, ShownIsThere
    <3>2. s[1] \in There
      BY <3>1 DEF There
    <3> QED BY <3>1, <3>2 DEF IInv, UniqueNumbers
  <2>2. RefusedAfterTwoRivals
    BY DEF IInv, Fits, Rivalled, RefusedAfterTwoRivals
  <2> QED BY <2>1, <2>2 DEF IInv, NumbersHold
<1> QED BY <1>1, Invariance, PTL

\* An invoice keeps the quote it was made from: there, a quote, and of the same
\* customer, unless one of the writes was decided on an old row.
THEOREM SourcesAreKept ==
  Spec => []SourceStays
<1>1. IInv => SourceStays
  BY DEF IInv
<1> QED BY <1>1, Invariance, PTL

\* However many customers open an invoice at once, one first view is recorded.
THEOREM FirstViewIsOne ==
  Spec => []FirstViewOnce
<1>1. IInv => FirstViewOnce
  BY DEF IInv, ViewInv, FirstViewOnce
<1> QED BY <1>1, Invariance, PTL

\* What a step may do to an invoice.
Settled(d) ==
  rows[d].status \in {"paid", "void"} =>
    rows'[d].status \in {"paid", "void"} \/ ~rows'[d].there \/ d \in stale'

Remains(d) ==
  Has(d, "invoice") =>
    Has(d, "invoice")' \/ d \in stale' \/ customers' # customers
    \/ (rows[d].link = "none" /\ rows[d].source = NoDoc /\ rows'[d].there)

\* One row is written, and the others stay.
LEMMA OneWritten ==
  ASSUME TypeOK, NEW d \in Docs, NEW p, rows' = [rows EXCEPT ![d] = p],
         rows[d].status \in {"paid", "void"} =>
           p.status \in {"paid", "void"} \/ ~p.there \/ d \in stale',
         Has(d, "invoice") =>
           \/ p.there /\ p.type = "invoice"
           \/ d \in stale'
           \/ rows[d].link = "none" /\ rows[d].source = NoDoc /\ p.there
  PROVE  \A e \in Docs : Settled(e) /\ Remains(e)
<1> SUFFICES ASSUME NEW e \in Docs
             PROVE  Settled(e) /\ Remains(e)
  OBVIOUS
<1>1. CASE e = d
  <2>1. rows'[e] = p
    BY <1>1 DEF TypeOK
  <2> QED BY <1>1, <2>1 DEF Settled, Remains, Has, There
<1>2. CASE e # d
  <2>1. rows'[e] = rows[e]
    BY <1>2 DEF TypeOK
  <2> QED BY <2>1 DEF Settled, Remains, Has, There
<1> QED BY <1>1, <1>2

\* An invoice that was settled stays so, and one that was issued stays.
LEMMA StepOfInvoices ==
  ASSUME IInv, [Next]_vars
  PROVE  \A d \in Docs : Settled(d) /\ Remains(d)
<1> USE DEF IInv
<1>1. CASE rows' = rows
  BY <1>1 DEF Settled, Remains, Has, There
<1>2. ASSUME NEW r \in Requests, Insert(r)
      PROVE  \A d \in Docs : Settled(d) /\ Remains(d)
  <2> DEFINE n == made + 1
             p == request[r].wanted
  <2>1. n \in Docs /\ ~(n <= made) /\ rows' = [rows EXCEPT ![n] = p]
    BY <1>2, DocumentsAssumption DEF Insert, TypeOK, Docs
  <2>2. RowInv(n) /\ ~rows[n].there
    BY <2>1 DEF TypeOK
  <2>3. rows[n].status = "open" /\ ~Has(n, "invoice")
    BY <2>2 DEF RowInv, NoRow, Has, There
  <2> HIDE DEF n, p
  <2> QED BY <2>1, <2>3, OneWritten
<1>3. ASSUME NEW r \in Requests, Flush(r)
      PROVE  \A d \in Docs : Settled(d) /\ Remains(d)
  <2>1. CASE rows' # rows
    <3>1. ASSUME NEW d, d = request[r].doc, NEW p, p = Written(d, request[r]), d \in There,
                 rows' = [rows EXCEPT ![d] = p], stale' = stale \cup Outdated(r),
                 request[r].pc = "writing"
          PROVE  \A e \in Docs : Settled(e) /\ Remains(e)
      <4>1. d \in Docs /\ p \in Row /\ p.there
        BY <3>1, Flushing
      <4>2. d \notin Outdated(r) =>
              /\ p.type # rows[d].type =>
                   /\ rows[d].link = "none" /\ rows[d].status = "open"
                   /\ rows[d].type # "quote" => rows[d].source = NoDoc
              /\ rows[d].type = "invoice" /\ rows[d].status \in {"paid", "void"} =>
                   p.status \in {"paid", "void"}
        BY <3>1, Flushing
      <4>3. d \notin stale' => d \notin stale /\ d \notin Outdated(r)
        BY <3>1
      <4>4. RowInv(d) /\ rows[d].type \in Types
        BY <4>1 DEF TypeOK, Row
      <4>5. rows[d].status \in {"paid", "void"} => p.status \in {"paid", "void"} \/ d \in stale'
        BY <4>2, <4>3, <4>4 DEF RowInv, QuoteStatuses, Types
      <4>6. Has(d, "invoice") =>
              \/ p.there /\ p.type = "invoice"
              \/ d \in stale'
              \/ rows[d].link = "none" /\ rows[d].source = NoDoc /\ p.there
        BY <4>1, <4>2, <4>3 DEF Has
      <4> QED BY <3>1, <4>1, <4>5, <4>6, OneWritten
    <3>2. LET d == request[r].doc
              p == Written(d, request[r])
          IN /\ d \in There
             /\ rows' = [rows EXCEPT ![d] = p] /\ stale' = stale \cup Outdated(r)
             /\ request[r].pc = "writing"
      BY <1>3, <2>1 DEF Flush, Written
    <3> QED BY <3>1, <3>2
  <2> QED BY <1>1, <2>1
<1>4. ASSUME NEW d \in Docs, NEW p, rows' = [rows EXCEPT ![d] = p],
             p.there = rows[d].there, p.type = rows[d].type,
             p.status = rows[d].status \/ rows[d].status \notin {"paid", "void"}
      PROVE  \A e \in Docs : Settled(e) /\ Remains(e)
  BY <1>4, OneWritten DEF Has, There
<1>5. \A d \in Docs : rows[d] \in Row
  BY DEF TypeOK
<1>6. ASSUME NEW r \in Requests, MarkViewed(r)
      PROVE  \A e \in Docs : Settled(e) /\ Remains(e)
  <2> DEFINE d == request[r].doc
             asked == [rows[d] EXCEPT !.status = "answered"]
             opened == [rows[d] EXCEPT !.viewed = TRUE]
  <2>1. \/ d \in There /\ rows[d].status = "shared" /\ rows' = [rows EXCEPT ![d] = asked]
        \/ d \in There /\ rows' = [rows EXCEPT ![d] = opened]
        \/ rows' = rows
    <3> DEFINE page == request[r].seen.row
    <3>1. CASE d \in There /\ page.type = "quote" /\ rows[d].type = "quote" /\ rows[d].status = "shared"
      BY <1>6, <3>1 DEF MarkViewed
    <3>2. CASE page.type = "invoice" /\ FirstView(d)
      BY <1>6, <3>2 DEF MarkViewed, FirstView, Has
    <3>3. CASE /\ ~(d \in There /\ page.type = "quote" /\ rows[d].type = "quote" /\ rows[d].status = "shared")
               /\ ~(page.type = "invoice" /\ FirstView(d))
      BY <1>6, <3>3 DEF MarkViewed
    <3> QED BY <3>1, <3>2, <3>3
  <2> HIDE DEF d
  <2>2. CASE d \in There /\ rows[d].status = "shared" /\ rows' = [rows EXCEPT ![d] = asked]
    <3>1. d \in Docs /\ asked.there = rows[d].there /\ asked.type = rows[d].type
      BY <1>5, <2>2 DEF Row, There
    <3> HIDE DEF asked
    <3> QED BY <1>4, <2>2, <3>1
  <2>3. CASE d \in There /\ rows' = [rows EXCEPT ![d] = opened]
    <3>1. d \in Docs /\ opened.there = rows[d].there /\ opened.type = rows[d].type
          /\ opened.status = rows[d].status
      BY <1>5, <2>3 DEF Row, There
    <3> HIDE DEF opened
    <3> QED BY <1>4, <2>3, <3>1
  <2> QED BY <1>1, <2>1, <2>2, <2>3
<1>7. ASSUME NEW d \in Docs, QuoteOutcome(d)
      PROVE  \A e \in Docs : Settled(e) /\ Remains(e)
  <2> DEFINE p == [rows[d] EXCEPT !.status = "answered"]
  <2>1. rows' = [rows EXCEPT ![d] = p] /\ rows[d].status \notin {"paid", "void"}
    BY <1>7 DEF QuoteOutcome, QuoteStatuses
  <2>2. p.there = rows[d].there /\ p.type = rows[d].type
    BY <1>5 DEF Row
  <2> HIDE DEF p
  <2> QED BY <1>4, <2>1, <2>2
<1>8. ASSUME NEW d \in Docs, Expire(d)
      PROVE  \A e \in Docs : Settled(e) /\ Remains(e)
  <2> DEFINE p == [rows[d] EXCEPT !.link = "dead"]
  <2>1. rows' = [rows EXCEPT ![d] = p]
    BY <1>8 DEF Expire
  <2>2. p.there = rows[d].there /\ p.type = rows[d].type /\ p.status = rows[d].status
    BY <1>5 DEF Row
  <2> HIDE DEF p
  <2> QED BY <1>4, <2>1, <2>2
<1>9. ASSUME NEW r \in Requests, NEW d \in Docs, BulkArchive(r, d)
      PROVE  \A e \in Docs : Settled(e) /\ Remains(e)
  <2> DEFINE p == [rows[d] EXCEPT !.archived = (request[r].bulk = "archive")]
  <2>1. rows' = rows \/ rows' = [rows EXCEPT ![d] = p]
    BY <1>9 DEF BulkArchive
  <2>2. p.there = rows[d].there /\ p.type = rows[d].type /\ p.status = rows[d].status
    BY <1>5 DEF Row
  <2> HIDE DEF p
  <2> QED BY <1>1, <1>4, <2>1, <2>2
<1>10. ASSUME NEW r \in Requests, DeleteCommit(r)
       PROVE  \A e \in Docs : Settled(e) /\ Remains(e)
  <2> DEFINE d == request[r].doc
  <2>1. \/ rows' = rows
        \/ /\ rows' = [rows EXCEPT ![d] = NoRow]
           /\ stale' = IF d \in There THEN stale \cup Outdated(r) ELSE stale
    BY <1>10 DEF DeleteCommit
  <2>2. d \in Docs /\ request[r].seen.row.type = "quote"
    BY <1>10, Standing DEF DeleteCommit, Fits, Decided, Request
  <2>3. Has(d, "invoice") => d \in Outdated(r)
    <3>1. d \notin Outdated(r) => rows[d].type = "quote"
      BY <2>2, NotOutdated
    <3> QED BY <3>1 DEF Has
  <2>4. CASE /\ rows' = [rows EXCEPT ![d] = NoRow]
             /\ stale' = IF d \in There THEN stale \cup Outdated(r) ELSE stale
    <3>1. Has(d, "invoice") => d \in stale'
      BY <2>3, <2>4 DEF Has
    <3>2. ~NoRow.there
      BY DEF NoRow
    <3> HIDE DEF d
    <3> QED BY <2>2, <2>4, <3>1, <3>2, OneWritten
  <2> QED BY <1>1, <2>1, <2>4
<1>11. ASSUME NEW c \in Customers, DeleteCustomer(c)
       PROVE  \A e \in Docs : Settled(e) /\ Remains(e)
  <2>1. customers' # customers
    BY <1>11 DEF DeleteCustomer
  <2>2. \A e \in Docs : rows'[e] = rows[e] \/ rows'[e] = NoRow
    BY <1>11 DEF DeleteCustomer
  <2> QED BY <2>1, <2>2 DEF Settled, Remains, NoRow
<1>12. ASSUME NEW r \in Requests, Begin(r)
       PROVE  rows' = rows
  BY <1>12 DEF Begin, CreateQuote, CreateInvoice, BulkAction, Duplicate, Convert, Retype, Assign,
               ShareQuote, ShareInvoice, Revoke, PayOrVoid, View, DeleteQuote, table
<1>13. ASSUME NEW r \in Requests,
              \/ TakeNumber(r) \/ InsertCollides(r) \/ InsertFails(r) \/ BulkEnds(r)
              \/ \E d \in Docs : BulkDelete(r, d)
       PROVE  rows' = rows
  BY <1>13 DEF TakeNumber, InsertCollides, InsertFails, BulkEnds, BulkDelete, table
<1>14. CASE UNCHANGED vars
  BY <1>1, <1>14 DEF vars
<1> HIDE DEF IInv
<1>15. ASSUME NEW r \in Requests, Proceed(r)
       PROVE  \A d \in Docs : Settled(d) /\ Remains(d)
  BY <1>1, <1>2, <1>3, <1>6, <1>9, <1>10, <1>13, <1>15 DEF Proceed
<1> QED BY <1>1, <1>7, <1>8, <1>11, <1>12, <1>14, <1>15 DEF Next

\* An invoice that was paid or voided is not opened again, and an invoice that was
\* issued leaves the table only with its customer, unless the write that does it was
\* decided on an old row.
THEOREM InvoicesAreKept ==
  Spec => InvoicesStay
<1>1. IInv /\ [Next]_vars =>
        [\A d \in Docs :
           rows[d].status \in {"paid", "void"} =>
             rows'[d].status \in {"paid", "void"} \/ ~rows'[d].there \/ d \in stale']_vars
  BY StepOfInvoices DEF Settled
<1>2. IInv /\ [Next]_vars =>
        [\A d \in Docs :
           Has(d, "invoice") => Has(d, "invoice")' \/ d \in stale' \/ customers' # customers
                                \/ (rows[d].link = "none" /\ rows[d].source = NoDoc /\ rows'[d].there)]_vars
  BY StepOfInvoices DEF Remains
<1>3. Spec => PaidStays
  BY <1>1, Invariance, PTL DEF Spec, PaidStays
<1>4. Spec => InvoicesRemain
  BY <1>2, Invariance, PTL DEF Spec, InvoicesRemain
<1> QED BY <1>3, <1>4 DEF InvoicesStay
===============================================================================
