---------------------------- MODULE MCDraftContent ----------------------------
(* Every transcript of up to four words of a small vocabulary and a few longer  *)
(* ones with one set of line items, every combination of a few pricing hints    *)
(* with one transcript, and edits of the documents that come of them.           *)
EXTENDS EditHistory, TLC

CONSTANTS edit1, edit2

MCSymmetry == Permutations(Calls)

Vocabulary == {"two", "fifty", "twenty", "hundred", "dollars", "about"}

Transcripts ==
  UNION {[1 .. n -> Vocabulary] : n \in 1 .. 4}
  \cup {<<"meet", "at", "two", "thirty">>,
        <<"mulch", "is", "two", "thirty", "five">>,
        <<"eleven", "hundred", "twenty", "two", "dollars">>,
        <<"twenty", "two", "hundred", "fifty", "dollars">>,
        <<"two", "fifty", "bucks", "per", "yard">>,
        <<"one", "hundred", "ten", "main", "street">>,
        <<"two", "fifty", "and", "two", "fifty", "total">>,
        <<"two", "forty", "for", "gravel">>}

Mulch == Text(<<"mulch">>)
MulchSpoken == Text(<<"mulch", "two", "fifty">>)
Edging == [words |-> <<"edging", "$15">>, prices |-> <<15000>>, marker |-> TRUE]
Note == Text(<<"leave", "gate", "open">>)
Blank == Text(<<>>)

Item(desc, details, price) ==
  [desc |-> desc, details |-> details, price |-> price, flagged |-> FALSE,
   flag_reason |-> Null]

Hinted(total, deposit, tax, type, value) ==
  [explicit_total |-> total, deposit_amount |-> deposit, tax_rate |-> tax,
   discount_type |-> type, discount_value |-> value]
NoHints == Hinted(Null, Null, Null, Null, Null)

Answer(items, notes, hints, unresolved) ==
  [valid |-> TRUE, line_items |-> items, notes_candidate |-> notes,
   pricing_candidates |-> hints, unresolved_items |-> unresolved]
Invalid == [valid |-> FALSE]

Capture(words, long, answers) == [words |-> words, long |-> long, answers |-> answers]

\* Prices that may be misread: 2.50 and 2.00 dollars
SpokenItems ==
  {<<Item(Mulch, Null, 2500), Item(Edging, Null, 2000), Item(Mulch, Null, 2500)>>,
   <<Item(MulchSpoken, Note, 2500), [Item(Edging, Edging, 2500) EXCEPT !.flagged = TRUE]>>}

SpokenCaptures ==
  {Capture(words, FALSE, <<Answer(items, Null, NoHints, {}), Invalid>>) :
     words \in Transcripts, items \in SpokenItems}

HintCaptures ==
  {Capture(<<"mulch">>, (items = <<>>),
           <<Answer(items, Note, Hinted(total, extra[1], extra[2], discount[1], discount[2]), {}),
             Invalid>>) :
     items \in {<<>>, <<Item(Mulch, Null, Null)>>,
                <<Item(Mulch, Null, 10004), Item(Edging, Null, 5)>>},
     total \in {Null, 1001},
     extra \in {<<Null, Null>>, <<500, 8>>, <<2500, Null>>, <<Null, 200>>},
     discount \in {<<Null, Null>>, <<"percent", 12>>, <<"fixed", Null>>}}

Unplaced(text) == [text |-> text, reason |-> "unplaced_content"]
Conflict(text) == [text |-> text, reason |-> "possible_conflict"]

\* Repairs, blank texts, older layouts, notes that repeat something
OddCaptures ==
  LET good == Answer(<<Item(Mulch, Null, 10000)>>, Note, NoHints, {Conflict(Edging), Unplaced(Mulch)})
      blank == Answer(<<>>, Blank, NoHints, {Unplaced(Blank)})
      legacy == [valid |-> TRUE, total |-> 2500, customer_notes_suggestion |-> Note,
                 pricing_hints |-> [deposit_amount |-> 100],
                 unresolved_segments |-> {[text |-> Blank, source |-> "unknown"],
                                          [text |-> Edging, source |-> "typed_conflict"]}]
      conflicting(total) == Answer(<<Item(Mulch, Null, 10000)>>, Note,
                                   Hinted(total, Null, 8, Null, Null), {})
      noted(note) == Answer(<<Item(MulchSpoken, Note, 10000)>>, note, NoHints, {Conflict(Edging)})
  IN  {Capture(<<"mulch">>, long, answers) :
         long \in BOOLEAN,
         answers \in {<<Invalid, good>>, <<Invalid, Invalid>>, <<blank, good>>,
                      <<Invalid, blank>>, <<legacy, good>>,
                      <<[legacy EXCEPT !.pricing_hints = [explicit_total |-> 1001]], good>>}
                     \cup {<<conflicting(total), Invalid>> : total \in {1001, 1002, 5000}}
                     \cup {<<noted(note), good>> :
                             note \in {Note, Blank, Text(<<"please", "confirm", "colour">>),
                                       Text(<<"price", "later">>), Text(<<"of", "the">>)}}}

MCCaptures == SpokenCaptures \cup HintCaptures \cup OddCaptures

Priced(price) == [price |-> price, flagged |-> FALSE, flag_reason |-> Null]

MCRequests ==
  {[line_items |-> <<Priced(10 * pricing[1])>>, discount_type |-> pricing[2],
    discount_value |-> pricing[3], tax_rate |-> pricing[4], deposit_amount |-> deposit] :
     pricing \in {<<961, "percent", 33, 90>>, <<1004, "fixed", 700, 13>>},
     deposit \in {Null, 300}}

MCPatches ==
  {[tax_rate |-> 8],
   [deposit_amount |-> 500],
   [discount_value |-> 0],
   [discount_value |-> 5, tax_rate |-> 0],
   [discount_type |-> "percent", discount_value |-> 50],
   [discount_type |-> "fixed", discount_value |-> 5],
   [total_amount |-> 1500],
   [line_items |-> <<Priced(7505), Priced(Null), Priced(25)>>],
   [line_items |-> <<>>]}
===============================================================================
