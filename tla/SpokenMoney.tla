------------------------------ MODULE SpokenMoney ------------------------------
(***************************************************************************)
(* The amounts of money spoken in a transcript ("two fifty", "eleven       *)
(* hundred twenty"), as integrations/extraction.py hears them: a phrase is *)
(* read greedily from every word on, then dropped when the words around it *)
(* say that it is no money, or when nothing says that it is.               *)
(*                                                                         *)
(* A transcript is the sequence of its words in lower case.  The tables of *)
(* words around a phrase that speak for or against it are the source's.    *)
(***************************************************************************)
EXTENDS Integers, Sequences, SequencesExt, FiniteSets

Ones == [one |-> 1, two |-> 2, three |-> 3, four |-> 4, five |-> 5, six |-> 6,
         seven |-> 7, eight |-> 8, nine |-> 9]
Teens == [ten |-> 10, eleven |-> 11, twelve |-> 12, thirteen |-> 13, fourteen |-> 14,
          fifteen |-> 15, sixteen |-> 16, seventeen |-> 17, eighteen |-> 18,
          nineteen |-> 19]
Tens == [twenty |-> 20, thirty |-> 30, forty |-> 40, fifty |-> 50, sixty |-> 60,
         seventy |-> 70, eighty |-> 80, ninety |-> 90]

StreetWords == {"street", "st", "avenue", "ave", "road", "rd"}
TimeWords == {"am", "pm", "o'clock", "morning", "afternoon"}

AdjacencySkip ==
  StreetWords \cup TimeWords \cup
  {"pound", "pounds", "gallon", "gallons", "foot", "feet", "inch", "inches", "percent",
   "bags", "drums"}
TimeVerbs ==
  {"arrive", "arrived", "arriving", "meet", "meets", "meeting", "met", "call", "calls",
   "called"}
ContextPrepositions == {"is", "for", "at"}
ContextKeywords ==
  {"price", "priced", "cost", "costs", "charge", "charges", "total", "dollar", "dollars",
   "buck", "bucks", "quote", "quoted", "amount"}
NonContextTens == {"thirty", "forty"}

-------------------------------------------------------------------------------
(* Reading one phrase.  A reading ends before its "next" word. *)

Unread == [amount |-> 0, next |-> 0, extreme |-> FALSE]

\* The word at i, or a word that is in no table
At(words, i) == IF i \in DOMAIN words THEN words[i] ELSE ""

UnderHundred(words, i) ==
  LET first == At(words, i)
      second == At(words, i + 1)
  IN  CASE first \in DOMAIN Teens -> [amount |-> Teens[first], next |-> i + 1]
        [] first \in DOMAIN Tens /\ second \in DOMAIN Ones ->
             [amount |-> Tens[first] + Ones[second], next |-> i + 2]
        [] first \in DOMAIN Tens /\ second \notin DOMAIN Ones ->
             [amount |-> Tens[first], next |-> i + 1]
        [] first \in DOMAIN Ones -> [amount |-> Ones[first], next |-> i + 1]
        [] OTHER -> [amount |-> 0, next |-> i]

\* Mutant: the reading stops after the tens.
ShortReadingOfTwo(words, i) ==
  [amount |-> 100 * Ones[words[i]] + Tens[words[i + 1]],
   next |-> i + 2,
   extreme |-> words[i + 1] \notin NonContextTens]

\* "two fifty", "two fifty five"
ShortReading(words, i) ==
  LET hundreds == 100 * Ones[words[i]] + Tens[words[i + 1]]
      third == At(words, i + 2)
      more == third \in DOMAIN Ones
  IN  [amount |-> hundreds + (IF more THEN Ones[third] ELSE 0),
       next |-> IF more THEN i + 3 ELSE i + 2,
       extreme |-> words[i + 1] \notin NonContextTens]

\* "eleven hundred", "two hundred twenty five"
HundredReading(words, i) ==
  LET prefix == UnderHundred(words, i)
      rest == UnderHundred(words, prefix.next + 1)
  IN  IF prefix.amount = 0 \/ At(words, prefix.next) # "hundred"
        THEN Unread
        ELSE [amount |-> 100 * prefix.amount + rest.amount,
              next |-> rest.next,
              extreme |-> TRUE]

ReadPhrase(words, i) ==
  IF words[i] \in DOMAIN Ones /\ At(words, i + 1) \in DOMAIN Tens
    THEN ShortReading(words, i)
    ELSE HundredReading(words, i)

-------------------------------------------------------------------------------
(* What the words around a phrase say of it *)

NextToNoMoney(words, start, next) ==
  \/ {At(words, start - 1), At(words, next)} \cap AdjacencySkip # {}
  \/ At(words, next) = "bucks" /\ At(words, next + 1) = "per"
  \/ At(words, next + 1) \in StreetWords

LooksLikeTime(words, start, next) ==
  \/ At(words, start - 1) \in {"around", "about"}
  \/ At(words, next) \in TimeWords
  \/ At(words, start - 1) = "at" /\ At(words, start - 2) \in TimeVerbs

HasMoneyContext(words, start, next) ==
  \/ At(words, start - 1) \in ContextPrepositions
  \/ At(words, next) \in {"total", "dollars", "bucks"}
  \/ \E i \in (start - 3) .. (next + 2) : At(words, i) \in ContextKeywords

\* The hint at one word; its amount is 0 when there is none
HintAt(words, i) ==
  LET read == ReadPhrase(words, i)
      heard == /\ read.amount > 0
               /\ ~NextToNoMoney(words, i, read.next)
               /\ ~LooksLikeTime(words, i, read.next)
               /\ read.extreme \/ HasMoneyContext(words, i, read.next)
  IN  [amount |-> IF heard THEN read.amount ELSE 0, start |-> i, next |-> read.next]

\* Two hints may share words.
SpokenHints(words) ==
  {hint \in {HintAt(words, i) : i \in DOMAIN words} : hint.amount > 0}

PhraseOf(words, hint) == SubSeq(words, hint.start, hint.next - 1)

-------------------------------------------------------------------------------
(* What the phrases should mean, said without a reader: every way to say an *)
(* amount in the words of a transcript, and the amount.                     *)

SaysUnderHundred(W) ==
  {[says |-> <<w>>, amount |-> Ones[w]] : w \in W \cap DOMAIN Ones}
  \cup {[says |-> <<w>>, amount |-> Teens[w]] : w \in W \cap DOMAIN Teens}
  \cup {[says |-> <<w>>, amount |-> Tens[w]] : w \in W \cap DOMAIN Tens}
  \cup {[says |-> <<v, w>>, amount |-> Tens[v] + Ones[w]] :
          v \in W \cap DOMAIN Tens, w \in W \cap DOMAIN Ones}

SaysAmount(W) ==
  LET small == SaysUnderHundred(W)
      hundreds == IF "hundred" \in W THEN small ELSE {}
  IN  {[says |-> <<u>> \o v.says, amount |-> 100 * Ones[u] + v.amount] :
         u \in W \cap DOMAIN Ones, v \in {w \in small : w.says[1] \in DOMAIN Tens}}
      \cup {[says |-> Append(u.says, "hundred"), amount |-> 100 * u.amount] : u \in hundreds}
      \cup {[says |-> u.says \o <<"hundred">> \o v.says, amount |-> 100 * u.amount + v.amount] :
              u \in hundreds, v \in small}

\* Every hint is one of those phrases with its amount, and the longest from its
\* first word on.
HintsMeanWhatTheySay(words) ==
  LET said == SaysAmount(ToSet(words))
      phrases == {s.says : s \in said}
  IN  \A hint \in SpokenHints(words) :
        /\ [says |-> PhraseOf(words, hint), amount |-> hint.amount] \in said
        /\ \A last \in hint.next .. Len(words) :
             SubSeq(words, hint.start, last) \notin phrases

\* A phrase with "dollars" after it is heard, to its last word, unless the words
\* on its sides speak against it.
DollarsAreHeard(words) ==
  LET phrases == {s.says : s \in SaysAmount(ToSet(words))}
  IN  \A start, last \in DOMAIN words :
        /\ start <= last
        /\ At(words, last + 1) = "dollars"
        /\ At(words, start - 1) \notin AdjacencySkip \cup {"around", "about", "at"}
        /\ At(words, last + 2) \notin StreetWords
        /\ SubSeq(words, start, last) \in phrases
        => \E hint \in SpokenHints(words) : hint.start = start /\ hint.next = last + 1
===============================================================================
