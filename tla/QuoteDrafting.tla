---------------------------- MODULE QuoteDrafting ----------------------------
(***************************************************************************)
(* How a quote is drafted from the words of the owner: in the structured    *)
(* format of one "key: value" per line, or, when the words are not in that   *)
(* format, with the help of a model that reads items out of them.  A price   *)
(* is never the model's: it has to be an amount the owner wrote, and a       *)
(* quantity has to be written as the count of its item.                      *)
(*   infrastructure/quote_drafting.py, openai_quote_drafting.py              *)
(*                                                                           *)
(* What a line says is told apart by its key, by whether its value is well   *)
(* formed, and by the amounts, counts and billing intervals written in it.   *)
(***************************************************************************)
EXTENDS Naturals, Sequences, FiniteSets

\* No draft, no recipient or no interval.  Not a string of a request.
Nothing == "none"
Rejected == [items |-> <<>>, recipient |-> Nothing, interval |-> Nothing]

\* The keys of the structured format; "words" stands for a line with no key or
\* with another one.
Keys == {"customer", "for", "currency", "item", "note", "billing", "quote"}

\* A line of a request.  value is the e-mail of a customer line, the interval of a
\* billing line and the item of an item line; spans[s] is how often the words s
\* stand in the line, with their number standing alone.
Line(key, ok, value, amounts, spans, intervals) ==
  [key |-> key, ok |-> ok, value |-> value, amounts |-> amounts, spans |-> spans,
   intervals |-> intervals]

\* The numbers of the lines with a key, and the value of the last of them.
LinesOf(lines, key) == {i \in DOMAIN lines : lines[i].key = key}
SomeLine(lines, key) == LinesOf(lines, key) # {}
LastValue(lines, key, default) ==
  LET of == LinesOf(lines, key) IN
  IF of = {} THEN default ELSE lines[CHOOSE i \in of : \A j \in of : j <= i].value

\* is_structured_request: every line has one of the keys, well formed or not.
IsStructured(lines) == lines # <<>> /\ \A i \in DOMAIN lines : lines[i].key \in Keys

HasCustomerLine(lines) == SomeLine(lines, "customer")

-----------------------------------------------------------------------------
(***************************************************************************)
(* The structured format: DeterministicQuoteDrafter.                        *)
(***************************************************************************)

\* The last customer line names the customer, else the appointment does.
Recipient(lines, appointment) == LastValue(lines, "customer", appointment)

\* Every item line is an item, under the number of its line.
Items(lines) == [i \in LinesOf(lines, "item") |-> lines[i].value]

\* The last billing line decides.
Interval(lines) == LastValue(lines, "billing", Nothing)

Structured(lines, appointment) ==
  IF /\ \A i \in DOMAIN lines : lines[i].key \in Keys /\ lines[i].ok
     /\ Recipient(lines, appointment) # Nothing
     /\ SomeLine(lines, "currency")
     /\ SomeLine(lines, "item")
  THEN [items |-> Items(lines), recipient |-> Recipient(lines, appointment),
        interval |-> Interval(lines)]
  ELSE Rejected

-----------------------------------------------------------------------------
(***************************************************************************)
(* Free text: ModelAssistedQuoteDrafter.                                    *)
(***************************************************************************)

\* What the model is given: neither the customer's address nor the name filter.
Remainder(lines) ==
  [i \in {j \in DOMAIN lines : lines[j].key \notin {"customer", "for", "quote"}} |-> lines[i]]

Amounts(lines) == UNION {lines[i].amounts : i \in DOMAIN lines}

\* What the model answers with, made acceptable: a quantity is at least one.
Read(reading) ==
  [i \in DOMAIN reading |-> [reading[i] EXCEPT !.quantity = IF @ = 0 THEN 1 ELSE @]]

\* How often the words the model quotes for the quantity stand in the text as a
\* count of this item.
Occurrences(lines, item) ==
  IF item.source = Nothing \/ ~item.fits THEN 0
  ELSE Cardinality({at \in (DOMAIN lines) \X (1..3) : at[2] <= lines[at[1]].spans[item.source]})

\* The price the model gives is an amount of the text.
Priced(lines, item) == item.price \in Amounts(lines)

\* Items whose quantity takes up the same words as the one at i.
CountedOn(lines, items, i) ==
  {j \in DOMAIN items : /\ j < i /\ Priced(lines, items[j]) /\ items[j].quantity > 1
                        /\ items[j].source = items[i].source}

\* A count that is not written, or is used up by an earlier item.
Overcounted(lines, items, i) ==
  /\ items[i].quantity > 1
  /\ Cardinality(CountedOn(lines, items, i)) >= Occurrences(lines, items[i])

PricedItems(lines, items) ==
  IF /\ items # <<>>
     /\ \A i \in DOMAIN items : Priced(lines, items[i]) /\ ~Overcounted(lines, items, i)
  THEN [i \in DOMAIN items |-> [quantity |-> items[i].quantity, price |-> items[i].price]]
  ELSE <<>>

\* The interval is what the words say, and only one of them.
WrittenRecurrence(lines) == UNION {lines[i].intervals : i \in DOMAIN lines}

FreeText(lines, appointment, reading) ==
  LET text == Remainder(lines)
      items == PricedItems(text, Read(reading))
      intervals == WrittenRecurrence(text)
  IN
  IF /\ \A i \in DOMAIN lines : lines[i].key = "customer" => lines[i].ok
     /\ Recipient(lines, appointment) # Nothing
     /\ DOMAIN text # {} /\ items # <<>> /\ Cardinality(intervals) <= 1
  THEN [items |-> items, recipient |-> Recipient(lines, appointment),
        interval |-> IF intervals = {} THEN Nothing ELSE CHOOSE v \in intervals : TRUE]
  ELSE Rejected

\* A structured request with a mistake is not read as free text.  A reading of
\* nothing stands for a model that fails or whose monthly ceiling is reached.
DraftOf(lines, appointment, reading) ==
  LET structured == Structured(lines, appointment) IN
  IF structured # Rejected \/ IsStructured(lines)
  THEN structured
  ELSE FreeText(lines, appointment, reading)

-----------------------------------------------------------------------------
\* The price of a well-formed item line is written in that line.
PricesStandInTheirLines(lines) ==
  \A i \in LinesOf(lines, "item") : lines[i].ok => lines[i].value.price \in lines[i].amounts

\* Every price of a draft is an amount the owner wrote in that request.
PricesAreWritten(draft, lines) ==
  \A i \in DOMAIN draft.items : draft.items[i].price \in Amounts(lines)
=============================================================================
