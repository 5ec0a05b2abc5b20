--------------------------- MODULE MCQuoteWorkflow ---------------------------
(***************************************************************************)
(* A quote and two more messages about it, of every kind that matters,      *)
(* handled by two workers.  The quote is asked for in free text, with two    *)
(* amounts and one count; a correction is in the structured format.          *)
(***************************************************************************)
EXTENDS QuoteWorkflow, TLC

CONSTANTS m1, m2, m3, w1, w2

MCMessages == {m1, m2, m3}
MCTexts == [m \in MCMessages |->
              CASE m = m1 -> {"quote"}
                [] m = m2 -> {"reject", "correct", "choice"}
                [] m = m3 -> {"approve"}]
MCWorkers == {w1, w2}

\* "2 air samples", written once in the first request.
Samples == "2 air samples"
Spans(n) == [s \in {Samples} |-> n]
Words(amounts, n) == Drafting!Line("words", FALSE, None, amounts, Spans(n), {})
Keyed(key, value, amounts) == Drafting!Line(key, TRUE, value, amounts, Spans(0), {})

MCWording == [m \in MCMessages |->
  CASE m = m1 -> <<Words({50, 100}, 1)>>
    [] m = m2 -> <<Keyed("customer", "person", {}), Keyed("currency", "USD", {}),
                   Keyed("item", [quantity |-> 1, price |-> 70], {70})>>
    [] OTHER -> <<>>]

Item(quantity, price, source) ==
  [quantity |-> quantity, price |-> price, source |-> source, fits |-> TRUE]

\* Nothing, a draft that stands, an invented price, and a count used twice.
MCReadings == {
  <<>>,
  <<Item(0, 100, Drafting!Nothing), Item(2, 50, Samples)>>,
  <<Item(1, 70, Drafting!Nothing)>>,
  <<Item(2, 50, Samples), Item(2, 100, Samples)>>}

MCSymmetry == Permutations(MCWorkers)
=============================================================================
