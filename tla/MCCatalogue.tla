----------------------------- MODULE MCCatalogue -----------------------------
(***************************************************************************)
(* The values the instances of the pipeline share: a catalogue page whose  *)
(* rows have an identity and a price, and what a collector may return of it*)
(***************************************************************************)
EXTENDS TLC, Sequences

CONSTANTS t1, t2, s1, s2, c1, c2

MCFields == {"sku", "price", "input"}
MCVendorFields == {"input"}
MCIdentityRank == [sku |-> 1, price |-> 2, input |-> 3]

Text(text) == [type |-> "string", text |-> text, key |-> text, empty |-> FALSE]
Number(text) == [type |-> "number", text |-> text, key |-> text, empty |-> FALSE]
Null == [type |-> "none", text |-> "", key |-> "", empty |-> TRUE]
MCValues == {Text("a"), Text("b"), Text("c"), Text("x"), Number("1"), Number("2"), Null}

Item(sku, price) == [sku |-> Text(sku), price |-> Number(price)]
Unpriced(sku) == [sku |-> Text(sku), price |-> Null]

\* The catalogue, with a price moved, with most rows gone, with every row replaced, and with the
\* prices no longer extracted.
Full == <<Item("a", "1"), Item("b", "1"), Item("c", "1")>>
Repriced == <<Item("a", "2"), Item("b", "1"), Item("c", "1")>>
One == <<Item("a", "1")>>
Elsewhere == <<Item("x", "1"), Item("b", "2")>>
Priceless == <<Unpriced("a"), Unpriced("b"), Unpriced("c")>>

Returned(kinds, rows) == [status |-> "succeeded", retryable |-> FALSE,
                          extractionErrors |-> kinds, records |-> rows]
Broke(status, retryable) == [status |-> status, retryable |-> retryable,
                             extractionErrors |-> {}, records |-> <<>>]

\* One result of every class classifyRun distinguishes.
EveryResult ==
    {Returned({}, Full), Returned({}, Repriced), Returned({}, One), Returned({}, Elsewhere),
     Returned({}, Priceless), Returned({}, <<>>),
     Returned({"selector_timeout"}, <<>>), Returned({"selector_timeout"}, One),
     Returned({"proxy_error"}, One), Returned({"unreachable_page"}, <<>>),
     Returned({"unknown"}, One),
     Broke("failed", FALSE), Broke("timed_out", TRUE)}

\* Enough for two runs to disturb each other: publish, shrink, break, fail.
FewResults ==
    {Returned({}, Full), Returned({}, One), Returned({"selector_timeout"}, <<>>),
     Broke("timed_out", TRUE)}

\* Enough for every path of a run to its end.
LiveResults == {Returned({}, One), Returned({"selector_timeout"}, <<>>)}

MCPreviews == {Full, Priceless}
OnePreview == {One}

EveryOpinion ==
    [classification : {"structural_break", "ambiguous", "healthy"}, confidence : {20, 90}]
NoOpinions == {}

SharedCollector == (t1 :> c1) @@ (t2 :> c1)
OneTarget == t1 :> c1
=============================================================================
