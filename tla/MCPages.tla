------------------------------- MODULE MCPages -------------------------------
(***************************************************************************)
(* Instances of Pages for TLC: rows of a catalogue with an identity, a     *)
(* price and a field Bright Data adds.                                     *)
(***************************************************************************)
EXTENDS Pages, TLC

MCFields == {"sku", "price", "input"}
MCVendorFields == {"input"}
MCIdentityRank == [sku |-> 1, price |-> 2, input |-> 3]
MCKeyOrder == [keys \in SUBSET MCFields |->
                  SelectSeq(IF "input" \in keys THEN <<"price", "input", "sku">> ELSE <<"sku", "price">>,
                            LAMBDA key : key \in keys)]

Text(text, key) == [type |-> "string", text |-> text, key |-> key, empty |-> FALSE]
Number(text) == [type |-> "number", text |-> text, key |-> text, empty |-> FALSE]
Null == [type |-> "none", text |-> "", key |-> "", empty |-> TRUE]
MCValues == {Text(sku, sku) : sku \in {"a", "b", "c", "1"}}
            \cup {Text("A", "a"), Number("1"), Number("2"), Null}

Item(sku, price) == [sku |-> sku, price |-> price]
a == Text("a", "a")
b == Text("b", "b")
c == Text("c", "c")

\* Three items, one of them also with a vendor field, one also unpriced, one also differing in
\* case only, and a row that has lost its identity.
Catalogue ==
    {Item(a, Number("1")), Item(a, Number("1")) @@ [input |-> b], Item(b, Number("2")),
     Item(b, Null), Item(c, Number("1")), Item(Text("A", "a"), Number("1")), [price |-> Number("1")]}

\* The same with a price scraped as text, an empty row and a sku that is a number.
Irregular ==
    Catalogue \cup {Item(b, Text("1", "1")), Item(Number("1"), Number("1")), [input |-> a]}
=============================================================================
