------------------------------ MODULE MCCommand ------------------------------
(***************************************************************************)
(* An instance of BrightDataCommand for TLC: a row with data, the row it   *)
(* is when a character of it is cut in two, a row with vendor fields only, *)
(* an element that is no row, and errors of every kind.                    *)
(***************************************************************************)
EXTENDS BrightDataCommand

MCFields == {"sku", "input"}
MCVendorFields == {"input"}
MCIdentityRank == [sku |-> 1, input |-> 2]
a == [type |-> "string", text |-> "a", key |-> "a", empty |-> FALSE]
b == [type |-> "string", text |-> "b", key |-> "b", empty |-> FALSE]
MCValues == {a, b}

Error(markers, code) == [markers |-> markers, code |-> code]

MCRawRows ==
    {[sku |-> a], [sku |-> b], [input |-> a], NonRow,
     Error({"selector"}, "other"), Error({"selector", "unreachable"}, "other"),
     Error({"selector", "proxy"}, "other"), Error({"selector"}, "dead_page"),
     Error({}, "other")}

MCMisdecoded == [row \in MCRawRows |-> IF row = [sku |-> a] THEN {[sku |-> b]} ELSE {}]
=============================================================================
