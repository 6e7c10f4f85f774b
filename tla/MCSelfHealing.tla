---------------------------- MODULE MCSelfHealing ----------------------------
(***************************************************************************)
(* The closed loop for TLC: the catalogue before and after its prices      *)
(* moved, scrapers for both markups, one that misses the prices and one    *)
(* that reads the wrong elements.                                          *)
(***************************************************************************)
EXTENDS SelfHealing, MCCatalogue

MCMisreadRows == ("partial" :> Priceless) @@ ("wrong" :> Elsewhere)
OnlyPartial == "partial" :> Priceless

MCDrafts == {"original", "restructured"} \cup DOMAIN MisreadRows

Scrapes ==
    {Returned({}, rows) : rows \in {Full, Repriced, Priceless, Elsewhere}}
    \cup {Returned({"selector_timeout"}, <<>>), Returned({"unreachable_page"}, <<>>)}

Shown == {Full, Repriced, Priceless, Elsewhere}
=============================================================================
