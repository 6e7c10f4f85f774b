----------------------------- MODULE MCMonitoring -----------------------------
(***************************************************************************)
(* An instance of Monitoring for TLC: a page under two spellings and       *)
(* its plain http address, which is refused, and another page of the same  *)
(* site, which differs in its query only: all compete for the same ids.    *)
(***************************************************************************)
EXTENDS Monitoring

MCIds == {"shop", "shop-2", "shop-3"}
MCUrls == {"shop/", "shop", "shop?page=2", "http:shop"}
MCShapeOf == [url \in MCUrls |-> [scheme |-> IF url = "http:shop" THEN "http" ELSE "https",
                                  credentials |-> FALSE, host |-> "public"]]
MCPageOf == [url \in MCUrls |-> IF url = "shop/" THEN "shop" ELSE url]
MCCandidateIds == [url \in MCUrls |-> <<"shop", "shop-2", "shop-3">>]

\* Nothing is committed, or one of the ids is.
Committed(id, url) == [other \in MCIds |-> IF other = id THEN url ELSE NoUrl]
MCSeedFiles == {[id \in MCIds |-> NoUrl], Committed("shop", "shop")}
=============================================================================
