------------------------------ MODULE MCOrderPath ------------------------------
(* Instances of OrderPath for TLC: request sets, fault sets and symmetry.  *)
EXTENDS OrderPath, TLC

Request(side, offset, kind) == [side |-> side, offset |-> offset, kind |-> kind]

AllRequests == {Request(s, "OPEN", k) : s \in Sides, k \in Kinds}
                 \cup {Request(s, "CLOSE", "MARKET") : s \in Sides}

\* Long only, market and limit; longs and shorts, market orders only.
LongRequests   == {r \in AllRequests : (r.offset = "OPEN") = (r.side = "BUY")}
MarketRequests == {r \in AllRequests : r.kind = "MARKET"}
OpenRequests   == {r \in AllRequests : r.offset = "OPEN"}
LongMarket     == LongRequests \cap MarketRequests

TagSymmetry == Permutations(Tags)
===============================================================================
