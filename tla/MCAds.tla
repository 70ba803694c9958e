--------------------------------- MODULE MCAds ---------------------------------
(* Small instances of AdBilling: one CPM and one CPC campaign, or one of them. *)
EXTENDS AdBilling, TLC

CONSTANTS i1, i2, h1, h2, m, k

BidTypes == [c \in Campaigns |-> IF c = m THEN "cpm" ELSE "cpc"]

\* A CPM charge takes all of the funds, and so do two clicks; the CPM budget is good
\* for one impression, the CPC budget for two clicks.
Bids    == [c \in Campaigns |-> IF c = m THEN 2 ELSE 1]
Tight   == [c \in Campaigns |-> IF c = m THEN 1 ELSE 2]
TwoBids == [c \in Campaigns |-> 2]

\* Impressions differ only by name, and so do requests.
Interchangeable == Permutations(Impressions) \cup Permutations(Handlers)
===============================================================================
