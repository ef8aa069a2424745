--------------------------- MODULE MCMarketplaces ---------------------------
(* Instances of Marketplaces for TLC: every route, and one or two targets      *)
(* for a message of the worker.                                                *)
EXTENDS Marketplaces

CONSTANTS j1

AllRoutes ==
    [kind : {"sync"}, targets : {{"AMAZON"}, {"EBAY", "WALMART"}}]
    \cup [kind : {"bulk"}, targets : {Markets}]
    \cup [kind : {"shipping"}, targets : {{s} : s \in Supplies}]

=============================================================================
