---------------------------- MODULE MCEtlOverlap ----------------------------
(* Values of EtlOverlap's constants for TLC: one stable row and two        *)
(* variable rows of one tag, each of which matches; with threshold 1 a     *)
(* flush is due over either or both.                                       *)
EXTENDS EtlOverlap

MCStableRows == {"s1"}
MCVarRows == {"v1", "v2"}
MCKey == [r \in MCStableRows \cup MCVarRows |-> IF r = "v1" THEN "kb" ELSE "ka"]
MCTag == [r \in MCStableRows \cup MCVarRows |-> IF r = "s1" THEN 7 ELSE 1]
MCKeys == {"ka", "kb"}
MCCatalogue == [ka |-> 100, kb |-> 200]
MCTags == {1, 7}
MCSids == {100, 200}
=============================================================================
