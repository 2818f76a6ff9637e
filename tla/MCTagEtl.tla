------------------------------ MODULE MCTagEtl ------------------------------
(* Values of TagEtl's constants for TLC.  Keys ka and kb are in the        *)
(* catalogue, kx is not.  One stable row matches, the other is missed.     *)
(* Variable rows v1, v2, v3 carry tag 1: two match different songs, v2 is  *)
(* missed; v4 has no singer and is alone with tag 2, so that with a        *)
(* threshold of 2 no flush is due while it is in the table.                *)
EXTENDS TagEtl

MCStableRows == {"s1", "s2"}
MCOneStableRow == {"s1"}
MCVarRows == {"v1", "v2", "v3", "v4"}
MCFewVarRows == {"v1", "v2", "v3"}
MCKey ==
  [r \in Rows |->
    CASE r \in {"s1", "v3"} -> "ka" [] r = "v1" -> "kb"
      [] r \in {"s2", "v2"} -> "kx" [] OTHER -> "none"]
MCTag ==
  [r \in Rows |->
    IF r \in StableRows THEN 7 ELSE IF r = "v4" THEN 2 ELSE 1]
MCKeys == {"ka", "kb", "kx"}
MCCatalogue == [ka |-> 100, kb |-> 200]
MCTags == {1, 2, 7}
MCSids == {100, 200}
=============================================================================
