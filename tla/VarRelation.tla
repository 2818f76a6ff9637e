---------------------------- MODULE VarRelation ----------------------------
(***************************************************************************)
(* What the library promises of its variable relation, without saying how  *)
(* runs, statements and crashes bring it about.  Rows wait in the web      *)
(* library.  A flush takes a batch of them, puts the pairs they make in    *)
(* the place of the whole relation, and only then are waiting rows         *)
(* discarded.  A flush may stop anywhere; another may begin at any time.   *)
(***************************************************************************)
CONSTANTS Rows,
          Pair      \* the pair a row makes; rows outside its domain make none

VARIABLES waiting,  \* rows not yet discarded
          relation, archive,
          batch,    \* the rows the relation is made from, until discarded
          left,     \* rows of batch whose pair has not been tried
          partial   \* the relation is not completed yet

vars == <<waiting, relation, archive, batch, left, partial>>

Makers(rows) == rows \cap DOMAIN Pair

Init ==
  /\ waiting = {} /\ relation = {} /\ archive = {}
  /\ batch = {} /\ left = {} /\ partial = FALSE

Collect ==
  /\ \E r \in Rows \ waiting : waiting' = waiting \cup {r}
  /\ UNCHANGED <<relation, archive, batch, left, partial>>

Archive ==
  /\ archive' = archive \cup relation
  /\ UNCHANGED <<waiting, relation, batch, left, partial>>

(* Nothing is replaced that is not in the archive.                         *)
Begin ==
  /\ relation \subseteq archive /\ relation' = {}
  /\ batch' \in SUBSET waiting /\ left' = Makers(batch')
  /\ partial' = TRUE
  /\ UNCHANGED <<waiting, archive>>

(* A pair may be refused; it is tried once.                                *)
Store ==
  /\ partial
  /\ \E r \in left :
       /\ left' = left \ {r}
       /\ relation' \in {relation, relation \cup {Pair[r]}}
  /\ UNCHANGED <<waiting, archive, batch, partial>>

Complete ==
  /\ partial /\ left = {}
  /\ partial' = FALSE
  /\ UNCHANGED <<waiting, relation, archive, batch, left>>

(* Rows go only after a batch that made some pair was stored, and once for *)
(* a batch.                                                                *)
Discard ==
  /\ ~partial /\ batch \subseteq waiting /\ Makers(batch) # {}
  /\ waiting' = {} /\ batch' = {}
  /\ UNCHANGED <<relation, archive, left, partial>>

Next == Collect \/ Archive \/ Begin \/ Store \/ Complete \/ Discard

Spec == Init /\ [][Next]_vars
=============================================================================
