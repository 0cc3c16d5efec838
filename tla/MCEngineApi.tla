---------------------------- MODULE MCEngineApi ----------------------------
(* A payload on genesis, and one with the same transaction on the first    *)
(* local block, with an invalid child; the local block may hold that       *)
(* transaction already, and its child is then invalid with a descendant.   *)
EXTENDS EngineApi, TLC

CONSTANTS genesis, a1, b2, x3, m1, m2, t, u

MCParent == a1 :> genesis @@ b2 :> m1 @@ x3 :> b2
MCTxs == [b \in Payload |-> IF b = x3 THEN {} ELSE {t}]

(* The first snapshot is of genesis, the second of a block on it or less.  *)
MCMaxSnapshotHead == <<0, 1>>

(* Two local blocks and a snapshot, or one and two: the second snapshot is *)
(* of the state manager that a reorganisation brought after the first.     *)
(* One of the safe and the finalized hash is set at a time.  They and the  *)
(* replay cache are left out where the history is as long as it may get,   *)
(* for chain, state and pool do not depend on them.                        *)
Length == Cardinality(DOMAIN mined) + (nextSnapshot - 1)
Bounded ==
  /\ Length <= 3
  /\ None \in {safe, finalized}
  /\ Length = 3 => replayCache = None /\ {safe, finalized} = {None}
=============================================================================
