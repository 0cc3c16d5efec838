------------------------------ MODULE PoolSpec ------------------------------
(***************************************************************************)
(* What the transaction pool promises its callers: a set of entries, at    *)
(* most one per (sender, nonce) slot, and a base nonce per sender.  How    *)
(* the entries are stored and walked is left to TxPool.                    *)
(***************************************************************************)
EXTENDS PoolOps

CONSTANT
  Offer         \* the entries callers submit, a subset of Entry

VARIABLES
  pool,         \* set of entries
  base          \* base nonce of each sender

vars == <<pool, base>>

Init ==
  /\ pool = {}
  /\ base = [s \in Sender |-> 0]

SetNonce(s, n) ==
  /\ base' = [base EXCEPT ![s] = n]
  /\ UNCHANGED pool

Add(e) ==
  /\ ~Underpriced(pool, e)
  /\ pool' = Added(pool, e)
  /\ UNCHANGED base

Remove(e) ==
  /\ pool' = pool \ {e}
  /\ UNCHANGED base

RemoveMined(hashes) ==
  /\ pool' = Removed(pool, hashes)
  /\ base' = BaseAfterMined(pool, base, hashes)

Clear ==
  /\ pool' = {}
  /\ base' = [s \in Sender |-> 0]

Next ==
  \/ \E s \in Sender, n \in Nonce : SetNonce(s, n)
  \/ \E e \in Offer : Add(e)
  \/ \E e \in pool : Remove(e)
  \/ \E hashes \in SUBSET {Hash(e.tx) : e \in pool} : RemoveMined(hashes)
  \/ Clear

Spec == Init /\ [][Next]_vars
=============================================================================
