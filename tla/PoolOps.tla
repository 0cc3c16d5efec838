------------------------------ MODULE PoolOps ------------------------------
(***************************************************************************)
(* The transaction pool of src/txpool.zig as a set of entries, without the *)
(* storage order: what may stand in a (sender, nonce) slot, when an entry  *)
(* is pending, what replacing, removing and mining do.  TxPool keeps the   *)
(* storage order and is shown to implement these operators; NodeRuntime    *)
(* uses them for the pool of the trusted runtime.                          *)
(*                                                                         *)
(* An envelope stands for the encoded transaction with its sender.  The    *)
(* signature of a signed envelope tells the sender, so its hash does; the  *)
(* unsigned envelope of an impersonated account has zero signature fields, *)
(* and its hash says nothing of the sender.  An entry is a stored          *)
(* PooledTransaction: the envelope and the priority fee it was stored      *)
(* with, which for eth_sendTransaction is 0 whatever the envelope says.    *)
(***************************************************************************)
EXTENDS Integers, FiniteSets

CONSTANTS
  Sender,       \* accounts that send transactions
  MaxNonce,     \* the largest nonce: stands for maxInt(u64)
  Fee,          \* fee amounts a transaction may offer
  NoFee,        \* the absent blob fee cap (Zig null)
  Nobody        \* the sender an unsigned envelope's hash shows

ASSUME PoolAssumption ==
  /\ MaxNonce \in Nat
  /\ Fee \subseteq Nat
  /\ 0 \in Fee
  /\ NoFee \notin Nat
  /\ Nobody \notin Sender

Nonce == 0..MaxNonce

(* A transaction: a blob transaction is one with a blob fee cap. *)
Envelope == [sender : Sender, nonce : Nonce, fee : Fee, tip : Fee,
             blobFee : Fee \cup {NoFee}, signed : BOOLEAN]

(* computeTxHash, taken to be free of collisions between different bytes. *)
Hash(tx) == [tx EXCEPT !.sender = IF tx.signed THEN @ ELSE Nobody]

(* PooledTransaction: the envelope and the stored priority fee. *)
Entry == [tx : Envelope, priority : Fee]

(* Mutants of SatSucc and BaseAfterMined: the base nonce is left at the    *)
(* mined nonce; it is not advanced at all.                                 *)
SameNonce(n) == n
BaseUnchanged(pool, base, hashes) == base

(* The saturating successor `+|` on nonces. *)
SatSucc(n) == IF n < MaxNonce THEN n + 1 ELSE n

(* The entries in the slot of sender s and nonce n. *)
Slot(pool, s, n) == {e \in pool : e.tx.sender = s /\ e.tx.nonce = n}

(* isPriceReplacement: every fee field strictly increases. *)
IsPriceReplacement(old, new) ==
  /\ new.tx.fee > old.tx.fee
  /\ new.priority > old.priority
  /\ old.tx.blobFee # NoFee =>
       /\ new.tx.blobFee # NoFee
       /\ new.tx.blobFee > old.tx.blobFee

(* add stores nothing new: the same hash already stands in the slot. *)
SameHashPresent(pool, e) ==
  \E old \in Slot(pool, e.tx.sender, e.tx.nonce) : Hash(old.tx) = Hash(e.tx)

(* add fails with ReplacementUnderpriced. *)
Underpriced(pool, e) ==
  \E old \in Slot(pool, e.tx.sender, e.tx.nonce) :
    Hash(old.tx) # Hash(e.tx) /\ ~IsPriceReplacement(old, e)

(* The pool after add, when it does not fail. *)
Added(pool, e) ==
  IF SameHashPresent(pool, e)
    THEN pool
    ELSE (pool \ Slot(pool, e.tx.sender, e.tx.nonce)) \cup {e}

(* What removeMined leaves. *)
Removed(pool, hashes) == {e \in pool : Hash(e.tx) \notin hashes}

(* removeMined advances the base nonce of a sender past its highest mined  *)
(* entry; it never lowers it.                                              *)
BaseAfterMined(pool, base, hashes) ==
  [s \in DOMAIN base |->
     LET mined == {SatSucc(e.tx.nonce) :
                     e \in {f \in pool : Hash(f.tx) \in hashes /\ f.tx.sender = s}}
     IN  CHOOSE n \in mined \cup {base[s]} :
           \A m \in mined \cup {base[s]} : m <= n]

(* isPending: every nonce from the base nonce to this one is in the pool. *)
IsPending(pool, base, s, n) ==
  /\ base[s] <= n
  /\ \A m \in base[s]..n : Slot(pool, s, m) # {}

Pending(pool, base) ==
  {e \in pool : IsPending(pool, base, e.tx.sender, e.tx.nonce)}

(* No two entries compete for one slot. *)
OnePerSlot(pool) ==
  \A e, f \in pool :
    e.tx.sender = f.tx.sender /\ e.tx.nonce = f.tx.nonce => e = f
=============================================================================
