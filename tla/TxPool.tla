------------------------------- MODULE TxPool -------------------------------
(***************************************************************************)
(* TransactionPool of src/txpool.zig: the stored transactions in insertion *)
(* order and the base nonce of each sender (an absent sender_nonces entry  *)
(* reads as 0).  One action per method that changes the pool; the reading  *)
(* methods are operators on the state.                                     *)
(***************************************************************************)
EXTENDS PoolOps, Sequences

SE == INSTANCE SequencesExt

CONSTANTS
  Offer,        \* the entries callers submit, a subset of Entry
  MaxPool       \* bound on the number of stored entries

ASSUME TxPoolAssumption ==
  /\ Offer \subseteq Entry
  /\ MaxPool \in Nat

VARIABLES
  txs,          \* transactions, in storage order
  base          \* sender_nonces

vars == <<txs, base>>

Stored == SE!ToSet(txs)
StoredHashes == {Hash(e.tx) : e \in Stored}

(* findTransactionIndex: the first position holding this slot, 0 if none. *)
TransactionIndex(s, n) ==
  SE!SelectInSeq(txs, LAMBDA e : e.tx.sender = s /\ e.tx.nonce = n)

(* The entries at these positions, in storage order: what orderedRemove of *)
(* all the others leaves.                                                  *)
Keep(positions) ==
  [k \in 1..Cardinality(positions) |->
     txs[CHOOSE i \in positions : Cardinality({j \in positions : j <= i}) = k]]

Init ==
  /\ txs = <<>>
  /\ base = [s \in Sender |-> 0]

-----------------------------------------------------------------------------
(* The methods that change the pool. *)

SetNonce(s, n) ==
  /\ base' = [base EXCEPT ![s] = n]
  /\ UNCHANGED txs

(* add on a free slot appends. *)
AddNew(e) ==
  /\ TransactionIndex(e.tx.sender, e.tx.nonce) = 0
  /\ Len(txs) < MaxPool
  /\ txs' = Append(txs, e)
  /\ UNCHANGED base

(* Mutant of AddReplacement: any other transaction replaces.               *)
AddAnyReplacement(e) ==
  LET i == TransactionIndex(e.tx.sender, e.tx.nonce)
  IN  /\ i # 0
      /\ Hash(txs[i].tx) # Hash(e.tx)
      /\ txs' = SE!ReplaceAt(txs, i, e)
      /\ UNCHANGED base

(* add on an occupied slot: the same hash and an underpriced replacement   *)
(* leave the pool alone (the second is an error); a replacement takes the  *)
(* position of the entry it evicts.                                        *)
AddReplacement(e) ==
  LET i == TransactionIndex(e.tx.sender, e.tx.nonce)
  IN  /\ i # 0
      /\ Hash(txs[i].tx) # Hash(e.tx)
      /\ IsPriceReplacement(txs[i], e)
      /\ txs' = SE!ReplaceAt(txs, i, e)
      /\ UNCHANGED base

(* removeByHash: the first entry with the hash. *)
RemoveByHash(h) ==
  /\ h \in StoredHashes
  /\ txs' = SE!RemoveFirstMatch(txs, LAMBDA e : Hash(e.tx) = h)
  /\ UNCHANGED base

(* removeMined: every stored entry of the block, raising base nonces. *)
RemoveMined(hashes) ==
  /\ txs' = Keep({i \in DOMAIN txs : Hash(txs[i].tx) \notin hashes})
  /\ base' = BaseAfterMined(Stored, base, hashes)

Clear ==
  /\ txs' = <<>>
  /\ base' = [s \in Sender |-> 0]

(* Blocks hold executed transactions, and executing the largest nonce      *)
(* fails (tx_processor.zig: the successor overflows), so none is mined.    *)
Minable == {h \in StoredHashes : h.nonce < MaxNonce}

Next ==
  \/ \E s \in Sender, n \in Nonce : SetNonce(s, n)
  \/ \E e \in Offer : AddNew(e) \/ AddReplacement(e)
  \/ \E h \in StoredHashes : RemoveByHash(h)
  \/ \E hashes \in SUBSET Minable : RemoveMined(hashes)
  \/ Clear

Spec == Init /\ [][Next]_vars

-----------------------------------------------------------------------------
(* The methods that read it. *)

EntryIsPending(e) == IsPending(Stored, base, e.tx.sender, e.tx.nonce)

PendingCount == Cardinality({i \in DOMAIN txs : EntryIsPending(txs[i])})

(* Mutant of PendingNonce: the sender's entries are counted, gaps or not.  *)
PendingNonceByCount(s, stateNonce) ==
  stateNonce + Cardinality({i \in DOMAIN txs : txs[i].tx.sender = s})

(* pendingNonce: the first nonce from stateNonce on with no entry; the     *)
(* walk stops on an entry with the largest nonce.                          *)
PendingNonce(s, stateNonce) ==
  CHOOSE n \in stateNonce..MaxNonce :
    /\ \A m \in stateNonce..(n - 1) : TransactionIndex(s, m) # 0
    /\ TransactionIndex(s, n) = 0 \/ n = MaxNonce

(* The run getReady emits from one group head: its sender's entries at     *)
(* consecutive nonces while they are there.                                *)
RunFrom(head) ==
  LET nonces == {n \in head.tx.nonce..MaxNonce :
                   \A m \in head.tx.nonce..n : TransactionIndex(head.tx.sender, m) # 0}
  IN  [k \in 1..Cardinality(nonces) |->
         txs[TransactionIndex(head.tx.sender, head.tx.nonce + k - 1)]]

(* Mutants of GetReady: every pending entry heads a run; the pending       *)
(* entries in the order they are stored.                                   *)
ReadyRunOfEach ==
  LET heads == Keep({i \in DOMAIN txs : EntryIsPending(txs[i])})
  IN  SE!FlattenSeq([i \in DOMAIN heads |-> RunFrom(heads[i])])
ReadyAsStored == Keep({i \in DOMAIN txs : EntryIsPending(txs[i])})

(* getReady: storage order picks the group heads, the entries that are     *)
(* pending at their sender's base nonce; each is followed by its run.      *)
GetReady ==
  LET heads == Keep({i \in DOMAIN txs :
                 EntryIsPending(txs[i]) /\ txs[i].tx.nonce = base[txs[i].tx.sender]})
  IN  SE!FlattenSeq([i \in DOMAIN heads |-> RunFrom(heads[i])])

-----------------------------------------------------------------------------
(* Properties. *)

(* The stored transactions are entries and every sender has a base nonce. *)
TypeOK ==
  /\ txs \in Seq(Offer)
  /\ base \in [Sender -> Nonce]

(* The walks over the pool agree.  getReady fills its slice exactly, the  *)
(* `assert(index == count)` of src/txpool.zig:174 and the absence of a     *)
(* write past the slice; pendingNonce (eth_getTransactionCount "pending")  *)
(* counts what isPending lets into a block, from the same base nonce and   *)
(* up to the stop at the largest nonce.                                    *)
WalksAgree ==
  /\ Len(GetReady) = PendingCount
  /\ \A s \in Sender :
       LET k == Cardinality({e \in Stored : e.tx.sender = s /\ EntryIsPending(e)})
           n == base[s] + k
       IN  PendingNonce(s, base[s]) = IF n > MaxNonce THEN MaxNonce ELSE n

(* What the block builder needs of getReady: executing the list in order   *)
(* from the base nonces never meets a gap, a repeat or a lower nonce: the  *)
(* k-th transaction of a sender carries its base nonce plus k - 1.         *)
ReadyExecutesInOrder ==
  \A i \in DOMAIN GetReady :
    GetReady[i].tx.nonce =
      base[GetReady[i].tx.sender]
        + Cardinality({j \in 1..(i - 1) :
                         GetReady[j].tx.sender = GetReady[i].tx.sender})

(* The list a block is built from is whole and in order, and               *)
(* eth_getTransactionCount "pending" agrees with it.                       *)
ReadyListIsRight == WalksAgree /\ ReadyExecutesInOrder

(* Mining a block made of the first ready transactions of some senders     *)
(* leaves every other pending transaction pending: advancing the base      *)
(* nonce one too few, or one too many, would strand the rest of a run in   *)
(* the queue, where no later block looks for it.                           *)
ReadyPrefix(hashes) ==
  \A e \in Stored : Hash(e.tx) \in hashes =>
    /\ EntryIsPending(e)
    /\ \A f \in Stored : f.tx.sender = e.tx.sender /\ f.tx.nonce < e.tx.nonce
                            /\ EntryIsPending(f) => Hash(f.tx) \in hashes
PendingSurvivesMining ==
  [][\A hashes \in SUBSET Minable :
       ReadyPrefix(hashes) /\ RemoveMined(hashes) =>
         \A f \in Stored' : EntryIsPending(f) => EntryIsPending(f)']_vars

(* The stored sequence implements the set of PoolSpec. *)
Promise == INSTANCE PoolSpec WITH pool <- Stored
ImplementsPoolSpec == Promise!Spec
=============================================================================
