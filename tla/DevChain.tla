------------------------------ MODULE DevChain ------------------------------
(***************************************************************************)
(* What the trusted dev node promises about its canonical chain, whatever  *)
(* mines it: it grows by one block at a time, later blocks carry larger    *)
(* timestamps, the transactions of a sender execute with nonces 0, 1, 2,   *)
(* ... without a gap or a repeat, and the only other thing that happens to *)
(* it is that it is cut back to an earlier head (revert, reset).           *)
(***************************************************************************)
EXTENDS Integers, Sequences, FiniteSets

CONSTANT Sender

VARIABLE chain  \* sequence of [timestamp, txs], genesis first

(* The nonce of sender s after the blocks of c: one per executed           *)
(* transaction.                                                            *)
NonceAfter(c, s) ==
  Cardinality({p \in UNION {{b} \X DOMAIN c[b].txs : b \in DOMAIN c} :
                 c[p[1]].txs[p[2]].sender = s})

ExecutesAfter(c, txs) ==
  \A i \in DOMAIN txs :
    txs[i].nonce = NonceAfter(c, txs[i].sender)
                     + Cardinality({j \in 1..(i - 1) : txs[j].sender = txs[i].sender})

Init ==
  /\ Len(chain) = 1
  /\ chain[1].txs = <<>>

Extend ==
  /\ Len(chain') = Len(chain) + 1
  /\ SubSeq(chain', 1, Len(chain)) = chain
  /\ chain'[Len(chain')].timestamp > chain[Len(chain)].timestamp
  /\ ExecutesAfter(chain, chain'[Len(chain')].txs)

CutBack ==
  /\ Len(chain') \in 1..Len(chain)
  /\ chain' = SubSeq(chain, 1, Len(chain'))

Spec == Init /\ [][Extend \/ CutBack]_chain
=============================================================================
