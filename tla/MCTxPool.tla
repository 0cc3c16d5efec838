------------------------------ MODULE MCTxPool ------------------------------
(* A pool of two senders, three nonces (2 is the largest one) and offers   *)
(* that replace one another, tie, or regress on one of the fee fields; the *)
(* two unsigned ones share a hash.                                         *)
EXTENDS TxPool

CONSTANTS s1, s2

MCTx(s, n, f, t, b) ==
  [sender |-> s, nonce |-> n, fee |-> f, tip |-> t, blobFee |-> b, signed |-> TRUE]
MCRaw(tx) == [tx |-> tx, priority |-> tx.tip]
MCSent(tx) == [tx |-> tx, priority |-> 0]
MCUnsigned(tx) == MCSent([tx EXCEPT !.signed = FALSE])

MCOffer ==
  { MCRaw(MCTx(s1, 0, 1, 1, NoFee)), MCSent(MCTx(s1, 0, 1, 1, NoFee)),
    MCRaw(MCTx(s1, 0, 2, 2, NoFee)), MCUnsigned(MCTx(s1, 0, 2, 2, NoFee)),
    MCRaw(MCTx(s1, 1, 1, 1, 1)), MCRaw(MCTx(s1, 1, 2, 2, NoFee)),
    MCRaw(MCTx(s1, 1, 2, 2, 2)),
    MCRaw(MCTx(s1, 2, 1, 1, NoFee)),
    MCRaw(MCTx(s2, 0, 1, 0, NoFee)), MCUnsigned(MCTx(s2, 0, 2, 2, NoFee)),
    MCRaw(MCTx(s2, 1, 1, 1, NoFee)) }
=============================================================================
