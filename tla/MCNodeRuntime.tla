--------------------------- MODULE MCNodeRuntime ---------------------------
(* Transactions for the runs of NodeRuntime. *)
EXTENDS NodeRuntime

CONSTANTS s1, s2

MCTx(s, n, f) ==
  [sender |-> s, nonce |-> n, fee |-> f, tip |-> f, blobFee |-> NoFee, signed |-> TRUE]

(* Two senders; s1 can queue ahead, replace, and send a blob transaction. *)
MCTwoSenders ==
  {MCTx(s1, 0, 1), MCTx(s1, 1, 1),
   [MCTx(s1, 0, 2) EXCEPT !.blobFee = 1], MCTx(s2, 0, 1)}

(* One sender, two nonces. *)
MCOneSender == {MCTx(s1, 0, 1), MCTx(s1, 1, 1)}

(* Two impersonated senders whose unsigned envelopes look alike. *)
MCUnsigned ==
  {[MCTx(s, n, 1) EXCEPT !.signed = FALSE] : s \in {s1, s2}, n \in 0..1}
=============================================================================
