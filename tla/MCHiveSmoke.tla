---------------------------- MODULE MCHiveSmoke ----------------------------
(* Two runs on one checkout: at the same time, or one after the other.     *)
EXTENDS HiveSmoke

CONSTANTS r1, r2, old, new

Repo(linked, head, loose, packed, env) ==
  [linked |-> linked, head |-> head, loose |-> loose, packed |-> packed, env |-> env]

MCCheckout == {Repo(TRUE, "ref", new, old, None)}
=============================================================================
