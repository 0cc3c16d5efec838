---------------------------- MODULE MCRpcServer ----------------------------
(* Three clients for two slots: one has to wait for a slot to come back.   *)
EXTENDS RpcServer

CONSTANTS c1, c2, c3
=============================================================================
