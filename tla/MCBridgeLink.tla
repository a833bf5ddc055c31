---------------------------- MODULE MCBridgeLink ----------------------------
(* BridgeLink for TLC: which requests are made. *)
EXTENDS BridgeLink

CONSTANT r1

OneRequest == {r1}
=============================================================================
