------------------------ MODULE MCRuntimeObservation ------------------------
(* Instances of RuntimeObservation: two runs of a scene whose watched node    *)
(* has up to two values, with a few changes and uses of the tools.            *)
EXTENDS RuntimeObservation
=============================================================================
