-------------------------- MODULE MCRingConsumers --------------------------
(***************************************************************************)
(* An instance of RingConsumers for TLC.                                   *)
(***************************************************************************)
EXTENDS RingConsumers

CONSTANTS p1, p2
=============================================================================
