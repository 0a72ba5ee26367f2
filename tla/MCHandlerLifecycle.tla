------------------------- MODULE MCHandlerLifecycle -------------------------
(***************************************************************************)
(* Instances of HandlerLifecycle for TLC.                                  *)
(***************************************************************************)
EXTENDS HandlerLifecycle

CONSTANTS a, b, k1, k2, r1, r2
=============================================================================
