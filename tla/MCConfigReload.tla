--------------------------- MODULE MCConfigReload ---------------------------
(***************************************************************************)
(* Instances of ConfigReload for TLC.                                      *)
(***************************************************************************)
EXTENDS ConfigReload

CONSTANTS k1, k2
=============================================================================
