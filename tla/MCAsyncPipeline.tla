-------------------------- MODULE MCAsyncPipeline --------------------------
(***************************************************************************)
(* Instances of AsyncPipeline for TLC.                                     *)
(***************************************************************************)
EXTENDS AsyncPipeline

CONSTANTS a, b, k1, k2

(* The first event of each caller is a debug event.                        *)
FirstIsDebug == {<<p, 1>> : p \in Callers}

(* The delegates refuse the first event of one caller.                     *)
FirstOfOneFails == {<<a, 1>>}
=============================================================================
