------------------------- MODULE MCTailscaleBackend -------------------------
(***************************************************************************)
(* Small instances of TailscaleBackend for TLC.                            *)
(***************************************************************************)
EXTENDS TailscaleBackend
=============================================================================
