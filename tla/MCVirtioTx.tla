---------------------------- MODULE MCVirtioTx ----------------------------
(***************************************************************************)
(* Model-checking instance of VirtioTx.                                    *)
(***************************************************************************)
EXTENDS VirtioTx
=============================================================================
