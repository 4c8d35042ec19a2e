----------------------------- MODULE MCRpbufDev -----------------------------
(***************************************************************************)
(* Model-checking instance of RpbufDev.                                    *)
(***************************************************************************)
EXTENDS RpbufDev
=============================================================================
