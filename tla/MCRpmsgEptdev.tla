--------------------------- MODULE MCRpmsgEptdev ---------------------------
(***************************************************************************)
(* Model-checking instance of RpmsgEptdev.                                 *)
(***************************************************************************)
EXTENDS RpmsgEptdev
=============================================================================
