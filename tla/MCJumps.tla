------------------------------ MODULE MCJumps ------------------------------
(***************************************************************************)
(* Function bodies of a few statements, with one label name.  A body that  *)
(* is refused or lowered is done.                                          *)
(***************************************************************************)
EXTENDS Jumps
=============================================================================
