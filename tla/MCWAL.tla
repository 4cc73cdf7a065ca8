------------------------------- MODULE MCWAL -------------------------------
(* Instance of WAL.  There is a node for every entry, so that memory never  *)
(* runs out.                                                                *)
EXTENDS WAL
=============================================================================
