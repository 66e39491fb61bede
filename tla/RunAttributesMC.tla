-------------------------- MODULE RunAttributesMC --------------------------
(***************************************************************************)
(* Small instances of RunAttributes: which stage processes exist and which *)
(* of the methods each calls.                                              *)
(***************************************************************************)
EXTENDS RunAttributes, TLC

CONSTANTS s1, g1, g2        \* processes
=============================================================================
