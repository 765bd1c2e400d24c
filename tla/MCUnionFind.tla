--------------------------- MODULE MCUnionFind ---------------------------
(***************************************************************************)
(* Every feed of a few alerts over two entities.                           *)
(***************************************************************************)
EXTENDS UnionFind, TLC

CONSTANTS host, user
==========================================================================
