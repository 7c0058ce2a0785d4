--------------------------- MODULE MCFileExchange ---------------------------
(***************************************************************************)
(* Instances of FileExchange for TLC.                                      *)
(***************************************************************************)
EXTENDS FileExchange, TLC

Symmetric == Permutations(Requests) \union Permutations(Workers)
=============================================================================
