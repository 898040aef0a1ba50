------------------------------- MODULE Samples -------------------------------
(***************************************************************************)
(* Inputs of the parts of the program that are functions, built piece by   *)
(* piece: `shape` is one input (a program, a text, a pattern), its first   *)
(* element says which family it belongs to. A run starts from the smallest *)
(* input of every family and lets them grow, so that TLC meets each input  *)
(* up to the bounds once, the short ones first.                            *)
(***************************************************************************)
EXTENDS Integers, Sequences

VARIABLE shape

Family == shape[1]
Piece(x) == shape' = Append(shape, x)
Pieces(xs) == shape' = shape \o xs
=============================================================================
