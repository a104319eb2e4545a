--------------------------- MODULE MCGeolocation ---------------------------
(* Geolocation for TLC: the programs run the same code and no property names *)
(* one of them or is temporal, so they may be permuted; so may the cells and *)
(* the points in them.                                                       *)
EXTENDS Geolocation, TLC

Symmetry == Permutations(Procs) \cup Permutations(Cell) \cup Permutations(Point)
=============================================================================
