------------------------------ MODULE MCWorker ------------------------------
(* Instances of Worker for TLC: the constants are model values.            *)
EXTENDS Worker, TLC

PosterSymmetry == Permutations(Posters)
=============================================================================
