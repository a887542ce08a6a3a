------------------------------- MODULE MCReps -------------------------------
(* Instances of Reps for TLC. *)
EXTENDS Reps, TLC

Records == <<<<>>, <<1>>, <<>>>>
Props == <<3, 4>>
Lists == {<<4>>}
Symmetry == Permutations(Txns)
\* Nothing is claimed after that, and it stays so.
Untainted == ~tainted
=============================================================================
