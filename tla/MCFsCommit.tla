----------------------------- MODULE MCFsCommit -----------------------------
(* Instances of FsCommit: a path that is present at the start. *)
EXTENDS FsCommit, TLC

CONSTANTS t1, t2, t3, p1, p2, x, y, absent

SymTxns == Permutations(Txns)
FirstTree == [p \in Paths |-> IF p = p1 THEN x ELSE absent]
TwoRevs == <<FirstTree, FirstTree>>
=============================================================================
