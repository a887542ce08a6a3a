----------------------------- MODULE MCRaCommit -----------------------------
(* Instances of RaCommit: a file, and a directory with a file in it. *)
EXTENDS RaCommit

F == <<"f">>
D == <<"d">>
DG == <<"d", "g">>
MCFiles == {F, DG}
MCSubDirs == {D}
=============================================================================
