------------------------------ MODULE MCFsTree ------------------------------
(* Instances of FsTree. *)
EXTENDS RepoHistory

CONSTANTS t1, t2, t3

SymTxns == Permutations(Txns)

Dir(rev, entries) ==
  [kind |-> "dir", rev |-> rev, prop |-> NoRep, data |-> NoRep,
   edit |-> NoRep, entries |-> entries]

File(rev, data) ==
  [kind |-> "file", rev |-> rev, prop |-> NoRep, data |-> data,
   edit |-> NoRep, entries |-> [n \in {} |-> NoId]]

\* A directory A with a file f, made in revision 1 (record 2).
SmallPaths == {<<>>, <<"A">>, <<"A", "f">>, <<"A", "g">>, <<"B">>}
OneDirPaths == {<<>>, <<"A">>, <<"A", "f">>, <<"A", "g">>}
SmallNodes ==
  (<<0, 0>> :> Dir(1, [n \in {} |-> NoId])) @@
  (<<0, 1>> :> Dir(2, [A |-> <<1, 1>>])) @@
  (<<1, 1>> :> Dir(2, [f |-> <<2, 1>>])) @@
  (<<2, 1>> :> File(2, <<"import", <<"A", "f">>>>))
SmallRevs == << <<0, 0>>, <<0, 1>> >>

\* C/D in revision 1; revision 2 adds the file C/D/x.
DeepPaths == {<<>>, <<"C">>, <<"C", "D">>, <<"C", "D", "x">>}
DeepNodes ==
  (<<0, 0>> :> Dir(1, [n \in {} |-> NoId])) @@
  (<<0, 1>> :> Dir(2, [C |-> <<1, 1>>])) @@
  (<<1, 1>> :> Dir(2, [D |-> <<2, 1>>])) @@
  (<<2, 1>> :> Dir(2, [n \in {} |-> NoId])) @@
  (<<0, 2>> :> Dir(3, [C |-> <<1, 2>>])) @@
  (<<1, 2>> :> Dir(3, [D |-> <<2, 2>>])) @@
  (<<2, 2>> :> Dir(3, [x |-> <<3, 1>>])) @@
  (<<3, 1>> :> File(3, NoRep))
DeepRevs == << <<0, 0>>, <<0, 1>>, <<0, 2>> >>

AllOps == {"make", "delete", "prop", "copy", "link", "edit", "abort"}
RaceOps == {"make", "delete", "prop"}
EditOps == {"make", "delete", "prop", "edit", "abort"}
OnlyA == {<<"A">>}
OnlyB == {<<"B">>}
FilePaths == {<<"A", "f">>, <<"A", "g">>}
=============================================================================
