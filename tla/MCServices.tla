---------------------------- MODULE MCServices ----------------------------
(***************************************************************************)
(* What the client does besides commits and updates, one machine at a time: *)
(* which says whose turn it is, the variables of the others stay as they are.*)
(***************************************************************************)
EXTENDS Diffs, Copies, WcProps, DavResources

VARIABLE which

(* Diffs: a file f and a directory d that may hold another. *)

MCNames == <<"d", "f">>
FileNode(x, v) == [kind |-> "file", text |-> x, prop |-> v]
DirNode(v) == [kind |-> "dir", text |-> "", prop |-> v]
Join2(f, g) == [p \in DOMAIN f \cup DOMAIN g |-> IF p \in DOMAIN f THEN f[p] ELSE g[p]]
Single(p, v) == [q \in {p} |-> v]
RootTree == Single(<<>>, DirNode(0))
Nil == <<>>
FParts(P) == {RootTree} \cup {Join2(RootTree, Single(<<"f">>, FileNode(x, v))) : x \in {"a", "b"}, v \in P}
DParts == {RootTree} \cup {Join2(RootTree, Single(<<"d">>, DirNode(v))) : v \in {0, 1}}
          \cup {Join2(Join2(RootTree, Single(<<"d">>, DirNode(0))), Single(<<"d", "f">>, FileNode(x, 0))) : x \in {"a", "b"}}
MCTrees == {Join2(f, d) : f \in FParts({0, 1}), d \in DParts}

MCMergeTrees == {Join2(f, d) : f \in FParts({0}), d \in {t \in DParts : \A p \in DOMAIN t : t[p].prop = 0}}

Ent(kind, sched, base, work) == [kind |-> kind, sched |-> sched, base |-> base, work |-> work, backup |-> <<>>]
FileStates == {Ent("file", "normal", <<"a">>, <<w>>) : w \in {"a", "b"}}
              \cup {Ent("file", "delete", <<"a">>, <<"a">>)}
              \cup {Ent("file", "replace", <<"a">>, <<"b">>)}
              \cup {Ent("file", "add", <<>>, <<"b">>)}
RootEnt == Single(<<>>, Ent("dir", "normal", <<>>, <<>>))
AtF(e) == Join2(RootEnt, Single(<<"f">>, e))
WcF == {RootEnt} \cup {AtF(e) : e \in FileStates}
DirEnt(s) == Join2(RootEnt, Single(<<"d">>, Ent("dir", s, <<>>, <<>>)))
AtDF(s, e) == Join2(DirEnt(s), Single(<<"d", "f">>, e))
WcD == {RootEnt, DirEnt("normal"), DirEnt("delete"), DirEnt("add")}
       \cup {AtDF("normal", e) : e \in FileStates}
       \cup {AtDF("delete", Ent("file", "delete", <<"a">>, <<"a">>)), AtDF("add", Ent("file", "add", <<>>, <<"b">>))}
\* A file that is not under version control, and one whose working file is missing
Stray == Ent("file", "unversioned", <<>>, <<"b">>)
Gone == Ent("file", "normal", <<"a">>, <<>>)
WcStrays == {Join2(AtF(e), d) : e \in {Stray, Gone}, d \in {RootEnt, DirEnt("normal"), DirEnt("delete")}}
            \cup {DirEnt("unversioned"), AtDF("unversioned", Stray), AtDF("normal", Stray), AtDF("normal", Gone),
                   AtDF("delete", Stray)}
\* Every state of each item, beside the usual ones of the other
MCWcs == {Join2(f, d) : f \in WcF, d \in {RootEnt, DirEnt("normal"), AtDF("normal", Ent("file", "normal", <<"a">>, <<"b">>))}}
         \cup {Join2(f, d) : f \in {RootEnt, AtF(Ent("file", "normal", <<"a">>, <<"b">>))}, d \in WcD}
         \cup WcStrays
MCPlainWcs == {RootEnt}
MCTweakPaths == {<<"f">>, <<"d", "f">>}

(* Copies: a file, a directory with a file, and where they may go. *)
FileAt(text) == [kind |-> "file", text |-> text, rev |-> 1]
DirAt == [kind |-> "dir", text |-> EmptyText, rev |-> 1]
PathsC == {<<>>, <<"a">>, <<"D">>, <<"D", "a">>, <<"E">>, <<"E", "a">>}
Tree1 == (<<>> :> DirAt) @@ (<<"a">> :> FileAt("t0")) @@ (<<"D">> :> DirAt) @@ (<<"D", "a">> :> FileAt("u0"))
EditC == {<<"a">>}
OtherC == {<<"a">>}

(* DavResources: a directory with a file, and a file, imported. *)
PathsD == {<<>>, <<"a">>, <<"a", "b">>, <<"b">>}
RevsD == <<"0", "1", "2", "3", "4">>
IdsD == <<"n1", "n2", "n3", "n4", "n5", "n6", "n7", "n8", "n9", "n10", "n11", "n12", "n13", "n14">>
ImportD == [p \in PathsD |-> IF p \in {<<"a", "b">>, <<"b">>} THEN "file" ELSE "dir"]

DiffsIdle == DiffInit /\ dwc = RootEnt
PropsIdle == PropsInit /\ subject = "f"

Init ==
  \/ which = "diff" /\ DiffInit /\ CopyInit /\ PropsIdle /\ DavInit
  \/ which = "copy" /\ DiffsIdle /\ CopyInit /\ PropsIdle /\ DavInit
  \/ which = "props" /\ DiffsIdle /\ CopyInit /\ PropsInit /\ DavInit
  \/ which = "dav" /\ DiffsIdle /\ CopyInit /\ PropsIdle /\ DavInit

Next ==
  /\ UNCHANGED which
  /\ \/ which = "diff" /\ DiffNext /\ UNCHANGED <<cvars, propVars, davVars>>
     \/ which = "copy" /\ CopyNext /\ UNCHANGED <<dvars, propVars, davVars>>
     \/ which = "props" /\ PropsNext /\ UNCHANGED <<dvars, cvars, davVars>>
     \/ which = "dav" /\ DavNext /\ UNCHANGED <<dvars, cvars, propVars>>

Spec == Init /\ [][Next]_<<which, dvars, cvars, propVars, davVars>>

\* What diff shows and what merge brings are the differences, and merging loses
\* no text.
DiffsRight == RepoDiffExact /\ WcDiffExact /\ MergeExact /\ MergeKeepsTexts

\* Copies and moves of working copies and of URLs bring what was copied.
CopiesRight == CopiesCommitted /\ UrlCommandExact /\ CopySourceRight
===========================================================================
