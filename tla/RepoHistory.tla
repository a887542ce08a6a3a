---------------------------- MODULE RepoHistory ----------------------------
(***************************************************************************)
(* Questions about the history of a filesystem, asked in the states FsTree   *)
(* reaches: the read-only part of libsvn_fs/tree.c, svn_repos_get_logs and   *)
(* the date search of libsvn_repos, the tree of changes that                 *)
(* libsvn_repos/node_tree.c builds from a comparison of two roots, and what  *)
(* `svn log -v' and svnlook make of that tree.                               *)
(*                                                                           *)
(* A question is a trail that changes nothing, so it is an operator on the   *)
(* state and not an action.  Record i of the `revisions' table is revision   *)
(* i - 1; like FsTree this module counts records.                            *)
(***************************************************************************)
EXTENDS FsTree

----------------------------------------------------------------------------
(* Roots.  A revision root keeps its root directory; a transaction root      *)
(* opens the root directory again every time, as it may have been cloned.    *)

\* make_root, make_revision_root; svn_fs_revision_root
RevisionRoot(r) == [kind |-> "revision", rev |-> r, dir |-> revs[r]]

\* make_txn_root; svn_fs_txn_root, which only checks that there is such a
\* transaction
TxnRoot(t) == [kind |-> "transaction", txn |-> t]
RevisionRoots == {RevisionRoot(r) : r \in DOMAIN revs}
TxnRoots == {TxnRoot(t) : t \in DOMAIN txns}

\* svn_fs_is_txn_root, svn_fs_is_revision_root
IsTxnRoot(root) == root.kind = "transaction"

RootDir(root) == IF IsTxnRoot(root) THEN txns[root.txn].root ELSE root.dir

\* svn_fs_txn_base_revision: the revision that created the base root
TxnBaseRevision(t) == nodes[txns[t].base].rev

\* get_dag, after next_entry_name has cut the path at its slashes; NoId
\* stands for the error of not_found
GetDag(root, p) == OpenPath(nodes, RootDir(root), p)

\* svn_fs_node_id
NodeId(root, p) == GetDag(root, p)

\* svn_fs_node_created_rev: empty, that is 0, in an uncommitted node
NodeCreatedRev(root, p) == nodes[GetDag(root, p)].rev

\* txn_body_node_kind, svn_fs_check_path: any error means there is nothing
CheckPath(root, p) == IF GetDag(root, p) = NoId THEN "none" ELSE nodes[GetDag(root, p)].kind

\* svn_fs_is_dir and svn_fs_is_file
IsDirAt(root, p) == CheckPath(root, p) = "dir"
IsFileAt(root, p) == CheckPath(root, p) = "file"

\* get_dir_entries, svn_fs_dir_entries: the names, in the hash's order
DirEntries(root, p) == SetToSeq(DOMAIN nodes[GetDag(root, p)].entries)

\* svn_fs_file_contents opens a stream on the text
FileContents(root, p) == nodes[GetDag(root, p)].data

\* svn_fs_node_prop, svn_fs_node_proplist
NodeProplist(root, p) == nodes[GetDag(root, p)].prop

\* svn_fs__things_different compares the keys of the representations: equal
\* keys are equal contents.  (A directory's list of entries stands for its key.)
ThingsDifferent(a, b) ==
  [props |-> nodes[a].prop # nodes[b].prop,
   contents |-> nodes[a].data # nodes[b].data \/ nodes[a].entries # nodes[b].entries]

\* svn_fs_props_changed
PropsChanged(root1, p1, root2, p2) == ThingsDifferent(GetDag(root1, p1), GetDag(root2, p2)).props

\* svn_fs_contents_changed, of two files
ContentsChanged(root1, p1, root2, p2) ==
  /\ IsFileAt(root1, p1) /\ IsFileAt(root2, p2)
  /\ ThingsDifferent(GetDag(root1, p1), GetDag(root2, p2)).contents

----------------------------------------------------------------------------
(* svn_repos_node_editor driven by svn_repos_dir_delta, with text deltas off *)
(* and copyfrom arguments off: the tree of changes between two roots.        *)

\* create_node
CreateNode(name, kind, action) ==
  [name |-> name, kind |-> kind, action |-> action, text |-> FALSE, prop |-> FALSE, kids |-> <<>>]

RECURSIVE Joined(_)
Joined(ss) == IF ss = <<>> THEN <<>> ELSE Head(ss) \o Joined(Tail(ss))

\* create_child_node, create_sibling_node: at the end of the list
CreateChildren(node, kids) == [node EXCEPT !.kids = @ \o kids]

\* delta_proplists, and change_file_prop or change_dir_prop of the node
\* editor, which only notes that there was a call
DeltaProplists(from, to, p, node) ==
  [node EXCEPT !.prop = IF from = <<>> THEN NodeProplist(to, p) # NoRep
                        ELSE PropsChanged(to, p, from[1], p)]

\* delta_files; apply_textdelta of the node editor sets text_mod, and its
\* window_handler ignores the windows
DeltaFiles(from, to, p, node) ==
  [DeltaProplists(from, to, p, node) EXCEPT
     !.text = from = <<>> \/ ContentsChanged(to, p, from[1], p)]

\* delete_entry: the kind comes from the base root
DeleteEntryNode(from, p) == CreateNode(Last(p), CheckPath(from, p), "D")

RECURSIVE DeltaDirs(_, _, _, _)

\* add_file_or_dir: add_directory or add_file, and everything below
AddFileOrDir(to, p) ==
  IF IsDirAt(to, p) THEN DeltaDirs(<<>>, to, p, CreateNode(Last(p), "dir", "A"))
  ELSE DeltaFiles(<<>>, to, p, CreateNode(Last(p), "file", "A"))

\* replace_file_or_dir: open_directory or open_file
ReplaceFileOrDir(from, to, p) ==
  IF IsDirAt(to, p) THEN DeltaDirs(<<from>>, to, p, CreateNode(Last(p), "dir", "R"))
  ELSE DeltaFiles(<<from>>, to, p, CreateNode(Last(p), "file", "R"))

\* Mutant of EntryNodes: an unrelated node of the same name is opened.
EntryNodes_NoDistance(from, to, p) ==
  IF from = <<>> \/ NodeId(from[1], p) = NoId THEN <<AddFileOrDir(to, p)>>
  ELSE IF NodeId(from[1], p) = NodeId(to, p) THEN <<>>
  ELSE <<ReplaceFileOrDir(from[1], to, p)>>

\* The nodes made for one entry of the target, by the distance of the ID's.
EntryNodes(from, to, p) ==
  IF from = <<>> \/ NodeId(from[1], p) = NoId THEN <<AddFileOrDir(to, p)>>
  ELSE LET distance == IdDistance(NodeId(from[1], p), NodeId(to, p)) IN
       CASE distance = 0 -> <<>>
         [] distance = -1 -> <<DeleteEntryNode(from[1], p), AddFileOrDir(to, p)>>
         [] OTHER -> <<ReplaceFileOrDir(from[1], to, p)>>

DeltaDirs(from, to, p, node) ==
  LET there == DirEntries(to, p)
      gone == IF from = <<>> THEN <<>>
              ELSE SelectSeq(DirEntries(from[1], p), LAMBDA n : n \notin Range(there))
  IN  CreateChildren(DeltaProplists(from, to, p, node),
        Joined([i \in DOMAIN there |-> EntryNodes(from, to, Append(p, there[i]))])
        \o [i \in DOMAIN gone |-> DeleteEntryNode(from[1], Append(p, gone[i]))])

\* open_root, the comparison of the two root directories, and
\* svn_repos_node_from_baton
ChangeTree(from, to) == DeltaDirs(<<from>>, to, <<>>, CreateNode("", "dir", "R"))

----------------------------------------------------------------------------
(* What is printed of a tree of changes.  Every walk goes down with the path *)
(* so far, in the order of the children.                                     *)

PathOf(path, kid) == Append(path, kid.name)

IsChange(node) == ~(node.kind = "dir" /\ node.action = "R" /\ ~node.prop)

\* detect_changed: the siblings first, then the children, then the node, into
\* a hash from paths to actions; what is set last stays.
RECURSIVE DetectChanged(_, _)
DetectChanged(node, path) ==
  LET below == Joined([i \in DOMAIN node.kids |->
                 LET kid == node.kids[Len(node.kids) + 1 - i] IN DetectChanged(kid, PathOf(path, kid))])
  IN  below \o (IF IsChange(node) THEN <<[path |-> path, action |-> node.action]>> ELSE <<>>)

LastSet(sets) ==
  [p \in {s.path : s \in Range(sets)} |->
     sets[CHOOSE i \in DOMAIN sets : /\ sets[i].path = p
                                     /\ \A j \in DOMAIN sets : sets[j].path = p => j <= i].action]

\* print_changed_tree: the status letters of svnlook changed
Status(node) ==
  IF node.action # "R" THEN node.action
  ELSE IF node.text /\ node.prop THEN "UU" ELSE IF node.text THEN "U_" ELSE "_U"

RECURSIVE PrintChanged(_, _)
PrintChanged(node, path) ==
  (IF node.action # "R" \/ node.text \/ node.prop THEN <<<<Status(node), path>>>> ELSE <<>>)
  \o Joined([i \in DOMAIN node.kids |-> PrintChanged(node.kids[i], PathOf(path, node.kids[i]))])

\* print_dirs_changed_tree: property changes, or a child that is a file, or
\* was added or deleted
PrintMe(node) ==
  \/ node.prop
  \/ \E i \in DOMAIN node.kids :
       node.kids[i].kind = "file" \/ node.kids[i].text \/ node.kids[i].action \in {"A", "D"}

RECURSIVE PrintDirsChanged(_, _)
PrintDirsChanged(node, path) ==
  IF node.kind # "dir" THEN <<>>
  ELSE (IF PrintMe(node) THEN <<path>> ELSE <<>>)
       \o Joined([i \in DOMAIN node.kids |-> PrintDirsChanged(node.kids[i], PathOf(path, node.kids[i]))])

\* dump_contents of both files, and the title of one difference
DumpedFiles(from, to, node, path) ==
  CASE node.action = "A" -> [what |-> "Added", path |-> path, old |-> NoRep, new |-> FileContents(to, path)]
    [] node.action = "D" -> [what |-> "Deleted", path |-> path, old |-> FileContents(from, path), new |-> NoRep]
    [] OTHER -> [what |-> "Modified", path |-> path,
                 old |-> FileContents(from, path), new |-> FileContents(to, path)]

\* print_diff_tree: files added, deleted or whose text was changed
RECURSIVE PrintDiff(_, _, _, _)
PrintDiff(from, to, node, path) ==
  (IF node.kind = "file" /\ (node.action # "R" \/ node.text)
   THEN <<DumpedFiles(from, to, node, path)>> ELSE <<>>)
  \o Joined([i \in DOMAIN node.kids |-> PrintDiff(from, to, node.kids[i], PathOf(path, node.kids[i]))])

\* print_tree, and print_ids_tree, which asks the root for each node's ID
RECURSIVE PrintTree(_, _, _)
PrintTree(root, node, path) ==
  <<<<path, node.kind, NodeId(root, path)>>>>
  \o Joined([i \in DOMAIN node.kids |-> PrintTree(root, node.kids[i], PathOf(path, node.kids[i]))])

----------------------------------------------------------------------------
(* svnlook: a revision is compared with the one before it, a transaction     *)
(* with its base revision (get_root, generate_delta_tree).                   *)

BaseOf(root) == RevisionRoot(IF IsTxnRoot(root) THEN TxnBaseRevision(root.txn) ELSE root.rev - 1)

\* do_changed
LookChanged(root) == PrintChanged(ChangeTree(BaseOf(root), root), <<>>)

\* do_dirs_changed
LookDirsChanged(root) == PrintDirsChanged(ChangeTree(BaseOf(root), root), <<>>)

\* do_diff
LookDiff(root) == PrintDiff(BaseOf(root), root, ChangeTree(BaseOf(root), root), <<>>)

\* do_tree: the changes since revision 0, whose tree is empty
LookTree(root) == PrintTree(root, ChangeTree(RevisionRoot(1), root), <<>>)

----------------------------------------------------------------------------
(* svn log *)

\* The loop of txn_body_revisions_changed from one ID down: the number at the
\* end goes down to 0, then the pair before it is next.  ID 0.0 would become
\* the malformed ID "0", which no node has: the walk ends with an error.
RECURSIVE Walked(_)
Walked(id) ==
  LET n == Len(id) IN
  IF n = 0 THEN <<>> ELSE IF id[n] = 0 THEN <<id>>
  ELSE <<id>> \o Walked(IF id[n] = 1 THEN SubSeq(id, 1, n - 2) ELSE [id EXCEPT ![n] = @ - 1])

\* txn_body_revisions_changed.  The walk counts down the ID in its argument:
\* run again after a deadlock in which it had looked at `lost' node revisions,
\* it goes on from there with an empty list.
RevisionsChanged(root, paths, lost) ==
  UNION {LET ids == Walked(NodeId(root, p))
         IN  {nodes[ids[i]].rev : i \in (1 + lost) .. Len(ids)} : p \in paths}

\* svn_fs_revisions_changed gives no error for these paths.
MayAskFor(root, paths) ==
  \A p \in paths : NodeId(root, p) # NoId /\ <<0, 0>> \notin Range(Walked(NodeId(root, p)))

\* svn_repos_get_logs: the revisions handed to the receiver, from start to end
GetLogs(paths, start, end, lost) ==
  LET step == IF start >= end THEN [i \in 1 .. (start - end + 1) |-> start + 1 - i]
              ELSE [i \in 1 .. (end - start + 1) |-> start - 1 + i]
      newer == IF start > end THEN start ELSE end
      found == RevisionsChanged(RevisionRoot(newer), paths, lost)
  IN  IF paths = {} THEN step ELSE SelectSeq(step, LAMBDA r : r \in found)

\* With -v: the changed paths of one revision (compiled with
\* SVN_REPOS_ALLOW_LOG_WITH_PATHS)
ChangedPaths(r) == LastSet(DetectChanged(ChangeTree(RevisionRoot(r - 1), RevisionRoot(r)), <<>>))

\* svn_repos_get_committed_info
GetCommittedInfo(root, p) == NodeCreatedRev(root, p)

----------------------------------------------------------------------------
(* svn_repos_dated_revision: dates[i] is the date of record i *)

\* The binary search; -1 for a result that was never set
RECURSIVE DateSearch(_, _, _, _)
DateSearch(dates, tm, bot, top) ==
  LET mid == (top + bot) \div 2
      At(rev) == dates[rev + 1]
  IN  IF bot > top THEN -1
      ELSE IF At(mid) > tm
      THEN IF mid - 1 < 0 THEN 0
           ELSE IF At(mid - 1) <= tm THEN mid - 1
           ELSE DateSearch(dates, tm, bot, mid - 1)
      ELSE IF At(mid) < tm
      THEN IF mid + 1 > Len(dates) - 1 THEN Len(dates) - 1
           ELSE IF At(mid + 1) > tm THEN mid + 1
           ELSE DateSearch(dates, tm, mid + 1, top)
      ELSE mid

DatedRevision(dates, tm) == DateSearch(dates, tm, 0, Len(dates) - 1)

----------------------------------------------------------------------------
(* Properties *)

\* The same node, perhaps another revision of it, at a path of two roots, and
\* at every directory above it.
SameNode(from, to, p) ==
  \A n \in 0 .. Len(p) :
    LET q == SubSeq(p, 1, n)
    IN  /\ NodeId(from, q) # NoId /\ NodeId(to, q) # NoId
        /\ NodeId(from, q)[1] = NodeId(to, q)[1]

\* The reference: what really changed between two roots.
WasAdded(from, to, p) == NodeId(to, p) # NoId /\ ~SameNode(from, to, p)
WasDeleted(from, to, p) ==
  /\ p # <<>> /\ NodeId(from, p) # NoId
  /\ ~SameNode(from, to, p) /\ SameNode(from, to, Front(p))
Texted(from, to, p) == SameNode(from, to, p) /\ FileContents(from, p) # FileContents(to, p)
Propped(from, to, p) == SameNode(from, to, p) /\ NodeProplist(from, p) # NodeProplist(to, p)

\* At most one transaction is open and no commit is under way.  Answers depend
\* on the roots asked about alone, so they need asking in such states only.
Quiet ==
  /\ \A t \in Txns : pc[t] \in {"none", "open", "done", "aborted"}
  /\ Cardinality(DOMAIN txns) <= 1

Once(out) == Len(out) = Cardinality(Range(out))
Youngest == RevisionRoot(Len(revs))

\* `svn log -v' of the youngest revision names the paths that were added,
\* deleted or changed in it and no others, whatever was merged into it, with
\* the right action; a path that was replaced may show as deleted or as added.
ChangedPathsExact ==
  Quiet /\ Len(revs) > 1 =>
    LET from == RevisionRoot(Len(revs) - 1)
        log == ChangedPaths(Len(revs))
    IN  \A p \in Paths :
          LET a == WasAdded(from, Youngest, p)
              d == WasDeleted(from, Youngest, p)
              m == Texted(from, Youngest, p) \/ Propped(from, Youngest, p)
          IN  /\ p \in DOMAIN log <=> a \/ d \/ m
              /\ p \in DOMAIN log =>
                   /\ log[p] = "A" => a
                   /\ log[p] = "D" => d
                   /\ log[p] = "R" => m

\* svnlook shows what a revision, or an open transaction, changed against the
\* tree it was built on: each path once with its letters (changed), the
\* directories in which something changed (dirs-changed), both texts of the
\* files whose text changed (diff), and every path once with its ID (tree).
LookExact ==
  \A root \in TxnRoots \cup {Youngest} :
    Quiet /\ (IsTxnRoot(root) \/ root.rev > 1) =>
      LET from == BaseOf(root)
          changed == LookChanged(root)
          diff == LookDiff(root)
          Changed(p) == WasAdded(from, root, p) \/ WasDeleted(from, root, p)
          dirs == LookDirsChanged(root)
          tree == LookTree(root)
      IN  /\ Once(changed) /\ Once(diff) /\ Once(dirs) /\ Once(tree)
          /\ Range(changed) =
               {<<"A", p>> : p \in {q \in Paths : WasAdded(from, root, q)}}
               \cup {<<"D", p>> : p \in {q \in Paths : WasDeleted(from, root, q)}}
               \cup {<<"UU", p>> : p \in {q \in Paths : Texted(from, root, q) /\ Propped(from, root, q)}}
               \cup {<<"U_", p>> : p \in {q \in Paths : Texted(from, root, q) /\ ~Propped(from, root, q)}}
               \cup {<<"_U", p>> : p \in {q \in Paths : ~Texted(from, root, q) /\ Propped(from, root, q)}}
          /\ Range(dirs) =
               {p \in {q \in Paths : IsDirAt(root, q)} :
                  \/ Propped(from, root, p)
                  \/ WasAdded(from, root, p) /\ NodeProplist(root, p) # NoRep
                  \/ \E c \in Paths : /\ c # <<>> /\ Front(c) = p
                                      /\ \/ Changed(c)
                                         \/ IsFileAt(root, c) /\ NodeId(from, c) # NodeId(root, c)}
          /\ {[what |-> d.what, path |-> d.path] : d \in Range(diff)} =
               {[what |-> "Added", path |-> p] : p \in {q \in Paths : WasAdded(from, root, q) /\ IsFileAt(root, q)}}
               \cup {[what |-> "Deleted", path |-> p] :
                       p \in {q \in Paths : WasDeleted(from, root, q) /\ IsFileAt(from, q)}}
               \cup {[what |-> "Modified", path |-> p] : p \in {q \in Paths : Texted(from, root, q)}}
          /\ Range(tree) = {<<p, CheckPath(root, p), NodeId(root, p)>> : p \in {q \in Paths : NodeId(root, q) # NoId}}

\* The revision an entry is said to be last changed in is the youngest one in
\* which the path or something below it changed.
CommittedInfoRight ==
  \A p \in Paths :
    Quiet /\ NodeId(Youngest, p) # NoId =>
      LET cr == GetCommittedInfo(Youngest, p)
      IN  /\ cr \in 1 .. Len(revs)
          /\ \A r \in (cr + 1) .. Len(revs) : \A q \in Paths :
               IsPrefix(p, q) => NodeId(RevisionRoot(r), q) = NodeId(RevisionRoot(cr), q)
          /\ cr > 1 => NodeId(RevisionRoot(cr - 1), p) # NodeId(RevisionRoot(cr), p)

\* `svn log PATH' names, once and in order, only revisions in which a node
\* revision was made that the one at PATH comes from, also when a deadlock in
\* the middle of the search makes it forget the `lost' first ones.
LogSound ==
  \A p \in Paths :
    Quiet /\ MayAskFor(Youngest, {p}) =>
      \A lost \in 0 .. (Len(Walked(NodeId(Youngest, p))) - 1) :
        LET listed == GetLogs({p}, Len(revs), 1, lost)
        IN  /\ \A i, j \in DOMAIN listed : i < j => listed[i] > listed[j]
            /\ \A i \in DOMAIN listed : \E q \in Paths :
                 LET id == NodeId(RevisionRoot(listed[i]), q)
                 IN  /\ id # NoId /\ IdIsAncestor(id, NodeId(Youngest, p))
                     /\ NodeCreatedRev(RevisionRoot(listed[i]), q) = listed[i]

\* The search by date finds a revision of that date if there is one.
DatedRevisionFound ==
  DOMAIN txns = {} =>
    \A dates \in [1 .. Len(revs) -> 1 .. 3] :
      (\A i, j \in DOMAIN dates : i <= j => dates[i] <= dates[j]) =>
        \A tm \in Range(dates) : dates[DatedRevision(dates, tm) + 1] = tm

\* What the library and svnlook tell about revisions is what happened in them.
HistoryExact == ChangedPathsExact /\ LookExact /\ LogSound /\ DatedRevisionFound
============================================================================
