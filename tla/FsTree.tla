------------------------------- MODULE FsTree -------------------------------
(***************************************************************************)
(* The versioned filesystem of libsvn_fs: a growing sequence of immutable  *)
(* revision trees, and transactions whose trees are built by cloning       *)
(* ("bubbling up") node revisions of their base revision.  Modelled are    *)
(* the public tree operations (tree.c), the node operations under them     *)
(* (dag.c), beginning and aborting transactions (txn.c), the whole commit  *)
(* loop with its merge (tree.c), and the deltification that a commit       *)
(* triggers (deltify.c, reps-strings.c).                                   *)
(*                                                                         *)
(* Every action is one trail, that is one Berkeley DB transaction; a trail *)
(* that returns an error has no effect on the tables.  A process runs one  *)
(* transaction; it may die between two trails, and another one may open    *)
(* the transaction again.  File and property contents are abstract: a      *)
(* representation is known by the transaction and the path that wrote it.  *)
(***************************************************************************)
EXTENDS FsIds, SequencesExt

CONSTANTS
  Txns,          \* the transactions that may be begun
  Paths,         \* bound: the paths used, closed under prefixes
  Ops,           \* the kinds of operations clients perform
  PropPaths,     \* the paths whose properties clients change
  NewDirPaths,   \* the paths where clients put new directories
  MaxOps,        \* bound: operations per transaction
  MaxCrashes,    \* bound: process deaths
  InitNodes,     \* the node revisions of the filesystem at the start,
  InitRevs       \* and its revision roots

VARIABLES
  nodes,     \* the `nodes' table: ID -> node revision
  revs,      \* the `revisions' table: record i is the root of revision i-1
  txns,      \* the `transactions' table: name -> [root, base] ID's
  pc,        \* where each transaction's process is
  youngish,  \* local variable youngish_rev of svn_fs_commit_txn
  newRev,    \* the revision record made by the transaction, 0 if none
  result,    \* the last error svn_fs_commit_txn or an operation returned
  editing,   \* the node the open window handler will finish, or NoId
  delta,     \* `representations' table: key -> key it is a delta against
  ops,       \* operations performed so far, for the bound MaxOps
  crashes,   \* process deaths so far, for the bound MaxCrashes
  mine,      \* history: what the transaction's operations put at each path
  copied     \* history: the paths at or under a destination of svn_fs_copy

vars == <<nodes, revs, txns, pc, youngish, newRev, result, editing, delta,
          ops, crashes, mine, copied>>

NoRep == <<>>
Mutable == 0         \* the revision field of a mutable node revision is empty

Put(f, k, v) == [x \in DOMAIN f \cup {k} |-> IF x = k THEN v ELSE f[x]]
Drop(f, S) == [x \in DOMAIN f \ S |-> f[x]]

-----------------------------------------------------------------------------
(* Reading trees (dag.c, tree.c). *)

IsMutable(N, id) == N[id].rev = Mutable
IsDir(N, id) == N[id].kind = "dir"

\* svn_fs__dag_open.
Entry(N, dir, name) ==
  IF dir # NoId /\ IsDir(N, dir) /\ name \in DOMAIN N[dir].entries
  THEN N[dir].entries[name] ELSE NoId

\* open_path: the node at a path below a root, NoId if there is none.
RECURSIVE OpenPath(_, _, _)
OpenPath(N, root, path) ==
  IF path = <<>> \/ root = NoId THEN root
  ELSE OpenPath(N, Entry(N, root, Head(path)), Tail(path))

\* What a root shows at a path: which node it is, its kind, properties and
\* text.  Directory entries show as the paths below.
Absent == <<>>
TreeOf(N, root) ==
  [p \in Paths |->
    LET id == OpenPath(N, root, p)
    IN  IF id = NoId THEN Absent
        ELSE <<id[1], N[id].kind, N[id].prop, N[id].data>>]

\* The mutable node revisions at or below a path, reached through mutable
\* ones: what svn_fs__dag_delete_if_mutable and stabilize_node visit.
MutableBelow(N, root, path) ==
  {OpenPath(N, root, p) : p \in
    {p \in Paths :
      /\ IsPrefix(path, p)
      /\ \A n \in Len(path)..Len(p) :
           LET id == OpenPath(N, root, SubSeq(p, 1, n))
           IN  id # NoId /\ IsMutable(N, id)}}

-----------------------------------------------------------------------------
(* Changing the tree of one transaction.  A tree is [nodes, root, base]. *)

TreeIn(t) == [nodes |-> nodes, root |-> txns[t].root, base |-> txns[t].base]

\* set_entry, in a directory that is mutable.
SetEntry(N, dir, name, id) ==
  [N EXCEPT ![dir].entries = Put(@, name, id)]

RemoveEntry(N, dir, name) == [N EXCEPT ![dir].entries = Drop(@, {name})]

\* svn_fs__new_successor_id looks at all the keys in the table, those of
\* other transactions included.
SuccessorId(N, id) == NewSuccessorId(DOMAIN N, id)

\* svn_fs__create_successor: a mutable copy of a node revision.
AddSuccessor(N, id) ==
  Put(N, SuccessorId(N, id), [N[id] EXCEPT !.rev = Mutable])

\* svn_fs__dag_clone_root.
CloneRoot(f) ==
  IF f.root # f.base THEN f
  ELSE [f EXCEPT !.nodes = AddSuccessor(f.nodes, f.base),
                 !.root = SuccessorId(f.nodes, f.base)]

\* svn_fs__dag_clone_child, of the last component of a path.
CloneChild(f, path) ==
  LET dir   == OpenPath(f.nodes, f.root, Front(path))
      child == Entry(f.nodes, dir, Last(path))
      clone == SuccessorId(f.nodes, child)
  IN  IF IsMutable(f.nodes, child) THEN f
      ELSE [f EXCEPT !.nodes =
              SetEntry(AddSuccessor(f.nodes, child), dir, Last(path), clone)]

\* make_path_mutable: stops at the lowest node that is mutable already.
RECURSIVE MakePathMutable(_, _)
MakePathMutable(f, path) ==
  IF IsMutable(f.nodes, OpenPath(f.nodes, f.root, path)) THEN f
  ELSE IF path = <<>> THEN CloneRoot(f)
  ELSE CloneChild(MakePathMutable(f, Front(path)), path)

\* A new node revision entered at a path whose parent is mutable: the end
\* of make_entry and of svn_fs__dag_copy.
AddNode(f, path, node) ==
  LET dir == OpenPath(f.nodes, f.root, Front(path))
      id  == NewNodeId(DOMAIN f.nodes)
  IN  [f EXCEPT !.nodes = SetEntry(Put(f.nodes, id, node),
                                   dir, Last(path), id)]

\* Mutant of DeleteIfMutable: no recursion into the directory's entries.
DeleteIfMutable_TopOnly(N, root, path) ==
  Drop(N, MutableBelow(N, root, path) \cap {OpenPath(N, root, path)})

\* svn_fs__dag_delete_if_mutable: mutable nodes leave the table, children
\* first; the walk stops at immutable ones.
DeleteIfMutable(N, root, path) == Drop(N, MutableBelow(N, root, path))

\* delete_entry: the entry goes, with the mutable nodes below it.
DeleteEntry(f, path) ==
  LET dir == OpenPath(f.nodes, f.root, Front(path))
  IN  [f EXCEPT !.nodes =
         RemoveEntry(DeleteIfMutable(f.nodes, f.root, path),
                     dir, Last(path))]

\* The node revision that make_entry stores.
EmptyNode(kind) ==
  [kind |-> kind, rev |-> Mutable, prop |-> NoRep, data |-> NoRep,
   edit |-> NoRep, entries |-> [n \in {} |-> NoId]]

-----------------------------------------------------------------------------
(* merge (): bring the changes between ancestor and source into target. The *)
(* outcome is "ok", "conflict" or "immutable" (SVN_ERR_FS_NOT_MUTABLE).     *)

Outcome(N, what) == [nodes |-> N, outcome |-> what]

\* Re-ID'ing after a merge: the target's node revision becomes a successor
\* of the source, under that name in its parent; its old record is deleted.
ReIdentified(N, target, source) ==
  Drop(Put(N, SuccessorId(N, source), N[target]), {target})

IsReIdentified(ancestor, source, target) ==
  IdDistance(ancestor, target) = 1 /\ IdDistance(ancestor, source) >= 1

\* Mutant of TakesSource: the source always wins.
TakesSource_Always(a, s, t) == TRUE

\* An entry present in all three directories, changed in the source, takes
\* the source's value when the target did not change it, or when the
\* source's is a descendant of the target's.
TakesSource(a, s, t) == a = t \/ (IdIsAncestor(a, t) /\ IdIsAncestor(t, s))

RECURSIVE Merge(_, _, _, _)

\* Three directories under one name that differ pairwise: recurse, then
\* give the target's node a successor ID of the source's.
MergeChild(N, dir, name, target, source, ancestor) ==
  LET merged == Merge(N, target, source, ancestor)
      new    == SuccessorId(merged.nodes, source)
  IN  IF merged.outcome # "ok" \/ ~IsReIdentified(ancestor, source, target)
      THEN merged
      ELSE IF ~IsMutable(merged.nodes, dir) THEN Outcome(N, "immutable")
      ELSE Outcome(SetEntry(ReIdentified(merged.nodes, target, source),
                            dir, name, new), "ok")

\* The body of merge ()'s two loops over entry names.
MergeEntry(sofar, name, target, source, ancestor) ==
  LET N == sofar.nodes
      a == Entry(N, ancestor, name)
      s == Entry(N, source, name)
      t == Entry(N, target, name)
      Changed(M) == IF IsMutable(N, target) THEN Outcome(M, "ok")
                                            ELSE Outcome(N, "immutable")
      TakeSource == Changed(SetEntry(N, target, name, s))
      Conflict   == Outcome(N, "conflict")
  IN
  CASE sofar.outcome # "ok" -> sofar
    [] sofar.outcome = "ok" /\ NoId \notin {a, s, t} ->
         IF a = s THEN sofar
         ELSE IF TakesSource(a, s, t) THEN TakeSource
         ELSE IF IdIsAncestor(s, t) THEN sofar
         ELSE IF {a, s, t} \subseteq {id \in DOMAIN N : IsDir(N, id)}
         THEN MergeChild(N, target, name, t, s, a)
         ELSE Conflict
    [] sofar.outcome = "ok" /\ a # NoId /\ s # NoId /\ t = NoId ->
         IF a = s THEN sofar ELSE Conflict
    [] sofar.outcome = "ok" /\ a # NoId /\ s = NoId /\ t # NoId ->
         IF t = a THEN Changed(RemoveEntry(N, target, name))
         ELSE IF IdDistance(t, a) # -1 THEN Conflict ELSE sofar
    [] sofar.outcome = "ok" /\ a = NoId /\ s # NoId ->
         IF t = NoId THEN TakeSource
         ELSE IF IdIsAncestor(s, t) THEN sofar ELSE Conflict
    [] OTHER -> sofar

Merge(N, target, source, ancestor) ==
  LET inAncestor == DOMAIN N[ancestor].entries
      inSource   == DOMAIN N[source].entries
      names      == SetToSeq(inAncestor) \o SetToSeq(inSource \ inAncestor)
  IN  IF ancestor = source \/ source = target THEN Outcome(N, "ok")
      ELSE IF \E id \in {target, source, ancestor} : ~IsDir(N, id)
      THEN Outcome(N, "conflict")
      ELSE IF N[target].prop # N[ancestor].prop THEN Outcome(N, "conflict")
      ELSE FoldLeft(LAMBDA sofar, name :
                      MergeEntry(sofar, name, target, source, ancestor),
                    Outcome(N, "ok"), names)

\* txn_body_merge: the nodes, root and outcome of merging the root `source'
\* into the transaction's tree f.
MergeTxn(f, source) ==
  LET merged == Merge(f.nodes, f.root, source, f.base)
  IN  IF f.root = f.base
      THEN [nodes |-> f.nodes, root |-> source, outcome |-> "ok"]
      ELSE IF merged.outcome = "ok" /\ IsReIdentified(f.base, source, f.root)
      THEN [nodes |-> ReIdentified(merged.nodes, f.root, source),
            root |-> SuccessorId(merged.nodes, source),
            outcome |-> "ok"]
      ELSE [nodes |-> merged.nodes, root |-> f.root,
            outcome |-> merged.outcome]

-----------------------------------------------------------------------------
Init ==
  /\ nodes = InitNodes
  /\ revs = InitRevs
  /\ txns = [t \in {} |-> NoId]
  /\ pc = [t \in Txns |-> "none"]
  /\ youngish = [t \in Txns |-> 0]
  /\ newRev = [t \in Txns |-> 0]
  /\ result = [t \in Txns |-> "ok"]
  /\ editing = [t \in Txns |-> NoId]
  /\ delta = [k \in {} |-> NoRep]
  /\ ops = [t \in Txns |-> 0]
  /\ crashes = 0
  /\ mine = [t \in Txns |-> [p \in {} |-> Absent]]
  /\ copied = [t \in Txns |-> {}]

\* svn_fs_begin_txn, based on any revision.
Begin(t, rev) ==
  /\ pc[t] = "none"
  /\ pc' = [pc EXCEPT ![t] = "open"]
  /\ txns' = Put(txns, t, [root |-> revs[rev], base |-> revs[rev]])
  /\ UNCHANGED <<nodes, revs, youngish, newRev, result, editing, delta, ops,
                 crashes, mine, copied>>

-----------------------------------------------------------------------------
(* The operations on a transaction's tree (tree.c). *)

\* An operation of kind `op' that a client may perform now.
MayDo(t, op) ==
  /\ pc[t] = "open"
  /\ op \in Ops
  /\ ops[t] < MaxOps
  /\ ops' = [ops EXCEPT ![t] = @ + 1]

\* The operation succeeds and leaves the tree f.
Changes(t, f) ==
  LET before == TreeOf(nodes, txns[t].root)
      after  == TreeOf(f.nodes, f.root)
      touched == {p \in Paths : before[p] # after[p]}
  IN  /\ nodes' = f.nodes
      /\ txns' = [txns EXCEPT ![t].root = f.root]
      /\ mine' = [mine EXCEPT ![t] =
                    [p \in DOMAIN @ \cup touched |->
                       IF p \in touched THEN after[p] ELSE @[p]]]
      /\ UNCHANGED <<revs, pc, youngish, newRev, delta, crashes>>

AtPath(t, p) == OpenPath(nodes, txns[t].root, p)

ParentIsDir(t, p) ==
  /\ p # <<>>
  /\ AtPath(t, Front(p)) # NoId
  /\ IsDir(nodes, AtPath(t, Front(p)))

\* svn_fs_make_file and svn_fs_make_dir.
Make(t, p, kind) ==
  /\ MayDo(t, "make")
  /\ ParentIsDir(t, p)
  /\ AtPath(t, p) = NoId
  /\ kind = "dir" => p \in NewDirPaths
  /\ Changes(t, AddNode(MakePathMutable(TreeIn(t), Front(p)),
                        p, EmptyNode(kind)))
  /\ UNCHANGED <<editing, result, copied>>

\* svn_fs_delete, which refuses a directory with entries, and
\* svn_fs_delete_tree, which does not.
Delete(t, p, deleteTree) ==
  /\ MayDo(t, "delete")
  /\ p # <<>>
  /\ AtPath(t, p) # NoId
  /\ deleteTree \/ DOMAIN nodes[AtPath(t, p)].entries = {}
  /\ Changes(t, DeleteEntry(MakePathMutable(TreeIn(t), Front(p)), p))
  /\ UNCHANGED <<editing, result, copied>>

\* Mutant of ChangeProp: the path is not made mutable first.
ChangeProp_InPlace(t, p) ==
  /\ MayDo(t, "prop")
  /\ p \in PropPaths
  /\ AtPath(t, p) # NoId
  /\ Changes(t, [TreeIn(t) EXCEPT !.nodes[AtPath(t, p)].prop = <<t, p>>])
  /\ UNCHANGED <<editing, result, copied>>

\* svn_fs_change_node_prop: properties are rewritten in a representation of
\* the transaction's own.
ChangeProp(t, p) ==
  /\ MayDo(t, "prop")
  /\ p \in PropPaths
  /\ AtPath(t, p) # NoId
  /\ LET f  == MakePathMutable(TreeIn(t), p)
         id == OpenPath(f.nodes, f.root, p)
     IN  Changes(t, [f EXCEPT !.nodes[id].prop = <<t, p>>])
  /\ UNCHANGED <<editing, result, copied>>

\* Copied nodes stay within the bound Paths.
WithinPaths(N, root) ==
  \A p \in Paths :
    LET id == OpenPath(N, root, p)
    IN  id # NoId => \A n \in DOMAIN N[id].entries : Append(p, n) \in Paths

\* The end of svn_fs_copy and svn_fs_link: the tree f has the node at `from'
\* in a revision entered at `to'.  An entry already there is replaced; its
\* node stays in the table.
Copied(t, op, source, to, f) ==
  /\ MayDo(t, op)
  /\ source # NoId
  /\ ParentIsDir(t, to)
  /\ IsDir(nodes, source) => to \in NewDirPaths
  /\ WithinPaths(f.nodes, f.root)
  /\ Changes(t, f)
  /\ copied' = [copied EXCEPT ![t] = @ \cup {p \in Paths : IsPrefix(to, p)}]
  /\ UNCHANGED <<editing, result>>

\* svn_fs_copy: a new node with the contents of the old one.
Copy(t, rev, from, to) ==
  LET source == OpenPath(nodes, revs[rev], from)
  IN  Copied(t, "copy", source, to,
             AddNode(MakePathMutable(TreeIn(t), Front(to)), to,
                     [nodes[source] EXCEPT !.rev = Mutable]))

\* svn_fs_link: the old node itself.
Link(t, rev, from, to) ==
  LET source == OpenPath(nodes, revs[rev], from)
      f == MakePathMutable(TreeIn(t), Front(to))
      dir == OpenPath(f.nodes, f.root, Front(to))
  IN  Copied(t, "link", source, to,
             [f EXCEPT !.nodes = SetEntry(@, dir, Last(to), source)])

\* svn_fs_apply_textdelta and svn_fs__dag_get_edit_stream: the file gets an
\* EDIT-DATA-KEY.  If it has one already the new key is appended after it
\* and put_node_revision rejects the record.
ApplyTextdelta(t, p) ==
  /\ MayDo(t, "edit")
  /\ AtPath(t, p) # NoId
  /\ ~IsDir(nodes, AtPath(t, p))
  /\ LET f  == MakePathMutable(TreeIn(t), p)
         id == OpenPath(f.nodes, f.root, p)
     IN  IF f.nodes[id].edit = NoRep
         THEN /\ Changes(t, [f EXCEPT !.nodes[id].edit = <<t, p>>])
              /\ editing' = [editing EXCEPT ![t] = id]
              /\ UNCHANGED result
         ELSE /\ result' = [result EXCEPT ![t] = "corrupt"]
              /\ UNCHANGED <<nodes, txns, mine, editing, revs, pc, youngish,
                             newRev, delta, crashes>>
  /\ UNCHANGED copied

\* window_consumer at the end of the text and svn_fs__dag_finalize_edits:
\* the edited representation becomes the text.  The handler kept the node's
\* ID, not its path.
FinishEdit(t) ==
  LET id == editing[t]
  IN  /\ pc[t] = "open"
      /\ id # NoId
      /\ editing' = [editing EXCEPT ![t] = NoId]
      /\ IF /\ id \in DOMAIN nodes
            /\ IsMutable(nodes, id)
            /\ nodes[id].edit # NoRep
         THEN Changes(t, [TreeIn(t) EXCEPT
                            !.nodes[id].data = nodes[id].edit,
                            !.nodes[id].edit = NoRep])
         ELSE UNCHANGED <<nodes, txns, mine, revs, pc, youngish, newRev,
                          delta, crashes>>
      /\ UNCHANGED <<ops, result, copied>>

\* svn_fs_abort_txn.
Abort(t) ==
  /\ pc[t] = "open"
  /\ "abort" \in Ops
  /\ pc' = [pc EXCEPT ![t] = "aborted"]
  /\ nodes' = DeleteIfMutable(nodes, txns[t].root, <<>>)
  /\ txns' = Drop(txns, {t})
  /\ editing' = [editing EXCEPT ![t] = NoId]
  /\ UNCHANGED <<revs, youngish, newRev, result, delta, ops, crashes, mine,
                 copied>>

-----------------------------------------------------------------------------
(* svn_fs_commit_txn: a loop of separate trails. *)

\* The call.
CommitTxn(t) ==
  /\ pc[t] = "open"
  /\ pc' = [pc EXCEPT ![t] = "youngest"]
  /\ result' = [result EXCEPT ![t] = "ok"]
  /\ UNCHANGED <<nodes, revs, txns, youngish, newRev, editing, delta, ops,
                 crashes, mine, copied>>

\* Mutant of GetYoungest: a later round keeps the revision of the first.
GetYoungest_Stale(t) ==
  /\ pc[t] = "youngest"
  /\ pc' = [pc EXCEPT ![t] = "merge"]
  /\ youngish' = [youngish EXCEPT ![t] = IF @ = 0 THEN Len(revs) ELSE @]
  /\ UNCHANGED <<nodes, revs, txns, newRev, result, editing, delta, ops,
                 crashes, mine, copied>>

\* The youngest revision and its root, read ahead of the merge.
GetYoungest(t) ==
  /\ pc[t] = "youngest"
  /\ pc' = [pc EXCEPT ![t] = "merge"]
  /\ youngish' = [youngish EXCEPT ![t] = Len(revs)]
  /\ UNCHANGED <<nodes, revs, txns, newRev, result, editing, delta, ops,
                 crashes, mine, copied>>

\* The call returns an error; its caller may change the transaction and try
\* again, or abort it.
Fails(t, error) ==
  /\ pc' = [pc EXCEPT ![t] = "open"]
  /\ result' = [result EXCEPT ![t] = error]
  /\ UNCHANGED <<nodes, revs, txns, newRev, delta>>

\* The trail of txn_body_merge.
MergeTrail(t) ==
  LET source == revs[youngish[t]]
      merged == MergeTxn(TreeIn(t), source)
  IN  /\ pc[t] = "merge"
      /\ \/ /\ merged.outcome = "ok"
            /\ pc' = [pc EXCEPT ![t] = "commit"]
            /\ nodes' = merged.nodes
            /\ txns' = [txns EXCEPT ![t] =
                          [root |-> merged.root, base |-> source]]
            /\ UNCHANGED <<revs, newRev, result, delta>>
         \/ /\ merged.outcome # "ok"
            /\ Fails(t, merged.outcome)
      /\ UNCHANGED <<youngish, editing, ops, crashes, mine, copied>>

\* Mutant of DeltaPairs: a representation that did not change is handed
\* over as well.
DeltaPairs_EvenEqual(N, id) ==
  LET old == IdPredecessor(id)
  IN  IF old = NoId THEN {}
      ELSE {pair \in {<<<<"prop", N[old].prop>>, <<"prop", N[id].prop>>>>,
                      <<<<"data", N[old].data>>, <<"data", N[id].data>>>>} :
              /\ pair[1][2] # NoRep
              /\ pair[2][2] # NoRep}

\* svn_fs__stable_node: the representations <<target, source>> that
\* deltify () hands to svn_fs__rep_deltify for a node revision made stable.
DeltaPairs(N, id) ==
  LET old == IdPredecessor(id)
  IN  IF old = NoId THEN {}
      ELSE {pair \in {<<<<"prop", N[old].prop>>, <<"prop", N[id].prop>>>>,
                      <<<<"data", N[old].data>>, <<"data", N[id].data>>>>} :
              /\ pair[1] # pair[2]
              /\ pair[1][2] # NoRep
              /\ pair[2][2] # NoRep}

\* svn_fs__rep_deltify stores the target as a delta against the source when
\* that saves space, which depends on the texts.
Deltify(pairs) ==
  \E chosen \in SUBSET pairs :
    /\ \A x, y \in chosen : x[1] = y[1] => x = y
    /\ delta' = [k \in DOMAIN delta \cup {x[1] : x \in chosen} |->
                   IF \E x \in chosen : x[1] = k
                   THEN (CHOOSE x \in chosen : x[1] = k)[2]
                   ELSE delta[k]]

\* Mutant of UpToDate: the test is left out.
UpToDate_Always(t) == TRUE

\* txn_body_commit commits when the transaction's base is the root of the
\* youngest revision: then everything has been merged.
UpToDate(t) == revs[Len(revs)] = txns[t].base

\* Mutant of NewRevision: the number of the youngest revision.
NewRevision_Youngest == Len(revs)

\* svn_fs__put_rev appends a record: the new revision is its number.
NewRevision == Len(revs) + 1

\* The trail of txn_body_commit.  svn_fs__dag_commit_txn adds the revision
\* record, then stabilize_node makes every mutable node immutable, unless
\* one has an unfinished edit or a predecessor that is not in the table.
CommitTrail(t) ==
  LET fresh == MutableBelow(nodes, txns[t].root, <<>>)
      older == {IdPredecessor(id) : id \in fresh} \ {NoId}
  IN  /\ pc[t] = "commit"
      /\ \/ /\ ~UpToDate(t)
            /\ pc' = [pc EXCEPT ![t] = "out-of-date"]
            /\ UNCHANGED <<nodes, revs, txns, newRev, result, delta>>
         \/ /\ UpToDate(t)
            /\ \E id \in fresh : nodes[id].edit # NoRep
            /\ Fails(t, "unfinished")
         \/ /\ UpToDate(t)
            /\ ~(older \subseteq DOMAIN nodes)
            /\ Fails(t, "dangling")
         \/ /\ UpToDate(t)
            /\ \A id \in fresh : nodes[id].edit = NoRep
            /\ older \subseteq DOMAIN nodes
            /\ pc' = [pc EXCEPT ![t] = "done"]
            /\ revs' = Append(revs, txns[t].root)
            /\ newRev' = [newRev EXCEPT ![t] = NewRevision]
            /\ nodes' = [id \in DOMAIN nodes |->
                           IF id \in fresh
                           THEN [nodes[id] EXCEPT !.rev = NewRevision]
                           ELSE nodes[id]]
            /\ txns' = Drop(txns, {t})
            /\ Deltify(UNION {DeltaPairs(nodes, id) : id \in fresh})
            /\ UNCHANGED result
      /\ UNCHANGED <<youngish, editing, ops, crashes, mine, copied>>

\* Mutant of Recheck: the test is the wrong way round.
Recheck_Swapped(t) ==
  /\ pc[t] = "out-of-date"
  /\ \/ /\ youngish[t] # Len(revs)
        /\ Fails(t, "out-of-date")
     \/ /\ youngish[t] = Len(revs)
        /\ pc' = [pc EXCEPT ![t] = "youngest"]
        /\ UNCHANGED <<nodes, revs, txns, newRev, result, delta>>
  /\ UNCHANGED <<youngish, editing, ops, crashes, mine, copied>>

\* The trail said SVN_ERR_TXN_OUT_OF_DATE: go round again if there is a new
\* revision, else return that error.
Recheck(t) ==
  /\ pc[t] = "out-of-date"
  /\ \/ /\ youngish[t] = Len(revs)
        /\ Fails(t, "out-of-date")
     \/ /\ youngish[t] # Len(revs)
        /\ pc' = [pc EXCEPT ![t] = "youngest"]
        /\ UNCHANGED <<nodes, revs, txns, newRev, result, delta>>
  /\ UNCHANGED <<youngish, editing, ops, crashes, mine, copied>>

\* The process dies; another opens the transaction (svn_fs_open_txn).
Crash(t) ==
  /\ crashes < MaxCrashes
  /\ pc[t] \notin {"none", "done", "aborted"}
  /\ crashes' = crashes + 1
  /\ pc' = [pc EXCEPT ![t] = "open"]
  /\ editing' = [editing EXCEPT ![t] = NoId]
  /\ result' = [result EXCEPT ![t] = "ok"]
  /\ UNCHANGED <<nodes, revs, txns, youngish, newRev, delta, ops, mine,
                 copied>>

CommitStep(t) ==
  GetYoungest(t) \/ MergeTrail(t) \/ CommitTrail(t) \/ Recheck(t)

ClientStep(t) ==
  \/ \E p \in Paths :
       \/ Make(t, p, "file")
       \/ Make(t, p, "dir")
       \/ Delete(t, p, FALSE)
       \/ Delete(t, p, TRUE)
       \/ ChangeProp(t, p)
       \/ ApplyTextdelta(t, p)
  \/ \E rev \in 1..Len(revs), from, to \in Paths :
       Copy(t, rev, from, to) \/ Link(t, rev, from, to)
  \/ FinishEdit(t)
  \/ Abort(t)
  \/ CommitTxn(t)

Next ==
  \E t \in Txns :
    \/ \E rev \in 1..Len(revs) : Begin(t, rev)
    \/ ClientStep(t)
    \/ CommitStep(t)
    \/ Crash(t)

Spec == Init /\ [][Next]_vars

\* A process that is in svn_fs_commit_txn goes on with it, which CommitStep
\* always can and always changes pc; clients owe nothing.
PcValues == {"none", "open", "youngest", "merge", "commit", "out-of-date", "done", "aborted"}
GoesOn(t) ==
  /\ pc[t] \in {"youngest", "merge", "commit", "out-of-date"}
  /\ \E s \in PcValues \ {pc[t]} : pc' = [pc EXCEPT ![t] = s]
FairSpec == Spec /\ \A t \in Txns : WF_pc(GoesOn(t))

-----------------------------------------------------------------------------
(* Properties *)

Errors == {"ok", "conflict", "immutable", "unfinished", "dangling",
           "out-of-date", "corrupt"}

Reps == {NoRep} \cup {<<k, p>> : k \in Txns \cup {"import"}, p \in Paths}

\* Every variable has its type; a transaction has a record while it is open.
TypeOK ==
  /\ \A id \in DOMAIN nodes :
       /\ IsId(id)
       /\ nodes[id].kind \in {"file", "dir"}
       /\ nodes[id].rev \in 0..Len(revs)
       /\ {nodes[id].prop, nodes[id].data, nodes[id].edit} \subseteq Reps
  /\ DOMAIN txns = {t \in Txns : pc[t] \notin {"none", "done", "aborted"}}
  /\ \A t \in Txns :
       /\ pc[t] \in {"none", "open", "youngest", "merge", "commit",
                     "out-of-date", "done", "aborted"}
       /\ youngish[t] \in 0..Len(revs)
       /\ newRev[t] \in 0..Len(revs)
       /\ result[t] \in Errors
       /\ ops[t] \in 0..MaxOps
       /\ DOMAIN mine[t] \subseteq Paths
       /\ copied[t] \subseteq Paths
  /\ crashes \in 0..MaxCrashes

\* No entry, revision or transaction refers to a node revision that is not
\* in the table: whatever merges, re-ID's and aborts delete, every ID that
\* svn_fs__dag_get_node is given is there (SVN_ERR_FS_ID_NOT_FOUND).
NoDangling ==
  /\ \A id \in DOMAIN nodes : \A n \in DOMAIN nodes[id].entries :
       nodes[id].entries[n] \in DOMAIN nodes
  /\ \A i \in 1..Len(revs) : revs[i] \in DOMAIN nodes
  /\ \A t \in DOMAIN txns : {txns[t].root, txns[t].base} \subseteq DOMAIN nodes

\* A node revision that has its revision number never changes again and
\* never leaves the table, whichever transaction edits, merges or aborts.
CommittedImmutable ==
  [][\A id \in DOMAIN nodes :
       ~IsMutable(nodes, id) =>
         id \in DOMAIN nodes' /\ nodes'[id] = nodes[id]]_vars

\* A mutable node revision is in one place of one transaction's tree, below
\* mutable directories: make_path_mutable stops at the lowest mutable node,
\* and delete_if_mutable deletes without asking who else refers to it.
MutableNodesPrivate ==
  \A t, u \in DOMAIN txns : \A p, q \in Paths :
    LET id == AtPath(t, p)
    IN  id # NoId /\ IsMutable(nodes, id) =>
          /\ id = AtPath(u, q) => t = u /\ p = q
          /\ p # <<>> => IsMutable(nodes, AtPath(t, Front(p)))

\* Aborting, deleting and merging leave no mutable node behind that no open
\* transaction can reach (unless svn_fs_copy replaced it).
NoOrphans ==
  \A id \in DOMAIN nodes :
    IsMutable(nodes, id) =>
      \E t \in DOMAIN txns, p \in Paths : AtPath(t, p) = id

\* The table of node revisions holds what is referred to and, of what can
\* still change, only what one transaction owns.
NodesOwned == TypeOK /\ NoDangling /\ NoOrphans /\ MutableNodesPrivate

\* svn_fs_commit_txn fails only for a conflict or because a file is still
\* being edited.  In particular the loop's last resort, returning
\* SVN_ERR_TXN_OUT_OF_DATE although no new revision came, never happens,
\* and deltifying never meets a missing predecessor.
CommitFailsOnlyInConflict ==
  \A t \in Txns : result[t] \notin {"out-of-date", "dangling", "immutable"}

\* Every representation that is a delta leads to one that is a fulltext.
FulltextReachable ==
  \A key \in DOMAIN delta :
    LET n == Cardinality(DOMAIN delta)
        Chain[i \in 0..n] ==
          IF i = 0 THEN key
          ELSE IF Chain[i - 1] \in DOMAIN delta THEN delta[Chain[i - 1]]
          ELSE Chain[i - 1]
    IN  Chain[n] \notin DOMAIN delta

\* A call of svn_fs_commit_txn returns, though others commit meanwhile.
CommitReturns ==
  \A t \in Txns : pc[t] = "youngest" ~> pc[t] \in {"open", "done"}

-----------------------------------------------------------------------------
(* FsTree implements FsCommit. *)

Abs == INSTANCE FsCommit WITH
  Content <- Nat \X {"file", "dir"} \X Reps \X Reps,
  FirstRevs <- [i \in 1..Len(InitRevs) |-> TreeOf(InitNodes, InitRevs[i])],
  revs <- [i \in 1..Len(revs) |-> TreeOf(nodes, revs[i])],
  state <- [t \in Txns |-> IF t \in DOMAIN txns THEN "open" ELSE pc[t]],
  base <- [t \in Txns |-> IF t \in DOMAIN txns THEN TreeOf(nodes, txns[t].base)
                          ELSE [p \in Paths |-> Absent]],
  work <- [t \in Txns |-> IF t \in DOMAIN txns THEN TreeOf(nodes, txns[t].root)
                          ELSE [p \in Paths |-> Absent]]

\* The steps of FsCommit, with the trees that FsTree has arrived at as the
\* witnesses of its existential quantifiers.
AbsStep ==
  \E t \in Txns :
    \/ \E rev \in 1..Len(revs) : Abs!Begin(t, rev)
    \/ t \in DOMAIN txns'
       /\ \/ Abs!Edit(t, TreeOf(nodes, txns[t].root)', copied'[t])
          \/ pc[t] = "merge" /\ Abs!Merge(t, youngish[t],
                                           TreeOf(nodes, txns[t].root)')
    \/ Abs!Commit(t)
    \/ Abs!Abort(t)

\* Cloning, re-ID'ing, the trails of the commit loop, crashes and failed
\* calls are invisible: each step of this filesystem is a step that FsCommit
\* allows, or changes nothing that a client can see.
ImplementsFsCommit == Abs!Init /\ [][AbsStep]_(Abs!vars)

\* FsCommit's promises, about this filesystem's trees.
NoLostUpdate == Abs!NoLostUpdate
OwnChangesKept == Abs!OwnChangesKept
=============================================================================
