------------------------------ MODULE RaCommit ------------------------------
(***************************************************************************)
(* Clients commit to one repository, each through libsvn_ra_local or       *)
(* through libsvn_ra_dav and mod_dav_svn.  The client library drives the   *)
(* commit editor of its access layer (svn_client__do_commit); the calls of *)
(* several clients interleave, hooks fail, processes and connections die.  *)
(*                                                                         *)
(* The filesystem is the one of FsTree, seen through the calls made to it: *)
(* a tree maps each path to a node, the nodes that a transaction has       *)
(* changed are mutable, and svn_fs_commit_txn merges what was committed    *)
(* since the transaction began.                                            *)
(***************************************************************************)
EXTENDS Integers, Sequences, FiniteSets, Functions, SequencesExt

CONSTANTS
  Clients,      \* the users, each with a working copy of the whole tree
  Dav,          \* those that use ra_dav; the others use ra_local
  Files,        \* paths of files: sequences of names
  SubDirs,      \* paths of directories, without the root
  Ops,          \* what a user may do to a path before committing
  MaxItems,     \* bound: paths changed for one commit
  MaxCommits,   \* bound: commits attempted, by all clients together
  MaxFaults,    \* bound: failing hooks, failing stores, dying clients
  DieInBump     \* may a client die between storing the new version URL's
                \* and bumping the revisions of what it committed?

ASSUME DavAssumption == Dav \subseteq Clients
ASSUME PathsAssumption == \A p \in Files \cup SubDirs : p # <<>>

Root == <<>>
Items == Files \cup SubDirs
Paths == Items \cup {Root}
Dirs == SubDirs \cup {Root}
AtOrBelow(d, p) == IsPrefix(d, p)
Above(p) == {d \in Dirs : IsStrictPrefix(d, p)}

NoNode == [kind |-> "none"]
NoText == <<"none">>
Garbled == <<"garbled">>
NoUrl == <<>>
NoTxn == 0
Kind(p) == IF p \in Files THEN "file" ELSE "dir"

VARIABLES
  revs,     \* the trees of the revisions; item i is revision i
  made,     \* for each revision, the commit that made it
  txns,     \* the transactions table: name -> [tree, base, log, owner]
  nextTxn,
  wc,       \* client -> [rev, text, url]: its working copy's entries
  edit,     \* client -> its commit in progress, NoEdit if none
  result,   \* client -> how its last commit ended: "ok"; "error", in the edit;
            \* "aborted", at the edit's end; "late", after the commit; "died"
  commits,  \* client -> commits attempted
  faults

vars == <<revs, made, txns, nextTxn, wc, edit, result, commits, faults>>

\* The batons of a commit: the items, the stage it has reached and the last
\* one there will be, the calls of the editor still to be made, the
\* transaction (that of the activity, with ra_dav), the youngest revision when
\* it was asked for, the resources with their version URL's (NoUrl for a
\* created one), those with a working resource, the valid targets, and the new
\* revision.
NoEdit == [items |-> <<>>, stage |-> "idle", last |-> "process_committed", calls |-> <<>>,
           txn |-> NoTxn, youngest |-> 0, res |-> <<>>, wr |-> {}, targets |-> {}, rev |-> 0]

----------------------------------------------------------------------------
(* The filesystem's operations on the tree of a transaction (see FsTree) *)

Node(kind, born, cr, val) ==
  [kind |-> kind, born |-> born, cr |-> cr, pred |-> 0, val |-> val]

Youngest == Len(revs)
Id(n) == <<n.born, n.cr>>

\* A node becomes mutable as a successor of what it was.
Clone(n) == IF n.cr = 0 THEN n ELSE [n EXCEPT !.cr = 0, !.pred = n.cr]

\* The directories above a changed path are cloned.
BubbleUp(tree, p) ==
  [q \in Paths |-> IF q \in Above(p) THEN Clone(tree[q]) ELSE tree[q]]

Put(tree, p, n) == [BubbleUp(tree, p) EXCEPT ![p] = n]

DeleteTree(tree, p) ==
  [q \in Paths |-> IF AtOrBelow(p, q) THEN NoNode ELSE BubbleUp(tree, p)[q]]

IsDir(n) == n.kind = "dir"
MayMake(tree, p) == tree[p] = NoNode /\ IsDir(tree[Front(p)])

\* merge (): which side the merged tree takes at each path.
Mode(a, s, t) ==
  LET mode[p \in Paths] ==
        CASE p # Root /\ mode[Front(p)] # "merge" -> mode[Front(p)]
          [] (p = Root \/ mode[Front(p)] = "merge") /\ a[p] = s[p] -> "target"
          [] (p = Root \/ mode[Front(p)] = "merge") /\ a[p] # s[p] ->
               CASE t[p] = a[p] -> "source"
                 [] t[p] # a[p] /\ IsDir(a[p]) /\ IsDir(s[p]) /\ IsDir(t[p]) ->
                      IF t[p].val = a[p].val THEN "merge" ELSE "conflict"
                 [] t[p] # a[p] /\ a[p] # NoNode /\ s[p] = NoNode /\ t[p] # NoNode ->
                      IF t[p].born = a[p].born THEN "conflict" ELSE "target"
                 [] t[p] # a[p] /\ a[p] # NoNode /\ s[p] = NoNode /\ t[p] = NoNode -> "target"
                 [] OTHER -> "conflict"
  IN  mode

Conflict(t) ==
  LET mode == Mode(revs[t.base], revs[Youngest], t.tree)
  IN  \E p \in Paths : mode[p] = "conflict"

MergedTree(t) ==
  LET s == revs[Youngest]
      mode == Mode(revs[t.base], s, t.tree)
  IN  [p \in Paths |->
         CASE mode[p] = "source" -> s[p]
           [] mode[p] = "merge" -> [t.tree[p] EXCEPT !.pred = s[p].cr]
           [] OTHER -> t.tree[p]]

\* A transaction's tree as the next revision.
Stable(tree) ==
  [p \in Paths |-> IF tree[p] # NoNode /\ tree[p].cr = 0
                   THEN [tree[p] EXCEPT !.cr = Youngest + 1] ELSE tree[p]]

----------------------------------------------------------------------------
(* The client library: what is committed, and how the editor is driven *)

Call(op, p) == [op |-> op, path |-> p]

\* do_item_commit and the stack of open directories in svn_client__do_commit.
ItemCalls(i, p) ==
  LET file == p \in Files
      op == i[p]
  IN  CASE op = "delete" -> <<Call("delete_entry", p)>>
        [] op = "replace" -> <<Call("delete_entry", p),
                               Call(IF file THEN "add_file" ELSE "add_directory", p)>>
        [] op = "add" -> <<Call(IF file THEN "add_file" ELSE "add_directory", p)>>
        [] op = "copy" -> <<Call("copy_file", p)>>
        [] op = "modify" -> IF file THEN <<Call("open_file", p)>>
                            ELSE <<Call("open_directory", p), Call("change_dir_prop", p)>>

Subpaths(i, d) == {p \in DOMAIN i : IsStrictPrefix(d, p)}

Concat(seqs) == FlattenSeq(SetToSeq(seqs))

\* The calls between opening and closing the root: directories on the way are
\* opened without a revision, texts are sent when all directories are closed.
Drive(i) ==
  LET drive[d \in Dirs] ==
        LET one(p) ==
              CASE p \in Files -> ItemCalls(i, p)
                [] p \in SubDirs /\ p \in DOMAIN i -> ItemCalls(i, p) \o drive[p]
                [] OTHER -> <<Call("open_directory", p)>> \o drive[p]
        IN  Concat({one(p) : p \in {q \in Items : Front(q) = d /\
                                      (q \in DOMAIN i \/ Subpaths(i, q) # {})}})
      texts == {p \in DOMAIN i : p \in Files /\ i[p] \in {"modify", "add", "replace"}}
  IN  drive[Root] \o Concat({<<Call("apply_textdelta", p)>> : p \in texts})

\* The editor's calls.
CommitCalls(i) == <<Call("open_root", Root)>> \o Drive(i)

\* get_commit_editor of the two layers, the edit, and its end.  ra_local begins
\* its transaction in open_root, with the log message; ra_dav makes an activity,
\* and puts the log message on the latest baseline.
After(c, stage) ==
  CASE stage = "youngest" -> "begin_txn"
    [] stage = "begin_txn" -> IF c \in Dav THEN "latest" ELSE "drive"
    [] stage = "latest" -> "apply_log"
    [] stage = "apply_log" -> "drive"
    [] stage = "drive" -> "pre_commit"
    [] stage = "pre_commit" -> "commit_txn"
    [] stage = "commit_txn" -> "post_commit"
    [] stage = "post_commit" -> IF c \in Dav THEN "merge_response" ELSE "process_committed"
    [] stage = "merge_response" -> "process_committed"

Idle(c) == edit[c].stage = "idle"
Value(c) == <<c, commits[c]>>
MoreCommits == FoldFunction(+, 0, commits) < MaxCommits
Present(c, p) == wc[c].rev[p] # 0

\* The changes that a user may have made in the working copy.
Changes(c) ==
  {i \in UNION {[S -> Ops] : S \in {T \in SUBSET Items : T # {} /\ Cardinality(T) <= MaxItems}} :
     \A p \in DOMAIN i :
       /\ i[p] \in {"add", "copy"} <=> ~Present(c, p)
       /\ i[p] \in {"copy", "replace"} => p \in Files
       /\ \A d \in Above(p) :
            /\ d \in DOMAIN i => i[d] # "delete"
            /\ Present(c, d) \/ d \in DOMAIN i}

\* The client's own check: a directory whose properties are committed is at the
\* youngest revision.  It is made once the layer has returned its editor: before
\* anything is read with ra_local, after the log message was sent with ra_dav.
DirsCurrent(c, i) ==
  \A p \in DOMAIN i \ Files : i[p] = "modify" => wc[c].rev[p] = Youngest

StartCommit(c) ==
  /\ Idle(c) /\ MoreCommits
  /\ \E i \in Changes(c) :
       /\ c \notin Dav => DirsCurrent(c, i)
       /\ edit' = [edit EXCEPT ![c] = [NoEdit EXCEPT !.items = i, !.stage = "youngest", !.calls = CommitCalls(i)]]
  /\ commits' = [commits EXCEPT ![c] = @ + 1]
  /\ result' = [result EXCEPT ![c] = "none"]
  /\ UNCHANGED <<revs, made, txns, nextTxn, wc, faults>>

\* Where the commit is; and the editor's call that is made next.
Calls(c, stage) == edit[c].stage = stage
Drives(c, op) == Calls(c, "drive") /\ edit[c].calls[1].op = op
At(c) == edit[c].calls[1].path

\* The call succeeds and leaves the batons e; or it fails, and nothing after it
\* happens: the client does not call abort_edit once the editor was driven.
Proceed(c, e) ==
  /\ edit' = [edit EXCEPT ![c] =
       IF e.stage = "drive" /\ Len(e.calls) > 1 THEN [e EXCEPT !.calls = Tail(@)]
       ELSE IF e.stage = e.last THEN NoEdit
       ELSE [e EXCEPT !.stage = After(c, @)]]
  /\ UNCHANGED result

FailWith(c, how) ==
  /\ edit' = [edit EXCEPT ![c] = NoEdit]
  /\ result' = [result EXCEPT ![c] = how]

Fail(c) == FailWith(c, "error")

Fault == faults < MaxFaults /\ faults' = faults + 1

Tree(c) == txns[edit[c].txn].tree
DropTxn(c) == txns' = [t \in DOMAIN txns \ {edit[c].txn} |-> txns[t]]

\* The transaction stays in the table, and nothing ever reads its tree again.
LeaveTxn(c) ==
  txns' = [t \in DOMAIN txns |->
             IF t = edit[c].txn THEN [txns[t] EXCEPT !.tree = <<>>] ELSE txns[t]]

\* An editor call: if ok holds it leaves the batons e and the tree.
EditorCall(c, ok, e, tree) ==
  /\ IF ok THEN Proceed(c, e) /\ txns' = [txns EXCEPT ![e.txn].tree = tree]
     ELSE Fail(c) /\ LeaveTxn(c)
  /\ UNCHANGED <<revs, made, nextTxn, wc, commits, faults>>

\* The youngest revision is read, in a trail of its own.
ReadYoungest(c) ==
  /\ Calls(c, "youngest") \/ Calls(c, "latest")
  /\ Proceed(c, [edit[c] EXCEPT !.youngest = Youngest])
  /\ UNCHANGED <<revs, made, txns, nextTxn, wc, commits, faults>>

NewTxn(c) ==
  /\ nextTxn' = nextTxn + 1
  /\ txns' = [t \in DOMAIN txns \cup {nextTxn} |->
                IF t # nextTxn THEN txns[t]
                ELSE [tree |-> revs[edit[c].youngest], base |-> edit[c].youngest,
                      log |-> c \notin Dav, owner |-> Value(c)]]

\* svn_repos_fs_begin_txn_for_commit: a start-commit hook that cannot be
\* started prevents the transaction; its exit status is not looked at.  That
\* the activity could not be stored is not noticed.
BeginTxn(c) ==
  /\ Calls(c, "begin_txn")
  /\ \/ NewTxn(c) /\ Proceed(c, [edit[c] EXCEPT !.txn = nextTxn]) /\ UNCHANGED faults
     \/ c \in Dav /\ NewTxn(c) /\ Proceed(c, edit[c]) /\ Fault
     \/ Fail(c) /\ Fault /\ UNCHANGED <<txns, nextTxn>>
  /\ UNCHANGED <<revs, made, wc, commits>>

ApplyLog_NoProppatch(c) ==
  /\ Calls(c, "apply_log")
  /\ IF edit[c].txn # NoTxn /\ edit[c].youngest = Youngest THEN Proceed(c, edit[c]) ELSE Fail(c)
  /\ UNCHANGED <<revs, made, txns, nextTxn, wc, commits, faults>>

\* apply_log_message: CHECKOUT of the baseline that was the latest one, and
\* PROPPATCH of the working baseline; then the client's check of directories.
ApplyLog(c) ==
  /\ Calls(c, "apply_log")
  /\ IF edit[c].txn # NoTxn /\ edit[c].youngest = Youngest /\ DirsCurrent(c, edit[c].items)
     THEN Proceed(c, edit[c]) /\ txns' = [txns EXCEPT ![edit[c].txn].log = TRUE]
     ELSE Fail(c) /\ LeaveTxn(c)
  /\ UNCHANGED <<revs, made, nextTxn, wc, commits, faults>>

----------------------------------------------------------------------------
(* The editor of ra_local (commit_editor.c) *)

Local(c, op) == c \notin Dav /\ Drives(c, op)

LocalOpenRoot(c) == Local(c, "open_root") /\ EditorCall(c, TRUE, edit[c], Tree(c))

OutOfDate_Never(c, p) == FALSE

\* The revision of the working copy's entry is compared with the created
\* revision of the node, which is none if this edit changed it.
OutOfDate(c, p) == wc[c].rev[p] < Tree(c)[p].cr

\* What is already gone may be deleted.
LocalDelete(c) ==
  /\ Local(c, "delete_entry")
  /\ LET p == At(c)
     IN  EditorCall(c, Tree(c)[p] = NoNode \/ ~OutOfDate(c, p), edit[c],
                    IF Tree(c)[p] = NoNode THEN Tree(c) ELSE DeleteTree(Tree(c), p))

LocalAdd(c) ==
  /\ Local(c, "add_file") \/ Local(c, "add_directory")
  /\ LET p == At(c)
     IN  EditorCall(c, MayMake(Tree(c), p), edit[c],
                    Put(Tree(c), p, Node(Kind(p), edit[c].txn, 0, NoText)))

\* The source of a copy: a file of the working copy, as its revision has it.
CopySources(c) ==
  {n \in {revs[wc[c].rev[p]][p] : p \in {q \in Files : Present(c, q)}} : n # NoNode}
Copied(n) == [n EXCEPT !.cr = 0, !.pred = n.cr]

LocalCopy(c) ==
  /\ Local(c, "copy_file")
  /\ \E n \in CopySources(c) :
       EditorCall(c, MayMake(Tree(c), At(c)), edit[c], Put(Tree(c), At(c), Copied(n)))

LocalOpenDirectory(c) ==
  /\ Local(c, "open_directory")
  /\ EditorCall(c, Tree(c)[At(c)] # NoNode, edit[c], Tree(c))

LocalOpenFile(c) ==
  /\ Local(c, "open_file")
  /\ EditorCall(c, Tree(c)[At(c)] # NoNode /\ ~OutOfDate(c, At(c)), edit[c], Tree(c))

\* svn_fs_change_node_prop.
WithValue(tree, p, v) == Put(tree, p, [Clone(tree[p]) EXCEPT !.val = v])

LocalDirProp(c) ==
  /\ Local(c, "change_dir_prop")
  /\ EditorCall(c, TRUE, edit[c], WithValue(Tree(c), At(c), Value(c)))

\* The delta of a modified file is made against the working copy's base and
\* applied to what the transaction has.
Patched(c, p) ==
  IF edit[c].items[p] # "modify" \/ Tree(c)[p].val = wc[c].text[p] THEN Value(c) ELSE Garbled

LocalTextDelta(c) ==
  /\ Local(c, "apply_textdelta")
  /\ EditorCall(c, TRUE, edit[c], WithValue(Tree(c), At(c), Patched(c, At(c))))

----------------------------------------------------------------------------
(* The editor of ra_dav (commit.c) and the requests to mod_dav_svn *)

DavCall(c, op) == c \in Dav /\ Drives(c, op)

\* get_wc_prop finds a version URL only for what is itself committed.
CachedUrl(c, p) == IF p \in DOMAIN edit[c].items THEN wc[c].url[p] ELSE NoUrl

\* get_version_url: cached, or asked of the server: in the given revision, or
\* in the youngest one.  NoUrl if the server has no such resource.
GetVersionUrl(c, p, r) ==
  LET n == revs[IF r = 0 THEN Youngest ELSE r][p]
  IN  CASE CachedUrl(c, p) # NoUrl -> CachedUrl(c, p)
        [] CachedUrl(c, p) = NoUrl /\ n # NoNode -> Id(n)
        [] OTHER -> NoUrl

\* svn_fs_txn_path_is_id: the node, or for a directory a direct successor of it.
TxnPathIsId(tree, p, url) ==
  /\ tree[p] # NoNode
  /\ \/ Id(tree[p]) = url
     \/ IsDir(tree[p]) /\ <<tree[p].born, tree[p].pred>> = url

\* dav_svn_checkout, unless the client has the working resource already.
CheckoutOk(c, p, url) == p \in edit[c].wr \/ TxnPathIsId(Tree(c), p, url)

\* add_child.
WithRes(e, p, url) ==
  [e EXCEPT !.res = [q \in DOMAIN @ \cup {p} |-> IF q = p THEN url ELSE @[q]],
            !.wr = IF url = NoUrl THEN @ \cup {p} ELSE @]
CheckedOut(e, p) == [e EXCEPT !.wr = @ \cup {p}]
AddTarget(e, p) == [e EXCEPT !.targets = @ \cup {p}]

DavOpenRoot(c) ==
  /\ DavCall(c, "open_root")
  /\ EditorCall(c, TRUE, WithRes(edit[c], Root, GetVersionUrl(c, Root, 0)), Tree(c))

\* CHECKOUT of the parent collection, before anything is made in it.
InCollection(c, p) == CheckoutOk(c, Front(p), edit[c].res[Front(p)])
NewMember(c, p) == AddTarget(WithRes(CheckedOut(edit[c], Front(p)), p, NoUrl), p)

\* DELETE; a 404 is not an error.
DavDelete(c) ==
  /\ DavCall(c, "delete_entry")
  /\ LET p == At(c)
     IN  EditorCall(c, InCollection(c, p), AddTarget(CheckedOut(edit[c], Front(p)), p),
                    IF Tree(c)[p] = NoNode THEN Tree(c) ELSE DeleteTree(Tree(c), p))

\* MKCOL.
DavAddDirectory(c) ==
  /\ DavCall(c, "add_directory")
  /\ LET p == At(c)
     IN  EditorCall(c, InCollection(c, p) /\ MayMake(Tree(c), p), NewMember(c, p),
                    Put(Tree(c), p, Node("dir", edit[c].txn, 0, NoText)))

\* The file is made by a later PUT.
DavAddFile(c) ==
  /\ DavCall(c, "add_file")
  /\ EditorCall(c, InCollection(c, At(c)), NewMember(c, At(c)), Tree(c))

\* COPY over whatever is there.
DavCopy(c) ==
  /\ DavCall(c, "copy_file")
  /\ LET p == At(c)
     IN  \E n \in CopySources(c) :
           EditorCall(c, InCollection(c, p), NewMember(c, p), Put(Tree(c), p, Copied(n)))

\* In a created directory the working resource is known.
DavOpenDirectory(c) ==
  /\ DavCall(c, "open_directory")
  /\ LET p == At(c)
         rev == IF p \in DOMAIN edit[c].items THEN wc[c].rev[p] ELSE 0
         url == GetVersionUrl(c, p, rev)
         made_ == edit[c].res[Front(p)] = NoUrl
     IN  EditorCall(c, made_ \/ url # NoUrl,
                    WithRes(edit[c], p, IF made_ THEN NoUrl ELSE url), Tree(c))

DavDirProp(c) ==
  /\ DavCall(c, "change_dir_prop")
  /\ LET p == At(c)
     IN  EditorCall(c, CheckoutOk(c, p, edit[c].res[p]),
                    AddTarget(CheckedOut(edit[c], p), p), WithValue(Tree(c), p, Value(c)))

\* CHECKOUT of the file itself.
DavOpenFile(c) ==
  /\ DavCall(c, "open_file")
  /\ LET p == At(c)
         url == GetVersionUrl(c, p, wc[c].rev[p])
     IN  EditorCall(c, url # NoUrl /\ CheckoutOk(c, p, url),
                    CheckedOut(WithRes(edit[c], p, url), p), Tree(c))

\* PUT: into the file that is there, or a new one.
DavTextDelta(c) ==
  /\ DavCall(c, "apply_textdelta")
  /\ LET p == At(c)
         tree == IF Tree(c)[p] # NoNode THEN Tree(c)
                 ELSE Put(Tree(c), p, Node("file", edit[c].txn, 0, NoText))
     IN  EditorCall(c, Tree(c)[p] # NoNode \/ MayMake(Tree(c), p), AddTarget(edit[c], p),
                    WithValue(tree, p, Patched(c, p)))

----------------------------------------------------------------------------
(* The end of the edit: svn_repos_fs_commit_txn, and what follows *)

PreCommit_KeepsTxn(c) ==
  /\ Calls(c, "pre_commit")
  /\ \/ Proceed(c, edit[c]) /\ UNCHANGED <<txns, faults>>
     \/ Fault /\ FailWith(c, "aborted") /\ LeaveTxn(c)
  /\ UNCHANGED <<revs, made, nextTxn, wc, commits>>

\* The pre-commit hook's exit status counts.  Any error aborts the transaction.
PreCommit(c) ==
  /\ Calls(c, "pre_commit")
  /\ \/ Proceed(c, edit[c]) /\ UNCHANGED <<txns, faults>>
     \/ Fault /\ FailWith(c, "aborted") /\ DropTxn(c)
  /\ UNCHANGED <<revs, made, nextTxn, wc, commits>>

\* svn_fs_commit_txn, which removes the transaction, or aborts it after a conflict.
CommitTxn(c) ==
  LET t == txns[edit[c].txn]
  IN  /\ Calls(c, "commit_txn")
      /\ DropTxn(c)
      /\ IF Conflict(t) THEN FailWith(c, "aborted") /\ UNCHANGED <<revs, made>>
         ELSE /\ Proceed(c, [edit[c] EXCEPT !.rev = Youngest + 1])
              /\ revs' = Append(revs, Stable(MergedTree(t)))
              /\ made' = Append(made, [by |-> Value(c), log |-> t.log, base |-> t.base,
                                       items |-> edit[c].items, known |-> wc[c].text])
      /\ UNCHANGED <<nextTxn, wc, commits, faults>>

\* A post-commit hook that cannot be started is an error of the commit; the
\* transaction that is then aborted does not exist any more.
PostCommit(c) ==
  /\ Calls(c, "post_commit")
  /\ \/ Proceed(c, edit[c]) /\ UNCHANGED faults
     \/ Fault /\ FailWith(c, "late")
  /\ UNCHANGED <<revs, made, txns, nextTxn, wc, commits>>

\* The responses to MERGE: the files that differ from the revision before, and the
\* directories with a changed property or with an entry added or removed.
Responses(r) ==
  LET new == revs[r]
      old == revs[r - 1]
      born(t, p) == IF t[p] = NoNode THEN -1 ELSE t[p].born
  IN  {p \in Paths : new[p] # NoNode /\ new[p] # old[p] /\
         \/ p \in Files
         \/ born(old, p) # born(new, p) \/ old[p].val # new[p].val
         \/ \E q \in Items : Front(q) = p /\ born(old, q) # born(new, q)}

\* okay_to_bump_path, and set_wc_prop for the items of the commit.
Bumped(c) == Responses(edit[c].rev) \cap edit[c].targets \cap DOMAIN edit[c].items

MergeResponse(c) ==
  /\ Calls(c, "merge_response")
  /\ Proceed(c, edit[c])
  /\ wc' = [wc EXCEPT ![c].url = [p \in Paths |->
              IF p \in Bumped(c) THEN Id(revs[edit[c].rev][p]) ELSE @[p]]]
  /\ UNCHANGED <<revs, made, txns, nextTxn, commits, faults>>

\* svn_wc_process_committed for each item.
ProcessCommitted(c) ==
  LET i == edit[c].items
      r == edit[c].rev
      gone(p) == \E q \in DOMAIN i : i[q] = "delete" /\ AtOrBelow(q, p)
      text(p) == CASE i[p] = "copy" -> revs[r][p].val
                   [] i[p] # "copy" /\ (i[p] = "modify" \/ p \in Files) -> Value(c)
                   [] OTHER -> NoText
      set(p, f, none, new) == IF gone(p) THEN none ELSE IF p \in DOMAIN i THEN new ELSE f[p]
  IN  /\ Calls(c, "process_committed")
      /\ edit' = [edit EXCEPT ![c] = NoEdit]
      /\ result' = [result EXCEPT ![c] = "ok"]
      /\ wc' = [wc EXCEPT ![c] =
           [rev |-> [p \in Paths |-> set(p, @.rev, 0, r)],
            text |-> [p \in Paths |-> IF p \in DOMAIN i THEN set(p, @.text, NoText, text(p))
                                      ELSE set(p, @.text, NoText, NoText)],
            url |-> [p \in Paths |-> IF gone(p) THEN NoUrl ELSE @.url[p]]]]
      /\ UNCHANGED <<revs, made, txns, nextTxn, commits, faults>>

----------------------------------------------------------------------------
(* Updates, and the death of a client or of its connection *)

\* The working copy, or one file of it, is brought to the youngest revision,
\* with the version URL's that the server sends (ra_dav).
Fetched(c, S) ==
  LET n(p) == revs[Youngest][p]
      set(p, f, none, new) == IF p \notin S THEN f[p] ELSE IF n(p) = NoNode THEN none ELSE new
  IN  [rev |-> [p \in Paths |-> set(p, wc[c].rev, 0, Youngest)],
       text |-> [p \in Paths |-> set(p, wc[c].text, NoText, n(p).val)],
       url |-> [p \in Paths |-> set(p, wc[c].url, NoUrl, IF c \in Dav THEN Id(n(p)) ELSE NoUrl)]]

Update(c) ==
  /\ Idle(c) /\ MoreCommits
  /\ \E S \in {Paths} \cup {{p} : p \in {q \in Files : Present(c, q)}} :
       /\ Fetched(c, S) # wc[c]
       /\ wc' = [wc EXCEPT ![c] = Fetched(c, S)]
  /\ UNCHANGED <<revs, made, txns, nextTxn, edit, result, commits, faults>>

\* The client dies or is cut off.  A server that received the MERGE request may
\* still carry it out.
Die(c) ==
  /\ ~Idle(c) /\ result[c] # "died" /\ Fault
  /\ Calls(c, "process_committed") => DieInBump
  /\ result' = [result EXCEPT ![c] = "died"]
  /\ \/ edit' = [edit EXCEPT ![c] = NoEdit] /\ LeaveTxn(c)
     \/ /\ c \in Dav /\ (Calls(c, "pre_commit") \/ Calls(c, "commit_txn"))
        /\ edit' = [edit EXCEPT ![c].last = "commit_txn"]
        /\ UNCHANGED txns
  /\ UNCHANGED <<revs, made, nextTxn, wc, commits>>

----------------------------------------------------------------------------
(* The specification *)

Init ==
  /\ revs = <<[p \in Paths |-> Node(Kind(p), 0, 1, NoText)]>>
  /\ made = <<[by |-> <<>>, log |-> TRUE, base |-> 0, items |-> <<>>, known |-> <<>>]>>
  /\ txns = <<>> /\ nextTxn = 1
  /\ wc = [c \in Clients |->
             [rev |-> [p \in Paths |-> 1], text |-> [p \in Paths |-> NoText],
              url |-> [p \in Paths |-> IF c \in Dav THEN <<0, 1>> ELSE NoUrl]]]
  /\ edit = [c \in Clients |-> NoEdit]
  /\ result = [c \in Clients |-> "none"]
  /\ commits = [c \in Clients |-> 0]
  /\ faults = 0

EditorStep(c) ==
  \/ LocalOpenRoot(c) \/ LocalDelete(c) \/ LocalAdd(c) \/ LocalCopy(c)
  \/ LocalOpenDirectory(c) \/ LocalOpenFile(c) \/ LocalDirProp(c) \/ LocalTextDelta(c)
  \/ DavOpenRoot(c) \/ DavDelete(c) \/ DavAddDirectory(c) \/ DavAddFile(c) \/ DavCopy(c)
  \/ DavOpenDirectory(c) \/ DavDirProp(c) \/ DavOpenFile(c) \/ DavTextDelta(c)

Next ==
  \E c \in Clients :
    \/ StartCommit(c) \/ ReadYoungest(c) \/ BeginTxn(c) \/ ApplyLog(c)
    \/ EditorStep(c)
    \/ PreCommit(c) \/ CommitTxn(c) \/ PostCommit(c) \/ MergeResponse(c)
    \/ ProcessCommitted(c) \/ Update(c) \/ Die(c)

Spec == Init /\ [][Next]_vars

----------------------------------------------------------------------------
(* Properties *)

\* Every variable has its type.
TypeOK ==
  /\ \A r \in DOMAIN revs, p \in Paths :
       revs[r][p] # NoNode => revs[r][p].cr \in 1..r /\ revs[r][p].pred < revs[r][p].cr
  /\ DOMAIN made = DOMAIN revs
  /\ \A t \in DOMAIN txns : txns[t].base \in DOMAIN revs /\ t < nextTxn
  /\ \A c \in Clients : wc[c].rev \in [Paths -> 0..Youngest]

NewRevs(c) == {r \in DOMAIN made : made[r].by = Value(c)}

\* Does the commit of revision r change the file p, and how?
Doing(r, p) ==
  LET i == made[r].items
  IN  CASE p \in DOMAIN i -> i[p]
        [] p \notin DOMAIN i /\ \E d \in Above(p) : d \in DOMAIN i /\ i[d] = "delete" -> "delete"
        [] OTHER -> "nothing"

\* A revision has the changes of the client that made it, its log message, and
\* nothing else: what others committed while that client was driving its
\* editor, request by request, is kept.
RevisionExact ==
  \A r \in DOMAIN revs \ {1} :
    /\ made[r].log
    /\ \A p \in Files :
         LET new == revs[r][p]
         IN  CASE Doing(r, p) = "nothing" -> new = revs[r - 1][p]
               [] Doing(r, p) = "delete" ->
                    \/ new = NoNode
                    \/ revs[made[r].base][p] = NoNode /\ new = revs[r - 1][p]
               [] Doing(r, p) = "copy" -> new # NoNode
               [] OTHER -> new # NoNode /\ new.val = made[r].by

\* What a commit of a file replaced is what its user had: modified through
\* either access layer, or deleted through ra_local.  (A file below a deleted
\* directory may be newer: a directory's entry gets the new revision when its
\* properties are committed, without what others committed below it meanwhile.)
NoBlindChange ==
  \A r \in DOMAIN revs \ {1} : \A p \in Files \cap DOMAIN made[r].items :
    LET known == \/ Doing(r, p) = "modify"
                 \/ Doing(r, p) \in {"delete", "replace"} /\ made[r].by[1] \notin Dav
    IN  known /\ revs[r - 1][p] \notin {NoNode, revs[r][p]} =>
          revs[r - 1][p].val = made[r].known[p]

\* A commit happens or does not, whatever fails.  One that was reported as
\* successful, or as failed by its post-commit hook, made one revision; one that
\* failed in the edit, at a hook before it or at its end made none, and at its end
\* (the pre-commit hook, a conflict) it left no transaction either; one whose
\* client died made at most one; and no revision's transaction is left.
AllOrNothing ==
  /\ \A c \in Clients :
       /\ Cardinality(NewRevs(c)) <= 1
       /\ result[c] \in {"ok", "late"} => NewRevs(c) # {}
       /\ result[c] \in {"error", "aborted"} => NewRevs(c) = {}
       /\ result[c] = "aborted" => \A t \in DOMAIN txns : txns[t].owner # Value(c)
  /\ \A t \in DOMAIN txns, r \in DOMAIN made : made[r].by # txns[t].owner

\* A version URL kept in the working copy is that of the item in the revision
\* that the working copy has it at: a later commit is then refused exactly
\* when the file changed.
VersionUrlsRight ==
  \A c \in Dav, p \in Paths :
    Idle(c) /\ wc[c].url[p] # NoUrl =>
      LET n == revs[wc[c].rev[p]][p]
      IN  n # NoNode /\ wc[c].url[p] = Id(n)

\* The revisions, and what working copies remember of them, are right.
RevisionsRight == TypeOK /\ RevisionExact /\ VersionUrlsRight
=============================================================================
