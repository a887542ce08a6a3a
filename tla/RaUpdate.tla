------------------------------ MODULE RaUpdate ------------------------------
(***************************************************************************)
(* Checkout, update, switch and status of a mixed-revision working copy.   *)
(* The client describes its revisions to a reporter (svn_wc_crawl_         *)
(* revisions); the repository mirrors them in a transaction, compares it   *)
(* with the target revision (svn_repos_dir_delta) and drives an editor,    *)
(* directly with ra_local and as an XML response with mod_dav_svn and      *)
(* ra_dav, which fetches texts and properties by version URL while it      *)
(* reads the response.  The process may die between two calls.             *)
(*                                                                         *)
(* The working copy is seen through its entries and their pristine text    *)
(* and properties; local changes and the log files are in module Wc.       *)
(***************************************************************************)
EXTENDS Integers, Sequences, FiniteSets, SequencesExt, Functions

CONSTANTS
  Kinds,       \* repository path -> the kinds a node there may have
  First,       \* the paths and kinds of the first revision
  Anchor,      \* the repository path that is checked out
  Layers,      \* subset of {"local", "dav"}
  Orders,      \* the orders in which a hash may give the names
  Changes,     \* kind of change -> the paths that the others' commits make it at
  Jobs,        \* subset of {"checkout", "update", "status"}
  Anonymous,   \* may a revision have no author?
  MaxRev,      \* bound: revisions
  MaxJobs,     \* bound: checkouts, updates and status requests
  MaxFaults    \* bound: paths removed from the disk, and processes that die

ASSUME AnchorAssumption == \A p \in DOMAIN First : First[p] \in Kinds[p]

Paths == DOMAIN Kinds
WcPaths == {SubSeq(p, Len(Anchor) + 1, Len(p)) : p \in {q \in Paths : IsPrefix(Anchor, q)}}
Texts == {"x", "y"}
Values == {"none", "v"}
Empty == "none"
Garbled == "garbled"
NoId == [rev |-> 0]
NoUrl == <<>>
NoJob == [op |-> "none"]

VARIABLES
  revs,      \* revision i's tree: path -> [kind, id, text, key, prop]
  authors,   \* revision -> is its author known?
  layer,     \* the access layer of the working copy's URL
  order,     \* the order in which this process's hashes are walked
  wc,        \* entry -> [kind, rev, text, prop, crev, url, at]
  orphans,   \* directories on the disk that no entry names
  job,       \* the command in progress
  calls,     \* the editor calls still to be made
  mirror,    \* <<the tree of the reporter's transaction>>, or <<>>
  txns,      \* transactions left in the repository by dead processes
  last,      \* the last command, once it has returned without error
  flags,     \* what the last status request said: entry -> [text, prop]
  marred,    \* was an update cut short, not recursive, or of one entry that is gone?
  jobs, removals, deaths

vars == <<revs, authors, layer, order, wc, orphans, job, calls, mirror, txns, last,
          flags, marred, jobs, removals, deaths>>

Youngest == Len(revs)
Below(p, q) == IsStrictPrefix(p, q)
AtOrBelow(p, q) == IsPrefix(p, q)
ParentOf(p) == SubSeq(p, 1, Len(p) - 1)
Without(f, S) == [p \in DOMAIN f \ S |-> f[p]]
With(f, p, v) == [q \in DOMAIN f \cup {p} |-> IF q = p THEN v ELSE f[q]]
Subtree(f, p) == {q \in DOMAIN f : AtOrBelow(p, q)}
InOrder(S) == SelectSeq(order, LAMBDA n : n \in S)
NamesIn(f, p) == {q[Len(q)] : q \in {r \in DOMAIN f : Len(r) = Len(p) + 1 /\ Below(p, r)}}

\* svn_fs_node_created_rev
CreatedRev(id) == id.rev
\* svn_fs_id_distance: 0 for the same node revision, -1 for unrelated ones.
Distance(a, b) == IF a.id = b.id THEN 0 ELSE IF a.id.fam = b.id.fam THEN 1 ELSE -1

----------------------------------------------------------------------------
(* The reporter's transaction *)

\* Making a node mutable in a transaction clones it and everything above it.
Cloned(tree, p) ==
  [q \in DOMAIN tree |->
     IF AtOrBelow(q, p) THEN [tree[q] EXCEPT !.id.txn = TRUE] ELSE tree[q]]

\* svn_repos_set_path, after the first call: svn_fs_link
SetPath(tree, p, r) ==
  LET up == Cloned(Without(tree, Subtree(tree, p)), ParentOf(p))
      new == {q \in DOMAIN revs[r] : AtOrBelow(p, q)}
  IN  [q \in DOMAIN up \cup new |-> IF q \in new THEN revs[r][q] ELSE up[q]]

\* svn_repos_delete_path: svn_fs_delete_tree
DeletePath(tree, p) == Cloned(Without(tree, Subtree(tree, p)), ParentOf(p))

\* What the crawler says of one entry; dirRev is the revision its directory is
\* reported at.  "set" and "missing" become calls of the reporter.
EntryReport_Missing(p, dirRev, recurse) ==
  LET e == wc[p] IN
  IF e.kind = "dir" /\ e.at = "entry" THEN "nothing"
  ELSE IF e.kind = "dir" /\ ~recurse THEN "nothing"
  ELSE IF e.rev # dirRev THEN "set" ELSE "nothing"

EntryReport(p, dirRev, recurse) ==
  LET e == wc[p] IN
  IF e.kind = "dir" /\ ~recurse THEN "nothing"
  ELSE IF e.kind = "dir" /\ e.at = "entry" THEN "missing"
  ELSE IF e.rev # dirRev THEN "set" ELSE "nothing"

\* One call of the reporter, or one element of the body of ra_dav's request.
Item(says, p, r) == IF says = "nothing" THEN <<>> ELSE <<[says |-> says, path |-> p, rev |-> r]>>

RECURSIVE ReportEntries(_, _, _, _)

\* report_revisions on the entries named by the sequence names.
ReportEntries(dir, dirRev, recurse, names) ==
  IF names = <<>> THEN <<>>
  ELSE LET p == Append(dir, Head(names))
           deep == wc[p].kind = "dir" /\ recurse /\ wc[p].at = "both"
       IN  Item(EntryReport(p, dirRev, recurse), Anchor \o p, wc[p].rev)
           \o (IF deep THEN ReportEntries(p, wc[p].rev, recurse, InOrder(NamesIn(wc, p)))
               ELSE <<>>)
           \o ReportEntries(dir, dirRev, recurse, Tail(names))

RECURSIVE Mirrored(_, _)

\* The items in their order, on the tree of the transaction: <<>> when the
\* filesystem refuses one.
Mirrored(tree, items) ==
  IF items = <<>> THEN <<tree>>
  ELSE LET i == Head(items) IN
       IF i.says = "set" THEN Mirrored(SetPath(tree, i.path, i.rev), Tail(items))
       ELSE IF i.path \in DOMAIN tree THEN Mirrored(DeletePath(tree, i.path), Tail(items))
       ELSE <<>>

\* The revision that svn_wc_crawl_revisions reports first.
BaseRev(target) == IF wc[target].at = "entry" /\ wc[target].kind = "dir"
                   THEN wc[ParentOf(target)].rev ELSE wc[target].rev

\* svn_wc_crawl_revisions up to finish_report.
CrawlRevisions(target, recurse) ==
  LET base == BaseRev(target)
  IN  Mirrored(revs[base],
        IF wc[target].kind = "file" THEN <<>>
        ELSE IF wc[target].at = "entry" THEN Item("missing", Anchor \o target, base)
        ELSE ReportEntries(target, base, recurse, InOrder(NamesIn(wc, target))))

\* restore_file, for every file that the crawler meets without its working file.
Restored(target, recurse) ==
  [p \in DOMAIN wc |->
     IF /\ wc[p].kind = "file" /\ AtOrBelow(target, p)
        /\ recurse \/ Len(p) <= Len(target) + 1
     THEN [wc[p] EXCEPT !.at = "both"] ELSE wc[p]]

----------------------------------------------------------------------------
(* svn_repos_dir_delta: the calls that turn the transaction into the target *)

Call(op, p, id, text, prop) ==
  [op |-> op, path |-> p, id |-> id, text |-> text, prop |-> prop]
Fail == <<Call("error", <<>>, NoId, <<>>, <<>>)>>

\* delta_proplists: the values sent.  A source is <<>> or <<path>>.
DeltaProplists(c, src, tgt) ==
  LET old == IF src = <<>> THEN "none" ELSE c.src[src[1]].prop
      new == c.tgt[tgt].prop
  IN  IF old = new THEN <<>> ELSE <<new>>

\* delta_files: the text that a text delta is computed against, if one is sent.
\* svn_fs_contents_changed compares the keys of the representations.
DeltaFiles(c, src, tgt) ==
  IF src = <<>> THEN <<Empty>>
  ELSE IF c.src[src[1]].key = c.tgt[tgt].key THEN <<>>
  ELSE <<c.src[src[1]].text>>

\* What the node's version URL and committed revision are taken from.
Sent(c, p) == IF c.dst \o p \in DOMAIN c.tgt THEN c.tgt[c.dst \o p].id ELSE NoId

RECURSIVE DeltaDirs(_, _, _, _)

FileCall(c, op, p, src, tgt) ==
  <<Call(op, p, Sent(c, p), [base |-> DeltaFiles(c, src, tgt), new |-> c.tgt[tgt].text],
         DeltaProplists(c, src, tgt))>>

DirCalls(c, op, p, src, tgt) ==
  <<Call(op, p, Sent(c, p), <<>>, <<>>)>>
  \o DeltaDirs(c, src, tgt, p)
  \o <<Call("close dir", p, Sent(c, p), <<>>, DeltaProplists(c, src, tgt))>>

\* delete
DeleteCall(p) == <<Call("delete", p, NoId, <<>>, <<>>)>>

\* add_file_or_dir, without copyfrom arguments
AddFileOrDir(c, p, tgt) ==
  IF c.tgt[tgt].kind = "dir" THEN DirCalls(c, "add dir", p, <<>>, tgt)
  ELSE FileCall(c, "add file", p, <<>>, tgt)

\* replace_file_or_dir(target_parent, target_entry, source_parent, source_entry)
ReplaceFileOrDir(c, p, tgt, src) ==
  IF tgt \notin DOMAIN c.tgt \/ src \notin DOMAIN c.src THEN Fail
  ELSE IF c.tgt[tgt].kind = "dir"
       THEN IF c.src[src].kind = "dir" THEN DirCalls(c, "open dir", p, <<src>>, tgt) ELSE Fail
  ELSE IF c.src[src].kind = "dir" THEN Fail
  ELSE FileCall(c, "open file", p, <<src>>, tgt)

\* delta_dirs: one name of the target's entries.  Both callers of
\* replace_file_or_dir pass the source first.
TargetEntry(c, src, tgt, p, n) ==
  LET s == IF src = <<>> THEN <<>> ELSE <<Append(src[1], n)>>
      t == Append(tgt, n)
      q == Append(p, n)
  IN  IF ~c.recurse /\ c.tgt[t].kind = "dir" THEN <<>>
      ELSE IF s = <<>> \/ s[1] \notin DOMAIN c.src THEN AddFileOrDir(c, q, t)
      ELSE IF Distance(c.src[s[1]], c.tgt[t]) = 0 THEN <<>>
      ELSE IF Distance(c.src[s[1]], c.tgt[t]) = -1
           THEN DeleteCall(q) \o AddFileOrDir(c, q, t)
      ELSE ReplaceFileOrDir(c, q, s[1], t)

\* fetch_dirents: svn_ra_dav__do_checkout fetches the files of a directory
\* before it pops the next directory off its stack.
FetchDirents(c, dir, names) ==
  SelectSeq(names, LAMBDA n : c.tgt[Append(dir, n)].kind = "file")
  \o SelectSeq(names, LAMBDA n : c.tgt[Append(dir, n)].kind = "dir")

\* Everything else follows the hash of the directory's entries.
EntryOrder(c, dir) ==
  LET names == InOrder(NamesIn(c.tgt, dir))
  IN  IF c.filesFirst THEN FetchDirents(c, dir, names) ELSE names

RECURSIVE TargetEntries(_, _, _, _, _)

TargetEntries(c, src, tgt, p, names) ==
  IF names = <<>> THEN <<>>
  ELSE TargetEntry(c, src, tgt, p, Head(names))
       \o TargetEntries(c, src, tgt, p, Tail(names))

RECURSIVE SourceEntries(_, _, _, _, _)

\* The entries of the source that the target does not have.
SourceEntries(c, src, tgt, p, names) ==
  IF names = <<>> THEN <<>>
  ELSE (IF c.recurse \/ c.src[Append(src[1], Head(names))].kind = "file"
        THEN DeleteCall(Append(p, Head(names))) ELSE <<>>)
       \o SourceEntries(c, src, tgt, p, Tail(names))

DeltaDirs(c, src, tgt, p) ==
  TargetEntries(c, src, tgt, p, EntryOrder(c, tgt))
  \o (IF src = <<>> THEN <<>>
      ELSE SourceEntries(c, src, tgt, p,
             InOrder(NamesIn(c.src, src[1]) \ NamesIn(c.tgt, tgt))))

\* The edit of one entry of the anchor.
DeltaTarget(c, src, tgt, p) ==
  IF tgt \notin DOMAIN c.tgt THEN DeleteCall(p)
  ELSE IF src \notin DOMAIN c.src THEN AddFileOrDir(c, p, tgt)
  ELSE IF Distance(c.src[src], c.tgt[tgt]) = 0 THEN <<>>
  ELSE IF Distance(c.src[src], c.tgt[tgt]) = -1 THEN DeleteCall(p) \o AddFileOrDir(c, p, tgt)
  ELSE ReplaceFileOrDir(c, p, src, tgt)

IsDir(tree, p) == p \in DOMAIN tree /\ tree[p].kind = "dir"

\* svn_repos_dir_delta; c.target is <<>> or one name below the anchor. The parent
\* of the target has to be a directory under the source root as well.
DirDelta(c) ==
  LET src == Anchor \o c.target
      tgt == c.dst \o c.target
      whole == c.target = <<>>
  IN  IF ~(IsDir(c.src, Anchor) /\ IsDir(c.src, c.dst) /\ IsDir(c.tgt, c.dst)) THEN Fail
      ELSE <<Call("open root", <<>>, Sent(c, <<>>), <<>>, <<>>)>>
           \o (IF whole THEN DeltaDirs(c, <<src>>, tgt, <<>>)
               ELSE DeltaTarget(c, src, tgt, c.target))
           \o <<Call("close dir", <<>>, Sent(c, <<>>), <<>>,
                     IF whole THEN DeltaProplists(c, <<src>>, tgt) ELSE <<>>),
                Call("close edit", <<>>, NoId, <<>>, <<>>)>>

\* A checkout: everything is added.
AllAdded(c) ==
  <<Call("open root", <<>>, Sent(c, <<>>), <<>>, <<>>)>>
  \o DeltaDirs(c, <<>>, c.dst, <<>>)
  \o <<Call("close dir", <<>>, Sent(c, <<>>), <<>>, DeltaProplists(c, <<>>, c.dst)),
       Call("close edit", <<>>, NoId, <<>>, <<>>)>>

\* walk_tree and svn_ra_local__checkout
LocalCheckout(c) == AllAdded([c EXCEPT !.filesFirst = FALSE])
\* svn_ra_dav__do_checkout: its stack of directories gives them depth first.
DavCheckout(c) == AllAdded([c EXCEPT !.filesFirst = TRUE])

----------------------------------------------------------------------------
(* The update editor, one call at a time *)

Editing == job # NoJob /\ calls # <<>>
Cur == Head(calls)
At(op) == Editing /\ job.op # "status" /\ Cur.op = op
Known(p) == p \in DOMAIN wc
Obstructed(p) == p \in orphans \/ (Known(p) /\ wc[p].at # "entry")

Continue(newWc) ==
  /\ wc' = newWc /\ calls' = Tail(calls)
  /\ UNCHANGED <<revs, authors, layer, order, orphans, job, mirror, txns, last, flags,
                 marred, jobs, removals, deaths>>

\* What survives when a drive stops in the middle: a directory that was being
\* added is on the disk, and its parent has no entry for it.
HalfAdded == {p \in DOMAIN wc : wc[p].at = "adding" /\ p # <<>>}
Survivors(f) == Without(f, UNION {Subtree(f, p) : p \in HalfAdded})

\* The drive ends with an error: the reporter's transaction is aborted.
StopWith(newWc) ==
  /\ wc' = Survivors(newWc) /\ orphans' = orphans \cup HalfAdded
  /\ calls' = <<>> /\ job' = NoJob /\ mirror' = <<>> /\ marred' = TRUE
  /\ UNCHANGED <<revs, authors, layer, order, txns, last, flags, jobs, removals, deaths>>

Guarded(ok, newWc) == IF ok THEN Continue(newWc) ELSE StopWith(wc)

\* store_vsn_url: a directory's is stored at once, a file's when it is closed.
Url(id) == IF layer = "dav" THEN <<id>> ELSE NoUrl
\* The text of a version resource.
TextAt(url) ==
  LET S == {n \in UNION {{revs[r][p] : p \in DOMAIN revs[r]} : r \in 1 .. Youngest} :
              n.id = url[1]}
  IN  (CHOOSE n \in S : TRUE).text

NewDir(id, at) ==
  [kind |-> "dir", rev |-> job.rev, text |-> Empty, prop |-> "none",
   crev |-> CreatedRev(id), url |-> Url(id), at |-> at]

\* What an opened directory is told at once: ra_local's pipe editor sends the
\* committed revision, ra_dav the version URL.
SendEntryProps(p, id) == [wc EXCEPT ![p].crev = CreatedRev(id)]
StoreVsnUrl(p, id) == [wc EXCEPT ![p].url = Url(id)]
Opened(p, id) == IF layer = "dav" THEN StoreVsnUrl(p, id) ELSE SendEntryProps(p, id)

DoOpenRoot ==
  /\ At("open root")
  /\ Continue(IF job.op = "checkout" THEN With(wc, <<>>, NewDir(Cur.id, "both"))
              ELSE Opened(<<>>, Cur.id))

\* delete_entry: the log command removes the entry, then what is below it.
DoDelete ==
  /\ At("delete")
  /\ LET p == Cur.path
         gone == Without(wc, Subtree(wc, p))
     IN  IF Known(p) /\ wc[p].kind = "dir" /\ wc[p].at = "entry" THEN StopWith(gone)
         ELSE Continue(gone)

DoAddDir ==
  /\ At("add dir")
  /\ Guarded(~Obstructed(Cur.path), With(wc, Cur.path, NewDir(Cur.id, "adding")))

DoOpenDir ==
  /\ At("open dir")
  /\ IF Known(Cur.path) THEN Continue(Opened(Cur.path, Cur.id)) ELSE StopWith(wc)

\* get_delta_base: ra_dav names in its GET the version URL that the working
\* copy holds for the file, and the server sends a delta against that text.
GetDeltaBase_NewUrl(p) ==
  IF Known(p) /\ wc[p].url # NoUrl THEN TextAt(Url(Cur.id)) ELSE Empty

GetDeltaBase(p) == IF Known(p) /\ wc[p].url # NoUrl THEN TextAt(wc[p].url) ELSE Empty

\* send_text_delta: ra_local gets one against the transaction's text.
DeltaBase(p) == IF layer = "local" THEN Cur.text.base[1] ELSE GetDeltaBase(p)

\* svn_wc_install_file, when the file is closed.
Installed(p, oldText, oldProp) ==
  [kind |-> "file", rev |-> job.rev,
   text |-> IF Cur.text.base = <<>> THEN oldText
            ELSE IF DeltaBase(p) = oldText THEN Cur.text.new ELSE Garbled,
   prop |-> IF Cur.prop = <<>> THEN oldProp ELSE Cur.prop[1],
   crev |-> CreatedRev(Cur.id), url |-> Url(Cur.id), at |-> "both"]

DoAddFile ==
  /\ At("add file")
  /\ LET p == Cur.path IN
     IF Obstructed(p) THEN StopWith(wc)
     ELSE Continue(With(wc, p, Installed(p, Empty, "none")))

DoOpenFile ==
  /\ At("open file")
  /\ LET p == Cur.path IN
     IF Known(p) THEN Continue(With(wc, p, Installed(p, wc[p].text, wc[p].prop)))
     ELSE StopWith(wc)

\* change_dir_prop takes an entry property without a value for a property of
\* the user: the author of an anonymous revision.
CountsAsChange(id) == ~authors[CreatedRev(id)]

\* ra_dav sends the committed revision when the directory is closed.
ClosedCrev(p) == IF layer = "dav" THEN CreatedRev(Cur.id) ELSE wc[p].crev

\* close_directory and maybe_bump_dir_revision.  The anchor of an update is
\* bumped only when its properties change.
Closed(p) ==
  LET changed == Cur.prop # <<>> \/ CountsAsChange(Cur.id)
      e == wc[p]
  IN  [e EXCEPT !.prop = IF Cur.prop = <<>> THEN @ ELSE Cur.prop[1],
                !.rev = IF changed \/ p # <<>> \/ job.op = "checkout" THEN job.rev ELSE @,
                !.crev = ClosedCrev(p),
                !.at = "both"]

DoCloseDir ==
  /\ At("close dir")
  /\ Continue([wc EXCEPT ![Cur.path] = Closed(Cur.path)])

\* svn_wc__do_update_cleanup and recursively_tweak_entries.

Tweaked(target) ==
  [p \in DOMAIN wc |->
     IF p = target \/ (job.recurse /\ AtOrBelow(target, p))
     THEN [wc[p] EXCEPT !.rev = job.rev] ELSE wc[p]]

Finished(newWc) ==
  /\ wc' = newWc /\ calls' = <<>> /\ job' = NoJob /\ mirror' = <<>> /\ last' = job
  /\ marred' = (marred \/ ~job.recurse \/ ~(job.target \in DOMAIN newWc))
  /\ UNCHANGED <<revs, authors, layer, order, orphans, txns, flags, jobs, removals, deaths>>

\* close_edit.  A directory whose entry is all that is left has no entries to read.
DoCloseEdit ==
  /\ At("close edit")
  /\ IF job.op = "checkout" \/ ~Known(job.target) THEN Finished(wc)
     ELSE IF job.recurse /\ \E p \in Subtree(wc, job.target) :
               wc[p].kind = "dir" /\ wc[p].at = "entry" THEN StopWith(wc)
     ELSE Finished(Tweaked(job.target))

DoError == At("error") /\ StopWith(wc)

----------------------------------------------------------------------------
(* The status editor *)

ChildOf(p) == {c \in Range(calls) : c.path # <<>> /\ ParentOf(c.path) = p}
Ops(p) == {c.op : c \in {d \in Range(calls) : d.path = p}}

TextStatus_NoDelta(p) ==
  IF Ops(p) \cap {"add dir", "add file"} # {} THEN "added"
  ELSE IF "delete" \in Ops(p) THEN IF Known(p) THEN "deleted" ELSE "none"
  ELSE IF \E c \in ChildOf(p) : c.op \in {"delete", "add dir", "add file", "open file"}
       THEN "modified" ELSE "none"

TextStatus(p) ==
  IF Ops(p) \cap {"add dir", "add file"} # {} THEN "added"
  ELSE IF "delete" \in Ops(p) THEN IF Known(p) THEN "deleted" ELSE "none"
  ELSE IF \/ \E c \in Range(calls) : c.path = p /\ c.op = "open file" /\ c.text.base # <<>>
          \/ \E c \in ChildOf(p) :
               c.op \in {"delete", "add dir", "add file", "open file"}
       THEN "modified" ELSE "none"

PropStatus(p) ==
  IF \E c \in Range(calls) :
       /\ c.path = p
       /\ \/ c.prop # <<>>
          \/ /\ layer = "dav" /\ c.op \in {"close dir", "open file", "add file"}
             /\ ~authors[CreatedRev(c.id)]
  THEN "modified" ELSE "none"

DoStatus ==
  /\ Editing /\ job.op = "status"
  /\ LET failed == \E c \in Range(calls) : c.op = "error"
     IN  /\ flags' = IF failed THEN flags
                     ELSE [p \in WcPaths |-> [text |-> TextStatus(p), prop |-> PropStatus(p)]]
         /\ last' = IF failed THEN last ELSE job
  /\ calls' = <<>> /\ job' = NoJob /\ mirror' = <<>>
  /\ UNCHANGED <<revs, authors, layer, order, wc, orphans, txns, marred, jobs, removals,
                 deaths>>

----------------------------------------------------------------------------
(* The repository's other users, and this working copy's own commits *)

Idle == job = NoJob
NewNode(n, p, kind) ==
  [kind |-> kind, id |-> [fam |-> <<n, p>>, rev |-> n, txn |-> FALSE],
   text |-> IF kind = "file" THEN "x" ELSE Empty, key |-> n, prop |-> "none"]

\* A commit makes new node revisions of everything above a change.
Bubbled(tree, n, p) ==
  [q \in DOMAIN tree |->
     IF AtOrBelow(q, p) THEN [tree[q] EXCEPT !.id.rev = n] ELSE tree[q]]

Edited(n, tree, p) ==
  IF tree[p].kind = "dir" THEN {}
  ELSE {Bubbled([tree EXCEPT ![p].text = t, ![p].key = n], n, p) :
          t \in Texts \ {tree[p].text}}
PropSet(n, tree, p) ==
  {Bubbled([tree EXCEPT ![p].prop = v], n, p) : v \in Values \ {tree[p].prop}}
Deleted(n, tree, p) ==
  {Bubbled(Without(tree, Subtree(tree, p)), n, ParentOf(p))}
\* svn_fs_copy: the top is a successor, everything below is shared.
Copied(n, tree, from, to) ==
  LET under == {q \in DOMAIN tree : AtOrBelow(from, q)}
      Moved(q) == to \o SubSeq(q, Len(from) + 1, Len(q))
      Back(q) == from \o SubSeq(q, Len(to) + 1, Len(q))
      new == {Moved(q) : q \in under}
  IN  Bubbled([q \in DOMAIN tree \cup new |->
                 IF q \in new THEN tree[Back(q)] ELSE tree[q]], n, to)
Made(n, tree, p, kind) == Bubbled(With(tree, p, NewNode(n, p, kind)), n, ParentOf(p))
HasParent(tree, p) == p # <<>> /\ ParentOf(p) \in DOMAIN tree /\ tree[ParentOf(p)].kind = "dir"

\* svn_fs_commit_txn, by others: one change, or a node replaced by another.
NextTrees(n, tree) ==
  LET There(change) == Changes[change] \cap DOMAIN tree
      Rooted(p) == HasParent(tree, p)
  IN  UNION {Edited(n, tree, p) : p \in There("edit")}
      \cup UNION {PropSet(n, tree, p) : p \in There("prop")}
      \cup UNION {Deleted(n, tree, p) : p \in There("delete")}
      \cup UNION {{Made(n, Without(tree, Subtree(tree, p)), p, k) : k \in Kinds[p]} :
                   p \in {q \in There("replace") : Rooted(q)}}
      \cup UNION {{Made(n, tree, p, k) : k \in Kinds[p]} :
                   p \in {q \in Paths \ DOMAIN tree : Rooted(q)}}
      \cup {Copied(n, tree, c[1], c[2]) :
              c \in {b \in Changes["copy"] : b[1] \in DOMAIN tree /\ b[2] \notin DOMAIN tree}}

\* A drive that has begun reads only revisions that exist, so a commit during
\* it is the same as one after it.
OtherCommit ==
  /\ Youngest < MaxRev /\ calls = <<>>
  /\ \E t \in NextTrees(Youngest + 1, revs[Youngest]) : revs' = Append(revs, t)
  /\ \E known \in {TRUE, ~Anonymous} : authors' = Append(authors, known)
  /\ UNCHANGED <<layer, order, wc, orphans, job, calls, mirror, txns, last, flags,
                 marred, jobs, removals, deaths>>

\* process_committed, for one entry.
Bumped(tree, p) ==
  LET node == tree[Anchor \o p] IN
  [kind |-> node.kind, rev |-> Youngest + 1, text |-> node.text, prop |-> node.prop,
   crev |-> Youngest + 1, url |-> Url(node.id), at |-> "both"]

\* A commit from the working copy: a file changed, or one entry added.
OwnCommit ==
  /\ Idle /\ Youngest < MaxRev
  /\ LET head == revs[Youngest]
         n == Youngest + 1
         Same(p) == /\ Anchor \o p \in DOMAIN head
                    /\ Anchor \o p \in DOMAIN revs[wc[p].rev]
                    /\ head[Anchor \o p].id = revs[wc[p].rev][Anchor \o p].id
     IN  \/ \E p \in DOMAIN wc :
              /\ wc[p].kind = "file" /\ wc[p].at = "both" /\ Same(p)
              /\ \E t \in Edited(n, head, Anchor \o p) :
                   revs' = Append(revs, t) /\ wc' = With(wc, p, Bumped(t, p))
         \/ \E p \in (WcPaths \ DOMAIN wc) \ (orphans \cup {<<>>}) :
              /\ ParentOf(p) \in DOMAIN wc /\ wc[ParentOf(p)].at = "both"
              /\ wc[ParentOf(p)].kind = "dir"
              /\ HasParent(head, Anchor \o p) /\ Anchor \o p \notin DOMAIN head
              /\ \E k \in Kinds[Anchor \o p] :
                   LET t == Made(n, head, Anchor \o p, k) IN
                   revs' = Append(revs, t) /\ wc' = With(wc, p, Bumped(t, p))
  /\ authors' = Append(authors, TRUE) /\ last' = NoJob
  /\ UNCHANGED <<layer, order, orphans, job, calls, mirror, txns, flags, marred,
                 jobs, removals, deaths>>

\* The user removes a file or a directory without telling svn.
RemoveFromDisk ==
  /\ Idle /\ removals + deaths < MaxFaults /\ removals' = removals + 1 /\ last' = NoJob
  /\ \E p \in DOMAIN wc \ {<<>>} :
       /\ wc[p].at = "both"
       /\ wc' = [Without(wc, {q \in DOMAIN wc : Below(p, q)}) EXCEPT ![p].at = "entry"]
       /\ orphans' = {q \in orphans : ~Below(p, q)}
  /\ UNCHANGED <<revs, authors, layer, order, job, calls, mirror, txns, flags,
                 marred, jobs, deaths>>

----------------------------------------------------------------------------
(* The commands *)

\* What a directory's revision has and its entries lack: no later comparison
\* mentions it until it changes.
Gaps == {p \in WcPaths \ DOMAIN wc :
           /\ p # <<>> /\ ParentOf(p) \in DOMAIN wc /\ wc[ParentOf(p)].at = "both"
           /\ wc[ParentOf(p)].kind = "dir"
           /\ Anchor \o p \in DOMAIN revs[wc[ParentOf(p)].rev]}

Whole(p, r, dst) ==
  LET n == revs[r][dst \o p] IN
  wc[p].kind = n.kind /\ wc[p].text = n.text /\ wc[p].prop = n.prop
Intact == Gaps = {} /\ \A p \in DOMAIN wc : Whole(p, wc[p].rev, Anchor)

Start(op, target, rev, recurse, dst) ==
  /\ Idle /\ jobs < MaxJobs /\ jobs' = jobs + 1 /\ last' = NoJob
  /\ job' = [op |-> op, target |-> target, rev |-> rev, recurse |-> recurse, dst |-> dst,
             clean |-> Intact]

Context(src, r) ==
  [src |-> src, tgt |-> revs[r], dst |-> job.dst, target |-> job.target,
   recurse |-> job.recurse, filesFirst |-> FALSE]

\* svn_client_checkout.  One of an older revision is one of the youngest before
\* the commits that followed it.
Checkout ==
  /\ "checkout" \in Jobs /\ DOMAIN wc = {}
  /\ \E r \in {Youngest}, recurse \in BOOLEAN :
       /\ Anchor \in DOMAIN revs[r] /\ revs[r][Anchor].kind = "dir"
       /\ Start("checkout", <<>>, r, recurse, Anchor)
       /\ LET c == [src |-> <<>>, tgt |-> revs[r], dst |-> Anchor, target |-> <<>>,
                     recurse |-> recurse, filesFirst |-> FALSE]
          IN  calls' = IF layer = "dav" THEN DavCheckout(c) ELSE LocalCheckout(c)
  /\ UNCHANGED <<revs, authors, layer, order, wc, orphans, mirror, txns, flags,
                 marred, removals, deaths>>

Targets == {p \in DOMAIN wc : Len(p) <= 1}
\* With ra_dav the server finds the youngest revision when the report arrives.
Unresolved == 0

\* svn_client_update, up to the end of the report.
Update(dst, targets) ==
  /\ \E t \in targets : \E recurse \in IF t = <<>> THEN BOOLEAN ELSE {TRUE},
        r \in 1 .. Youngest - 1 \cup {IF layer = "dav" THEN Unresolved ELSE Youngest} :
       LET tree == CrawlRevisions(t, recurse) IN
       IF tree = <<>>
       THEN /\ Idle /\ jobs < MaxJobs /\ jobs' = jobs + 1 /\ last' = NoJob
            /\ marred' = TRUE /\ UNCHANGED <<job, mirror, wc>>
       ELSE /\ Start("update", t, r, recurse, dst)
            /\ mirror' = tree /\ wc' = Restored(t, recurse) /\ UNCHANGED marred
  /\ UNCHANGED <<revs, authors, layer, order, orphans, calls, txns, flags,
                 removals, deaths>>

BeginUpdate == "update" \in Jobs /\ DOMAIN wc # {} /\ Update(Anchor, Targets)

\* svn_client_status with the update flag.  It changes nothing, so that only the
\* last command needs to be one.
BeginStatus ==
  /\ "status" \in Jobs /\ DOMAIN wc # {} /\ jobs = MaxJobs - 1
  /\ \E t \in Targets, recurse \in BOOLEAN :
       LET tree == CrawlRevisions(t, recurse) IN
       IF tree = <<>>
       THEN /\ Idle /\ jobs < MaxJobs /\ jobs' = jobs + 1 /\ last' = NoJob
            /\ UNCHANGED <<job, mirror>>
       ELSE /\ Start("status", t, IF layer = "dav" THEN Unresolved ELSE Youngest, recurse, Anchor)
            /\ mirror' = tree
  /\ UNCHANGED <<revs, authors, layer, order, wc, orphans, calls, txns, flags,
                 marred, removals, deaths>>

\* svn_repos_finish_report: with ra_dav the transaction's life is the request's.
FinishReport ==
  /\ job # NoJob /\ job.op # "checkout" /\ calls = <<>>
  /\ LET r == IF job.rev = Unresolved THEN Youngest ELSE job.rev
     IN  job' = [job EXCEPT !.rev = r] /\ calls' = DirDelta(Context(mirror[1], r))
  /\ mirror' = IF layer = "dav" THEN <<>> ELSE mirror
  /\ UNCHANGED <<revs, authors, layer, order, wc, orphans, txns, last, flags, marred,
                 jobs, removals, deaths>>

\* The process is killed: nobody aborts a transaction of ra_local.
Die ==
  /\ job # NoJob /\ removals + deaths < MaxFaults /\ deaths' = deaths + 1
  /\ wc' = Survivors(wc) /\ orphans' = orphans \cup HalfAdded
  /\ txns' = IF layer = "local" /\ mirror # <<>> THEN txns + 1 ELSE txns
  /\ calls' = <<>> /\ job' = NoJob /\ mirror' = <<>> /\ marred' = TRUE
  /\ UNCHANGED <<revs, authors, layer, order, last, flags, jobs, removals>>

FirstTree == [p \in DOMAIN First |-> NewNode(1, p, First[p])]

Init ==
  /\ revs = <<FirstTree>> /\ authors = <<TRUE>>
  /\ layer \in Layers /\ order \in Orders
  /\ wc = <<>> /\ orphans = {} /\ job = NoJob /\ calls = <<>> /\ mirror = <<>> /\ txns = 0
  /\ last = NoJob /\ flags = <<>> /\ marred = FALSE
  /\ jobs = 0 /\ removals = 0 /\ deaths = 0

DriveStep ==
  \/ DoOpenRoot \/ DoDelete \/ DoAddDir \/ DoOpenDir \/ DoAddFile \/ DoOpenFile
  \/ DoCloseDir \/ DoCloseEdit \/ DoError \/ DoStatus

Next ==
  \/ OtherCommit \/ OwnCommit \/ RemoveFromDisk
  \/ Checkout \/ BeginUpdate \/ BeginStatus \/ FinishReport \/ DriveStep \/ Die

Spec == Init /\ [][Next]_vars

\* svn_client_switch of the whole working copy.
Switch == DOMAIN wc # {} /\ \E d \in Paths \ {Anchor} :
            d \in DOMAIN revs[Youngest] /\ Len(d) = Len(Anchor) /\ Update(d, {<<>>})
SwitchSpec == Init /\ [][Next \/ Switch]_vars

----------------------------------------------------------------------------
(* Properties *)

\* Every variable has its type.
TypeOK ==
  /\ Len(authors) = Youngest /\ layer \in Layers /\ order \in Orders
  /\ \A p \in DOMAIN wc :
       /\ p \in WcPaths /\ wc[p].kind \in {"file", "dir"} /\ wc[p].rev \in 1 .. Youngest
       /\ wc[p].crev \in 1 .. Youngest /\ wc[p].at \in {"both", "entry", "adding"}
       /\ p # <<>> => ParentOf(p) \in DOMAIN wc
  /\ orphans \subseteq WcPaths /\ txns \in 0 .. MaxFaults
  /\ calls # <<>> => job # NoJob

\* An entry says which revision its pristine text and properties are from, and
\* that is what they are: also between two calls of an update editor, after a
\* drive that failed or died, and however old and mixed the revisions are.  The
\* next delta is applied to that text.  A file's committed revision and version
\* URL name the same node; a directory that is still open is only compared later.
EntriesTrue ==
  \A p \in DOMAIN wc :
    LET r == wc[p].rev
        q == Anchor \o p
    IN  /\ q \in DOMAIN revs[r]
        /\ \/ Whole(p, r, Anchor)
           \/ job # NoJob /\ wc[p].kind = "dir"
           \/ marred /\ wc[p].kind = "dir"
        /\ wc[p].kind = "file" =>
             /\ wc[p].crev = CreatedRev(revs[r][q].id)
             /\ layer = "dav" => wc[p].url = <<revs[r][q].id>>

InScope(p) == AtOrBelow(last.target, p)
Settled == Idle /\ last # NoJob /\ last.op \in {"checkout", "update"}

\* An update that returns without error, of a working copy that lacked nothing,
\* leaves below its target exactly the target revision: every entry it has and
\* no other, at that revision with that text and those properties.  A
\* non-recursive one brings the files of one directory and removes those that
\* are gone; where one side has a file and the other a directory it may do nothing.
UpdateBrings ==
  Settled /\ last.clean =>
    \A p \in {q \in WcPaths : InScope(q)} :
      LET here == Anchor \o p \in DOMAIN revs[last.rev]
      IN  IF last.recurse
          THEN /\ p \in DOMAIN wc <=> here
               /\ here => wc[p].rev = last.rev /\ Whole(p, last.rev, Anchor)
          ELSE Len(p) <= Len(last.target) + 1 =>
               /\ p \in DOMAIN wc /\ wc[p].kind = "file" => here
               /\ here /\ revs[last.rev][Anchor \o p].kind = "file" =>
                    /\ p \in DOMAIN wc
                    /\ wc[p].kind = "file" => wc[p].rev = last.rev \/ Whole(p, last.rev, Anchor)

\* Until a drive is cut short, a command is not recursive or a single entry's
\* update deletes that entry (its directory's revision still has it), no entry is ever
\* missing for good, no directory is left on the disk that would obstruct the
\* next update, and no reporter's transaction stays in the repository.
NothingLeft ==
  /\ Idle /\ ~marred => Gaps = {} /\ orphans = {}
  /\ Idle => mirror = <<>>
  /\ txns <= deaths

\* The youngest revision has no node, or an unrelated one, for a directory above.
Replaced(p, tree) ==
  \E n \in 0 .. Len(p) :
    LET a == SubSeq(p, 1, n)
        q == Anchor \o a
    IN  q \notin DOMAIN tree \/ Distance(tree[q], revs[wc[a].rev][q]) = -1

\* Status with the update flag foretells an update: an entry whose text or
\* properties the youngest revision changes is flagged, one that is not touched
\* is not, and what would be added or deleted is flagged so.
StatusForetells ==
  Idle /\ last # NoJob /\ last.op = "status" /\ last.recurse /\ last.target = <<>>
  /\ last.clean =>
    \A p \in WcPaths :
      LET q == Anchor \o p
          tree == revs[last.rev]
          mine == p \in DOMAIN wc
          theirs == q \in DOMAIN tree
      IN  /\ ~mine /\ theirs => flags[p].text = "added" \/ p = <<>>
          /\ mine /\ ~theirs /\ wc[p].at = "both" /\ ~Replaced(ParentOf(p), tree) =>
               flags[p].text = "deleted"
          /\ mine /\ theirs /\ wc[p].at = "both" /\ wc[p].kind = "file" /\ tree[q].kind = "file" =>
               /\ wc[p].text # tree[q].text => flags[p].text # "none"
               /\ revs[wc[p].rev][q].id = tree[q].id => flags[p] = [text |-> "none", prop |-> "none"]
               /\ wc[p].prop # tree[q].prop => flags[p].prop = "modified" \/ flags[p].text = "added"

\* Switching a working copy to another branch makes it look exactly like that
\* branch, the promise of svn_repos_dir_delta; the two callers and the definition
\* of replace_file_or_dir disagree about which path comes first.
SwitchExact ==
  Settled /\ last.dst # Anchor /\ last.recurse =>
    \A p \in WcPaths :
      /\ p \in DOMAIN wc <=> last.dst \o p \in DOMAIN revs[last.rev]
      /\ p \in DOMAIN wc => Whole(p, last.rev, last.dst)

\* A working copy is what its entries say, with nothing missing and nothing left.
EntriesSound == TypeOK /\ EntriesTrue /\ NothingLeft
============================================================================
