------------------------------- MODULE Copies -------------------------------
(***************************************************************************)
(* svn copy and svn move in their four forms, by working copy path or by URL *)
(* (libsvn_client/copy.c, libsvn_wc/copy.c), svn mkdir and svn delete of a    *)
(* URL, and the commit of what was copied: the search for commit items       *)
(* (harvest_committables), the commit editor of ra_local that receives them,  *)
(* and the post-commit processing.  Another user commits at any moment       *)
(* between two steps of a command, and a command may die between two steps.  *)
(*                                                                           *)
(* The working copy is one of the repository's root.  A drive of the commit  *)
(* editor is one step here: RaCommit and FsTree interleave its parts.        *)
(* Properties are left to WcProps, the order of commit items and of editor   *)
(* calls to CommitDriver.                                                    *)
(***************************************************************************)
EXTENDS Integers, Sequences, SequencesExt, FiniteSets

CONSTANTS
  CopyPaths,    \* the paths there may be, the root <<>> among them
  FirstTree,    \* the tree of the first revision
  OtherTexts,   \* what the other user writes into a file
  MyText,       \* what the user of the working copy writes
  EditPaths,    \* the files the user writes to
  OtherPaths,   \* the files the other user commits
  MaxHead,      \* bound on the revisions
  MaxCommands   \* bound on the client's commands

VARIABLES
  trees,        \* the revisions: path -> [kind, text, rev]
  cent,         \* the entries: path -> [kind, sched, rev, copied, from]
  cdisk,        \* working files and directories: path -> a text or DirMark
  cbase,        \* the text bases
  ccmd,         \* the command that is running, or Quiescent
  commands,     \* how many were started
  made          \* what the client last committed: <<[rev, want]>>, or <<>>

cvars == <<trees, cent, cdisk, cbase, ccmd, commands, made>>

DirMark == "dir"
EmptyText == "empty"
NoRev == -1                        \* SVN_INVALID_REVNUM
Quiescent == [op |-> "none"]

Head_ == Len(trees)
Inside(p, q) == IsPrefix(p, q)
Tip(p) == p[Len(p)]
Above(p) == SubSeq(p, 1, Len(p) - 1)
Without(f, S) == [x \in DOMAIN f \ S |-> f[x]]
Joining(f, g) == [x \in DOMAIN f \cup DOMAIN g |-> IF x \in DOMAIN f THEN f[x] ELSE g[x]]
Setting(f, x, v) == Joining([y \in {x} |-> v], f)

\* The paths of f at or below p, and f's part there moved to q.
Below(f, p) == {x \in DOMAIN f : Inside(p, x)}
Moved(f, p, q) ==
  [x \in {q \o SubSeq(y, Len(p) + 1, Len(y)) : y \in Below(f, p)} |->
     f[p \o SubSeq(x, Len(q) + 1, Len(x))]]

----------------------------------------------------------------------------
(* The repository, as ra_local shows it *)

KindAt(tree, p) == IF p \in DOMAIN tree THEN tree[p].kind ELSE "none"

\* svn_ra_local__do_check_path: an invalid revision is the youngest one
DoCheckPath(p, rev) == KindAt(trees[IF rev = NoRev THEN Head_ ELSE rev], p)

\* svn_ra_local__get_file: <<>> for a missing file, else the text and the
\* revision that was fetched
GetFile(p, rev) ==
  LET r == IF rev = NoRev THEN Head_ ELSE rev
  IN  IF KindAt(trees[r], p) = "file" THEN <<[text |-> trees[r][p].text, rev |-> r]>> ELSE <<>>

\* svn_client__get_revision_number of an unspecified revision (NoRev), HEAD, or
\* a number
HeadRevision == 0
GetRevisionNumber(revision) == IF revision = HeadRevision THEN Head_ ELSE revision

\* svn_ra_local__split_URL takes components off the end of a URL until a
\* repository can be opened there: what it took off is the path inside.
Repository == <<"repos">>
UrlOf(p) == Repository \o p
SplitURL(url) ==
  LET n == CHOOSE k \in 0 .. Len(url) : /\ SubSeq(url, 1, k) = Repository
                                        /\ \A j \in k + 1 .. Len(url) : SubSeq(url, 1, j) # Repository
  IN  SubSeq(url, n + 1, Len(url))

----------------------------------------------------------------------------
(* The commit editor of ra_local, against a transaction on the youngest      *)
(* revision.  A tree is an option: <<>> after an error.                      *)

New == Head_ + 1

\* open_directory
EditorOpenDirectory(txn, p) == IF txn # <<>> /\ p \in DOMAIN txn[1] THEN txn ELSE <<>>

\* delete_entry: a path that is not there is fine; revision NoRev is not
\* compared
EditorDeleteEntry(txn, p, rev) ==
  IF txn = <<>> \/ p \notin DOMAIN txn[1] THEN txn
  ELSE IF rev # NoRev /\ rev < txn[1][p].rev THEN <<>>
  ELSE <<Without(txn[1], Below(txn[1], p))>>

\* add_directory and add_file with history: svn_fs_copy brings everything below
AddCopy(txn, p, from) ==
  IF \/ from.rev = NoRev \/ p \in DOMAIN txn[1] \/ Above(p) \notin DOMAIN txn[1]
     \/ SplitURL(from.url) \notin DOMAIN trees[from.rev]
  THEN <<>>
  ELSE LET there == Moved(trees[from.rev], SplitURL(from.url), p)
       IN  <<Joining([there EXCEPT ![p].rev = New], txn[1])>>

\* Without: svn_fs_make_dir or svn_fs_make_file
AddNew(txn, p, kind) ==
  IF p \in DOMAIN txn[1] \/ Above(p) \notin DOMAIN txn[1] THEN <<>>
  ELSE <<Setting(txn[1], p, [kind |-> kind, text |-> EmptyText, rev |-> New])>>

EditorAdd(txn, p, kind, from) ==
  IF txn = <<>> THEN <<>>
  ELSE IF from = <<>> THEN AddNew(txn, p, kind)
  ELSE AddCopy(txn, p, from[1])

\* open_file, unless it was added, and apply_textdelta; the window handler
\* writes the whole new text
EditorText(txn, p, added, rev, text) ==
  IF \/ txn = <<>> \/ KindAt(txn[1], p) # "file"
     \/ ~added /\ rev < txn[1][p].rev
  THEN <<>>
  ELSE <<[txn[1] EXCEPT ![p].text = text, ![p].rev = New]>>

\* close_edit: commits the transaction, whose directories up to the root have
\* all become new ones.
EditorCloseEdit(txn) ==
  Append(trees, [p \in DOMAIN txn[1] |->
     IF txn[1][p].kind = "dir" /\ \E q \in Below(txn[1], p) \cup Below(trees[Head_], p) :
          q \notin DOMAIN txn[1] \/ q \notin DOMAIN trees[Head_] \/ txn[1][q] # trees[Head_][q]
     THEN [txn[1][p] EXCEPT !.rev = New] ELSE txn[1][p]])

Txn == <<trees[Head_]>>            \* open_root

----------------------------------------------------------------------------
(* The working copy *)

EntryKind(p) == IF p \in DOMAIN cent THEN cent[p].kind ELSE "none"
DiskKind(p) == IF p \notin DOMAIN cdisk THEN "none" ELSE IF cdisk[p] = DirMark THEN "dir" ELSE "file"
PlainEntry(kind, rev) == [kind |-> kind, sched |-> "normal", rev |-> rev, copied |-> FALSE, from |-> <<>>]

\* svn_wc_text_modified_p
Modified(p) ==
  /\ DiskKind(p) = "file"
  /\ p \notin DOMAIN cbase \/ cdisk[p] # cbase[p]

\* svn_wc_get_ancestry
GetAncestry(p) == [url |-> UrlOf(p), rev |-> cent[p].rev]

\* svn_wc_add with history: svn_wc__entry_modify of one entry.  A new file
\* entry has the revision of its directory.
WcAdd(ent, p, kind, from) ==
  IF p \in DOMAIN ent
  THEN [ent EXCEPT ![p] = [@ EXCEPT !.kind = kind, !.copied = TRUE, !.from = <<from>>,
                             !.sched = IF @ = "delete" THEN "replace" ELSE "add"]]
  ELSE Setting(ent, p, [kind |-> kind, sched |-> "add", rev |-> ent[Above(p)].rev,
                        copied |-> TRUE, from |-> <<from>>])

\* mark_tree: everything below is marked as copied
MarkTree(ent, p) == [x \in DOMAIN ent |-> IF Inside(p, x) THEN [ent[x] EXCEPT !.copied = TRUE] ELSE ent[x]]

\* svn_wc_delete: an entry that is only scheduled for addition goes away
WcDelete(ent, p) ==
     LET gone == {x \in Below(ent, p) : x # p /\ ent[x].sched = "add"}
  IN  [x \in DOMAIN ent \ gone |->
         IF Inside(p, x) THEN [ent[x] EXCEPT !.sched = "delete", !.copied = FALSE] ELSE ent[x]]

----------------------------------------------------------------------------
(* What a commit sends *)

\* add_committable
Item(p, kind, rev, from, url, del, add, text) ==
  [path |-> p, kind |-> kind, rev |-> rev, from |-> from, url |-> url,
   del |-> del, add |-> add, text |-> text]

\* The source URL of something that is copied along with its parent: in copy
\* mode its own, else one that goes on from the parent's.
CopyOf(p, cf, copyMode) == IF copyMode THEN <<UrlOf(p)>> ELSE cf

\* harvest_committables at one path: its flags, its source, and whether the
\* entries below it are looked at for additions only.
Flags(p, cf, addsOnly, copyMode) ==
  LET e == cent[p]
      adding == e.sched \in {"add", "replace"}
      along == (e.copied \/ copyMode) /\ e.sched = "normal"
      from == IF adding THEN (IF e.from = <<>> THEN <<>> ELSE <<e.from[1].url>>)
              ELSE IF along THEN CopyOf(p, cf, copyMode) ELSE <<>>
      copyRev == IF e.from = <<>> THEN NoRev ELSE e.from[1].rev
      del == ~addsOnly /\ e.sched \in {"delete", "replace"}
      add == adding \/ along
      isCopy == along \/ (adding /\ e.from # <<>>)
      text == /\ e.kind = "file" /\ (add \/ ~del)
              /\ (add /\ ~isCopy) \/ Modified(p)
  IN  [del |-> del, add |-> add, text |-> text, cf |-> from,
       rev |-> IF from # <<>> THEN copyRev ELSE e.rev,
       addsOnly |-> IF adding THEN from = <<>> ELSE addsOnly \/ along]

\* harvest_committables
RECURSIVE Harvest(_, _, _, _, _)
Harvest(p, url, cf, addsOnly, copyMode) ==
  UNION {
    (IF f.del \/ f.add \/ f.text
     THEN {Item(p, cent[p].kind, f.rev, IF f.cf = <<>> THEN <<>> ELSE <<[url |-> f.cf[1], rev |-> f.rev]>>,
                url, f.del, f.add, f.text)}
     ELSE {})
    \cup (IF f.del /\ ~f.add THEN {}
          ELSE UNION {Harvest(k, Append(url, Tip(k)), IF f.cf = <<>> THEN <<>> ELSE <<Append(f.cf[1], Tip(k))>>,
                              f.addsOnly, copyMode) :
                      k \in {x \in DOMAIN cent : x # <<>> /\ Above(x) = p}})
    : f \in {Flags(p, cf, addsOnly, copyMode)}}

\* svn_client__harvest_committables of one target: something copied along with
\* its directory cannot be committed alone, nor a child of an added directory.
MayTarget(p) ==
  /\ ~(cent[p].copied /\ cent[p].sched = "normal")
  /\ (cent[p].sched \in {"add", "replace"} /\ p # <<>>) => cent[Above(p)].sched \notin {"add", "replace"}

\* svn_client__condense_commit_items sorts by URL: a directory before what is
\* in it.  do_item_commit, for each item; the texts follow.
RECURSIVE DoItems(_, _)
DoItems(txn, items) ==
  IF items = <<>> THEN txn
  ELSE LET i == Head(items)
           open == EditorOpenDirectory(txn, Above(i.url))
           deleted == IF i.del THEN EditorDeleteEntry(open, i.url, i.rev) ELSE open
           added == IF i.add THEN EditorAdd(deleted, i.url, i.kind, i.from) ELSE deleted
       IN  DoItems(added, Tail(items))

RECURSIVE DoTexts(_, _)
DoTexts(txn, items) ==
  IF items = <<>> THEN txn
  ELSE LET i == Head(items)
       IN  DoTexts(IF i.text THEN EditorText(txn, i.url, i.add, i.rev, cdisk[i.path]) ELSE txn, Tail(items))

\* svn_client__do_commit
DoCommit(items) == DoTexts(DoItems(Txn, items), items)
Sorted(items) == SetToSortSeq(items, LAMBDA a, b : Len(a.url) < Len(b.url))

\* What a commit of these items leaves no entry for, which entries it bumps
\* (everything below a directory added with history), and what they should be.
DeletedPaths(items) == {i.path : i \in {j \in items : j.del /\ ~j.add}}
DeletedBelow(items) == UNION {Below(cent, p) : p \in DeletedPaths(items)}
BumpedBy(items) ==
  {i.path : i \in items}
  \cup UNION {Below(cent, i.path) : i \in {j \in items : j.add /\ j.from # <<>> /\ j.kind = "dir"}}
SentBy(items) == {i.path : i \in {j \in items : j.text}}
Wanted(items) ==
  [op |-> "commit", gone |-> {i.url : i \in {j \in items : j.del /\ ~j.add}},
   dirs |-> {i.url : i \in {j \in items : j.from # <<>> /\ j.kind = "dir"}},
   want |-> [u \in {i.url : i \in {j \in items : j.add \/ j.text}} |->
               LET i == CHOOSE j \in items : j.url = u
               IN  IF i.kind = "dir" THEN DirMark ELSE cdisk[i.path]]]

----------------------------------------------------------------------------
CopyInit ==
  /\ trees = <<FirstTree>>
  /\ cent = [p \in DOMAIN FirstTree |-> PlainEntry(FirstTree[p].kind, 1)]
  /\ cdisk = [p \in DOMAIN FirstTree |-> IF FirstTree[p].kind = "dir" THEN DirMark ELSE FirstTree[p].text]
  /\ cbase = [p \in {q \in DOMAIN FirstTree : FirstTree[q].kind = "file"} |-> FirstTree[p].text]
  /\ ccmd = Quiescent
  /\ commands = 0
  /\ made = <<>>

Ready == ccmd = Quiescent /\ commands < MaxCommands
Started == commands' = commands + 1
WcKept == UNCHANGED <<cent, cdisk, cbase>>
Stop == ccmd' = Quiescent

\* The revision a drive of the editor made, and what the client meant it to be.
Commits(txn, want) ==
  IF txn = <<>> THEN UNCHANGED <<trees, made>>
  ELSE /\ trees' = EditorCloseEdit(txn)
       /\ made' = <<[rev |-> New, want |-> want]>>

----------------------------------------------------------------------------
(* Working copy to working copy *)

\* Where a copy of src to dst goes: into a directory that is there, else to dst
Goal(src, dst, kind) == IF kind = "dir" THEN Append(dst, Tip(src)) ELSE dst

\* The checks of setup_copy on a move
MayMove(src, dst) == ~Inside(src, dst)

\* copy_file_administratively, copy_dir_administratively: something that is in
\* the repository, to a versioned directory where nothing is in the way
MayCopy(src, goal) ==
  /\ src \in DOMAIN cent /\ cent[src].sched # "add"
  /\ cent[src].kind = "file" => cent[src].sched # "replace"
  /\ goal \notin DOMAIN cdisk
  /\ Above(goal) \in DOMAIN cent /\ DiskKind(Above(goal)) = "dir"

\* Mutant of CopiedFiles: what is copied is the text base.
CopiedFiles_Pristine(src, goal) ==
  [p \in DOMAIN Moved(cdisk, src, goal) |->
     IF Moved(cdisk, src, goal)[p] = DirMark THEN DirMark ELSE Moved(Joining(cbase, cdisk), src, goal)[p]]

\* svn_io_copy_file, or copy_dir_recursively
CopiedFiles(src, goal) == Moved(cdisk, src, goal)

\* wc_to_wc_copy, svn_wc_copy: the working file first (svn_io_copy_file), or
\* the whole directory with its administrative files
\* (svn_io_copy_dir_recursively)
WcToWcCopy(src, dst, move) ==
  LET kind == DiskKind(src)
      goal == Goal(src, dst, DiskKind(dst))
  IN  /\ Ready
      /\ kind # "none" /\ DiskKind(dst) # "file"
      /\ move => MayMove(src, dst)
      /\ ~Inside(src, goal)
      /\ DOMAIN CopiedFiles(src, goal) \subseteq CopyPaths
      /\ MayCopy(src, goal)
      /\ cdisk' = Joining(CopiedFiles(src, goal), cdisk)
      /\ ccmd' = [op |-> "wc", phase |-> IF kind = "file" THEN "base" ELSE "schedule",
                  src |-> src, dst |-> goal, kind |-> kind, move |-> move]
      /\ Started
      /\ UNCHANGED <<trees, cent, cbase, made>>

\* The text base is copied too
CopyBase ==
  /\ ccmd.op = "wc" /\ ccmd.phase = "base"
  /\ cbase' = Setting(cbase, ccmd.dst, cbase[ccmd.src])
  /\ ccmd' = [ccmd EXCEPT !.phase = "schedule"]
  /\ UNCHANGED <<trees, cent, cdisk, commands, made>>

\* Mutant of SourceOf: the youngest revision is taken for the entry's.
SourceOf_Head(p) == [url |-> UrlOf(p), rev |-> Head_]

SourceOf(p) == GetAncestry(p)

\* svn_wc_add with history; for a directory the entries below came along.
AddWithHistory ==
  LET s == ccmd.src
      d == ccmd.dst
      came == IF ccmd.kind = "file" THEN cent ELSE Joining(cent, Moved(cent, s, d))
      added == [WcAdd(came, d, ccmd.kind, SourceOf(s)) EXCEPT ![d].sched = IF @ = "delete" THEN "add" ELSE @]
  IN  /\ ccmd.op = "wc" /\ ccmd.phase = "schedule"
      /\ cent' = IF ccmd.kind = "file" THEN WcAdd(cent, d, "file", SourceOf(s))
                 ELSE MarkTree(added, d)
      /\ cbase' = IF ccmd.kind = "file" THEN cbase ELSE Joining(cbase, Moved(cbase, s, d))
      /\ ccmd' = IF ccmd.move THEN [ccmd EXCEPT !.phase = "delete"] ELSE Quiescent
      /\ UNCHANGED <<trees, cdisk, commands, made>>

\* A move: svn_wc_delete of the source
MoveDelete ==
  /\ ccmd.op = "wc" /\ ccmd.phase = "delete"
  /\ cent' = WcDelete(cent, ccmd.src)
  /\ ccmd' = IF ccmd.kind = "file" THEN [ccmd EXCEPT !.phase = "remove"] ELSE Quiescent
  /\ UNCHANGED <<trees, cdisk, cbase, commands, made>>

\* then a source file is removed; a directory stays
MoveRemove ==
  /\ ccmd.op = "wc" /\ ccmd.phase = "remove"
  /\ cdisk' = Without(cdisk, {ccmd.src})
  /\ Stop
  /\ UNCHANGED <<trees, cent, cbase, commands, made>>

----------------------------------------------------------------------------
(* Repository to repository *)

\* repos_to_repos_copy asks for the youngest revision and for both kinds.
\* When one of the URL's is an ancestor of the other, src_rel or dst_rel is
\* NULL and the command dies without having changed anything.
ReposToReposAsk(src, revision, dst, move) ==
  LET asked == GetRevisionNumber(revision)
      rev == IF asked = NoRev THEN Head_ ELSE asked
      goal == Goal(src, dst, DoCheckPath(dst, Head_))
  IN  /\ Ready
      /\ move => revision = NoRev
      /\ ~Inside(src, dst) /\ ~Inside(dst, src)
      /\ DoCheckPath(src, rev) # "none" /\ DoCheckPath(dst, Head_) # "file"
      /\ goal \in CopyPaths
      /\ \A x \in DOMAIN Moved(trees[rev], src, goal) : x \in CopyPaths
      /\ ccmd' = [op |-> "repos", src |-> src, rev |-> rev, dst |-> goal, kind |-> DoCheckPath(src, rev),
                  move |-> move]
      /\ Started
      /\ UNCHANGED <<trees, made>> /\ WcKept

\* The drive: down to the destination's parent, the addition with history, and
\* for a move down to the source's parent and the deletion of whatever is there.
MovedTo(c) ==
  LET copied == EditorAdd(EditorOpenDirectory(Txn, Above(c.dst)), c.dst, c.kind, <<[url |-> UrlOf(c.src), rev |-> c.rev]>>)
  IN  IF c.move THEN EditorDeleteEntry(EditorOpenDirectory(copied, Above(c.src)), c.src, NoRev) ELSE copied

ReposToReposDrive ==
  /\ ccmd.op = "repos" /\ Head_ < MaxHead
  /\ Commits(MovedTo(ccmd), ccmd)
  /\ Stop
  /\ UNCHANGED commands /\ WcKept

----------------------------------------------------------------------------
(* Repository to working copy *)

\* repos_to_wc_copy looks at both ends
ReposToWcAsk(src, revision, dst) ==
  LET rev == GetRevisionNumber(revision)
      goal == Goal(src, dst, DiskKind(dst))
  IN  /\ Ready
      /\ DoCheckPath(src, rev) # "none" /\ DiskKind(dst) # "file"
      /\ goal \in CopyPaths /\ goal \notin DOMAIN cdisk
      /\ Above(goal) \in DOMAIN cent /\ DiskKind(Above(goal)) = "dir"
      /\ ccmd' = [op |-> "fetch", src |-> src, rev |-> rev, dst |-> goal, kind |-> DoCheckPath(src, rev)]
      /\ Started
      /\ UNCHANGED <<trees, made>> /\ WcKept

\* A file: created empty, then filled; without its source it stays empty.
FetchFile ==
  LET got == GetFile(ccmd.src, ccmd.rev) IN
  /\ ccmd.op = "fetch" /\ ccmd.kind = "file"
  /\ cdisk' = Setting(cdisk, ccmd.dst, IF got = <<>> THEN EmptyText ELSE got[1].text)
  /\ ccmd' = IF got = <<>> THEN Quiescent
             ELSE [op |-> "fetched", src |-> ccmd.src, rev |-> got[1].rev, dst |-> ccmd.dst, kind |-> "file"]
  /\ UNCHANGED <<trees, cent, cbase, commands, made>>

\* A directory is checked out; the revision is that of its new entry.
FetchDir ==
  LET r == IF ccmd.rev = NoRev THEN Head_ ELSE ccmd.rev
      tree == Moved(trees[r], ccmd.src, ccmd.dst)
  IN
  /\ ccmd.op = "fetch" /\ ccmd.kind = "dir"
  /\ DOMAIN tree \subseteq CopyPaths
  /\ IF tree = <<>> \/ KindAt(trees[r], ccmd.src) # "dir" THEN Stop /\ UNCHANGED <<cdisk, cbase>>
     ELSE /\ cdisk' = Joining([p \in DOMAIN tree |-> IF tree[p].kind = "dir" THEN DirMark ELSE tree[p].text], cdisk)
          /\ cbase' = Joining([p \in {q \in DOMAIN tree : tree[q].kind = "file"} |-> tree[p].text], cbase)
          /\ ccmd' = [op |-> "fetched", src |-> ccmd.src, rev |-> r, dst |-> ccmd.dst, kind |-> "dir"]
  /\ UNCHANGED <<trees, cent, commands, made>>

\* svn_wc_add of what was fetched; the entries of a directory came with it.
AddFetched ==
  LET d == ccmd.dst
      came == [p \in Below(cdisk, d) |-> PlainEntry(DiskKind(p), ccmd.rev)]
      ent == IF ccmd.kind = "file" THEN cent ELSE Joining(cent, came)
  IN  /\ ccmd.op = "fetched"
      /\ cent' = IF d \in DOMAIN cent /\ cent[d].kind # ccmd.kind THEN cent
                 ELSE LET added == WcAdd(ent, d, ccmd.kind, [url |-> UrlOf(ccmd.src), rev |-> ccmd.rev])
                      IN  IF ccmd.kind = "file" THEN added ELSE MarkTree(added, d)
      /\ Stop
      /\ UNCHANGED <<trees, cdisk, cbase, commands, made>>

----------------------------------------------------------------------------
(* Working copy to repository *)

\* wc_to_repos_copy asks what is at the destination, then harvests with
\* everything taken for a copy of what its entry says.
WcToReposAsk(src, dst) ==
  LET goal == Goal(src, dst, DoCheckPath(dst, NoRev)) IN
  /\ Ready
  /\ src \in DOMAIN cent /\ DoCheckPath(dst, NoRev) # "file"
  /\ goal \in CopyPaths
  /\ ccmd' = [op |-> "send", src |-> src, dst |-> goal]
  /\ Started
  /\ UNCHANGED <<trees, made>> /\ WcKept

\* svn_client__get_copy_committables and the commit; the working copy is left
\* as it was.  The revision of an item with a source is its entry's copyfrom
\* revision, which only an entry that was itself copied has.
CopyItems == Harvest(ccmd.src, ccmd.dst, <<UrlOf(ccmd.src)>>, FALSE, TRUE)

WcToReposDrive ==
  LET items == CopyItems IN
  /\ ccmd.op = "send" /\ Head_ < MaxHead
  /\ IF items = {} THEN UNCHANGED <<trees, made>>
     ELSE Commits(DoCommit(Sorted(items)), Wanted(items))
  /\ Stop
  /\ UNCHANGED commands /\ WcKept

----------------------------------------------------------------------------
(* The other commands *)

\* svn_client_mkdir and svn_client_delete of a URL
MkdirUrl(p) ==
  /\ Ready /\ p # <<>> /\ Head_ < MaxHead
  /\ Commits(EditorAdd(EditorOpenDirectory(Txn, Above(p)), p, "dir", <<>>), [op |-> "mkdir", path |-> p])
  /\ Started
  /\ UNCHANGED ccmd /\ WcKept

DeleteUrl(p) ==
  /\ Ready /\ p # <<>> /\ Head_ < MaxHead
  /\ EditorOpenDirectory(Txn, Above(p)) # <<>>
  /\ Commits(EditorDeleteEntry(Txn, p, NoRev), [op |-> "delete", path |-> p])
  /\ Started
  /\ UNCHANGED ccmd /\ WcKept

\* svn_wc_process_committed on one entry
Bumped(e, rev) == PlainEntry(e.kind, rev)

\* svn_client_commit of one target: the harvest, the drive, and the bump of
\* each item.
CommitTarget(t) ==
  /\ Ready /\ Head_ < MaxHead
  /\ t \in DOMAIN cent /\ MayTarget(t)
  /\ \E items \in {Harvest(t, t, <<>>, FALSE, FALSE)} :
       /\ items # {}
       /\ \E txn \in {DoCommit(Sorted(items))} :
            /\ txn # <<>>
            /\ Commits(txn, Wanted(items))
       /\ cent' = [p \in DOMAIN cent \ DeletedBelow(items) |->
                     IF p \in BumpedBy(items) THEN Bumped(cent[p], New) ELSE cent[p]]
       /\ cbase' = [p \in (DOMAIN cbase \cup SentBy(items)) \ DeletedBelow(items) |->
                      IF p \in SentBy(items) THEN cdisk[p] ELSE cbase[p]]
  /\ Started
  /\ UNCHANGED <<cdisk, ccmd>>

\* svn update of one file without local changes (RaUpdate, Wc)
UpdateOne(p) ==
  /\ ccmd = Quiescent
  /\ EntryKind(p) = "file" /\ cent[p].sched = "normal" /\ ~cent[p].copied /\ ~Modified(p)
  /\ cent[p].rev < Head_
  /\ IF KindAt(trees[Head_], p) = "file"
     THEN /\ cent' = [cent EXCEPT ![p].rev = Head_]
          /\ cdisk' = Setting(cdisk, p, trees[Head_][p].text)
          /\ cbase' = Setting(cbase, p, trees[Head_][p].text)
     ELSE /\ cent' = Without(cent, {p}) /\ cdisk' = Without(cdisk, {p}) /\ cbase' = Without(cbase, {p})
  /\ UNCHANGED <<trees, ccmd, commands, made>>

EditWorking(p) ==
  /\ ccmd = Quiescent
  /\ DiskKind(p) = "file" /\ cdisk[p] # MyText
  /\ cdisk' = [cdisk EXCEPT ![p] = MyText]
  /\ UNCHANGED <<trees, cent, cbase, ccmd, commands, made>>

\* Another user changes, adds or deletes a file, between any two steps.
OtherCommits(p, text) ==
  LET txn == IF KindAt(trees[Head_], p) = "file" THEN EditorText(Txn, p, TRUE, 0, text)
             ELSE EditorText(EditorAdd(Txn, p, "file", <<>>), p, TRUE, 0, text)
  IN  /\ Head_ < MaxHead
      /\ txn # <<>> /\ txn # Txn
      /\ trees' = EditorCloseEdit(txn)
      /\ made' = <<>>
      /\ UNCHANGED <<ccmd, commands>> /\ WcKept

OtherDeletes(p) ==
  /\ Head_ < MaxHead /\ KindAt(trees[Head_], p) = "file"
  /\ trees' = EditorCloseEdit(EditorDeleteEntry(Txn, p, NoRev))
  /\ made' = <<>>
  /\ UNCHANGED <<ccmd, commands>> /\ WcKept

\* The client dies between two steps of a command.
CopyDies ==
  /\ ccmd # Quiescent
  /\ Stop
  /\ UNCHANGED <<trees, commands, made>> /\ WcKept

CopyNext ==
  \/ /\ Ready
     /\ \E src, dst \in CopyPaths \ {<<>>} :
          \/ \E move \in BOOLEAN :
               \/ WcToWcCopy(src, dst, move)
               \/ \E revision \in {NoRev, 1} : ReposToReposAsk(src, revision, dst, move)
          \/ \E revision \in {HeadRevision, 1} : ReposToWcAsk(src, revision, dst)
          \/ WcToReposAsk(src, dst)
     \* the conjunction above only spares looking for a command when none may start
  \/ CopyBase \/ AddWithHistory \/ MoveDelete \/ MoveRemove
  \/ ReposToReposDrive
  \/ FetchFile \/ FetchDir \/ AddFetched
  \/ WcToReposDrive
  \/ \E p \in CopyPaths : MkdirUrl(p) \/ DeleteUrl(p) \/ CommitTarget(p) \/ UpdateOne(p)
  \/ \E p \in EditPaths : EditWorking(p)
  \/ \E p \in OtherPaths, text \in OtherTexts : OtherCommits(p, text)
  \/ \E p \in OtherPaths : OtherDeletes(p)
  \/ CopyDies

----------------------------------------------------------------------------
(* Properties *)

Was == trees[Head_ - 1]
Is == trees[Head_]
Same(p) == KindAt(Was, p) = KindAt(Is, p) /\ (KindAt(Is, p) = "file" => Was[p].text = Is[p].text)
TextAt(tree, p) == IF KindAt(tree, p) = "dir" THEN DirMark ELSE tree[p].text

\* A commit puts what the working copy shows into the new revision, for every
\* file it sends or copies, although for an unmodified copy it sends no text
\* and the repository takes that of the source; and nothing else changes but
\* below a directory copied with its history, where whatever the source had in
\* the directory's revision comes along.  (A copy to a URL of something that is
\* scheduled for deletion deletes what is at that URL.)
CopiesCommitted ==
  made # <<>> /\ made[1].want.op = "commit" =>
    LET w == made[1].want
    IN  /\ \A p \in DOMAIN w.want : p \in DOMAIN Is /\ TextAt(Is, p) = w.want[p]
        /\ \A p \in CopyPaths :
             \/ Same(p)
             \/ p \in DOMAIN w.want
             \/ \E q \in w.gone : Inside(q, p) /\ p \notin DOMAIN Is
             \/ \E q \in w.dirs : Inside(q, p)

\* A copy of a URL has in the new revision what its source had in the revision
\* that was asked for; a move leaves nothing at the source; mkdir and delete
\* make or remove one thing; and nothing else changes, whatever others commit
\* between the questions and the commit.
UrlCommandExact ==
  made # <<>> /\ made[1].want.op \in {"repos", "mkdir", "delete"} =>
    LET w == made[1].want
        goal == IF w.op = "repos" THEN w.dst ELSE w.path
        source == IF w.op = "repos" /\ w.move THEN {w.src} ELSE {}
    IN  /\ \A p \in CopyPaths :
             \/ Same(p)
             \/ Inside(goal, p)
             \/ \E s \in source : Inside(s, p)
        /\ \A s \in source : \A p \in CopyPaths : Inside(s, p) => p \notin DOMAIN Is
        /\ w.op = "mkdir" => Below(Is, goal) = {goal} /\ Is[goal].kind = "dir" /\ goal \notin DOMAIN Was
        /\ w.op = "delete" => Below(Is, goal) = {}
        /\ w.op = "repos" =>
             LET there == Moved(trees[w.rev], w.src, w.dst)
             IN  /\ goal \notin DOMAIN Was
                 /\ Below(Is, goal) = DOMAIN there
                 /\ \A p \in DOMAIN there : TextAt(Is, p) = TextAt(there, p)

\* The text base that came with a copied file is the text of the source it
\* names, if the repository has that: this is what decides whether a text is sent.
CopySourceRight ==
  \A p \in DOMAIN cent :
    /\ cent[p].kind = "file" /\ cent[p].sched = "add" /\ cent[p].from # <<>> /\ p \in DOMAIN cbase
    /\ KindAt(trees[cent[p].from[1].rev], SplitURL(cent[p].from[1].url)) = "file"
    => cbase[p] = trees[cent[p].from[1].rev][SplitURL(cent[p].from[1].url)].text

\* No step of svn, and no death between two, loses what the user wrote: a text
\* stays in the working copy, in the place it was moved to if not in its own,
\* until a revision has it.
Held(disk, revisions) ==
  \/ \E p \in DOMAIN disk : disk[p] = MyText
  \/ \E r \in DOMAIN revisions : \E p \in DOMAIN revisions[r] : revisions[r][p].text = MyText
MyTextsKept == [][Held(cdisk, trees) => Held(cdisk', trees')]_cvars
=============================================================================
