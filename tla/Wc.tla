--------------------------------- MODULE Wc ---------------------------------
(***************************************************************************)
(* The commands of one user on a working copy, next to what others commit: *)
(* add, delete, revert, resolve and cleanup (libsvn_wc), the client's      *)
(* commit with its post-commit processing, and the update with its report  *)
(* to the repository and the editor that receives the answer.              *)
(***************************************************************************)
EXTENDS WcLog

Paths == Items \cup {Root}

\* The tree that a commit makes of tree: what is in del is gone with all
\* below it, what is in put is there, and every directory above a change has
\* a new created revision.
NewTree(tree, r, del, put) ==
  LET gone(q) == \E p \in del : AtOrBelow(p, q)
      touched(q) == \E p \in del \cup DOMAIN put : AtOrBelow(q, p)
  IN  [q \in Paths |->
         CASE q \in DOMAIN put ->
                Node(put[q].kind, put[q].text,
                     IF gone(q) \/ tree[q] = NoNode THEN r ELSE tree[q].born, r)
           [] q \notin DOMAIN put /\ gone(q) -> NoNode
           [] OTHER -> IF touched(q) THEN [tree[q] EXCEPT !.rev = r] ELSE tree[q]]

----------------------------------------------------------------------------
(* Scheduling (svn_wc_add, svn_wc_delete, svn_wc_revert) *)

OnDisk(p) == IF p \in Files THEN wf[p] # NoText ELSE p \in dirs
Kind(p) == IF p \in Files THEN "file" ELSE "dir"

DoAdd ==
  /\ Step("add")
  /\ LET p == todo[1].path
         d == Front(p)
         replace == HasEntry(p)
         change == [schedule |-> "add", kind |-> Kind(p)]
                   @@ (IF replace THEN <<>> ELSE [revision |-> 0])
         own == [change EXCEPT !.schedule = IF replace THEN "replace" ELSE "add"]
     IN  Try(OnDisk(p) /\ (HasEntry(p) => EntryOf(p).schedule = "delete"),
             /\ Continue(<<ModifyEntry(d, Last(p), change, FALSE)>> \o
                         (IF p \in Files THEN <<>>
                          ELSE <<On("ensure_adm", p), ModifyEntry(p, ThisDir, own, TRUE)>>))
             /\ UNCHANGED disk)

\* svn_wc__ensure_adm, and the mkdir of prep_directory.
DoEnsureAdm ==
  /\ Step("ensure_adm")
  /\ LET d == todo[1].path
     IN  /\ Continue(<<>>)
         /\ dirs' = dirs \cup {d}
         /\ adm' = IF IsWc(d) THEN adm ELSE adm @@ (d :> NewAdm(d))
         /\ UNCHANGED <<wf, stamped, mine>>

\* mark_tree: what is in the directory, then its own entry.
MarkTree[d \in Dirs] ==
  LET mark(n) ==
        LET p == Append(d, n)
        IN  (IF p \in SubDirs THEN MarkTree[p] ELSE <<>>)
            \o <<ModifyEntry(d, n, [schedule |-> "delete"], FALSE)>>
  IN  (IF IsWc(d) THEN ForAll(Children(d), mark) ELSE <<>>) \o
      <<ModifyEntry(d, ThisDir, [schedule |-> "delete"], FALSE)>>

DoDelete ==
  /\ Step("delete")
  /\ LET p == todo[1].path
         mark == <<ModifyEntry(Front(p), Last(p), [schedule |-> "delete"], FALSE)>>
     IN  Try(HasEntry(p),
             /\ Continue(CASE p \in Files -> mark
                           [] p \in SubDirs /\ EntryOf(p).schedule = "add" ->
                                RemoveDir(p, FALSE)
                           [] OTHER -> MarkTree[p] \o mark)
             /\ UNCHANGED disk)

\* revert_admin_things: the pristine text comes back, and the backup the
\* entry names goes.  What follows is one change of the entry.
RevertSteps(p) ==
  LET e == EntryOf(p)
      text == p \in Files /\ (TextModified(p) \/ wf[p] = NoText)
      change == (IF text THEN [text_time |-> TRUE] ELSE <<>>)
                @@ (IF e.conflict # 0 THEN [conflict |-> 0] ELSE <<>>)
                @@ (IF e.schedule = "normal" THEN <<>> ELSE [schedule |-> "normal"])
  IN  (IF text THEN <<On("restore_text", p)>> ELSE <<>>)
      \o (IF e.conflict # 0 THEN <<On("rm_backup", p)>> ELSE <<>>)
      \o (IF DOMAIN change = {} THEN <<>>
          ELSE <<ModifyEntry(Front(p), Last(p), change, TRUE)>> \o
               (IF p \in Files THEN <<>>
                ELSE <<ModifyEntry(p, ThisDir, [schedule |-> "normal"], TRUE)>>))

DoRevert ==
  /\ Step("revert")
  /\ LET p == todo[1].path
     IN  Try(HasEntry(p),
             /\ Continue(
                  IF EntryOf(p).schedule = "add" THEN RemoveAny(p, FALSE)
                  ELSE RevertSteps(p) \o
                       (IF p \in SubDirs /\ IsWc(p) /\ EntryOf(p).schedule = "replace"
                        THEN ForAll(Children(p), LAMBDA n : <<On("revert_all", Append(p, n))>>)
                        ELSE <<>>))
             /\ UNCHANGED disk)

\* The recursion of svn_wc_revert.
DoRevertAll ==
  /\ Step("revert_all")
  /\ LET p == todo[1].path
     IN  /\ Continue(<<On("revert", p)>> \o
                     (IF p \in SubDirs /\ IsWc(p) /\ EntryOf(p).schedule # "add"
                      THEN ForAll(Children(p), LAMBDA n : <<On("revert_all", Append(p, n))>>)
                      ELSE <<>>))
         /\ UNCHANGED disk

\* The text base is copied to the working file; restore_file does so for a
\* file that is missing.
DoRestoreText ==
  /\ Step("restore_text")
  /\ LET p == todo[1].path
     IN  Try(Base(p) # NoText,
             /\ Continue(<<>>)
             /\ wf' = [wf EXCEPT ![p] = Base(p)]
             /\ stamped' = [stamped EXCEPT ![p] = FALSE]
             /\ UNCHANGED <<mine, dirs, adm>>)

DoRmBackup ==
  /\ Step("rm_backup")
  /\ LET p == todo[1].path
         k == EntryOf(p).conflict
     IN  /\ Continue(<<>>)
         /\ mine' = IF k \in DOMAIN mine[p] THEN [mine EXCEPT ![p][k] = NoText] ELSE mine
         /\ UNCHANGED <<wf, stamped, dirs, adm>>

\* svn_wc_resolve_conflict: the entry still names the backup, which is gone.
DoResolve ==
  /\ Step("resolve")
  /\ LET p == todo[1].path
     IN  Try(HasEntry(p),
             /\ Continue(IF Conflicted(p) THEN <<On("rm_backup", p)>> ELSE <<>>)
             /\ UNCHANGED disk)

----------------------------------------------------------------------------
(* Cleanup (svn_wc_cleanup) *)

DoCleanup ==
  /\ Step("cleanup")
  /\ LET d == todo[1].path
         below == {n \in Children(d) : Append(d, n) \in SubDirs}
     IN  Try(IsWc(d),
             /\ Continue(ForAll(below, LAMBDA n : <<On("cleanup", Append(d, n))>>)
                         \o <<On("relock", d), On("mop_up", d), On("clean_tmp", d),
                              On("unlock_rest", d)>>)
             /\ UNCHANGED disk)

DoRelock ==
  /\ Step("relock")
  /\ Continue(<<>>)
  /\ Set(todo[1].path, [adm[todo[1].path] EXCEPT !.lock = TRUE])
  /\ UNCHANGED <<wf, stamped, mine, dirs>>

DoMopUp ==
  /\ Step("mop_up")
  /\ LET d == todo[1].path
     IN  Continue(IF adm[d].log = <<>> THEN <<>> ELSE <<RunLog(d)>>) /\ UNCHANGED disk

DoCleanTmp ==
  /\ Step("clean_tmp")
  /\ LET d == todo[1].path
     IN  Try(IsWc(d),
             /\ Continue(IF adm[d].killme THEN RemoveDir(d, FALSE) ELSE <<>>)
             /\ Set(d, [adm[d] EXCEPT !.tmp = EmptyTexts(d), !.tmpEntries = FALSE])
             /\ UNCHANGED <<wf, stamped, mine, dirs>>)

DoUnlockRest_Never == Step("unlock_rest") /\ Skip

DoUnlockRest ==
  /\ Step("unlock_rest")
  /\ LET d == todo[1].path
     IN  /\ Continue(<<>>)
         /\ IF IsWc(d) THEN Set(d, [adm[d] EXCEPT !.lock = FALSE]) ELSE UNCHANGED adm
         /\ UNCHANGED <<wf, stamped, mine, dirs>>

----------------------------------------------------------------------------
(* Commit (svn_client_commit) *)

\* harvest_committables: adds_only as it is when p is visited, which paths
\* are, and what is to be done with each.
AddsOnly[p \in Paths] ==
  /\ p # Root
  /\ EntryOf(Front(p)).schedule \in {"add", "replace"} \/ AddsOnly[Front(p)]

Visited[p \in Paths] ==
  \/ p = Root
  \/ /\ Visited[Front(p)]
     /\ IsWc(Front(p)) /\ Last(p) \in Children(Front(p))
     /\ EntryOf(Front(p)).schedule = "delete" => AddsOnly[Front(p)]

Item(p) ==
  LET e == EntryOf(p)
      del == ~AddsOnly[p] /\ e.schedule \in {"delete", "replace"}
      add == e.schedule \in {"add", "replace"}
  IN  [path |-> p, revision |-> e.revision, del |-> del, add |-> add,
       text |-> p \in Files /\ (add \/ (~del /\ TextModified(p)))]

Committables ==
  {it \in {Item(p) : p \in {q \in Paths : Visited[q]}} : it.del \/ it.add \/ it.text}

Sorted(items) == SetToSortSeq(items, LAMBDA a, b : Len(a.path) < Len(b.path))

DirOf(p) == IF p \in Files THEN Front(p) ELSE p

\* A directory that is locked already is passed over (lock_dir's error goes
\* nowhere), and is not unlocked either; one without an administrative area
\* counts as locked.  A conflict is found before anything is sent.
DoCommit ==
  /\ Step("commit")
  /\ LET items == Committables
         texts == {it.path : it \in {i \in items : i.text}}
         locks == {d \in {DirOf(it.path) : it \in items} : IsWc(d) => ~adm[d].lock}
         unlock == [op |-> "unlock_dirs", dirs |-> locks]
     IN  Try(\A p \in Paths : Visited[p] => ~Conflicted(p),
             /\ Continue(ForAll(locks, LAMBDA d : <<Lock(d)>>)
                         \o ForAll(texts, LAMBDA p : <<On("transmit", p)>>)
                         \o (IF items = {} THEN <<>>
                             ELSE <<[op |-> "do_commit", items |-> items, unlock |-> unlock]>>)
                         \o <<Finally, unlock>>
                         \o ForAll(texts, LAMBDA p : <<On("rm_tmp", p)>>))
             /\ UNCHANGED disk)

\* unlock_dirs: it stops at the first lock that it cannot remove, and the
\* commit remembers the error and goes on.
DoUnlockDirs ==
  /\ Step("unlock_dirs")
  /\ LET ds == todo[1].dirs
         locked(d) == IsWc(d) /\ adm[d].lock
     IN  \/ ds = {} /\ Skip
         \/ \E d \in ds :
              /\ locked(d)
              /\ Continue(<<[op |-> "unlock_dirs", dirs |-> ds \ {d}]>>)
              /\ Set(d, [adm[d] EXCEPT !.lock = FALSE])
              /\ UNCHANGED <<wf, stamped, mine, dirs>>
         \/ /\ \E d \in ds : ~locked(d)
            /\ todo' = Tail(todo) /\ failed' = TRUE
            /\ UNCHANGED <<repo, disk, cmd, cmds, edits, crashes>>

\* svn_wc_transmit_text_deltas: what is sent is kept in tmp/text-base.
DoTransmit ==
  /\ Step("transmit")
  /\ LET p == todo[1].path
     IN  Try(wf[p] # NoText,
             Continue(<<>>) /\ SetTmp(p, wf[p]) /\ UNCHANGED <<wf, stamped, mine, dirs>>)

DoRmTmp ==
  /\ Step("rm_tmp")
  /\ LET p == todo[1].path
     IN  /\ Continue(<<>>)
         /\ IF IsWc(Front(p)) THEN SetTmp(p, NoText) ELSE UNCHANGED adm
         /\ UNCHANGED <<wf, stamped, mine, dirs>>

\* What the commit editor of the repository accepts: directories are opened
\* in the youngest tree, and what is changed or deleted must not have a
\* later created revision than the item.
Acceptable(tree, items, it) ==
  LET p == it.path
      replaced(q) == \E i \in items : i.del /\ AtOrBelow(i.path, q)
      made(q) == \E i \in items : i.add /\ i.path = q
      parent == made(Front(p)) \/ (tree[Front(p)] # NoNode /\ ~replaced(Front(p)))
  IN  /\ p = Root \/ parent
      /\ it.del /\ tree[p] # NoNode => it.revision >= tree[p].rev
      /\ it.add => tree[p] = NoNode \/ replaced(p)
      /\ ~it.add /\ ~it.del =>
           tree[p] # NoNode /\ ~replaced(p) /\ it.revision >= tree[p].rev

\* svn_wc_process_committed.  A directory without an administrative area is
\* taken for a file.
Process(p, r) ==
  LET d == IF IsWc(p) THEN p ELSE Front(p)
  IN  (IF IsWc(p) THEN <<ModifyEntry(p, ThisDir, [revision |-> r], FALSE)>> ELSE <<>>)
      \o <<AppendLog(d, <<[op |-> "committed", path |-> p, rev |-> r]>>), RunLog(d)>>

\* The editor is driven and the revision made, or the repository refuses.
\* After a success the directories are unlocked before the items are
\* processed.
DoRepositoryCommit ==
  /\ Step("do_commit")
  /\ LET items == todo[1].items
         texts == {it \in items : it.text}
         r == Youngest + 1
         del == {it.path : it \in {i \in items : i.del}}
         put == [p \in {it.path : it \in {i \in items : i.add \/ i.text}} |->
                   IF p \in Files THEN [kind |-> "file", text |-> Tmp(p)]
                   ELSE [kind |-> "dir", text |-> NoText]]
         order == Sorted(items)
     IN  Try(\A it \in items : Acceptable(repo[Youngest], items, it),
             /\ repo' = Append(repo, NewTree(repo[Youngest], r, del, put))
             /\ todo' = <<todo[1].unlock>>
                        \o FlattenSeq([k \in DOMAIN order |-> Process(order[k].path, r)])
                        \o <<Finally>>
                        \o ForAll({it.path : it \in texts}, LAMBDA p : <<On("rm_tmp", p)>>)
             /\ UNCHANGED <<disk, cmd, failed, cmds, edits, crashes>>)

CommittedText_KeepTmp(p) == [adm[Front(p)] EXCEPT !.tmp[Last(p)] = NoText]

\* The text that was sent becomes the text base.
CommittedText(p) ==
  [adm[Front(p)] EXCEPT !.base[Last(p)] = Tmp(p), !.tmp[Last(p)] = NoText]

\* log_do_committed.  The working file is made what was sent, if it is not.
DoCommitted ==
  /\ Step("committed")
  /\ LET p == todo[1].path
         d == DirOf(p)
         n == IF p \in Files THEN Last(p) ELSE ThisDir
         e == EntryOf(p)
         sent == p \in Files /\ Tmp(p) # NoText
         bump == <<ModifyEntry(d, n, [revision |-> todo[1].rev, schedule |-> "normal",
                                      conflict |-> 0], TRUE)>>
         above == IF p \in SubDirs /\ Last(p) \in Children(Front(p))
                  THEN <<ModifyEntry(Front(p), Last(p), [schedule |-> "normal"], TRUE)>>
                  ELSE <<>>
         deleted == {m \in Children(d) : EntriesOf(d)[m].schedule = "delete"}
     IN  Try(/\ HasEntry(p) /\ IsWc(d)
             /\ ~(e.schedule = "delete" /\ adm[d].killme),
             CASE e.schedule = "delete" /\ p \in Files ->
                    Continue(<<RemoveFile(p, FALSE)>>) /\ UNCHANGED disk
               [] e.schedule = "delete" /\ p \notin Files ->
                    /\ Continue(<<>>)
                    /\ Set(d, [adm[d] EXCEPT !.killme = TRUE])
                    /\ UNCHANGED <<wf, stamped, mine, dirs>>
               [] e.schedule # "delete" /\ p \in Files ->
                    /\ Continue((IF sent /\ wf[p] # Tmp(p) THEN <<[op |-> "put_wf", path |-> p, text |-> Tmp(p)]>>
                                 ELSE <<>>)
                                \o (IF sent THEN <<On("sync_base", p)>> ELSE <<>>) \o bump)
                    /\ stamped' = [stamped EXCEPT ![p] = FALSE]
                    /\ UNCHANGED <<wf, mine, dirs, adm>>
               [] OTHER ->
                    /\ Continue((IF e.schedule = "replace"
                                 THEN ForAll(deleted, LAMBDA m : RemoveAny(Append(d, m), FALSE))
                                 ELSE <<>>) \o bump \o above)
                    /\ UNCHANGED disk)

DoSyncBase ==
  /\ Step("sync_base")
  /\ Continue(<<>>)
  /\ Set(Front(todo[1].path), CommittedText(todo[1].path))
  /\ UNCHANGED <<wf, stamped, mine, dirs>>

\* A `cleanup' label reached without an error.
DoFinally == Step("finally") /\ Skip

----------------------------------------------------------------------------
(* Update: report (adm_crawler.c, reporter.c), drive (delta.c) and editor *)

\* report_revisions: the directories crawled, and for every path the
\* revision that the repository's mirror of the working copy holds.  What is
\* scheduled is not reported and counts as its directory does.
Reported(p) ==
  /\ IsWc(Front(p)) /\ Last(p) \in Children(Front(p))
  /\ EntriesOf(Front(p))[Last(p)].schedule = "normal"

Crawled[d \in Dirs] == d = Root \/ (Crawled[Front(d)] /\ Reported(d))

Mirror[p \in Paths] ==
  IF p = Root \/ (Crawled[Front(p)] /\ Reported(p)) THEN EntryOf(p).revision
  ELSE Mirror[Front(p)]

Source(p) == In(Mirror[p], p)

\* A directory with something of another revision in it is a new node of the
\* mirror.
MirrorChanged(d) == \E p \in Items : AtOrBelow(d, p) /\ Mirror[p] # Mirror[d]

Missing == {p \in Files : Crawled[Front(p)] /\ Reported(p) /\ wf[p] = NoText}

Edit(op, p, r) == [op |-> op, path |-> p, rev |-> r]

\* delta_dirs, from the mirror (or from nothing, in an added directory) to
\* revision r: what is in the target, then the deletions.
DeltaDirs(r) ==
  LET delta[x \in Dirs \X BOOLEAN] ==
        LET d == x[1]
            source(p) == IF x[2] THEN NoNode ELSE Source(p)
            paths == {Append(d, n) : n \in Names(d)}
            inside(p, adding) == IF p \in Files THEN <<>> ELSE delta[<<p, adding>>]
            add(p) == <<Edit(IF p \in Files THEN "add_file" ELSE "add_directory", p, r)>>
                      \o inside(p, TRUE)
                      \o (IF p \in Files THEN <<>> ELSE <<Edit("close_added", p, r)>>)
            open(p) == IF p \in Files THEN <<Edit("open_file", p, r)>>
                       ELSE inside(p, FALSE) \o <<Edit("close_directory", p, r)>>
            remove(p) == <<Edit("delete_entry", p, r)>>
            one(p) ==
              LET s == source(p)
                  t == In(r, p)
              IN  CASE s = NoNode -> add(p)
                    [] s # NoNode /\ s.born # t.born -> remove(p) \o add(p)
                    [] s # NoNode /\ s.born = t.born ->
                         IF s.rev = t.rev /\ (p \in Files \/ ~MirrorChanged(p)) THEN <<>>
                         ELSE open(p)
        IN  ForAll({p \in paths : In(r, p) # NoNode}, one) \o
            ForAll({p \in paths : source(p) # NoNode /\ In(r, p) = NoNode}, remove)
  IN  delta[<<Root, FALSE>>]

\* Missing files are restored while the report is made; a path that is not in
\* the revision reported for it is an error.
DoUpdate ==
  /\ Step("update")
  /\ Try(\A p \in Items : Crawled[Front(p)] /\ Reported(p) => Source(p) # NoNode,
         /\ Continue(ForAll(Missing, LAMBDA p : <<On("restore_text", p)>>)
                     \o DeltaDirs(todo[1].rev)
                     \o <<Edit("close_edit", Root, todo[1].rev)>>)
         /\ UNCHANGED disk)

\* delete_entry: by a log, so that it is finished if it was begun.
DoEditDelete ==
  /\ Step("delete_entry")
  /\ LET d == Front(todo[1].path)
     IN  /\ Continue(<<Lock(d), WriteLog(d, <<On("remove", todo[1].path)>>), RunLog(d), Unlock(d)>>)
         /\ UNCHANGED disk

DoAddDirectory ==
  /\ Step("add_directory")
  /\ LET d == todo[1].path
     IN  Try(d \notin dirs, Continue(<<On("ensure_adm", d)>>) /\ UNCHANGED disk)

\* maybe_bump_dir_revision: a new directory becomes its parent's last.
DoCloseDirectory ==
  \E op \in {"close_directory", "close_added"} :
    /\ Step(op)
    /\ LET d == todo[1].path
       IN  /\ Continue(<<ModifyEntry(d, ThisDir, [revision |-> todo[1].rev], FALSE)>> \o
                       (IF op = "close_directory" THEN <<>>
                        ELSE <<ModifyEntry(Front(d), Last(d), [kind |-> "dir"], FALSE)>>))
           /\ UNCHANGED disk

\* add_file, open_file and apply_textdelta: the new text is put together in
\* tmp/text-base, from the text base that is there.
DoEditFile ==
  \E op \in {"add_file", "open_file"} :
    /\ Step(op)
    /\ LET p == todo[1].path
           new == In(todo[1].rev, p).text
           right == op = "add_file" \/ Base(p) = Source(p).text
           text == IF right THEN new ELSE [i \in Regions |-> Garbled]
       IN  Try(IsWc(Front(p)) /\ (op = "open_file" => HasEntry(p)),
               /\ Continue(<<Lock(Front(p)), Edit("install_file", p, todo[1].rev)>>)
               /\ SetTmp(p, text)
               /\ UNCHANGED <<wf, stamped, mine, dirs>>)

\* The log of svn_wc_install_file.
InstallLog(p, r, modified) ==
  <<On(IF modified THEN "merge" ELSE "cp", p),
    ModifyEntry(Front(p), Last(p), [kind |-> "file", revision |-> r], FALSE)>>
  \o (IF modified THEN <<>>
      ELSE <<ModifyEntry(Front(p), Last(p), [text_time |-> TRUE], FALSE)>>)
  \o <<On("mv", p)>>

\* svn_wc_install_file, in a locked directory.  Asking whether an unversioned
\* file is modified is an error.
DoInstallFile ==
  /\ Step("install_file")
  /\ LET p == todo[1].path
         d == Front(p)
     IN  Try(wf[p] # NoText => HasEntry(p),
             /\ Continue(<<WriteLog(d, InstallLog(p, todo[1].rev, TextModified(p))),
                           RunLog(d), Unlock(d)>>)
             /\ UNCHANGED disk)

\* svn_wc__do_update_cleanup: one entries file after the other.
TweakSteps[d \in Dirs] ==
  LET below == {n \in Children(d) : Append(d, n) \in SubDirs}
  IN  (IF IsWc(d) THEN ForAll(below, LAMBDA n : TweakSteps[Append(d, n)]) ELSE <<>>) \o <<d>>

DoCloseEdit ==
  /\ Step("close_edit")
  /\ LET ds == TweakSteps[Root]
     IN  Continue([k \in DOMAIN ds |-> Edit("tweak", ds[k], todo[1].rev)]) /\ UNCHANGED disk

DoTweak ==
  /\ Step("tweak")
  /\ LET d == todo[1].path
         entries == EntriesOf(d)
     IN  Try(CanWrite(d),
             /\ Continue(<<>>)
             /\ SetEntries(d, EntriesWrite(
                  [n \in DOMAIN entries |->
                     IF n = ThisDir \/ entries[n].kind = "file"
                     THEN TweakEntry(entries[n], NoUrl, todo[1].rev) ELSE entries[n]]))
             /\ UNCHANGED <<wf, stamped, mine, dirs>>)

----------------------------------------------------------------------------
(* The user, the others and the death of the process *)

Idle == todo = <<>>
Unfinished(d) == adm[d].log # <<>> \/ adm[d].lock \/ adm[d].killme \/ adm[d].tmpEntries
Pending == \E d \in DOMAIN adm : Unfinished(d)

NoCmd == [op |-> "none"]

\* What the user may ask for.
Requests ==
  {[op |-> "update", path |-> Root, rev |-> r] : r \in {Youngest}}
  \cup {On(op, Root) : op \in {"commit", "cleanup"}}
  \cup {On(op, p) : op \in {"add", "delete", "revert"}, p \in Items}
  \cup {On("resolve", p) : p \in Files}

\* The directory of a path that the user schedules is at the path's revision.
AtDirRevision(p) ==
  /\ HasEntry(p) => EntryOf(p).revision = EntryOf(Front(p)).revision
  /\ p \in SubDirs /\ IsWc(p) => \A n \in Children(p) :
       EntriesOf(p)[n].kind = "file" => EntriesOf(p)[n].revision = EntryOf(p).revision

Command ==
  /\ Idle /\ cmds < MaxCmds
  /\ \E c \in {q \in Requests : q.op \in Commands} :
       /\ Pending /\ ~Hasty => c.op = "cleanup"
       /\ c.op \in {"add", "delete"} /\ ~Mixed => IsWc(Front(c.path)) /\ AtDirRevision(c.path)
       /\ c.op = "update" /\ ~Mixed => \A p \in Items :
            HasEntry(p) /\ EntryOf(p).schedule \in {"delete", "replace"} => AtDirRevision(p)
       /\ todo' = <<c>> /\ cmd' = c
  /\ failed' = FALSE /\ cmds' = cmds + 1
  /\ UNCHANGED <<repo, disk, edits, crashes>>

MayEdit == Hasty \/ (Idle /\ ~Pending)

UserWrites(p, text) ==
  /\ MayEdit /\ edits < MaxEdits
  /\ wf' = [wf EXCEPT ![p] = text]
  /\ stamped' = [stamped EXCEPT ![p] = FALSE]
  /\ edits' = edits + 1
  /\ cmd' = IF Idle THEN NoCmd ELSE cmd
  /\ UNCHANGED <<repo, mine, dirs, adm, todo, failed, cmds, crashes>>

UserEdit ==
  \E p \in Files, i \in Regions :
    wf[p] # NoText /\ UserWrites(p, [wf[p] EXCEPT ![i] = EditNo(edits + 1)])

UserCreates ==
  \E p \in Files :
    /\ wf[p] = NoText /\ Front(p) \in dirs
    /\ UserWrites(p, [i \in Regions |-> EditNo(edits + 1)])

UserRemoves == \E p \in Files : wf[p] # NoText /\ UserWrites(p, NoText)

OtherCommits(del, put) ==
  /\ Youngest < MaxRev
  /\ repo' = Append(repo, NewTree(repo[Youngest], Youngest + 1, del, put))
  /\ UNCHANGED <<disk, todo, cmd, failed, cmds, edits, crashes>>

OtherEdit ==
  /\ "edit" \in OthersDo
  /\ \E p \in Files, i \in Regions :
       LET old == In(Youngest, p)
       IN  old # NoNode /\ OtherCommits({}, p :> [kind |-> "file",
                                                text |-> [old.text EXCEPT ![i] = Youngest + 1]])

OtherAdd ==
  /\ "add" \in OthersDo
  /\ \E p \in Items :
       /\ In(Youngest, p) = NoNode /\ In(Youngest, Front(p)) # NoNode
       /\ OtherCommits({}, p :> (IF p \in SubDirs THEN [kind |-> "dir", text |-> NoText]
                                ELSE [kind |-> "file", text |-> [i \in Regions |-> Youngest + 1]]))

OtherDelete ==
  /\ "delete" \in OthersDo
  /\ \E p \in Items : In(Youngest, p) # NoNode /\ OtherCommits({p}, <<>>)

\* The process dies, perhaps while it writes an entries file.
WritesEntries == {"modify_entry", "rm_entry", "tweak"}

Crash ==
  /\ ~Idle /\ crashes < MaxCrashes
  /\ crashes' = crashes + 1
  /\ todo' = <<>> /\ failed' = TRUE
  /\ \/ UNCHANGED adm
     \/ /\ todo[1].op \in WritesEntries
        /\ LET d == IF todo[1].op = "rm_entry" THEN Front(todo[1].path) ELSE todo[1].path
           IN  IsWc(d) /\ Set(d, [adm[d] EXCEPT !.tmpEntries = TRUE])
  /\ UNCHANGED <<repo, wf, stamped, mine, dirs, cmd, cmds, edits>>

----------------------------------------------------------------------------
(* The specification *)

DoStep ==
  \/ DoLock \/ DoUnlock \/ DoWriteLog \/ DoRunLog \/ DoLogDone \/ DoModifyEntry
  \/ DoRemove \/ DoCopy \/ DoMove \/ DoMerge \/ DoPutFile
  \/ DoRmFile \/ DoRmWorkingFile \/ DoRmEntry \/ DoRmBase \/ DoRmChildren
  \/ DoAdmDestroy \/ DoRmdir
  \/ DoAdd \/ DoEnsureAdm \/ DoDelete \/ DoRevert \/ DoRevertAll \/ DoRestoreText
  \/ DoRmBackup \/ DoResolve
  \/ DoCleanup \/ DoRelock \/ DoMopUp \/ DoCleanTmp \/ DoUnlockRest
  \/ DoCommit \/ DoUnlockDirs \/ DoTransmit \/ DoRmTmp \/ DoRepositoryCommit \/ DoCommitted
  \/ DoSyncBase \/ DoFinally
  \/ DoUpdate \/ DoEditDelete \/ DoAddDirectory \/ DoCloseDirectory \/ DoEditFile
  \/ DoInstallFile \/ DoCloseEdit \/ DoTweak

\* A checkout of revision 1.
Init ==
  /\ \E S \in Starts :
       LET text(p) == IF p \in S THEN [i \in Regions |-> 1] ELSE NoText
           names(d) == {n \in Names(d) : Append(d, n) \in S}
       IN  /\ repo = <<[p \in Paths |->
                          CASE p \in Files \cap S -> Node("file", text(p), 1, 1)
                            [] p \in (SubDirs \cap S) \cup {Root} -> Node("dir", NoText, 1, 1)
                            [] OTHER -> NoNode]>>
           /\ wf = [p \in Files |-> text(p)]
           /\ stamped = [p \in Files |-> p \in S]
           /\ dirs = (SubDirs \cap S) \cup {Root}
           /\ adm = [d \in dirs |->
                [NewAdm(d) EXCEPT
                   !.entries = [n \in names(d) \cup {ThisDir} |->
                                  [AllocEntry EXCEPT
                                     !.kind = IF n \in FileNames(d) THEN "file" ELSE "dir",
                                     !.revision = IF n = ThisDir THEN 1 ELSE NoRev,
                                     !.url = IF n = ThisDir THEN Url(d) ELSE NoUrl]],
                   !.base = [n \in FileNames(d) |-> text(Append(d, n))]]]
  /\ mine = [p \in Files |-> <<>>]
  /\ todo = <<>> /\ cmd = NoCmd /\ failed = FALSE
  /\ cmds = 0 /\ edits = 0 /\ crashes = 0

Next ==
  \/ DoStep \/ Command \/ UserEdit \/ UserCreates \/ UserRemoves
  \/ OtherEdit \/ OtherAdd \/ OtherDelete \/ Crash

Spec == Init /\ [][Next]_vars

----------------------------------------------------------------------------
(* Properties *)

Texts == [Regions -> Int] \cup {NoText}

\* Every variable has its type.
TypeOK ==
  /\ \A r \in 1..Youngest, p \in Paths :
       In(r, p).kind \in {"none", "file", "dir"} /\ In(r, p).rev \in 0..r
  /\ \A p \in Files : wf[p] \in Texts /\ stamped[p] \in BOOLEAN
  /\ dirs \subseteq Dirs /\ DOMAIN adm \subseteq dirs
  /\ \A d \in DOMAIN adm :
       /\ Readable(adm[d].entries)
       /\ \A n \in DOMAIN adm[d].entries : adm[d].entries[n] \in Entry
  /\ failed \in BOOLEAN

Done(op) == Idle /\ cmd.op = op /\ ~failed

\* What the user wrote is in a working file, in a backup or in a revision.
Kept(v) ==
  \/ \E p \in Files, i \in Regions : wf[p] # NoText /\ wf[p][i] = v
  \/ \E p \in Files : \E k \in DOMAIN mine[p], i \in Regions :
       mine[p][k] # NoText /\ mine[p][k][i] = v
  \/ \E r \in 1..Youngest, p \in Files, i \in Regions :
       In(r, p).kind = "file" /\ In(r, p).text[i] = v

\* No command, and no cleanup after a death of the process at any step, loses
\* what the user wrote, unless the user asked for it by reverting or
\* resolving: the merge keeps a backup, the deletion leaves the file, the
\* post-commit processing does not touch it.
EditsKept ==
  [][todo # <<>> /\ todo[1].op \notin {"restore_text", "rm_backup"} =>
       \A k \in 1..edits : Kept(EditNo(k)) => Kept(EditNo(k))']_vars

\* A commit takes back nothing that others committed: where the new text of a
\* file differs from the youngest one, this user wrote it (or left the markers of
\* a conflict there, which hold both texts).  The repository
\* refuses what was not made from the youngest text, and the revision that a
\* file is sent with is the one that its text base has.
OthersKept ==
  [][Step("do_commit") /\ todo' # todo /\ repo' # repo => \A p \in Files :
       LET old == In(Youngest, p)
           new == repo'[Len(repo')][p]
       IN  old.kind = "file" /\ new.kind = "file" /\ new.born = old.born =>
             \A i \in Regions : new.text[i] # old.text[i] => new.text[i] < 0 /\ new.text[i] # Garbled]_vars

\* With no log left to run, the text base of every file that is not new is
\* the text of that file in the revision its entry states, however the
\* revision was inherited, tweaked or bumped, and wherever a command was
\* interrupted.
BaseRight ==
  Idle /\ ~Pending => \A p \in Files :
    HasEntry(p) /\ EntryOf(p).schedule # "add" =>
      LET node == In(EntryOf(p).revision, p)
      IN  node # NoNode => Base(p) = node.text

\* After an update to revision r, what the user has not changed is as it is
\* in r: working files, and no entry for what is not there.
UpdateExact ==
  Done("update") => \A p \in Files :
    LET node == In(cmd.rev, p)
        new == \E q \in Items : AtOrBelow(q, p) /\ HasEntry(q) /\ EntryOf(q).schedule # "normal"
    IN  new \/ IF node = NoNode THEN HasEntry(p) => TextModified(p)
               ELSE /\ HasEntry(p) /\ EntryOf(p).revision = cmd.rev
                    /\ \A i \in Regions :
                         wf[p][i] = node.text[i] \/ wf[p][i] <= Both

\* After a commit nothing is left to commit, and every file is the one of the
\* revision its entry states (a file with local changes that an update was
\* told to delete keeps an entry at a revision that does not have it).
CommitExact ==
  Done("commit") /\ ~Pending =>
    /\ Committables = {}
    /\ \A p \in Files :
         LET node == In(EntryOf(p).revision, p)
         IN  Visited[p] /\ wf[p] # NoText /\ node # NoNode => wf[p] = node.text

\* As long as no process died, the schedule that a directory's entry has in
\* its parent is the one that it has itself whenever no command runs: it is
\* written in two entries files, one after the other and not through a log.
SchedulesAgree ==
  Idle /\ crashes = 0 => \A d \in SubDirs :
    IsWc(d) /\ Last(d) \in Children(Front(d)) =>
      EntriesOf(Front(d))[Last(d)].schedule = EntryOf(d).schedule

\* After a successful cleanup no lock, log or temporary file is left in the
\* directories that it reaches from the root (one whose removal was
\* interrupted after its parent forgot it is not reached).
CleanupCleans ==
  Done("cleanup") => \A d \in DOMAIN adm :
    d = Root \/ Last(d) \in Children(Front(d)) =>
      ~Unfinished(d) /\ \A n \in FileNames(d) : adm[d].tmp[n] = NoText

\* The entries, the text bases and the working files agree with one another and
\* with the revisions they name.
EntriesRight == TypeOK /\ BaseRight /\ UpdateExact /\ SchedulesAgree

\* Nobody's work is lost: neither the user's nor that of the other committers.
WorkKept == EditsKept /\ OthersKept
=============================================================================
