------------------------------- MODULE Diffs -------------------------------
(***************************************************************************)
(* svn diff and svn merge: the two editors that turn the differences a       *)
(* repository sends into callbacks about files and directories               *)
(* (libsvn_client/repos_diff.c between two revisions, libsvn_wc/diff.c       *)
(* between a revision and the working copy), the local comparison of the     *)
(* working copy with its text bases, and the merge callbacks, which apply    *)
(* the differences to the working copy (libsvn_client/diff.c).               *)
(*                                                                           *)
(* The editors are driven one call at a time, in the order in which          *)
(* libsvn_repos/delta.c makes the calls; a user may edit a working file      *)
(* between two of them.  A text is a model value, a text delta carries the   *)
(* text it was computed against.  Properties are merged in WcProps; here     *)
(* they only decide which calls are made.                                    *)
(***************************************************************************)
EXTENDS Naturals, Sequences, SequencesExt, FiniteSets

CONSTANTS
  DiffTrees,   \* the trees a revision may hold: path -> [kind, text, prop]
  MergeTrees,  \* those a merge may be asked to compare
  PlainWcs,    \* the working copies in which two revisions are compared, which
               \* does not look at the working copy
  DiffWcs,     \* the working copies: path -> [kind, sched, base, work, backup]; what
               \* is on the disk and not under version control is "unversioned"
  DiffNames,   \* the names, in the order in which a hash yields them
  TweakPaths,  \* the files a user may write to
  WcTexts,     \* what a user may write into a working file
  MaxTweaks

VARIABLES
  dcmd,        \* the command: [op, t1, t2, recurse, target, wc0] or NoCommand
  dcalls,      \* the editor calls still to come
  dstack,      \* the directory batons, innermost first
  dfile,       \* <<the open file's baton>>, or <<>>
  dout,        \* the callbacks made so far
  dwc,         \* the working copy
  derr,        \* did the command return an error?
  tweaks       \* edits made by the user while a command runs

dvars == <<dcmd, dcalls, dstack, dfile, dout, dwc, derr, tweaks>>

DiffRoot == <<>>
NoCommand == [op |-> "none"]
EmptyFile == <<>>
MissingFile == <<"missing">>
Mangled == "mangled"
Both == "both"          \* what diff3 makes of two changes to one text

Kids(t, p) == SelectSeq(DiffNames, LAMBDA n : Append(p, n) \in DOMAIN t)
Under(p, q) == IsPrefix(p, q)
UpOf(p) == SubSeq(p, 1, Len(p) - 1)
FilesOf(t) == {p \in DOMAIN t : t[p].kind = "file"}
\* The paths that have an entry
Entries(wc) == {p \in DOMAIN wc : wc[p].sched # "unversioned"}

RECURSIVE Flat(_)
Flat(ss) == IF ss = <<>> THEN <<>> ELSE Head(ss) \o Flat(Tail(ss))

----------------------------------------------------------------------------
(* The calls a comparison of two trees makes (libsvn_repos/delta.c) *)

Call(op, arg) == [op |-> op, arg |-> arg]
DeltaText(from, to) == [from |-> from, to |-> to]

\* delta_files: the properties, then the text if it changed
FileCalls(a, b) ==
  (IF a = <<>> THEN (IF b.prop = 0 THEN <<>> ELSE <<Call("change_file_prop", b.prop)>>)
   ELSE IF a[1].prop = b.prop THEN <<>> ELSE <<Call("change_file_prop", b.prop)>>)
  \o (IF a = <<>> THEN <<Call("apply_textdelta", DeltaText(EmptyFile, b.text))>>
      ELSE IF a[1].text = b.text THEN <<>>
      ELSE <<Call("apply_textdelta", DeltaText(<<a[1].text>>, b.text))>>)

RECURSIVE DirCalls(_, _, _, _)

\* add_file_or_dir and replace_file_or_dir, for the entry p
EntryCalls(a, b, p, recurse) ==
  LET name == Last(p) IN
  IF p \notin DOMAIN b THEN <<Call("delete_entry", name)>>
  ELSE IF b[p].kind = "file" THEN
    IF p \in DOMAIN a THEN
      IF a[p] = b[p] THEN <<>>
      ELSE <<Call("open_file", name)>> \o FileCalls(<<a[p]>>, b[p]) \o <<Call("close_file", name)>>
    ELSE <<Call("add_file", name)>> \o FileCalls(<<>>, b[p]) \o <<Call("close_file", name)>>
  ELSE IF p \notin DOMAIN a
    THEN <<Call("add_directory", name)>> \o DirCalls(a, b, p, recurse) \o <<Call("close_directory", name)>>
  ELSE IF \A q \in DOMAIN a \cup DOMAIN b :
            Under(p, q) => q \in DOMAIN a \cap DOMAIN b /\ a[q] = b[q] THEN <<>>
  ELSE <<Call("open_directory", name)>> \o DirCalls(a, b, p, recurse) \o <<Call("close_directory", name)>>

\* delta_dirs: the directory's properties, the target's entries, then the
\* source's entries that are left
DirCalls(a, b, p, recurse) ==
  LET prop == IF p \in DOMAIN a THEN a[p].prop ELSE 0
      Wanted(n) == recurse \/ b[Append(p, n)].kind = "file"
      there == SelectSeq(Kids(b, p), Wanted)
      gone == IF p \notin DOMAIN a THEN <<>>
              ELSE SelectSeq(Kids(a, p), LAMBDA n : Append(p, n) \notin DOMAIN b
                                                    /\ (recurse \/ a[Append(p, n)].kind = "file"))
  IN  (IF prop = b[p].prop THEN <<>> ELSE <<Call("change_dir_prop", b[p].prop)>>)
      \o Flat([i \in DOMAIN there |-> EntryCalls(a, b, Append(p, there[i]), recurse)])
      \o Flat([i \in DOMAIN gone |-> <<Call("delete_entry", gone[i])>>])

\* svn_repos_dir_delta, with or without an entry of the anchor
TreeCalls(a, b, target, recurse) ==
  <<Call("open_root", "")>>
  \o (IF target = "" THEN DirCalls(a, b, DiffRoot, recurse) ELSE EntryCalls(a, b, <<target>>, recurse))
  \o <<Call("close_directory", ""), Call("close_edit", "")>>

----------------------------------------------------------------------------
(* The state the handlers work on *)

Editing == [stack |-> dstack, file |-> dfile, out |-> dout, wc |-> dwc, err |-> derr]
Say(s, cb) == [s EXCEPT !.out = Append(@, cb)]
Fail(s) == [s EXCEPT !.err = TRUE]
Report(what, p, l, r) == [cb |-> what, path |-> p, left |-> l, right |-> r]

----------------------------------------------------------------------------
(* Merging one text, and the commands the merge callbacks call *)

\* svn_wc_merge: diff3 of the three texts; a conflict leaves a copy of mine.
SvnWcMerge(s, p, left, right, clean) ==
  IF p \notin Entries(s.wc) \/ s.wc[p].work = <<>> THEN Fail(s)
  ELSE LET mine == s.wc[p].work
           text == IF mine = left \/ mine = right THEN right
                   ELSE IF left = right THEN mine ELSE <<Both>>
           conflict == text = <<Both>> /\ ~clean
       IN  [s EXCEPT !.wc[p].work = text,
                     !.wc[p].backup = IF conflict THEN mine ELSE @]

\* Is there a file or a directory of this name on the disk?
OnDisk(s, p) ==
  IF p \notin DOMAIN s.wc THEN "none"
  ELSE IF s.wc[p].kind = "dir" THEN "dir"
  ELSE IF s.wc[p].work = <<>> THEN "none" ELSE "file"

\* A text is written to the path, or a directory is made there, if the parent
\* is on the disk; no entry changes.
Put(s, p, kind, text) ==
  IF OnDisk(s, UpOf(p)) # "dir" THEN Fail(s)
  ELSE [s EXCEPT !.wc = [q \in DOMAIN @ \cup {p} |->
          IF q # p THEN @[q]
          ELSE IF p \in DOMAIN @ THEN [@[p] EXCEPT !.work = text]
          ELSE [kind |-> kind, sched |-> "unversioned", base |-> <<>>, work |-> text, backup |-> <<>>]]]

\* svn_client_add on a file or on one directory: it takes what is on the disk
\* and has no entry, or an entry that is to be deleted from a directory that is not.
SvnClientAdd(s, p) ==
  IF s.err \/ OnDisk(s, p) = "none" \/ UpOf(p) \notin Entries(s.wc) THEN Fail(s)
  ELSE IF p \notin Entries(s.wc) THEN [s EXCEPT !.wc[p].sched = "add"]
  ELSE IF s.wc[p].sched = "delete" /\ s.wc[UpOf(p)].sched # "delete"
    THEN [s EXCEPT !.wc[p].sched = "replace"]
  ELSE Fail(s)

\* svn_client_delete without force: the tree is scheduled, the files stay; an
\* entry that was to be added is dropped.
SvnClientDelete(s, p) ==
  IF p \notin Entries(s.wc) THEN Fail(s)
  ELSE [s EXCEPT !.wc = [q \in DOMAIN @ |->
          IF ~Under(p, q) THEN @[q]
          ELSE [@[q] EXCEPT !.sched = IF @ \in {"add", "unversioned"} THEN "unversioned" ELSE "delete"]]]

MergeFileChanged(s, p, left, right, clean) == SvnWcMerge(s, p, left, right, clean)

MergeFileAdded_Overwrite(s, p, left, right, clean) ==
  CASE OnDisk(s, p) = "none" -> SvnClientAdd(Put(s, p, "file", right), p)
    [] OnDisk(s, p) = "dir" -> Fail(s)
    [] OnDisk(s, p) = "file" /\ s.wc[p].sched \in {"delete", "unversioned"} ->
         SvnClientAdd(Put(s, p, "file", right), p)
    [] OTHER -> SvnWcMerge(s, p, left, right, clean)

\* The text is written before the entry is made, and stays when that fails; a
\* file that is not under version control is in the way.
MergeFileAdded(s, p, left, right, clean) ==
  CASE OnDisk(s, p) = "none" -> SvnClientAdd(Put(s, p, "file", right), p)
    [] OnDisk(s, p) = "dir" -> Fail(s)
    [] OnDisk(s, p) = "file" /\ p \notin Entries(s.wc) -> Fail(s)
    [] OnDisk(s, p) = "file" /\ s.wc[p].sched = "delete" ->
         SvnClientAdd(Put(s, p, "file", right), p)
    [] OTHER -> SvnWcMerge(s, p, left, right, clean)

MergeFileDeleted(s, p) ==
  CASE OnDisk(s, p) = "file" -> SvnClientDelete(s, p)
    [] OnDisk(s, p) = "dir" -> Fail(s)
    [] OTHER -> s

\* svn_client_mkdir schedules the new directory, and svn_client_add then refuses it.
MergeDirAdded(s, p) ==
  CASE OnDisk(s, p) = "none" -> SvnClientAdd(SvnClientAdd(Put(s, p, "dir", <<>>), p), p)
    [] OnDisk(s, p) = "file" -> Fail(s)
    [] OnDisk(s, p) = "dir" /\ p \notin Entries(s.wc) -> SvnClientAdd(s, p)
    [] OTHER -> s

MergeDirDeleted(s, p) ==
  CASE OnDisk(s, p) = "dir" -> SvnClientDelete(s, p)
    [] OnDisk(s, p) = "file" -> Fail(s)
    [] OTHER -> s

\* The callbacks of svn diff only print; those of svn merge change the working copy.
DiffCallback(s, cb) == Say(s, cb)

MergeCallback(s, cb, clean) ==
  LET t == Say(s, cb) IN
  CASE cb.cb = "file_changed" -> MergeFileChanged(t, cb.path, cb.left, cb.right, clean)
    [] cb.cb = "file_added" -> MergeFileAdded(t, cb.path, cb.left, cb.right, clean)
    [] cb.cb = "file_deleted" -> MergeFileDeleted(t, cb.path)
    [] cb.cb = "dir_added" -> MergeDirAdded(t, cb.path)
    [] cb.cb = "dir_deleted" -> MergeDirDeleted(t, cb.path)
    [] OTHER -> t

Callback(s, cb, clean) ==
  IF dcmd.op = "merge" THEN MergeCallback(s, cb, clean) ELSE DiffCallback(s, cb)

----------------------------------------------------------------------------
(* The editor between two revisions *)

\* The compatibility wrapper joins names from "" on; the root's own path is
\* the target the editor was made with.
WrapPath(s, name) == Append(s.stack[1].wrap, name)

ReposDirBaton(wrap, path, added) == [wrap |-> wrap, path |-> path, added |-> added, compared |-> {}, prop |-> FALSE]
ReposFileBaton(path, added) == [path |-> path, wcpath |-> path, added |-> added, start |-> <<>>, end |-> <<>>, prop |-> FALSE]

\* The text of the path in the first revision
GetFileFromRa(p) == <<dcmd.t1[p].text>>

ReposOpenRoot(s) ==
  [s EXCEPT !.stack = <<ReposDirBaton(<<>>, IF dcmd.target = "" THEN <<>> ELSE <<dcmd.target>>, FALSE)>>]

\* A deleted directory is reported under its parent's path.
ReposDeleteEntry(s, name, clean) ==
  LET p == WrapPath(s, name) IN
  IF p \notin DOMAIN dcmd.t1 THEN s
  ELSE IF dcmd.t1[p].kind = "file"
    THEN Callback(s, Report("file_deleted", p, GetFileFromRa(p), EmptyFile), clean)
  ELSE Callback(s, Report("dir_deleted", s.stack[1].path, <<>>, <<>>), clean)

ReposAddDirectory(s, name, clean) ==
  LET p == WrapPath(s, name)
  IN  Callback([s EXCEPT !.stack = <<ReposDirBaton(p, p, TRUE)>> \o @],
               Report("dir_added", p, <<>>, <<>>), clean)

ReposOpenDirectory(s, name) ==
  LET p == WrapPath(s, name) IN [s EXCEPT !.stack = <<ReposDirBaton(p, p, FALSE)>> \o @]

ReposAddFile(s, name) == [s EXCEPT !.file = <<ReposFileBaton(WrapPath(s, name), TRUE)>>]

ReposOpenFile(s, name) ==
  LET p == WrapPath(s, name)
  IN  [s EXCEPT !.file = <<[ReposFileBaton(p, FALSE) EXCEPT !.start = GetFileFromRa(p)]>>]

\* The windows patch the text the delta was computed against.
Patched(base, delta) == <<IF base = delta.from THEN delta.to ELSE Mangled>>

ReposApplyTextdelta(s, delta) == [s EXCEPT !.file[1].end = Patched(s.file[1].start, delta)]

ReposCloseFile(s, clean) ==
  LET b == s.file[1]
      t == IF b.end = <<>> THEN s
           ELSE Callback(s, Report(IF b.added THEN "file_added" ELSE "file_changed", b.path, b.start, b.end), clean)
      u == IF b.prop /\ ~t.err THEN Callback(t, Report("props_changed", b.path, <<>>, <<>>), clean) ELSE t
  IN  [u EXCEPT !.file = <<>>]

ReposCloseDirectory(s, clean) ==
  LET b == s.stack[1]
      t == IF b.prop THEN Callback(s, Report("props_changed", b.path, <<>>, <<>>), clean) ELSE s
  IN  [t EXCEPT !.stack = Tail(@)]

ReposChangeFileProp(s) == [s EXCEPT !.file[1].prop = TRUE]
ReposChangeDirProp(s) == [s EXCEPT !.stack[1].prop = TRUE]

ReposCall(s, c, clean) ==
  CASE c.op = "open_root" -> ReposOpenRoot(s)
    [] c.op = "delete_entry" -> ReposDeleteEntry(s, c.arg, clean)
    [] c.op = "add_directory" -> ReposAddDirectory(s, c.arg, clean)
    [] c.op = "open_directory" -> ReposOpenDirectory(s, c.arg)
    [] c.op = "close_directory" -> ReposCloseDirectory(s, clean)
    [] c.op = "add_file" -> ReposAddFile(s, c.arg)
    [] c.op = "open_file" -> ReposOpenFile(s, c.arg)
    [] c.op = "apply_textdelta" -> ReposApplyTextdelta(s, c.arg)
    [] c.op = "close_file" -> ReposCloseFile(s, clean)
    [] c.op = "change_file_prop" -> ReposChangeFileProp(s)
    [] c.op = "change_dir_prop" -> ReposChangeDirProp(s)
    [] OTHER -> s

----------------------------------------------------------------------------
(* The editor between a revision and the working copy *)

WorkText(s, p) == IF s.wc[p].work = <<>> THEN MissingFile ELSE s.wc[p].work

\* file_diff: the callbacks for one file of the working copy

FileDiff(s, p, added) ==
  LET e == s.wc[p]
      sched == IF added THEN "add" ELSE e.sched
      del == <<Report("file_deleted", p, e.base, EmptyFile)>>
      add == <<Report("file_added", p, EmptyFile, WorkText(s, p))>>
  IN  CASE sched = "replace" -> del \o add
        [] sched = "delete" -> del
        [] sched = "add" -> add
        [] OTHER -> IF e.work = e.base \/ e.work = <<>> THEN <<>>
                    ELSE <<Report("file_changed", p, e.base, WorkText(s, p))>>

RECURSIVE DirectoryElementsDiff(_, _, _, _)

DirectoryElementsDiff(s, dir, compared, added) ==
  LET inAnchorNotTarget == dcmd.target # "" /\ dir = DiffRoot
      Wanted(n) == /\ Append(dir, n) \in Entries(s.wc) \ compared
                   /\ inAnchorNotTarget => n = dcmd.target
      names == SelectSeq(Kids(s.wc, dir), Wanted)
      OfEntry(p) ==
        IF s.wc[p].kind = "file" THEN FileDiff(s, p, added)
        ELSE IF inAnchorNotTarget \/ dcmd.recurse THEN DirectoryElementsDiff(s, p, {}, added)
        ELSE <<>>
  IN  Flat([i \in DOMAIN names |-> OfEntry(Append(dir, names[i]))])

\* make_dir_baton, of the root and of an entry of the innermost directory
WcDirBaton(path, added) == [wrap |-> path, path |-> path, added |-> added, compared |-> {}, prop |-> FALSE]
WcPath(s, name) == Append(s.stack[1].path, name)

RECURSIVE Existing(_)
Existing(stack) == IF Head(stack).added THEN Existing(Tail(stack)) ELSE Head(stack).path

\* make_file_baton: the administrative area used is that of the nearest
\* directory that exists.
WcFileBaton(s, name, added) ==
  [path |-> WcPath(s, name), wcpath |-> Append(Existing(s.stack), name), added |-> added,
   start |-> <<>>, end |-> <<>>, prop |-> FALSE]

WcOpenRoot(s) == [s EXCEPT !.stack = <<WcDirBaton(DiffRoot, FALSE)>>]

WcDeleteEntry(s, name) ==
  LET p == WcPath(s, name) IN
  IF p \notin Entries(s.wc) THEN Fail(s)
  ELSE IF s.wc[p].kind = "file"
    THEN Say(s, Report("file_added", p, EmptyFile, WorkText(s, p)))
  ELSE [s EXCEPT !.out = @ \o DirectoryElementsDiff(s, p, {}, TRUE)]

WcAddDirectory(s, name) == [s EXCEPT !.stack = <<WcDirBaton(WcPath(s, name), TRUE)>> \o @]
WcOpenDirectory(s, name) == [s EXCEPT !.stack = <<WcDirBaton(WcPath(s, name), FALSE)>> \o @]

\* This entry has been compared, its directory shall not compare it again.
MarkCompared(stack, p) ==
  IF stack = <<>> THEN stack ELSE [stack EXCEPT ![1].compared = @ \cup {p}]

WcCloseDirectory(s) ==
  LET b == s.stack[1]
      local == IF b.added THEN <<>> ELSE DirectoryElementsDiff(s, b.path, b.compared, FALSE)
  IN  [s EXCEPT !.out = @ \o local, !.stack = MarkCompared(Tail(@), b.path)]

WcAddFile(s, name) == [s EXCEPT !.file = <<WcFileBaton(s, name, TRUE)>>]
WcOpenFile(s, name) == [s EXCEPT !.file = <<WcFileBaton(s, name, FALSE)>>]

\* The delta is applied to the empty file or to the text base, into a
\* temporary file of the administrative area.
WcApplyTextdelta(s, delta) ==
  LET b == s.file[1]
      base == IF b.added THEN EmptyFile
              ELSE IF b.wcpath \in Entries(s.wc) THEN s.wc[b.wcpath].base ELSE MissingFile
  IN  IF base = MissingFile THEN Fail(s) ELSE [s EXCEPT !.file[1].end = Patched(base, delta)]

WcCloseFile(s) ==
  LET b == s.file[1]
      repos == IF b.end = <<>> THEN MissingFile ELSE b.end
      cb == IF b.added THEN Report("file_deleted", b.path, repos, EmptyFile)
            ELSE Report("file_changed", b.path, repos, WorkText(s, b.path))
  IN  [Say(s, cb) EXCEPT !.stack = MarkCompared(@, b.path), !.file = <<>>]

WcCall(s, c) ==
  CASE c.op = "open_root" -> WcOpenRoot(s)
    [] c.op = "delete_entry" -> WcDeleteEntry(s, c.arg)
    [] c.op = "add_directory" -> WcAddDirectory(s, c.arg)
    [] c.op = "open_directory" -> WcOpenDirectory(s, c.arg)
    [] c.op = "close_directory" -> WcCloseDirectory(s)
    [] c.op = "add_file" -> WcAddFile(s, c.arg)
    [] c.op = "open_file" -> WcOpenFile(s, c.arg)
    [] c.op = "apply_textdelta" -> WcApplyTextdelta(s, c.arg)
    [] c.op = "close_file" -> WcCloseFile(s)
    [] OTHER -> s

----------------------------------------------------------------------------
(* The commands *)

Command(op, a, b, recurse, target) ==
  [op |-> op, t1 |-> a, t2 |-> b, recurse |-> recurse, target |-> target, wc0 |-> dwc]

\* The tree the working copy reports: what its text bases hold.  A scheduled
\* deletion is not reported.
BaseTree(wc) ==
  LET there == {p \in DOMAIN wc : IF wc[p].kind = "dir" THEN wc[p].sched \notin {"add", "unversioned"} ELSE wc[p].base # <<>>}
  IN  [p \in there |-> [kind |-> wc[p].kind, prop |-> 0,
                        text |-> IF wc[p].kind = "dir" THEN "" ELSE wc[p].base[1]]]

DiffInit ==
  /\ dcmd = NoCommand /\ dcalls = <<>> /\ dstack = <<>> /\ dfile = <<>>
  /\ dout = <<>> /\ derr = FALSE /\ tweaks = 0
  /\ dwc \in DiffWcs

Begin(cmd, calls) ==
  /\ dcmd = NoCommand
  /\ dcmd' = cmd /\ dcalls' = calls
  /\ UNCHANGED <<dstack, dfile, dout, dwc, derr, tweaks>>

\* svn diff PATH: svn_wc_diff, without asking the repository
DiffBase(recurse, target) ==
  /\ dcmd = NoCommand
  /\ target # "" => <<target>> \in Entries(dwc)
  /\ dcmd' = Command("base", <<>>, <<>>, recurse, target)
  /\ dcalls' = <<Call("svn_wc_diff", "")>>
  /\ UNCHANGED <<dstack, dfile, dout, dwc, derr, tweaks>>

\* svn diff -r N PATH
DiffWorking(b, recurse, target) ==
  /\ target # "" => <<target>> \in Entries(dwc)
  /\ Begin(Command("working", BaseTree(dwc), b, recurse, target),
           TreeCalls(BaseTree(dwc), b, target, recurse))

\* svn diff -r N:M PATH
DiffRepos(a, b, recurse, target) ==
  /\ target # "" => <<target>> \in DOMAIN a
  /\ Begin(Command("repos", a, b, recurse, target), TreeCalls(a, b, target, recurse))

\* svn merge, of the working copy's root directory
MergeTree(a, b, recurse) ==
  Begin(Command("merge", a, b, recurse, ""), TreeCalls(a, b, "", recurse))

\* svn merge, of one file
MergeFile(a, b, target, clean) ==
  /\ dcmd = NoCommand
  /\ <<target>> \in FilesOf(a) \cap FilesOf(b) \cap FilesOf(dwc)
  /\ LET s == SvnWcMerge(Editing, <<target>>, <<a[<<target>>].text>>, <<b[<<target>>].text>>, clean)
     IN  /\ dwc' = s.wc /\ derr' = s.err
         /\ dout' = <<Report("file_changed", <<target>>, <<a[<<target>>].text>>, <<b[<<target>>].text>>)>>
  /\ dcmd' = Command("mergefile", a, b, FALSE, target)
  /\ UNCHANGED <<dcalls, dstack, dfile, tweaks>>

\* svn_wc_diff on a file's directory or on the directory itself
SvnWcDiff(s) ==
  LET t == <<dcmd.target>>
      dir == IF dcmd.target # "" /\ s.wc[t].kind = "dir" THEN t ELSE DiffRoot
  IN  [s EXCEPT !.out = DirectoryElementsDiff(s, dir, {}, FALSE)]

EditorCall ==
  /\ dcalls # <<>> /\ ~derr
  /\ \E clean \in BOOLEAN :
       \E s \in {IF Head(dcalls).op = "svn_wc_diff" THEN SvnWcDiff(Editing)
                 ELSE IF dcmd.op = "working" THEN WcCall(Editing, Head(dcalls))
                 ELSE ReposCall(Editing, Head(dcalls), clean)} :
         /\ dstack' = s.stack /\ dfile' = s.file /\ dout' = s.out /\ dwc' = s.wc /\ derr' = s.err
  /\ dcalls' = Tail(dcalls)
  /\ UNCHANGED <<dcmd, tweaks>>

\* The user edits a working file, or creates one, while a merge is at work.
Tweak(p, text) ==
  /\ dcmd.op = "merge" /\ dcalls # <<>> /\ tweaks < MaxTweaks
  /\ OnDisk(Editing, p) # "dir" /\ OnDisk(Editing, UpOf(p)) = "dir"
  /\ p \in DOMAIN dwc => dwc[p].work # <<text>>
  /\ dwc' = Put(Editing, p, "file", <<text>>).wc
  /\ dcmd' = [dcmd EXCEPT !.wc0 = [q \in DOMAIN @ \cup {p} |-> IF q = p THEN dwc'[p] ELSE @[q]]]
  /\ tweaks' = tweaks + 1
  /\ UNCHANGED <<dcalls, dstack, dfile, dout, derr>>

Targets == {""} \cup {DiffNames[i] : i \in DOMAIN DiffNames}

Start ==
  /\ dcmd = NoCommand
  /\ \/ \E r \in BOOLEAN, t \in Targets : DiffBase(r, t)
     \/ \E b \in DiffTrees, r \in BOOLEAN, t \in Targets : DiffWorking(b, r, t)
     \/ dwc \in PlainWcs /\ \E a, b \in DiffTrees, r \in BOOLEAN, t \in Targets : DiffRepos(a, b, r, t)
     \/ \E a, b \in MergeTrees, r \in BOOLEAN : MergeTree(a, b, r)
     \/ \E a, b \in MergeTrees, t \in Targets, c \in BOOLEAN : MergeFile(a, b, t, c)

DiffNext ==
  \/ Start
  \/ EditorCall
  \/ \E p \in TweakPaths, x \in WcTexts : Tweak(p, x)

----------------------------------------------------------------------------
(* What the commands promise *)

Finished == dcmd # NoCommand /\ dcalls = <<>> /\ ~derr
About(p) == SelectSeq(dout, LAMBDA c : c.path = p /\ c.cb \notin {"dir_added", "dir_deleted", "props_changed"})
TextIn(t, p) == IF p \in FilesOf(t) THEN <<t[p].text>> ELSE EmptyFile
\* Does the command look at the file?
InScope(p) ==
  IF dcmd.target = "" THEN dcmd.recurse \/ Len(p) = 1
  ELSE Head(p) = dcmd.target /\ (dcmd.recurse \/ Len(p) <= 2)

ExactlyOne(p, l, r) == Len(About(p)) = 1 /\ About(p)[1].left = l /\ About(p)[1].right = r

\* svn diff between two revisions shows every file whose text differs exactly
\* once, with the text of the one revision and that of the other, and no other
\* file; files below a directory that is deleted are not shown.
RepoDiffExact ==
  dcmd.op = "repos" =>
    /\ ~derr
    /\ Finished =>
         \A p \in FilesOf(dcmd.t1) \cup FilesOf(dcmd.t2) :
           LET l == TextIn(dcmd.t1, p)
               r == TextIn(dcmd.t2, p)
           IN  IF InScope(p) /\ l # r /\ (UpOf(p) \in DOMAIN dcmd.t2 \/ UpOf(p) \notin DOMAIN dcmd.t1)
               THEN ExactlyOne(p, l, r) ELSE About(p) = <<>>

\* What the working copy would hold of the file if it were committed.
WorkingText(wc, p) ==
  IF p \notin FilesOf(wc) \/ wc[p].sched \in {"delete", "unversioned"} THEN EmptyFile ELSE wc[p].work
Deleted(p) == p \in DOMAIN dcmd.t1 /\ p \notin DOMAIN dcmd.t2
ReposChanged(p) == TextIn(dcmd.t1, p) # TextIn(dcmd.t2, p) \/ Deleted(UpOf(p))
PropsOnly(p) ==
  /\ p \in DOMAIN dcmd.t1 \cap DOMAIN dcmd.t2
  /\ dcmd.t1[p].prop # dcmd.t2[p].prop /\ dcmd.t1[p].text = dcmd.t2[p].text
VersionedFile(p) == p \in FilesOf(dwc) \cap Entries(dwc)
LocallyScheduled(p) == VersionedFile(p) /\ dwc[p].sched # "normal"
LocallyEdited(p) == VersionedFile(p) /\ dwc[p].work # dwc[p].base
Missing(p) == VersionedFile(p) /\ dwc[p].work = <<>>
OnlyHere(p) == p \notin DOMAIN dcmd.t1
AddedThere(p) == p \in DOMAIN dcmd.t2 \ DOMAIN dcmd.t1

\* The files the comparison with a revision is known to get wrong: scheduled
\* here and changed there, or in a directory that is new there too, or below
\* a named target that exists only here; edited here and deleted there;
\* changed there in their properties alone.
KnownWrong(p) ==
  \/ PropsOnly(p)
  \/ LocallyScheduled(p) /\ (ReposChanged(p) \/ AddedThere(UpOf(p)) \/ (dcmd.target # "" /\ OnlyHere(<<dcmd.target>>)))
  \/ LocallyEdited(p) /\ (Deleted(p) \/ Deleted(UpOf(p)))

\* svn diff of the working copy with a revision, or with its text bases, shows
\* for every other file in scope exactly the difference between the two texts,
\* once, whether the repository's change, the local one or both make it, and
\* nothing of a file that is not under version control (a file missing from the
\* disk counts as unchanged for the command, and is left out here).
WcDiffExact ==
  (dcmd.op \in {"base", "working"} /\ Finished) =>
    \A p \in FilesOf(dwc) \cup (IF dcmd.op = "base" THEN {} ELSE FilesOf(dcmd.t2)) :
      LET old == IF dcmd.op = "base" THEN dwc[p].base ELSE TextIn(dcmd.t2, p)
          new == WorkingText(dwc, p)
          touched == dcmd.op = "working" /\ ReposChanged(p)
      IN  (InScope(p) /\ ~Missing(p) /\ ~(dcmd.op = "working" /\ KnownWrong(p))) =>
            IF p \in FilesOf(dwc) /\ dwc[p].sched = "replace"
            THEN Len(About(p)) = 2 /\ About(p)[1].left = old /\ About(p)[2].right = new
            ELSE IF old # new THEN ExactlyOne(p, old, new)
            ELSE IF touched THEN Len(About(p)) <= 1 ELSE About(p) = <<>>

SameDirs(a, b) == DOMAIN a \ FilesOf(a) = DOMAIN b \ FilesOf(b)
CleanCopy(wc, t) ==
  /\ DOMAIN wc = DOMAIN t
  /\ \A p \in FilesOf(wc) : wc[p].sched = "normal" /\ wc[p].work = wc[p].base /\ wc[p].base = <<t[p].text>>
  /\ \A p \in DOMAIN wc \ FilesOf(wc) : wc[p].sched = "normal"

\* Merging the difference of two revisions with the same directories into a
\* clean copy of the first makes it the second, with the additions and the
\* deletions scheduled, and does not fail.
MergeExact ==
  (/\ dcmd.op = "merge" /\ dcmd.recurse /\ tweaks = 0
   /\ SameDirs(dcmd.t1, dcmd.t2) /\ CleanCopy(dcmd.wc0, dcmd.t1)) =>
    /\ ~derr
    /\ Finished =>
         /\ \A p \in FilesOf(dcmd.t1) \cup FilesOf(dcmd.t2) : WorkingText(dwc, p) = TextIn(dcmd.t2, p)
         /\ \A p \in FilesOf(dwc) :
              dwc[p].sched = IF p \notin FilesOf(dcmd.t2) THEN "delete"
                             ELSE IF p \notin FilesOf(dcmd.t1) THEN "add" ELSE "normal"

\* A merge, finished, failed or cut short by an edit of the user's, never
\* loses a text: what was in a working file is there still, or it is one side
\* of the merge that was made of it, or its copy is kept beside the conflict
\* (a file that was to be deleted is replaced).  A file that is not under version
\* control is never written.
MergeKeepsTexts ==
  dcmd.op \in {"merge", "mergefile"} =>
    \A p \in FilesOf(dcmd.wc0) :
      LET was == dcmd.wc0[p].work
          merges == {i \in DOMAIN dout : dout[i].path = p /\ dout[i].cb \in {"file_changed", "file_added"}}
      IN  \/ was = <<>>
          \/ dwc[p].work = was \/ dwc[p].backup = was
          \/ p \in Entries(dcmd.wc0) /\ \E i \in merges : was = dout[i].left \/ dwc[p].work = <<Both>>
          \/ dcmd.wc0[p].sched = "delete"

============================================================================
