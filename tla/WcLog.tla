------------------------------- MODULE WcLog -------------------------------
(***************************************************************************)
(* The disk of a working copy (libsvn_wc): working files, administrative   *)
(* areas with their entries, pristine texts, log and lock, and the steps   *)
(* that change it.  A command is a list of steps, each of which changes    *)
(* the disk once; the process can die between any two, and svn_wc_cleanup  *)
(* then finds the log, the lock and the temporary files it had made.       *)
(* Module Wc adds the commands.                                            *)
(*                                                                         *)
(* A path is a sequence of names, the root of the working copy is <<>>.  A *)
(* text is a function from Regions (the parts of a file that diff3 merges  *)
(* independently) to who wrote them: the revision in which somebody else   *)
(* did, or the number of an edit of this working copy's user, negated.     *)
(***************************************************************************)
EXTENDS WcEntries, FiniteSets, SequencesExt

CONSTANTS
  Files,        \* paths of files
  SubDirs,      \* paths of directories below the root
  Regions,      \* parts of a text
  Starts,       \* the sets of paths that revision 1 may hold
  Commands,     \* the commands the user gives
  OthersDo,     \* what others commit: a subset of {"edit", "add", "delete"}
  MaxRev,       \* bound on revisions
  MaxCmds,      \* bound on the user's commands
  MaxEdits,     \* bound on the user's edits
  MaxCrashes,   \* bound on deaths of the process
  Hasty,        \* the user edits while a command runs, and goes on without a
                \* cleanup after one that was interrupted
  Mixed         \* the user schedules what is not at its directory's revision, or
                \* updates when it is not

VARIABLES
  repo,      \* the repository: a sequence of trees, from revision 1
  wf,        \* working files
  stamped,   \* files whose time is the text_time in their entry
  mine,      \* the backup copies (.mine) of conflicted files
  dirs,      \* directories on disk
  adm,       \* the administrative areas: a function on their directories
  todo,      \* what the running command still has to do
  cmd,       \* the command given last
  failed,    \* it returned an error
  cmds,      \* number of commands given
  edits,     \* number of edits
  crashes    \* number of times the process died

disk == <<wf, stamped, mine, dirs, adm>>
vars == <<repo, disk, todo, cmd, failed, cmds, edits, crashes>>

Root == <<>>
Dirs == SubDirs \cup {Root}
Items == Files \cup SubDirs

Both == -1      \* conflict markers around this user's and another's text
Garbled == -2   \* a delta applied to the wrong source
EditNo(k) == -2 - k
NoText == <<>>

ASSUME PathsAssumption ==
  /\ \A p \in Items : p # Root /\ Front(p) \in Dirs
  /\ Files \cap SubDirs = {}
  /\ \A S \in Starts : S \subseteq Items /\ \A p \in S : Front(p) \in S \cup {Root}
ASSUME RegionsAssumption == Regions # {} /\ IsFiniteSet(Regions)

\* A node of a tree: born is the revision that added it, rev its created
\* revision, the last one that changed it or something below it.
Node(kind, text, born, rev) ==
  [kind |-> kind, text |-> text, born |-> born, rev |-> rev]
NoNode == Node("none", NoText, 0, 0)
Youngest == Len(repo)
In(r, p) == repo[r][p]

FileNames(d) == {Last(p) : p \in {q \in Files : Front(q) = d}}
Names(d) == {Last(p) : p \in {q \in Items : Front(q) = d}}
Url(d) == <<"repos">> \o d
AtOrBelow(p, q) == Len(p) <= Len(q) /\ SubSeq(q, 1, Len(p)) = p

----------------------------------------------------------------------------
(* Administrative areas *)

EmptyTexts(d) == [n \in FileNames(d) |-> NoText]

\* init_adm: the area of a new directory, at revision 0.
NewAdm(d) ==
  [entries |-> EntriesInit(Url(d)), base |-> EmptyTexts(d),
   tmp |-> EmptyTexts(d), log |-> <<>>, lock |-> FALSE, killme |-> FALSE,
   tmpEntries |-> FALSE]

IsWc(d) == d \in DOMAIN adm
EntriesOf(d) == ReadEntries(adm[d].entries)
Children(d) == DOMAIN adm[d].entries \ {ThisDir}

\* svn_wc_entry: what is known of a directory is its own entry, of a file
\* its parent's.  A directory without an administrative area is an error.
HasEntry(p) ==
  \/ IsWc(p)
  \/ p # Root /\ p \notin dirs /\ IsWc(Front(p)) /\ Last(p) \in Children(Front(p))
EntryOf(p) == IF IsWc(p) THEN EntriesOf(p)[ThisDir] ELSE EntriesOf(Front(p))[Last(p)]

Set(d, area) == adm' = [adm EXCEPT ![d] = area]
SetEntries(d, file) == Set(d, [adm[d] EXCEPT !.entries = file])

\* An entries file is written as tmp/entries, which must not exist yet, and
\* then renamed.
CanWrite(d) == IsWc(d) /\ ~adm[d].tmpEntries

Base(p) == adm[Front(p)].base[Last(p)]
Tmp(p) == adm[Front(p)].tmp[Last(p)]
SetBase(p, text) == Set(Front(p), [adm[Front(p)] EXCEPT !.base[Last(p)] = text])
SetTmp(p, text) == Set(Front(p), [adm[Front(p)] EXCEPT !.tmp[Last(p)] = text])

----------------------------------------------------------------------------
(* Questions (questions.c, merge.c) *)

TextModified_NoCompare(p) == wf[p] # NoText /\ ~stamped[p] /\ Base(p) = NoText

\* svn_wc_text_modified_p: equal times are believed; without a text base the
\* file counts as modified.
TextModified(p) == wf[p] # NoText /\ ~stamped[p] /\ wf[p] # Base(p)

Backup(p, k) == IF k \in DOMAIN mine[p] THEN mine[p][k] ELSE NoText

\* svn_wc_conflicted_p: the entry names a backup that is on disk.
Conflicted(p) == p \in Files /\ HasEntry(p) /\ Backup(p, EntryOf(p).conflict) # NoText

\* diff3, region by region.
Merged(old, yours, theirs) ==
  [i \in Regions |->
     CASE theirs[i] = old[i] -> yours[i]
       [] yours[i] \in {old[i], theirs[i]} -> theirs[i]
       [] OTHER -> Both]

Clashes(old, yours, theirs) ==
  \E i \in Regions : theirs[i] # old[i] /\ yours[i] \notin {old[i], theirs[i]}

----------------------------------------------------------------------------
(* Steps.  Each is a record with the operation's name in op. *)

On(op, p) == [op |-> op, path |-> p]
Lock(d) == On("lock", d)
Unlock(d) == On("unlock", d)
WriteLog(d, log) == [op |-> "write_log", path |-> d, log |-> log]
AppendLog(d, log) == [op |-> "append_log", path |-> d, log |-> log]
RunLog(d) == On("run_log", d)
Finally == On("finally", Root)

ModifyEntry(d, n, change, force) ==
  [op |-> "modify_entry", path |-> d, name |-> n, change |-> change, force |-> force]

\* svn_wc_remove_from_revision_control on a file and on a directory.
RemoveFile(p, destroy) == [op |-> "rm_file", path |-> p, destroy |-> destroy]
RemoveDir(d, destroy) ==
  <<On("rm_entry", d), [op |-> "rm_children", path |-> d, destroy |-> destroy]>>
RemoveAny(p, destroy) ==
  IF p \in Files THEN <<RemoveFile(p, destroy)>> ELSE RemoveDir(p, destroy)

\* The concatenation of F(x) for the x of a set, in some order.
ForAll(S, F(_)) == FlattenSeq([k \in 1..Cardinality(S) |-> F(SetToSeq(S)[k])])

Step(op) == todo # <<>> /\ todo[1].op = op

\* The command goes on with the steps in more, then with its remaining ones.
Continue(more) ==
  /\ todo' = more \o Tail(todo)
  /\ UNCHANGED <<repo, cmd, failed, cmds, edits, crashes>>

Skip == Continue(<<>>) /\ UNCHANGED disk

\* SVN_ERR: the error is returned, after what follows a `cleanup' label.
Fail ==
  /\ LET ends == {k \in DOMAIN todo : todo[k].op = "finally"}
     IN  todo' = IF ends = {} THEN <<>>
                 ELSE SubSeq(todo, (CHOOSE k \in ends : \A l \in ends : k <= l) + 1, Len(todo))
  /\ failed' = TRUE
  /\ UNCHANGED <<repo, disk, cmd, cmds, edits, crashes>>

\* A step that needs P, and does A if it holds.
Try(P, A) == (P /\ A) \/ (~P /\ Fail)

----------------------------------------------------------------------------
(* Locks and logs (lock.c, log.c) *)

DoLock ==
  /\ Step("lock")
  /\ LET d == todo[1].path
     IN  Try(IsWc(d) => ~adm[d].lock,
             Continue(<<>>) /\ UNCHANGED <<wf, stamped, mine, dirs>>
             /\ IF IsWc(d) THEN Set(d, [adm[d] EXCEPT !.lock = TRUE])
                ELSE UNCHANGED adm)

DoUnlock ==
  /\ Step("unlock")
  /\ LET d == todo[1].path
     IN  Try(IsWc(d) /\ adm[d].lock,
             /\ Continue(<<>>)
             /\ Set(d, [adm[d] EXCEPT !.lock = FALSE])
             /\ UNCHANGED <<wf, stamped, mine, dirs>>)

\* Opening the log with or without APR_APPEND; what is written is moved into
\* place when the file is closed.
DoWriteLog ==
  \E op \in {"write_log", "append_log"} :
    /\ Step(op)
    /\ LET d == todo[1].path
           old == IF op = "append_log" THEN adm[d].log ELSE <<>>
       IN  Try(IsWc(d),
               /\ Continue(<<>>)
               /\ Set(d, [adm[d] EXCEPT !.log = old \o todo[1].log])
               /\ UNCHANGED <<wf, stamped, mine, dirs>>)

\* svn_wc__run_log: the commands in the log, then it is removed; a directory
\* with a file KILLME leaves revision control.
DoRunLog ==
  /\ Step("run_log")
  /\ LET d == todo[1].path
     IN  Try(IsWc(d), Continue(adm[d].log \o <<On("log_done", d)>>) /\ UNCHANGED disk)

DoLogDone ==
  /\ Step("log_done")
  /\ LET d == todo[1].path
     IN  /\ Continue(IF adm[d].killme THEN RemoveDir(d, FALSE) ELSE <<>>)
         /\ Set(d, [adm[d] EXCEPT !.log = <<>>])
         /\ UNCHANGED <<wf, stamped, mine, dirs>>

\* svn_wc__entry_modify, by itself and as log_do_modify_entry.  A text_time
\* in the change is the working file's time, which must be there.
DoModifyEntry ==
  /\ Step("modify_entry")
  /\ LET s == todo[1]
         p == Append(s.path, s.name)
         new == EntryModify(adm[s.path].entries, s.name, s.change, s.force)
         timed == "text_time" \in DOMAIN s.change
     IN  Try(/\ CanWrite(s.path) /\ Readable(adm[s.path].entries) /\ new.ok
             /\ timed => wf[p] # NoText,
             /\ Continue(<<>>)
             /\ SetEntries(s.path, new.file)
             /\ stamped' = IF timed THEN [stamped EXCEPT ![p] = TRUE] ELSE stamped
             /\ UNCHANGED <<wf, mine, dirs>>)

\* log_do_delete_entry: files with local changes stay.
DoRemove ==
  /\ Step("remove")
  /\ LET p == todo[1].path
     IN  IF HasEntry(p) THEN Continue(RemoveAny(p, TRUE)) /\ UNCHANGED disk
         ELSE Skip

\* log_do_file_xfer: copying needs its source, moving does not.
DoCopy ==
  /\ Step("cp")
  /\ LET p == todo[1].path
     IN  Try(Tmp(p) # NoText,
             /\ Continue(<<>>)
             /\ wf' = [wf EXCEPT ![p] = Tmp(p)]
             /\ stamped' = [stamped EXCEPT ![p] = FALSE]
             /\ UNCHANGED <<mine, dirs, adm>>)

DoMove ==
  /\ Step("mv")
  /\ LET p == todo[1].path
     IN  /\ Continue(<<>>)
         /\ IF Tmp(p) = NoText THEN UNCHANGED adm
            ELSE Set(Front(p), [adm[Front(p)] EXCEPT !.base[Last(p)] = Tmp(p),
                                                     !.tmp[Last(p)] = NoText])
         /\ UNCHANGED <<wf, stamped, mine, dirs>>

\* svn_wc_merge: first the backup and the entry that names it, then the
\* working file.
DoMerge ==
  /\ Step("merge")
  /\ LET p == todo[1].path
         backup == CHOOSE k \in 1..(Len(mine[p]) + 1) :
                     /\ Backup(p, k) = NoText
                     /\ \A l \in 1..(k - 1) : Backup(p, l) # NoText
         put == [op |-> "put_wf", path |-> p, text |-> Merged(Base(p), wf[p], Tmp(p))]
     IN  Try(/\ HasEntry(p)
             /\ Base(p) # NoText /\ Tmp(p) # NoText /\ wf[p] # NoText,
             IF Clashes(Base(p), wf[p], Tmp(p))
             THEN /\ Continue(<<ModifyEntry(Front(p), Last(p), [conflict |-> backup], FALSE), put>>)
                  /\ mine' = [mine EXCEPT ![p] =
                                IF backup > Len(@) THEN Append(@, wf[p])
                                ELSE [@ EXCEPT ![backup] = wf[p]]]
                  /\ UNCHANGED <<wf, stamped, dirs, adm>>
             ELSE Continue(<<put>>) /\ UNCHANGED disk)

DoPutFile ==
  /\ Step("put_wf")
  /\ Continue(<<>>)
  /\ wf' = [wf EXCEPT ![todo[1].path] = todo[1].text]
  /\ stamped' = [stamped EXCEPT ![todo[1].path] = FALSE]
  /\ UNCHANGED <<mine, dirs, adm>>

----------------------------------------------------------------------------
(* Leaving revision control (svn_wc_remove_from_revision_control) *)

RmFileSteps_Careless(p, destroy) ==
  (IF destroy THEN <<On("rm_wf", p)>> ELSE <<>>) \o <<On("rm_entry", p), On("rm_base", p)>>

\* A working file is removed only if it is not modified; one that is keeps
\* its entry too.
RmFileSteps(p, destroy) ==
  IF destroy /\ TextModified(p) THEN <<>>
  ELSE (IF destroy THEN <<On("rm_wf", p)>> ELSE <<>>) \o <<On("rm_entry", p), On("rm_base", p)>>

DoRmFile ==
  /\ Step("rm_file")
  /\ Continue(RmFileSteps(todo[1].path, todo[1].destroy))
  /\ UNCHANGED disk

DoRmWorkingFile ==
  /\ Step("rm_wf")
  /\ Continue(<<>>)
  /\ wf' = [wf EXCEPT ![todo[1].path] = NoText]
  /\ stamped' = [stamped EXCEPT ![todo[1].path] = FALSE]
  /\ UNCHANGED <<mine, dirs, adm>>

DoRmEntry ==
  /\ Step("rm_entry")
  /\ LET d == Front(todo[1].path)
     IN  Try(CanWrite(d),
             /\ Continue(<<>>)
             /\ SetEntries(d, EntriesWrite(EntryRemove(EntriesOf(d), Last(todo[1].path))))
             /\ stamped' = [p \in Files |-> p # todo[1].path /\ stamped[p]]
             /\ UNCHANGED <<wf, mine, dirs>>)

DoRmBase ==
  /\ Step("rm_base")
  /\ Continue(<<>>)
  /\ SetBase(todo[1].path, NoText)
  /\ UNCHANGED <<wf, stamped, mine, dirs>>

DoRmChildren ==
  /\ Step("rm_children")
  /\ LET d == todo[1].path
         destroy == todo[1].destroy
     IN  Try(IsWc(d),
             /\ Continue(ForAll(Children(d), LAMBDA n : RemoveAny(Append(d, n), destroy))
                         \o <<On("adm_destroy", d)>>
                         \o (IF destroy THEN <<On("rmdir", d)>> ELSE <<>>))
             /\ UNCHANGED disk)

\* svn_wc__adm_destroy takes the lock first.
DoAdmDestroy ==
  /\ Step("adm_destroy")
  /\ LET d == todo[1].path
     IN  Try(~adm[d].lock,
             /\ Continue(<<>>)
             /\ adm' = [e \in DOMAIN adm \ {d} |-> adm[e]]
             /\ UNCHANGED <<wf, stamped, mine, dirs>>)

\* A directory that is not empty stays.
DoRmdir ==
  /\ Step("rmdir")
  /\ LET d == todo[1].path
         empty == /\ \A p \in Files : Front(p) = d => wf[p] = NoText /\ mine[p] = <<>>
                  /\ \A e \in dirs \ {Root} : Front(e) # d
     IN  IF ~empty THEN Skip
         ELSE /\ Continue(<<>>)
              /\ dirs' = dirs \ {d}
              /\ UNCHANGED <<wf, stamped, mine, adm>>
=============================================================================
