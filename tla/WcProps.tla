------------------------------ MODULE WcProps ------------------------------
(***************************************************************************)
(* The versioned properties of a working copy directory "D" and of the     *)
(* file "f" in it (libsvn_wc: props.c, status.c, the property part of the  *)
(* update editor, of the commit and of its post-commit log command).       *)
(*                                                                         *)
(* Each item has a working property file, a pristine one (prop-base) and   *)
(* their counterparts in the administrative tmp area; the entry records a  *)
(* property timestamp, with which the library avoids comparing contents.   *)
(* A commit is several steps, between which the user may run propset or    *)
(* revert and the process may die.  Text is abstracted to "edited".        *)
(***************************************************************************)
EXTENDS Integers, Sequences, FiniteSets

CONSTANTS Names,       \* property names; all values have the same length
          Values,      \* property values
          IgnoreName,  \* the member of Names that stands for svn:ignore
          Matching,    \* the values of it that match the unversioned item
          MaxRev,      \* bound on the repository's revisions
          MaxClock     \* bound on the clock's ticks

ASSUME PropConstants ==
  /\ IgnoreName \in Names /\ Matching \subseteq Values
  /\ "svn:entry:last-author" \notin Names   \* only normal properties
  /\ MaxRev \in Nat /\ MaxClock \in Nat \ {0}

NoVal == "none"
Items == {"D", "f"}
ItemKind(i) == IF i = "D" THEN "dir" ELSE "file"
Props == [Names -> Values \cup {NoVal}]
NoProps == [n \in Names |-> NoVal]
Areas == {"props", "prop-base", "tmp/props", "tmp/prop-base"}

VARIABLES
  repos,    \* the revisions: for each item its properties and the revision
            \* in which it last changed
  files,    \* for each item and area, <<>> or <<properties>>
  mtime,    \* the tick in which the working property file was written
  ttime,    \* the tick in which the one in the tmp area was written
  ptime,    \* the entry's prop_time, 0 when there is none
  dtime,    \* the tick in which D itself was last changed
  clock, 
  rev,      \* the entry's revision
  prej,     \* whether the entry names a reject file
  file,     \* the file's schedule, whether it is there, and edited
  unver,    \* whether D holds an unversioned item
  locked,   \* whether D's administrative area is locked
  commit,   \* the commit under way
  ghost,    \* for the properties: see GhostInit
  subject   \* the item that this behaviour is about: a bound on the model

propVars == <<subject, repos, files, mtime, ttime, ptime, dtime, clock, rev, prej, file,
          unver, locked, commit, ghost>>

Youngest == Len(repos) - 1
At(r) == repos[r + 1]
Idle == [phase |-> "idle"]

(* synced: the tick in which the library last recorded a timestamp for the *)
(* item or copied its properties; fast: the user's last change was made in *)
(* that very tick; off: the names whose pristine value may not be that of  *)
(* the entry's revision, for one of three reasons: `svn merge' changed it, *)
(* it was sent while the user ran propset on the item, or someone else     *)
(* changed it between the client's check of a directory and its commit.    *)
GhostInit == [i \in Items |-> [synced |-> 0, fast |-> FALSE, off |-> {}]]

----------------------------------------------------------------------------
(* Property files.  A file that is missing holds no properties; one from   *)
(* which every property was removed still exists.                          *)

PropPath(base, tmp) ==
  CASE  base /\  tmp -> "tmp/prop-base"
    []  base /\ ~tmp -> "prop-base"
    [] ~base /\  tmp -> "tmp/props"
    [] OTHER         -> "props"

LoadPropFile(f) == IF f = <<>> THEN NoProps ELSE f[1]
SavePropFile(p) == <<p>>
Work(i) == LoadPropFile(files[i][PropPath(FALSE, FALSE)])
Base(i) == LoadPropFile(files[i][PropPath(TRUE, FALSE)])

PropList(i) == LET f == files[i][PropPath(FALSE, FALSE)]
               IN  IF f = <<>> THEN NoProps ELSE LoadPropFile(f)
PropGet(i, n) == PropList(i)[n]

(* Writing goes to the tmp area; closing renames the file to its place.    *)
OpenProps(fs, p) == [fs EXCEPT ![PropPath(FALSE, TRUE)] = SavePropFile(p)]
CloseProps(fs) == [fs EXCEPT ![PropPath(FALSE, FALSE)] = fs[PropPath(FALSE, TRUE)],
                             ![PropPath(FALSE, TRUE)] = <<>>]

EmptyProps(f) == f = <<>> \/ f[1] = NoProps
HasProps(i) == ~EmptyProps(files[i][PropPath(FALSE, FALSE)])
Size(p) == Cardinality({n \in Names : p[n] # NoVal})

----------------------------------------------------------------------------
(* What the user changed, and merging what an update brings.               *)

Change(n, v) == [name |-> n, value |-> v]
LocalPropchanges(local, base) ==
  {Change(n, local[n]) : n \in {m \in Names : local[m] # base[m]}}

(* The first test was meant for changes of different properties.           *)
ConflictingPropchanges(local, update) ==
  /\ ~(local.name = update.name)
  /\ \/ local.value # NoVal /\ update.value = NoVal
     \/ local.value = NoVal /\ update.value # NoVal
     \/ local.value # update.value

NamesOf(changes) == {c.name : c \in changes}
Applied(p, changes) ==
  [n \in Names |-> IF \E c \in changes : c.name = n
                   THEN (CHOOSE c \in changes : c.name = n).value ELSE p[n]]

(* The changes that meet a local one they conflict with.                   *)
MergeConflicts(i, changes) ==
  LET local == LocalPropchanges(Work(i), Base(i))
  IN  {c \in changes : \E l \in local : /\ l.name = c.name
                                        /\ ConflictingPropchanges(l, c)}

(* Both merged hashes are written to the tmp area, and the log moves the   *)
(* pristine one and then the working one to their places.                  *)
MergedFiles(i, changes) ==
  LET tmp == [files[i] EXCEPT
                ![PropPath(TRUE, TRUE)] = SavePropFile(Applied(Base(i), changes)),
                ![PropPath(FALSE, TRUE)] =
                    SavePropFile(Applied(Work(i), changes \ MergeConflicts(i, changes)))]
  IN  [tmp EXCEPT ![PropPath(TRUE, FALSE)] = tmp[PropPath(TRUE, TRUE)],
                  ![PropPath(FALSE, FALSE)] = tmp[PropPath(FALSE, TRUE)],
                  ![PropPath(TRUE, TRUE)] = <<>>, ![PropPath(FALSE, TRUE)] = <<>>]

(* The conflicts are appended to the entry's reject file, which the log    *)
(* names in the entry.                                                     *)
Rejected(i, changes) == prej[i] \/ MergeConflicts(i, changes) # {}

----------------------------------------------------------------------------
(* Whether the properties are modified: sizes, then timestamps, and only   *)
(* then contents.                                                          *)

TimestampsEqual(i) == ptime[i] # 0 /\ mtime[i] = ptime[i]

PropsModified(i) ==
  LET w == files[i][PropPath(FALSE, FALSE)]
      b == files[i][PropPath(TRUE, FALSE)]
  IN  IF EmptyProps(b) \/ EmptyProps(w)
      THEN ~(EmptyProps(b) /\ EmptyProps(w))
      ELSE \/ Size(w[1]) # Size(b[1])
           \/ ~TimestampsEqual(i) /\ LocalPropchanges(w[1], b[1]) # {}

----------------------------------------------------------------------------
(* The status of an item: what is discovered, what is scheduled, and what  *)
(* is missing, in increasing precedence.                                   *)

Present(i) == i = "D" \/ file.present
Schedule(i) == IF i = "D" THEN "normal" ELSE file.sched
TextModified(i) == i = "f" /\ file.present /\ file.edited

DiscoveredProp(i) ==
  IF prej[i] THEN "conflicted"
  ELSE IF PropsModified(i) THEN "modified"
  ELSE IF HasProps(i) THEN "normal" ELSE "none"
DiscoveredText(i) == IF TextModified(i) THEN "modified" ELSE "normal"
ScheduledStatus == [add |-> "added", replace |-> "replaced", delete |-> "deleted"]
TextStatus(i) ==
  LET s == IF Schedule(i) = "normal" THEN DiscoveredText(i) ELSE ScheduledStatus[Schedule(i)]
  IN  IF ~Present(i) /\ s # "deleted" THEN "absent" ELSE s
PropStatus(i) == IF Schedule(i) = "normal" THEN DiscoveredProp(i) ELSE "none"

(* The default patterns match nothing here; the others are the lines of    *)
(* the directory's svn:ignore.                                             *)
IgnorePatterns == {PropGet("D", IgnoreName)} \ {NoVal}
UnversionedItems == IF unver /\ IgnorePatterns \cap Matching = {} THEN {"u"} ELSE {}

(* svn_wc_statuses without get_all: an item of no interest is passed over. *)
Interesting(i) == \/ TextStatus(i) \notin {"none", "normal"}
                  \/ PropStatus(i) \notin {"none", "normal"}
                  \/ i = "D" /\ locked
Statuses == {i \in Items : Interesting(i)} \cup UnversionedItems

----------------------------------------------------------------------------
(* What the user does.                                                     *)

(* The temporary file through which propset writes is the one that a       *)
(* commit of the item's properties has put there: it is gone afterwards.   *)
SendingProps(i) == commit.phase # "idle" /\ commit.item = i /\ commit.props
PropSet(i, n, v) ==
  /\ Present(i) /\ Schedule(i) = "normal" /\ v # PropGet(i, n)
  /\ files' = [files EXCEPT ![i] =
                 CloseProps(OpenProps(files[i], [PropList(i) EXCEPT ![n] = v]))]
  /\ mtime' = [mtime EXCEPT ![i] = clock]
  /\ ghost' = [ghost EXCEPT ![i].fast = (ghost[i].synced = clock)]
  /\ commit' = IF SendingProps(i) THEN [commit EXCEPT !.raced = TRUE] ELSE commit
  /\ UNCHANGED <<repos, ttime, ptime, dtime, clock, rev, prej, file, unver, locked>>

EditText ==
  /\ file.present /\ ~file.edited
  /\ file' = [file EXCEPT !.edited = TRUE]
  /\ UNCHANGED <<repos, files, mtime, ttime, ptime, dtime, clock, rev, prej, unver, locked, commit, ghost>>

(* svn delete, or the user's own removal of the working file.              *)
RemoveFile(scheduling) ==
  /\ file.present /\ file.sched = "normal" /\ commit.phase = "idle"
  /\ scheduling => ~file.edited /\ ~PropsModified("f")
  /\ file' = [sched |-> IF scheduling THEN "delete" ELSE "normal",
              present |-> FALSE, edited |-> FALSE]
  /\ dtime' = clock
  /\ UNCHANGED <<repos, files, mtime, ttime, ptime, clock, rev, prej, unver, locked, commit, ghost>>

DropUnversioned ==
  /\ ~unver
  /\ unver' = TRUE /\ dtime' = clock
  /\ UNCHANGED <<repos, files, mtime, ttime, ptime, clock, rev, prej, file, locked, commit, ghost>>

Tick ==
  /\ clock < MaxClock
  /\ clock' = clock + 1
  /\ UNCHANGED <<repos, files, mtime, ttime, ptime, dtime, rev, prej, file, unver, locked, commit, ghost>>

(* Someone else changes a property of i, or f's text.                      *)
OtherCommit(i, n, v) ==
  /\ Youngest < MaxRev
  /\ i = "f" \/ v # At(Youngest)[i].props[n]
  /\ repos' = Append(repos, [At(Youngest) EXCEPT
                ![i] = [props |-> [@.props EXCEPT ![n] = v], at |-> Youngest + 1]])
  /\ UNCHANGED <<files, mtime, ttime, ptime, dtime, clock, rev, prej, file, unver, locked, commit, ghost>>

----------------------------------------------------------------------------
(* Revert: the pristine property file is copied out, or the working one    *)
(* removed when there is no pristine one.  A directory's new timestamp     *)
(* goes to its parent's entry, which nothing reads.                        *)

RevertAdminThings(i) ==
  IF ~PropsModified(i)
  THEN UNCHANGED <<files, mtime, ptime, ghost>>
  ELSE LET b == files[i][PropPath(TRUE, FALSE)]
           t == IF b # <<>> /\ ItemKind(i) = "file" THEN clock ELSE ptime[i]
       IN  /\ files[i][PropPath(FALSE, FALSE)] # <<>>
           /\ files' = [files EXCEPT ![i][PropPath(FALSE, FALSE)] = b]
           /\ mtime' = [mtime EXCEPT ![i] = clock]
           /\ ptime' = [ptime EXCEPT ![i] = t]
           /\ ghost' = [ghost EXCEPT
                 ![i].synced = IF ItemKind(i) = "file" THEN clock ELSE @,
                 ![i].fast = (commit.phase # "idle" /\ commit.item = i /\ ghost[i].synced = clock)]

Revert(i) ==
  /\ PropsModified(i) \/ prej[i] \/ (i = "f" /\ file # [sched |-> "normal", present |-> TRUE, edited |-> FALSE])
  /\ RevertAdminThings(i)
  /\ prej' = [prej EXCEPT ![i] = FALSE]
  /\ file' = IF i = "f" THEN [sched |-> "normal", present |-> TRUE, edited |-> FALSE] ELSE file
  /\ dtime' = IF i = "f" /\ ~file.present THEN clock ELSE dtime
  /\ UNCHANGED <<repos, ttime, clock, rev, unver, locked, commit>>

----------------------------------------------------------------------------
(* Update.  The editor is sent the item's changes as properties of three   *)
(* kinds; only the normal ones are merged.  An entry property without a    *)
(* value (an anonymous author) is taken for a normal one of a directory.   *)

PropKind(n) == IF n = "svn:entry:last-author" THEN "entry" ELSE "normal"
Received(i, r, anonymous) ==
  LocalPropchanges(At(r)[i].props, At(rev[i])[i].props)
    \cup {Change("svn:entry:last-author", IF anonymous THEN NoVal ELSE "someone")}

(* change_dir_prop and change_file_prop push the change; for a file the    *)
(* kinds are told apart by svn_wc_install_file.                            *)
ChangeDirProp(changes) == {c \in changes : PropKind(c.name) = "normal" \/ c.value = NoVal}
ChangeFileProp(changes) == changes
Regular(changes) == {c \in changes : PropKind(c.name) = "normal"}

(* The log's command records the time of the directory the log is in, not  *)
(* of the property file; it is written when there were no local changes.   *)
Stamp(i, modified) == IF modified THEN ptime ELSE [ptime EXCEPT ![i] = dtime']

Installed(i, changes) ==
  /\ files' = [files EXCEPT ![i] = MergedFiles(i, changes)]
  /\ prej' = [prej EXCEPT ![i] = Rejected(i, changes)]
  /\ mtime' = [mtime EXCEPT ![i] = clock]
  /\ ptime' = Stamp(i, PropsModified(i))
  /\ ghost' = [ghost EXCEPT ![i].synced = IF PropsModified(i) THEN @ ELSE clock,
                            ![i].off = @ \ NamesOf(changes)]

CloseDirectory(r, anonymous) ==
  LET pushed == ChangeDirProp(Received("D", r, anonymous))
  IN  IF pushed = {}
      THEN UNCHANGED <<files, prej, mtime, ptime, ghost>>
      ELSE Installed("D", Regular(pushed))

(* svn_wc_install_file: the changes, or for `svn switch' of the file the   *)
(* full list, from which the changes of the pristine ones are deduced.     *)
FileChanges(r, full) ==
  IF full THEN LocalPropchanges(At(r)["f"].props, Base("f"))
  ELSE Regular(ChangeFileProp(Received("f", r, FALSE)))
InstallFile(r, full) == Installed("f", FileChanges(r, full))

UpdateDir(r, anonymous) ==
  /\ ~locked /\ commit.phase = "idle" /\ r # rev["D"]
  /\ dtime' = dtime
  /\ IF At(r)["D"] = At(rev["D"])["D"]
     THEN UNCHANGED <<files, prej, mtime, ptime, ghost>>
     ELSE CloseDirectory(r, anonymous)
  /\ rev' = [rev EXCEPT !["D"] = r]
  /\ UNCHANGED <<repos, ttime, clock, file, unver, locked, commit>>

(* The text of a missing or unmodified file is written again, which may    *)
(* change the directory's time.                                            *)
UpdateFile(r, full) ==
  /\ ~locked /\ commit.phase = "idle" /\ r # rev["f"] /\ file.sched = "normal"
  /\ IF At(r)["f"] = At(rev["f"])["f"] /\ ~full
     THEN UNCHANGED <<files, prej, mtime, ptime, ghost, dtime, file>>
     ELSE /\ dtime' \in {dtime, clock}
          /\ file' = [file EXCEPT !.present = TRUE]
          /\ InstallFile(r, full)
  /\ rev' = [rev EXCEPT !["f"] = r]
  /\ UNCHANGED <<repos, ttime, clock, unver, locked, commit>>

(* `svn merge' hands the differences of two revisions to                   *)
(* svn_wc_merge_prop_diffs, which returns at once for a file.              *)
MergePropDiffs(i, from, to) ==
  /\ ~locked /\ commit.phase = "idle" /\ ItemKind(i) = "dir"
  /\ LET changes == LocalPropchanges(At(to)[i].props, At(from)[i].props)
     IN  /\ changes # {}
         /\ files' = [files EXCEPT ![i] = MergedFiles(i, changes)]
         /\ prej' = [prej EXCEPT ![i] = Rejected(i, changes)]
         /\ ghost' = [ghost EXCEPT ![i].off = @ \cup NamesOf(changes)]
  /\ mtime' = [mtime EXCEPT ![i] = clock]
  /\ UNCHANGED <<repos, ttime, ptime, dtime, clock, rev, file, unver, locked, commit>>

----------------------------------------------------------------------------
(* Commit of one item.  The client first makes sure that a directory with  *)
(* property changes is at the youngest revision.  The working property     *)
(* file is copied to the tmp area, and what differs from the pristine one  *)
(* is sent.                                                                *)

TransmitPropDeltas(i) == LocalPropchanges(Work(i), Base(i))

CommitSend(i) ==
  /\ commit.phase = "idle" /\ ~locked /\ ~prej[i]
  /\ Present(i) /\ Schedule(i) = "normal"
  /\ PropsModified(i) \/ TextModified(i)
  /\ ItemKind(i) = "dir" => rev[i] = Youngest                       \* else it is refused
  /\ PropsModified(i) => files[i][PropPath(FALSE, FALSE)] # <<>>   \* else the copy fails
  /\ IF PropsModified(i)
     THEN /\ files' = [files EXCEPT ![i][PropPath(FALSE, TRUE)] = files[i][PropPath(FALSE, FALSE)]]
          /\ ttime' = [ttime EXCEPT ![i] = clock]
          /\ ghost' = [ghost EXCEPT ![i].synced = clock]
     ELSE UNCHANGED <<files, ttime, ghost>>
  /\ locked' = TRUE
  /\ commit' = [phase |-> "sent", item |-> i, rev |-> 0,
                props |-> PropsModified(i), raced |-> FALSE,
                changes |-> IF PropsModified(i) THEN TransmitPropDeltas(i) ELSE {}]
  /\ UNCHANGED <<repos, mtime, ptime, dtime, clock, rev, prej, file, unver>>

(* The repository looks at a file again: it has to be up to date.  Over    *)
(* ra_local a directory's changes are applied without a look at its        *)
(* revision, so what others commit after the client's check goes           *)
(* unnoticed; over ra_dav a stale one is refused.                          *)
OutOfDate(i) == At(Youngest)[i].at > rev[i]
CommitAccepted ==
  LET i == commit.item
  IN  /\ commit.phase = "sent" /\ Youngest < MaxRev
      /\ ItemKind(i) = "file" => ~OutOfDate(i)
      /\ repos' = Append(repos, [At(Youngest) EXCEPT
                    ![i] = [props |-> Applied(@.props, commit.changes), at |-> Youngest + 1]])
      /\ locked' = FALSE
      /\ commit' = [commit EXCEPT !.phase = "committed", !.rev = Youngest + 1]
      /\ UNCHANGED <<files, mtime, ttime, ptime, dtime, clock, rev, prej, file, unver, ghost>>

(* The repository refuses; the temporary files are removed.                *)
CommitRefused ==
  LET i == commit.item
  IN  /\ commit.phase = "sent" /\ OutOfDate(i)
      /\ files' = IF commit.props THEN [files EXCEPT ![i][PropPath(FALSE, TRUE)] = <<>>] ELSE files
      /\ locked' = FALSE /\ commit' = Idle
      /\ UNCHANGED <<repos, mtime, ttime, ptime, dtime, clock, rev, prej, file, unver, ghost>>

(* The log's "committed" command: a property file in the tmp area is the   *)
(* sign that properties were committed.                                    *)
FilesContentsSame(a, b) == a = b
ChosenTime(i) ==
  IF FilesContentsSame(files[i][PropPath(FALSE, FALSE)], files[i][PropPath(FALSE, TRUE)])
  THEN mtime[i] ELSE ttime[i]
(* What others had changed in the item since the entry's revision when the *)
(* commit was accepted.                                                    *)
ChangedByOthers(i) ==
  {n \in Names : At(commit.rev - 1)[i].props[n] # At(rev[i])[i].props[n]}
OffAfterCommit(i) ==
  LET sent == NamesOf(commit.changes)
      others == (ghost[i].off \cup ChangedByOthers(i)) \ sent
  IN  IF commit.raced THEN others \cup sent ELSE others

PostCommit ==
  LET i == commit.item
      tmp == files[i][PropPath(FALSE, TRUE)]
  IN  /\ commit.phase = "committed"
      /\ IF tmp # <<>>
         THEN /\ files' = [files EXCEPT ![i][PropPath(TRUE, FALSE)] = tmp,
                                        ![i][PropPath(FALSE, TRUE)] = <<>>]
              /\ ptime' = [ptime EXCEPT ![i] = ChosenTime(i)]
         ELSE ptime' = [ptime EXCEPT ![i] = 0] /\ UNCHANGED files
      /\ rev' = [rev EXCEPT ![i] = commit.rev]
      /\ file' = IF i = "f" THEN [file EXCEPT !.edited = FALSE] ELSE file
      /\ prej' = [prej EXCEPT ![i] = FALSE]
      /\ commit' = Idle
      /\ ghost' = [ghost EXCEPT ![i].off = OffAfterCommit(i)]
      /\ UNCHANGED <<repos, mtime, ttime, dtime, clock, unver, locked>>

(* The process dies: before the repository has answered the lock stays.    *)
Die ==
  /\ commit.phase # "idle"
  /\ commit' = Idle
  /\ UNCHANGED <<repos, files, mtime, ttime, ptime, dtime, clock, rev, prej, file, unver, locked, ghost>>

(* svn cleanup empties the tmp area and removes the lock.                  *)
CleanedUp_KeepsTmp(fs) == fs
CleanedUp(fs) == [fs EXCEPT ![PropPath(FALSE, TRUE)] = <<>>, ![PropPath(TRUE, TRUE)] = <<>>]
Cleanup ==
  /\ commit.phase = "idle" /\ locked
  /\ files' = [i \in Items |-> CleanedUp(files[i])]
  /\ locked' = FALSE
  /\ UNCHANGED <<repos, mtime, ttime, ptime, dtime, clock, rev, prej, file, unver, commit, ghost>>

----------------------------------------------------------------------------
PropsInit ==
  /\ repos = <<[i \in Items |-> [props |-> NoProps, at |-> 0]]>>
  /\ files = [i \in Items |-> [a \in Areas |-> <<>>]]
  /\ mtime = [i \in Items |-> 0] /\ ttime = [i \in Items |-> 0]
  /\ ptime = [i \in Items |-> 0] /\ dtime = 1 /\ clock = 1
  /\ rev = [i \in Items |-> 0] /\ prej = [i \in Items |-> FALSE]
  /\ file = [sched |-> "normal", present |-> TRUE, edited |-> FALSE]
  /\ subject \in Items
  /\ unver = FALSE /\ locked = FALSE /\ commit = Idle /\ ghost = GhostInit

PropsNext ==
  /\ UNCHANGED subject
  /\ \/ \E n \in Names, v \in Values \cup {NoVal} : PropSet(subject, n, v) \/ OtherCommit(subject, n, v)
     \/ Tick
     \/ subject = "D" /\ DropUnversioned
     \/ subject = "f" /\ (EditText \/ \E s \in BOOLEAN : RemoveFile(s))
     \/ Revert(subject) \/ CommitSend(subject)
     \/ \E r \in 0 .. Youngest, b \in BOOLEAN :
          \/ subject = "D" /\ UpdateDir(r, b)
          \/ subject = "f" /\ UpdateFile(r, b)
     \/ \E r, s \in 0 .. Youngest : MergePropDiffs(subject, r, s)
     \/ CommitAccepted \/ CommitRefused \/ PostCommit \/ Die \/ Cleanup

PropsSpec == PropsInit /\ [][PropsNext]_propVars

----------------------------------------------------------------------------
(* The pristine value of every property is that of the revision the entry  *)
(* names, through updates in both directions, commits that die half-way or *)
(* are refused, reverts, propset during a commit and cleanups: the next    *)
(* commit's changes are taken against it (props.c, log.c log_do_committed).*)
(* Three things put it off, for the names concerned and until an update or *)
(* a commit brings the name again: `svn merge' changes the pristine value  *)
(* too; propset takes away the temporary file by which the log knows that  *)
(* properties were sent; and a directory's commit moves its entry to the   *)
(* new revision although the changes of others are not in its pristine     *)
(* file.                                                                   *)
PropBaseRight ==
  \A i \in Items : \A n \in Names \ ghost[i].off :
     Base(i)[n] = At(rev[i])[i].props[n]

(* What `svn status' passes over is as it was checked out: every change    *)
(* the user made, to properties, text or presence, is shown, although the  *)
(* contents are compared only when sizes and timestamps say nothing        *)
(* (svn_wc_props_modified_p, assemble_status).  The exception is the tick  *)
(* in which the library itself last wrote or copied the properties.        *)
StatusShowsChanges ==
  \A i \in Items \ Statuses :
     /\ Work(i) = Base(i) \/ ghost[i].fast
     /\ Present(i) /\ ~TextModified(i) /\ Schedule(i) = "normal"

(* The base properties are those of the entry's revision, and status sees  *)
(* every local change.                                                     *)
PropsRight == PropBaseRight /\ StatusShowsChanges
=============================================================================
