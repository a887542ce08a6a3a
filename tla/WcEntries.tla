----------------------------- MODULE WcEntries -----------------------------
(***************************************************************************)
(* The entries file of a working copy directory (libsvn_wc/entries.c):     *)
(* what is written and what is inherited, how a change is folded into an   *)
(* entry, and how a requested schedule combines with the one that is       *)
(* there.                                                                  *)
(*                                                                         *)
(* An entries file is a function from names to entries; the directory's    *)
(* own entry has the name ThisDir.  A change is a record with some of the  *)
(* fields of an entry: its domain is the code's modify_flags.              *)
(***************************************************************************)
EXTENDS Integers, Sequences

NoRev == -1     \* SVN_INVALID_REVNUM, and a revision that is not written
NoUrl == <<>>   \* a null url; a url is a nonempty sequence of names
ThisDir == ""   \* SVN_WC_ENTRY_THIS_DIR

Schedules == {"normal", "add", "delete", "replace"}

\* conflict tells which of the backup copies of the working file the entry
\* names, 0 if none.
Entry == [kind : {"none", "file", "dir"}, revision : Int, url : Seq(STRING),
          schedule : Schedules, conflict : Nat]

AllocEntry ==
  [kind |-> "none", revision |-> NoRev, url |-> NoUrl,
   schedule |-> "normal", conflict |-> 0]

\* The entries file of a new administrative area.
EntriesInit(url) ==
  [n \in {ThisDir} |->
     [AllocEntry EXCEPT !.kind = "dir", !.revision = 0, !.url = url]]

\* What an entry gets from its directory's own one.
TakeFromEntry(src, name, dst) ==
  [dst EXCEPT
     !.revision = IF @ = NoRev /\ dst.kind # "dir" THEN src.revision ELSE @,
     !.url = IF @ = NoUrl /\ dst.schedule \notin {"add", "replace"}
             THEN Append(src.url, name) ELSE @]

\* The checks of resolve_to_defaults on the directory's own entry.
Readable(file) ==
  /\ ThisDir \in DOMAIN file
  /\ file[ThisDir].revision # NoRev
  /\ file[ThisDir].url # NoUrl

\* Reading completes the files' entries; what is known of a subdirectory
\* stands in its own entries file.
ReadEntries(file) ==
  [n \in DOMAIN file |->
     IF n # ThisDir /\ file[n].kind = "file"
     THEN TakeFromEntry(file[ThisDir], n, file[n])
     ELSE file[n]]

\* What can be inherited is not written.
WriteEntry(entries, n) ==
  LET this == entries[ThisDir]
      entry == entries[n]
  IN  CASE n = ThisDir -> entry
        [] n # ThisDir /\ entry.kind = "dir" ->
             [entry EXCEPT !.revision = NoRev, !.url = NoUrl]
        [] OTHER ->
             [entry EXCEPT
                !.revision = IF @ = this.revision THEN NoRev ELSE @,
                !.url = IF @ = Append(this.url, n) THEN NoUrl ELSE @]

EntriesWrite(entries) == [n \in DOMAIN entries |-> WriteEntry(entries, n)]

EntryRemove(entries, name) ==
  [n \in DOMAIN entries \ {name} |-> entries[n]]

\* The change's fields replace the entry's, which is made if there is none.
FoldEntry(entries, name, change) ==
  LET cur == IF name \in DOMAIN entries THEN entries[name] ELSE AllocEntry
      new == [f \in DOMAIN cur |->
                IF f \in DOMAIN change THEN change[f] ELSE cur[f]]
  IN  [n \in DOMAIN entries \cup {name} |->
         IF n # name THEN entries[n]
         ELSE IF new.kind = "dir" \/ ThisDir \notin DOMAIN entries THEN new
         ELSE TakeFromEntry(entries[ThisDir], name, new)]

Unscheduled(change) ==
  [f \in DOMAIN change \ {"schedule"} |-> change[f]]

Fold(result, change) == [result |-> result, change |-> change]

\* What becomes of a requested schedule: the change to fold, or that the
\* entry is to be removed, or an error, or a failed assertion.
FoldScheduling(entries, name, change, force) ==
  IF force \/ "schedule" \notin DOMAIN change THEN Fold("fold", change)
  ELSE IF name \notin DOMAIN entries
  THEN Fold(IF change.schedule = "add" THEN "fold" ELSE "error", change)
  ELSE
    LET asked == change.schedule
        now == entries[name].schedule
    IN  IF /\ name # ThisDir
           /\ entries[ThisDir].schedule = "delete"
           /\ asked \in {"add", "replace"}
        THEN Fold("error", change)
        ELSE CASE now = "normal" /\ asked = "add" -> Fold("error", change)
               [] now = "add" /\ asked = "delete" ->
                    Fold(IF name = ThisDir THEN "assert" ELSE "removed", change)
               [] now = "delete" /\ asked = "add" ->
                    Fold("fold", [change EXCEPT !.schedule = "replace"])
               [] <<now, asked>> \in {<<"normal", "delete">>,
                                      <<"normal", "replace">>,
                                      <<"delete", "replace">>,
                                      <<"replace", "delete">>} ->
                    Fold("fold", change)
               [] OTHER -> Fold("fold", Unscheduled(change))

\* svn_wc__entry_modify: read, fold, write.  ok is false when it returns an
\* error or the assertion fails; the file is then as before.
EntryModify(file, name, change, force) ==
  LET entries == ReadEntries(file)
      fold == FoldScheduling(entries, name, change, force)
  IN  CASE fold.result = "fold" ->
             [ok |-> TRUE,
              file |-> EntriesWrite(FoldEntry(entries, name, fold.change))]
        [] fold.result = "removed" ->
             [ok |-> TRUE, file |-> EntriesWrite(EntryRemove(entries, name))]
        [] OTHER -> [ok |-> FALSE, file |-> file]

\* svn_wc__tweak_entry, for an entry that is there.
TweakEntry(entry, url, rev) ==
  [entry EXCEPT
     !.url = IF url = NoUrl THEN @ ELSE url,
     !.revision = IF rev = NoRev \/ entry.schedule \in {"add", "replace"}
                  THEN @ ELSE rev]
=============================================================================
