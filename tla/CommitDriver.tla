---------------------------- MODULE CommitDriver ----------------------------
(***************************************************************************)
(* How a commit's items drive the editor (libsvn_client commit_util.c): the  *)
(* items are sorted by URL, the base URL of the edit is found and cut off    *)
(* them, then every item's directories are opened from a stack of directory  *)
(* batons.  A baton is its path.                                            *)
(*                                                                         *)
(* An item is [url, kind, flags], its flags SVN_CLIENT_COMMIT_ITEM_*: a       *)
(* subset of {"del", "add", "text", "prop"}.                                 *)
(***************************************************************************)
EXTENDS Paths

CONSTANT ItemSets  \* the committables a harvest may find, as sets of items

VARIABLES
  items,    \* the sorted commit items, their URLs relative to the base
  done,     \* how many of them the loop has handled
  dbs,      \* the stack of directory batons
  lastUrl,  \* where the last item left the traversal
  mods,     \* the files whose text is still to be sent
  calls,    \* the editor's calls: [call, path, in]
  found     \* the set of items the commit started from, and the base URL

cvars == <<items, done, dbs, lastUrl, mods, calls, found>>

EditCall(call, path, in) == [call |-> call, path |-> path, in |-> in]
Parent(p) == RemoveComponent(p)
OnlyProps(item) == item.kind = "dir" /\ item.flags = {"prop"}

\* svn_client__sort_commit_item_urls
SortItems(set) == SetToSortSeq(set, LAMBDA a, b : ComparePaths(a.url, b.url) < 0)

\* svn_client__condense_commit_items, its first loop: the longest ancestor so
\* far, and its parent unless it is a directory with property changes only.
CondenseBase(seq) ==
  FoldLeft(LAMBDA base, item :
             LET b == IF base = <<>> THEN item.url ELSE LongestAncestor(base, item.url)[1]
             IN  IF Len(b) = Len(item.url) /\ ~OnlyProps(item) THEN RemoveComponent(b) ELSE b,
           <<>>, seq)

\* Its second loop: the base is hacked off all the URLs.
Relative(seq, base) ==
  [i \in DOMAIN seq |->
     [seq[i] EXCEPT !.url = IF Len(@) > Len(base) THEN SubSeq(@, Len(base) + 2, Len(@)) ELSE <<>>]]

\* count_components
CountComponents(p) ==
  IF p = Sep THEN 0 ELSE 1 + Cardinality({i \in 2 .. Len(p) : p[i] = Slash})

CInit ==
  \E set \in ItemSets :
    LET sorted == SortItems(set)
    IN  /\ items = Relative(sorted, CondenseBase(sorted))
        /\ found = [set |-> set, base |-> CondenseBase(sorted)]
        /\ done = 0 /\ dbs = <<>> /\ lastUrl = <<>> /\ mods = <<>> /\ calls = <<>>

\* init_stack
InitStack ==
  /\ dbs = <<>> /\ done = 0 /\ calls = <<>>
  /\ dbs' = <<<<>>>> /\ calls' = <<EditCall("open_root", <<>>, <<>>)>>
  /\ UNCHANGED <<items, done, lastUrl, mods, found>>

\* A stack of batons and the calls made: what push_stack and pop_stack change.
PushStack(st, path, add) ==
  [dbs |-> Append(st.dbs, path),
   calls |-> Append(st.calls, EditCall(IF add THEN "add_dir" ELSE "open_dir", path, Last(st.dbs)))]

PopStack(st) ==
  [dbs |-> Front(st.dbs), calls |-> Append(st.calls, EditCall("close_dir", Last(st.dbs), <<>>))]

RECURSIVE PopMany(_, _)
PopMany(st, n) == IF n = 0 THEN st ELSE PopMany(PopStack(st), n - 1)

\* Steps A and B of svn_client__do_commit: what is not above the next item is
\* closed, a baton for every component.
CommonWith(url) ==
  LET a == LongestAncestor(lastUrl, url)
  IN  IF done = 0 \/ a = <<>> THEN <<>> ELSE a[1]
CloseDirs_Once(st, common) ==
  IF done > 0 /\ Len(lastUrl) > Len(common) THEN PopStack(st) ELSE st
CloseDirs(st, common) ==
  LET rel == SubSeq(lastUrl, Len(common) + (IF common = <<>> THEN 1 ELSE 2), Len(lastUrl))
  IN  IF done > 0 /\ Len(lastUrl) > Len(common) THEN PopMany(st, CountComponents(rel)) ELSE st

\* Step C: every directory from there down to the item's parent is opened.
OpenDirs(st, common, dir) ==
  LET ends == {i \in (Len(common) + 2) .. (Len(dir) + 1) : i = Len(dir) + 1 \/ dir[i] = Slash}
  IN  IF Len(dir) <= Len(common) THEN st
      ELSE FoldLeft(LAMBDA s, i : PushStack(s, SubSeq(dir, 1, i - 1), FALSE), st, SetToSortSeq(ends, <))

\* do_item_commit: delete, add, property changes; the file is closed unless
\* its text is still to be sent.
DoItemCommit(st, item) ==
  LET url == item.url
      has(f) == f \in item.flags
      file == item.kind = "file"
      in == Last(st.dbs)
      Made(s, b, call) == IF b THEN [s EXCEPT !.calls = Append(@, EditCall(call, url, in))] ELSE s
      deleted == Made(st, has("del"), "delete_entry")
      added == IF file THEN Made(deleted, has("add"), "add_file")
               ELSE IF has("add") THEN PushStack(deleted, url, TRUE) ELSE deleted
      opened == IF file THEN Made(added, ~has("add") /\ (has("prop") \/ has("text")), "open_file")
                ELSE IF has("prop") /\ ~has("add") THEN PushStack(added, url, FALSE) ELSE added
      propped == Made(opened, has("prop"), IF file THEN "change_file_prop" ELSE "change_dir_prop")
  IN  Made(propped, file /\ ~has("text") /\ (has("add") \/ has("prop")), "close_file")

\* One turn of the loop of svn_client__do_commit.
CommitItem ==
  /\ dbs # <<>> /\ done < Len(items)
  /\ LET item == items[done + 1]
         common == CommonWith(item.url)
         dir == Parent(item.url)
         st == [dbs |-> dbs, calls |-> calls]
         st2 == DoItemCommit(OpenDirs(CloseDirs(st, common), common, dir), item)
     IN  /\ dbs' = st2.dbs /\ calls' = st2.calls
         /\ lastUrl' = IF item.kind = "dir" /\ ("del" \notin item.flags \/ "add" \in item.flags)
                         THEN item.url ELSE dir
         /\ mods' = IF item.kind = "file" /\ "text" \in item.flags THEN Append(mods, item) ELSE mods
  /\ done' = done + 1
  /\ UNCHANGED <<items, found>>

\* The rest of it: the directories left open are closed, the texts sent, of
\* an added file as a full text, and the edit closed.
FinishDrive ==
  /\ dbs # <<>> /\ done = Len(items)
  /\ LET closed == PopMany([dbs |-> dbs, calls |-> calls], Len(dbs)).calls
         Text(item) == <<EditCall(IF "add" \in item.flags THEN "full_text" ELSE "delta_text", item.url, <<>>),
                         EditCall("close_file", item.url, <<>>)>>
     IN  calls' = closed \o FlattenSeq([i \in DOMAIN mods |-> Text(mods[i])])
                         \o <<EditCall("close_edit", <<>>, <<>>)>>
  /\ dbs' = <<>> /\ mods' = <<>>
  /\ UNCHANGED <<items, done, lastUrl, found>>

CNext == InitStack \/ CommitItem \/ FinishDrive

----------------------------------------------------------------------------
(* Properties                                                              *)

Finished == calls # <<>> /\ Last(calls).call = "close_edit"
Times(call, path) == Cardinality({i \in DOMAIN calls : calls[i].call = call /\ calls[i].path = path})
OpenDirCalls == {"add_dir", "open_dir", "open_root"}

\* An item of the base directory itself opens the root once more, as an entry
\* of itself.
Root(path) == path = <<>>

(* The drive does what was harvested: when it ends every item has had exactly
   the calls of its flags, each given the baton of the directory it is in,
   while that directory's baton was the open one; the base URL is above every
   item and one that is not a directory's property change lies strictly below
   it; every directory and file opened has been closed; and no directory but
   the items' own and those above them has been opened
   (svn_client__condense_commit_items, do_item_commit, svn_client__do_commit). *)
DriverExact ==
  Finished =>
    /\ \A i \in DOMAIN items :
         LET item == items[i]
             has(f) == f \in item.flags
             count(call, b) == Times(call, item.url) = IF b THEN 1 ELSE 0
             file == item.kind = "file"
         IN  /\ count("delete_entry", has("del"))
             /\ count("add_file", file /\ has("add")) /\ count("add_dir", ~file /\ has("add"))
             /\ count("open_file", file /\ ~has("add") /\ (has("text") \/ has("prop")))
             /\ count("change_file_prop", file /\ has("prop")) /\ count("change_dir_prop", ~file /\ has("prop"))
             /\ count("full_text", has("add") /\ has("text")) /\ count("delta_text", ~has("add") /\ has("text"))
             /\ file => count("close_file", has("add") \/ has("text") \/ has("prop"))
             /\ Root(item.url) => OnlyProps(item)
    /\ \A item \in found.set : Above(found.base, item.url)
    /\ \A i \in DOMAIN calls :
         LET c == calls[i]
             before == SelectSeq(SubSeq(calls, 1, i - 1), LAMBDA d : d.call \in OpenDirCalls \cup {"close_dir"})
         IN  c.call \in {"delete_entry", "add_dir", "open_dir", "add_file", "open_file"} =>
               /\ c.in = Parent(c.path)
               /\ \E k \in DOMAIN before :
                    /\ before[k].call \in OpenDirCalls /\ before[k].path = c.in
                    /\ \A l \in (k + 1) .. Len(before) : before[l].path = c.in => before[l].call # "close_dir"
    /\ \A i \in DOMAIN calls : calls[i].call \in OpenDirCalls =>
         /\ Times("close_dir", calls[i].path) = Times("add_dir", calls[i].path) + Times("open_dir", calls[i].path)
                                               + Times("open_root", calls[i].path)
         /\ Root(calls[i].path) \/ \E k \in DOMAIN items : Above(calls[i].path, items[k].url)

=============================================================================
