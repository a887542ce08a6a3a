# Subversion in TLA+

This directory models Subversion (the version in this repository, mid-2002)
where several processes, transactions, tables and files have to agree, and
checks the models with TLC and TLAPS. The core is the versioned filesystem,
`subversion/libsvn_fs`: everything else in the system relies on its promise that
a commit loses nobody's changes and that a revision never changes. Around it are
the access layers, the working copy and the client library, each with the
behaviour that tests hardly reach: interleaved commits, process death between two
steps, lost answers, data that arrives in pieces.

## The system and its parts

Calls go downwards; each layer is a library under `src/subversion/`.

| part | state it keeps | operations | what makes it correct |
|---|---|---|---|
| `libsvn_client` | none of its own | checkout, update, commit, copy, diff | drives the working copy and an editor in the right order; after a commit every item is marked committed |
| `libsvn_wc` | administrative areas: entries, pristine texts, a log file, a lock file | schedule, commit, update, revert, cleanup | a log that is run again after a crash ends in the same state; schedules and entries agree |
| `libsvn_delta` | streams and windows | text deltas, svndiff, editors | applying a delta to its source gives its target; encoders and decoders are inverse |
| `libsvn_ra_local`, `libsvn_ra_dav`, `mod_dav_svn` | a session, an open transaction | commit and update editors, reports | an out-of-date file is refused; a commit that fails makes no revision, and one that fails at its end leaves no transaction |
| `libsvn_repos` | hooks, repository layout | commit with hooks, reporter, `dir_delta`, log | hooks run around exactly one commit; a report describes a real mixed tree |
| `libsvn_fs` trees (`tree.c`) | roots, cached nodes | make, delete, copy, link, properties, text edits, merge, commit | no lost update, no lost own change |
| `libsvn_fs` dag (`dag.c`) | node revisions, mutable or immutable | clone, entries, delete, stabilize | immutable nodes never change; mutable ones have one parent |
| `libsvn_fs` tables | nodes, revisions, transactions, representations, strings | put, get, new ID's, next keys | keys are ordered and unique, nothing dangles |
| `libsvn_fs` deltification | representations as fulltext or delta | `svn_fs__stable_node`, `rep_deltify` | every delta chain ends in a fulltext |
| `libsvn_fs` trails (`trail.c`) | a Berkeley DB transaction and an undo list | retry on deadlock | a body that runs twice has its effect once |
| `libsvn_subr`, command line programs, bindings | none | strings, paths, files | tested directly |

How they interact. In the filesystem, a client process opens a
*transaction*: a row of the `transactions` table with the ID's of a root and of
a base root. Each operation runs in a *trail*, one Berkeley DB transaction. It
opens the path, makes all directories on it mutable by cloning them ("bubbling
up", `make_path_mutable`), and changes the last one. Clones get *successor ID's*
that depend on which keys the `nodes` table holds at that moment, so open
transactions influence each other's ID's. To commit, `svn_fs_commit_txn` loops
over separate trails: read the youngest revision, merge it into the transaction
(re-ID'ing merged directories so that they descend from what was merged), then
append a revision if the youngest one is still the transaction's base. That last
trail also gives every mutable node its revision number and rewrites its
predecessor's representations as deltas.

A commit from a working copy starts in `libsvn_client`: it collects the items to
commit, sorts them, and drives the *editor* of an access layer, which changes a
transaction directly (`ra_local`) or by one HTTP request after the other
(`ra_dav` and `mod_dav_svn`). Then each item is processed in the working copy
through its *log*, a file of commands that cleanup runs again after a crash. An
update goes the other way: the client *reports* the revisions it has, the
repository mirrors them in a transaction, compares it with the target revision
and drives the working copy's editor with the differences.

What is hard here: others commit between any two trails; ID's of deleted nodes
are given out again; merges delete and rename node revisions that other records
refer to; a process can die anywhere between two trails and another one can open
its transaction; the commit loop has no bound. `PROJECT.json` lists each of these
hazards at the line where it bites, with the properties that would catch it.

## Modules

The filesystem.

* **FsIds** — node revision ID's (`id.c`) and the choice of new ones
  (`nodes-table.c`), as operators on sequences of numbers. The `-1` that closes
  the C array is the value of `Component` past the end.
* **NodesTable** — the `nodes` table alone: which keys are committed and which
  mutable, and, as history, which node revision each key was made from. Any
  caller may ask for a successor of any committed node revision at any time, so
  it covers more interleavings of ID's than whole-tree models can.
* **FsTree** — tables `nodes`, `revs`, `txns`, the representations' delta
  relation, and for each transaction the place of its process in
  `svn_fs_commit_txn` with its local variable `youngish`. One action per public
  operation and one per trail of the commit loop (`GetYoungest`, `MergeTrail`,
  `CommitTrail`, `Recheck`), plus `Crash`. `Merge` is the whole of `merge ()`,
  recursion and re-ID'ing included. A trail that returns an error leaves the
  tables as they were.
* **FsCommit** — what clients are promised: revisions are a growing sequence of
  trees, a transaction is a private tree that is merged path by path with newer
  revisions and then becomes the next one. No ID's, no sharing, no trails.
* **FsStore** — `trail.c` over the tables of transactions, revisions and root
  nodes: each trail reads and writes record after record under page locks, may be
  a deadlock victim and run again, may fail, and its process may die. **FsTables**
  is the promise: a trail is one run of its body.
* **Reps** — where contents are kept: the `strings` and `representations` tables
  with their `next-key` records, for one file with its node revisions; text
  streams across trails, deltification, svnadmin's deltify and undeltify, readers.
* **RepoHistory** — the questions of `tree.c`, logs and dates of `libsvn_repos`,
  and svnlook, as operators on the states of FsTree.

The layers above.

* **WcEntries, WcLog, Wc** — the entries file and how schedules fold; the disk of
  a working copy and the steps that change it; the commands of one user (add,
  delete, revert, resolve, cleanup, commit, update) as sequences of such steps,
  with the process dying between any two and other people committing.
* **WcProps** — versioned properties: working and pristine property files, their
  time stamps, propset and revert in the middle of commits and updates.
* **WcTranslate** — line endings and keywords, byte by byte.
* **RaCommit** — clients commit through both access layers, request by request,
  with hooks that fail and processes that die.
* **RaUpdate** — checkout, update, switch and status of mixed-revision working
  copies: the report, `svn_repos_dir_delta`, and the editors of both layers.
* **DavResources** — the URIs, resources and live properties of `mod_dav_svn` and
  the series of PROPFIND requests by which a client finds a path of a revision.
* **CommitDriver, Paths** — target lists, and the order in which commit items
  drive the editor.
* **Copies, Diffs** — copies and moves in their four forms with their commits;
  diffs and merges, call by call.
* **TextDelta, XmlDelta, Encodings** — vdelta, svndiff and windows; the XML form
  of tree deltas and composed editors; base64, quoted-printable, hash dumps,
  escapes, skels.

Instances for TLC are in the modules **MC***. MCFsStore, MCCodecs and MCServices
hold several machines that share no state; `which` says which one a behaviour is
about, and the variables of the others keep their initial values.

Operators named `X_Something` directly before `X` are variants of `X` with a
plausible bug. They are used only to confirm that each property can fail; the
specifications do not refer to them.

What the data became. FsTree refers to file texts and property lists by the
transaction and path that wrote them; all that the code does with them at this
level is to compare keys. (Reps has the texts themselves.) A text in Wc is a
function from regions, the parts that diff3 merges independently, to whoever
wrote them last. RaCommit, RaUpdate and Copies see the filesystem through the
calls made to it; which of them are atomic is what FsTree and FsStore show. A URI
is the sequence of its components. A revision is known by its record number
(revision + 1), as in the `revisions` table.

`FsTree` implements `FsCommit` under the mapping `Abs` at its end: a tree is what
each path shows (node number, kind, properties, text), the loop's intermediate
states are hidden. `ImplementsFsCommit` checks the mapping step by step, giving
FsCommit's quantifiers their witnesses so that TLC need not search for them.
`FsStore` implements `FsTables` (`TrailsAtomic`) with the tables themselves: a
trail's writes stay in its view until it commits.

## What is checked

| run | instance | shows |
|---|---|---|
| `fs_tables` | 2 processes, 4 calls, 1 death, 1 failing checkpoint; or 5 keys with numbers up to 2 | `TrailsAtomic`, `CacheFresh`, `BaseRevisionRight`; `TableSound` (`compare_ids` orders the keys, the lookup described in `structure` works, deltification finds every predecessor), `KeysNotReused` |
| `fs_edits` | 2 transactions, 2 operations each, one directory with two names | `NodesOwned` (nothing dangles, nothing is orphaned, mutable nodes have one place), `CommittedImmutable`, `CommittedInfoRight` |
| `fs_race` | 3 transactions, 1 operation each, fair | `CommitFailsOnlyInConflict`, `ImplementsFsCommit`, `CommitReturns` |
| `fs_copy` | 2 transactions, all operations, one process death | `ImplementsFsCommit`, `FulltextReachable`, `HistoryExact` (changed paths, svnlook, log, dates) |
| `fs_commit` | 3 transactions, one path, two contents | FsCommit's own properties, also proved |
| `reps` | 2 transactions, 1 reader, svnadmin at any time, texts of at most 2 bytes, at most 5 string keys, keys in base 2 | `ContentsKept`, `ReadersGetText`, `TablesSound` |
| `wc` | 2 files, 1 directory, 4 commands, 1 edit, 1 death, 2 revisions by others | `EntriesRight`, `CommitExact`, `CleanupCleans`, `WorkKept` |
| `ra_commit` | 2 clients, one per layer, 2 items each, 1 fault | `RevisionsRight`, `NoBlindChange`, `AllOrNothing` |
| `ra_update` | a directory, a subdirectory, 2 files, 3 revisions, 3 commands, 1 fault, both layers | `EntriesSound`, `UpdateBrings`, `StatusForetells` |
| `codecs` | texts of up to 10 bytes with windows of 4 (several instructions, copies from the target, also overlapping ones); up to 9 editor calls, of which each of the first 6 may fail in any of three composed editors; texts of four pieces; paths of three characters | `DeltasRight`, `DrivesRight`, `ConversionsRight`, `CommitDriveRight` |
| `services` | trees of up to 3 entries, unversioned files in the way; 2 copy commands, 3 revisions; two properties, set or not; 3 revisions over the network, 1 lost answer | `DiffsRight`, `CopiesRight`, `MyTextsKept`, `PropsRight`, `AnswerTrue`, `UrlsStable` |
| `switch` | a branch, one switch | violation of `SwitchExact` |

Why these bounds are enough to be interesting: branches of branches of ID's
appear with 5 keys; a lost update needs two committers and a stale merge needs a
third; re-ID'ing one directory below the root takes one commit ahead of the
merge; deleting below a mutable directory takes two operations of one
transaction; two trails that each read and then write one page deadlock; a cut in
the middle of an svndiff integer needs a piece of one byte; one death is enough
because recovery and cleanup restore a state from which everything starts again.
The sizes fixed in the code (`SVN_STREAM_CHUNK_SIZE`, line lengths, bases of
integer encodings) are constants, small enough that every boundary is crossed.
Every other bound is named (`MaxOps`, `MaxCrashes`, `MaxCalls`, `MaxRev`, ...),
and is a guard of the action it limits. Transactions and processes are symmetric
where no liveness property is checked. Deadlock is checked in `fs_tables`, where
everybody might wait for everybody; elsewhere clients may simply stop.

What the runs leave out, by a constant or in the statement of a property:

* *FsTree.* Property changes are made to files only, and new directories only where
  no merge can meet one that replaces another. `NodesOwned` is not claimed with
  `svn_fs_copy`, which drops the mutable nodes it overwrites without deleting them.
  A text stream is finished while its transaction is open; one that a client keeps
  beyond the end of its transaction is not modelled. A trail that fails changes
  nothing, which is what FsStore shows of trails.
* *Reps.* svnadmin may deltify and undeltify at any time. When it makes a committed
  representation a delta against one of an open transaction, which nothing prevents
  (`deltify.c:188`), `tainted` becomes true and stays so; the properties say nothing
  of what follows, and the run does not look further (`Untainted`). Without that
  condition `TablesSound` is violated within a few steps.
* *Wc.* `Hasty = FALSE`: the user does not edit while a command runs or a log is
  pending, and cleans up after an interrupted command before the next. The code
  loses edits made then (`questions.c:344`). `Mixed = FALSE`: the user
  schedules and updates only what is at its directory's revision. `CommitExact`
  is about commits that returned without an error, `CleanupCleans` about cleanups
  that did.
* *RaCommit.* `DieInBump = FALSE`: a client does not die between storing the new
  version URLs of what it committed and moving its entries to the new revision;
  the URLs would then be newer than the entries. `NoBlindChange` does not speak of
  deletions through ra_dav, which are made without a look at the revision. The
  client's check that a directory with property changes is at the youngest revision
  is one step with what precedes it.
* *RaUpdate.* Others commit only between the calls that a client makes to the
  repository, one order of directory entries stands for the hash order, an entry
  never changes its kind, and status comes last.
* *Copies.* A drive of the commit editor is one step. The user edits only while no
  command runs, so not between a move's copy and its removal.
* *Diffs.* `WcDiffExact` exempts the files that the comparison with a revision gets
  wrong (`KnownWrong`): scheduled here and changed there, or below a directory that
  is new there too, or below a target that exists only here; edited here and deleted
  there; changed there in properties alone. A file missing from the disk counts as
  unchanged for the command and is exempt too (`Missing`).
* *WcProps.* `PropsRight` exempts changes made in the very tick of a recorded time
  stamp (`fast`) and, name by name, pristine values that `svn merge` changed, that
  were sent while the user ran propset on the item, or that others changed between
  the client's check of a directory and its commit (`off`). Each behaviour is
  about one of the two items.
* *DavResources.* A client asks before it keeps a URL. `AnswerTrue` is about paths of
  which at most one component has to be cut off.
* *Codecs.* The properties of WcTranslate are about texts in which no `$` follows a
  line ending that is translated and, with keywords, no run after a `$` is as long
  as a keyword can be (`Spared`). Quoted-printable texts are decoded whole.

**Fairness.** `FairSpec` says that a process inside `svn_fs_commit_txn` goes on
taking the loop's steps; it is weak fairness of `CommitStep(t)`, written without
ENABLED. The code justifies it: between the trails nothing blocks, and a trail
that is a deadlock victim is run again. Nothing is assumed of clients: they need
never commit. The loop ends because only a bounded number of transactions can
overtake one call; with an unbounded stream of commits it may go round forever.

## Where code and documentation disagree

The run `switch` ends in a violation: `replace_file_or_dir` is defined with its
arguments in another order than it is declared and called with, which matters as
soon as source and target have different paths. `PROJECT.json` quotes the
sentences it contradicts.

Met while modelling, with the models as the code has it:

* *Filesystem.* `svn_fs__new_successor_id` can return a branch off an older
  revision than the one it was given (`nodes-table.c:473`). `merge ()` drops a
  committed property change of a directory when the other side changed its
  entries (`tree.c:1274`), undoes a committed replacement of a directory
  (`tree.c:1366`), and after copying an old directory deletes immutable node
  revisions when re-ID'ing (`tree.c:1449`). `svnadmin deltify` beside an open
  transaction stores a committed text as a delta against a mutable one
  (`deltify.c:188`). A checkpoint that returns DB_INCOMPLETE makes a committed
  trail fail (`trail.c:104`); a death between the two trails of
  `svn_fs_begin_txn` leaves a transaction without a date.
* *History.* `svn log PATH` misses revisions after a re-ID (it counts down the
  numbers of an ID), and after a deadlock resumes in the middle of its walk with
  an empty list; the search by date returns the revision after the one sought
  when the date lies between two (`rev_hunt.c`; `svn_repos.h:248`); `svn log -v`
  shows a replaced path as deleted.
* *Commits.* The exit status of hooks is ignored (`hooks.c:85`); `ra_dav` deletes
  an entry without a look at its revision (`commit.c:592`), and its PUT and COPY
  replace what is there; a failing post-commit hook reports an error for a
  revision that exists; activities are never removed.
* *Working copy.* A commit unlocks before it processes what was committed; an
  edit made while a log is pending is overwritten by cleanup; a log whose `mv`
  was done cannot be run again; a left-over `tmp/entries` makes every cleanup
  fail. The test for conflicting property changes is inverted (`props.c:180`);
  a merge of a directory's properties changes its prop-base. That a directory is
  up to date is checked by the client alone (`commit.c:784`); what others change in
  it before the commit arrives goes unnoticed over ra_local, and its entry then
  claims a revision whose properties its prop-base has not.
* *Updates.* The update of a single entry that deletes it leaves a gap; a missing
  directory that was also deleted makes every update fail.
* *Copies and merges.* A copied directory with versioned children cannot be
  committed (`commit_util.c:301`); a copy to a URL of a path scheduled for
  deletion deletes the destination; a move by URL loses a concurrent change;
  merging an added directory always fails (`diff.c:330`).
* *Codecs.* `condense_targets` of three or more targets may lose the base
  directory; the XML parser refuses directory properties after subdirectories;
  a file named before a directory's children and again after them is opened
  twice; keywords are subject to end-of-line translation inside their `$`.
* *Network.* Components lopped off a path are joined in the wrong order when
  there are two or more (`props.c:514`); every failure, time-outs included, is
  taken for a path that does not exist; `check_path` takes any error for "none";
  a revision that is not a number becomes revision 0.

## What is proved

Each of the groups below proves, for every value of the constants, what a run
checks on a small instance; the type correctness of FsCommit and the inductive
invariants are proved besides. The assumptions are those of the modules
themselves; TLC evaluates them on the instances.

**FsCommit_proofs**, for every set of transactions, paths and contents and every
initial history (`FirstRevsAssumption`: a nonempty sequence of trees):

* `TypeCorrect`: `Spec => []TypeOK`;
* `UpdatesNotLost`: `Spec => []NoLostUpdate`. A revision differs from the one
  before it only where its transaction wrote, or at or below a place it copied
  to;
* `ChangesKept`: `Spec => []OwnChangesKept`. What a transaction put at a path is
  in its revision or in an older one.

`NoLostUpdate` speaks of two revisions after the fact and is not inductive. The
invariant `IInv` adds what holds while the transaction is open: its base is one
of the revisions (`BaseIsRevision`); its tree differs from the base only where it
wrote (`WorkDiffersWhereTouched`); where it wrote, its tree has what it put
there, or a revision up to now has (`WorkHasOwnChanges`); a transaction not begun
has written nothing (`NothingWrittenYet`); a committed one has a revision
(`NewRevisionExists`). `Merge` replaces the base and keeps the difference;
`Commit` requires that the base is the youngest revision, which turns
`WorkDiffersWhereTouched` into `NoLostUpdate`. Revisions already there are
untouched by an append (`AppendRevision`), which carries the rest.

**FsIds_proofs, NodesTable_proofs**, for tables and numbers of any size (`BoundsAssumption`: the
bounds of the actions are numbers):

* `TableIsSound`: `TableSpec => []TableSound`. The keys are ID's, the predecessor
  of every key is in the table, `compare_ids` orders the keys totally, and the
  latest revision of a node is found by the lookup that `structure` describes;
* `NoKeyReused`: `TableSpec => KeysNotReused`. `svn_fs__new_node_id` and
  `svn_fs__new_successor_id` never return a key that is in the table.

`compare_ids` is shown to be a strict total order on all ID's: two of them first
differ at one place, and that place decides. So a finite table has a last key,
and what is derived from it is free. The inductive invariant `TableInv` adds that
the table is finite, that the numbers in a key below its node number are at least
1, and `PrefixesCommitted`: whatever a key begins with is the ID of a committed
node revision. The last one is needed because a branch is numbered after a key
that may be a branch off another revision than the one asked for, and because a
deletion must not take away what a longer key was derived from.

**FsStore_proofs**: trails are atomic, for any number of processes, of calls, of deaths and of failing checkpoints, and any of the calls
(`CallsAssumption` says which there are):

* `TrailsAreAtomic`: `Spec => TrailsAtomic`, that is FsStore implements FsTables.
  A trail whose accesses interleave with others', that is chosen to resolve a
  deadlock and run again, that fails or whose process dies, is one run of its
  body on the tables, or none, and its caller gets what that run gives;
* `CacheIsFresh`: `Spec => []CacheFresh`. A node revision that `dag.c` has cached
  is the one the trail would read from the table;
* `BaseRevisionIsRight`: `Spec => []BaseRevisionRight`. The base revision in a
  transaction's handle has the transaction's base as its root, although
  `svn_fs_open_txn` reads it out of a node;
* `StoreInvariant`: `Spec => []StoreInv`, the inductive invariant.

The argument is that of strict two-phase locking, and it is made in three steps.

1. *Where a body can be*. `At(b, todo, l, v, H, t)` lists, for
   each body and each point in it, what its variables `l` hold and how the tables
   `v` as the trail sees them differ from the tables `t`, given that it has locked
   the pages `H`. One access takes a body from one place to the next, or fails
   where the whole body would have failed (`StepAdvances`); at its end the body has
   done what `Effect` says (`BodyEnds`); nothing that others write to pages outside
   `H` moves it (`TrailStays`).
2. *What bodies keep*. `TablesInv` says of the tables that names
   of transactions are below the next one, that the roots of revisions and the
   bases of transactions are committed nodes whose `rev` is a revision they are
   the root of (`RootsCommitted`), and that the root of a transaction is its base
   or a mutable node that no other transaction has (`RootsPrivate`; without it an
   abort could delete another's root). Every body keeps it, and leaves committed
   nodes, roots of revisions and bases alone (`Follows`), which keeps handles right.
3. *Interleaving*. `StoreInv` says that each trail is at a place
   of its body with the locks it has, that it has written only to pages it has a
   write lock on, and that a page one trail has a write lock on is locked by
   nobody else (`LocksExclude`). The cache is the delicate part: it outlives the
   trail, so what it holds must be true without a lock. It is, because only
   committed nodes stay in it (`UncacheNodeRevision`) and those do not change
   (`CacheGood`).

In FsStore the cache of the dag node is among the trail's variables and is handed
on to the next attempt, or to the next trail of the call, less what
`uncache_node_revision` drops.

**Reps_proofs**: contents, for any number of transactions and
readers, and texts, records, windows, keys and chains of deltas of any size
(`RepsAssumption`: texts are sequences of positive numbers, property lists are not
empty, sizes are numbers and keys have at least two digits to be written with).
svnadmin may run at any time. The three properties are stated up to the step in which
it makes a committed representation a delta against one of an open transaction
(`tainted`), which the code does not prevent and which makes them false.

* `ContentsAreKept`: `Spec => []ContentsKept`. The representations of a
  node revision read back as what clients sent for it, whatever is deltified,
  undeltified, edited, committed or aborted;
* `ReadersGetTheText`: `Spec => []ReadersGetText`. A reader that asks for
  a part in each trail gets the parts of one text, although the representation may
  become a delta, or a full text again, between two of them;
* `TablesAreSound`: `Spec => []TablesSound`;
* `RepsInvariant`: `Spec => [](~tainted => RepsInv)`, the inductive invariant.

`RepsInv` says that there are texts `C`, one per representation, with which the
tables are sound and which are those that clients sent. *Sound*
means that the records of a full text make up `C[k]`, and that the instructions of
a delta played on the text of its base give `C[k]`; that a base is immutable and
has a later key, so that every chain of deltas ends. From this `rep_read_range`
gives the part asked for of `C[k]` through however many deltas (`ReadRangeExact`),
by induction on the number of keys that are later. Each operation on the tables
then has a lemma that says that it takes sound tables to sound ones and what the
texts are afterwards: the same ones, for `svn_fs__rep_deltify` and
`svn_fs__rep_undeltify` (`RepDeltifySound`, `RepUndeltifySound`). Keys are strings
of digits; `svn_fs__next_key` is shown to add one to the number they stand for
(`NextKeyCounts`), which is what makes keys fresh and *later* an order.

That a delta is only ever made against a later key does not follow from soundness.
The rest of `RepsInv` says in which order representations are made: those of a
predecessor before its successor's, those of the youngest revision last
(`OrderRight`), an edit after the text it started from (`TxnRight`); and who names
them: a mutable one has one node revision, an immutable one a committed node
revision (`NamesRight`). Without the last, an abort could delete a representation
that a revision reads.

The prover has no induction over data, so the inductions here are by least
counterexample: `LeastNumber` gives the least number at which a claim fails, and
the claim at the number before it refutes that. Recursive functions are shown to
exist the same way (`StepsExist`).

**WcProps_proofs**: versioned properties, for any properties and values and any
number of revisions and of ticks of the clock (`PropConstants`: the names are those
of normal properties, bounds are numbers), for a file and for a directory:

* `PropsAreRight`: `PropsSpec => []PropsRight`. Each pristine property is that of
  the entry's revision, except for the names in `off`, and status shows a local
  change, except one made in the tick of a recorded time stamp (`fast`);
* `PropsInvariant`: `PropsSpec => []PropsInv`, the inductive invariant.

`PropsInv` says besides what the time stamps mean (`TimesRight`, `ChangesSeen`: a
change was made after the stamp was recorded, or in the same tick), that a revision
has the properties of the last one in which the item changed (`HistoryRight`), and
that while a commit runs the temporary property file holds what was sent, which is
the pristine properties with the commit's changes (`CommitRight`). The delicate part
is `LeftoversRight`: a commit that dies leaves the temporary file behind, and the
next one would install it. It cannot for a file: the lock stays until cleanup removes
the temporary file, or the item is out of date, so that its next commit is refused. A
directory is not looked at again when its commit arrives, but it is only ever committed
with its properties, and that replaces what was left over. The attempt to prove
this showed that arms of `CASE` overlapped in the module, which leaves the value open
where TLC takes the first; they are now tests made in the code's order.

**DavResources_proofs**: what the Apache module answers, for any paths and names and
any number of revisions, nodes, transactions, activities and lost answers
(`DavConstants`: components are not empty and no path is below the special URI,
numbers are not written alike, there is a name for every revision that the bound
allows, and for every node of the import; `Replacing` stops where the names for
nodes end):

* `AnswersTrue`: `DavSpec => []AnswerTrue`. `svn_ra_dav__get_baseline_info` and
  `svn_ra_dav__do_check_path` tell the truth, whatever is committed between their
  requests and whichever answers get lost, when they had to go up one directory at
  most;
* `UrlsKept`: `DavSpec => []UrlsStable`. The URLs of version and working resources
  stay what the server gave them out for;
* `DavInvariant`: `DavSpec => []DavInv`, the inductive invariant.

The first part has no states: what each URI that `dav_svn_build_uri` makes is parsed
into again (`VccResource`, `BaselineResource`, `CollectionResource`,
`VersionResource`, `WorkingResource`), which needs that dropping empty components
(`Clean`) leaves the others in their order and that a number is read back as it was
written; and what is reported of the resource (`PublicProps`, `BaselineProps`...).
`DavInv` then says which URI the client has in hand at each of its steps and of which
revision: of one that was the youngest since it started, or of the one it was asked
for (`AskRight`), that an answer was found there (`GoodAnswer`) or has a reason to be
none (`BadAnswer`), and that what the client keeps are URIs the server built
(`HeldRight`). Commits of others only add revisions and nodes (`Grows`), which
leaves all this true. That names cut off a path are joined in their order is true of
one name only, so the claims about answers are of calls that went up one directory
at most, like the property; what happens to others is noted above.

**RaCommit_proofs**: commits through both access layers, for any number of clients,
paths, commits and faults (no assumption but those of the module):

* `CommitsWhole`: `Spec => []AllOrNothing`. A commit that succeeded, or that failed in
  its post-commit hook only, made exactly one revision; one that failed in the edit,
  at a hook before it or at its end made none, and at its end (the pre-commit hook, a
  conflict) it left no transaction either; one whose client died made at most one; and
  no transaction of a commit that made a revision is left;
* `CommitInvariant`: `Spec => []CommitInv`, the inductive invariant.

`AllOrNothing` speaks of commits that have ended. `CommitInv` says what there is of
one under way: no transaction before `svn_repos_fs_begin_txn_for_commit`
(`Early`), then none but the one that the batons name, and no revision (`Open`), and
after `svn_fs_commit_txn` exactly one revision (`Done`). Two cases make it more than
a list of stages. An activity that could not be stored leaves a transaction that no
baton names: the commit is then refused before it drives its editor, for want of an
activity, and the transaction stays without a revision. And a server that has received the MERGE request of a
client that died goes on to commit it: the commit is reported as failed and makes a
revision, which is why the property allows one of a client that died. Owners are told apart by
the number of the commit (`NamesRight`, `NextNumberFree`): what an earlier commit of
the same client left behind is not taken for the next one's. The editor's calls are
one lemma (`DriveKeeps`), since none of the seventeen changes the stage or the
transaction of the batons (`BatonsKept`); the others each have their own. For these
proofs the model keeps the stage of a commit apart from the calls of the editor that
are left to make.

**Only model-checked.** Liveness (`CommitReturns`) is outside the prover's reach.
So is every module with recursive operators: FsTree (its refinement
`ImplementsFsCommit` and its tree invariants), RepoHistory, RaUpdate,
CommitDriver, Paths, Copies, Diffs, TextDelta, Encodings and WcTranslate.
`NoBlindChange` and `RevisionsRight` of RaCommit need what `Drive` computes for every
set of items and that equal directories have equal contents in any two revisions; they,
Wc and XmlDelta are within reach and not proved.

## Not modelled

Berkeley DB is trusted: page locks, deadlock detection, recovery. Neon, Apache
and expat are not in the repository (or are vendored) and are seen through the
calls made to them. The text of entries files, option parsing, output, memory
pools, opening and creating repositories, sessions and authentication are pure
input and output. `svn_fs_merge` outside a commit and `svn_fs__dag_link` have no
caller above them.

## Plan

1. *(done)* Filesystem: FsIds, NodesTable, FsTree, FsCommit, Reps, FsStore,
   FsTables, RepoHistory; refinements; first proofs.
2. *(done)* Working copy, client, access layers, codecs.
3. Proofs: *(done)* FsCommit, NodesTable, FsStore implements FsTables, Reps,
   WcProps, DavResources, `AllOrNothing` of RaCommit. Left: `NoBlindChange` and
   `RevisionsRight` of RaCommit, and Wc.
