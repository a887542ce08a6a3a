------------------------------ MODULE FsCommit ------------------------------
(***************************************************************************)
(* What libsvn_fs promises a client about commits, whatever the node       *)
(* revision ID's, clones and trails behind it: revisions are a sequence of *)
(* trees that only grows; a transaction is a private tree that starts as a *)
(* copy of a revision; before it becomes a revision itself, the changes    *)
(* made since its base are merged into it path by path.  The comment in    *)
(* svn_fs_commit_txn tells this story; FsTree is checked to implement it.  *)
(*                                                                         *)
(* A tree maps every path to what is there, or to Absent.                  *)
(***************************************************************************)
EXTENDS Integers, Sequences

CONSTANTS
  Txns,       \* transactions
  Paths,      \* paths
  Content,    \* what may be at a path: a node with its text and properties
  Absent,     \* nothing at a path
  FirstRevs   \* the trees of the revisions that exist at the start

Tree == [Paths -> Content \cup {Absent}]

ASSUME FirstRevsAssumption == FirstRevs \in Seq(Tree) /\ FirstRevs # <<>>

VARIABLES
  revs,      \* the trees of the revisions; record i is revision i-1
  state,     \* "none", "open", "done" or "aborted", for each transaction
  base,      \* the tree the transaction is based on
  work,      \* the tree of the transaction
  newRev,    \* the revision record the transaction became, 0 if none
  mine,      \* what the transaction's operations last put at each path
  copied     \* paths it received, with their history, by copying a tree

vars == <<revs, state, base, work, newRev, mine, copied>>

Youngest == revs[Len(revs)]

NoTree == [p \in Paths |-> Absent]

Init ==
  /\ revs = FirstRevs
  /\ state = [t \in Txns |-> "none"]
  /\ base = [t \in Txns |-> NoTree]
  /\ work = [t \in Txns |-> NoTree]
  /\ newRev = [t \in Txns |-> 0]
  /\ mine = [t \in Txns |-> [p \in {} |-> Absent]]
  /\ copied = [t \in Txns |-> {}]

\* A transaction starts as a copy of a revision.
Begin(t, rev) ==
  /\ state[t] = "none"
  /\ state' = [state EXCEPT ![t] = "open"]
  /\ base' = [base EXCEPT ![t] = revs[rev]]
  /\ work' = [work EXCEPT ![t] = revs[rev]]
  /\ UNCHANGED <<revs, newRev, mine, copied>>

\* An operation changes its tree, and no other transaction's or revision's;
\* it may mark paths as copied.
Edit(t, tree, paths) ==
  LET touched == {p \in Paths : tree[p] # work[t][p]}
  IN  /\ state[t] = "open"
      /\ work' = [work EXCEPT ![t] = tree]
      /\ mine' = [mine EXCEPT ![t] =
                    [p \in DOMAIN @ \cup touched |->
                       IF p \in touched THEN tree[p] ELSE @[p]]]
      /\ copied' = [copied EXCEPT ![t] = @ \cup paths]
      /\ UNCHANGED <<revs, state, base, newRev>>

\* Mutant: the target takes what the source changed, whatever it has.
MergesTo_SourceWins(t, source, p, new) ==
  new = IF source[p] # base[t][p] THEN source[p] ELSE work[t][p]

\* Merging source into the transaction may leave `new' at path p: what only
\* one side changed stays changed.  A path that both changed is a conflict,
\* unless they agree or the source deleted what the transaction replaced.
\* In copied trees either side may prevail.
MergesTo(t, source, p, new) ==
  LET b == base[t][p]
      w == work[t][p]
      s == source[p]
  IN  \/ w = b /\ new = s
      \/ w # b /\ new = w /\ s \in {b, w, Absent}
      \/ p \in copied[t] /\ new \in {w, s}

\* The transaction catches up with a revision.
Merge(t, rev, tree) ==
  /\ state[t] = "open"
  /\ \A p \in Paths : MergesTo(t, revs[rev], p, tree[p])
  /\ work' = [work EXCEPT ![t] = tree]
  /\ base' = [base EXCEPT ![t] = revs[rev]]
  /\ UNCHANGED <<revs, state, newRev, mine, copied>>

\* Mutant: the base is not compared with the youngest revision.
Commit_Unchecked(t) ==
  /\ state[t] = "open"
  /\ state' = [state EXCEPT ![t] = "done"]
  /\ revs' = Append(revs, work[t])
  /\ newRev' = [newRev EXCEPT ![t] = Len(revs) + 1]
  /\ base' = [base EXCEPT ![t] = NoTree]
  /\ work' = [work EXCEPT ![t] = NoTree]
  /\ UNCHANGED <<mine, copied>>

\* A transaction based on the youngest revision becomes the next one.
Commit(t) ==
  /\ state[t] = "open"
  /\ base[t] = Youngest
  /\ state' = [state EXCEPT ![t] = "done"]
  /\ revs' = Append(revs, work[t])
  /\ newRev' = [newRev EXCEPT ![t] = Len(revs) + 1]
  /\ base' = [base EXCEPT ![t] = NoTree]
  /\ work' = [work EXCEPT ![t] = NoTree]
  /\ UNCHANGED <<mine, copied>>

Abort(t) ==
  /\ state[t] = "open"
  /\ state' = [state EXCEPT ![t] = "aborted"]
  /\ base' = [base EXCEPT ![t] = NoTree]
  /\ work' = [work EXCEPT ![t] = NoTree]
  /\ UNCHANGED <<revs, newRev, mine, copied>>

Next ==
  \E t \in Txns :
    \/ \E rev \in 1..Len(revs) : Begin(t, rev)
    \/ \E tree \in Tree, paths \in SUBSET Paths : Edit(t, tree, paths)
    \/ \E rev \in 1..Len(revs), tree \in Tree : Merge(t, rev, tree)
    \/ Commit(t)
    \/ Abort(t)

Spec == Init /\ [][Next]_vars

-----------------------------------------------------------------------------
(* Properties *)

Written(t) == DOMAIN mine[t]

TypeOK ==
  /\ revs \in Seq(Tree) /\ revs # <<>>
  /\ state \in [Txns -> {"none", "open", "done", "aborted"}]
  /\ base \in [Txns -> Tree]
  /\ work \in [Txns -> Tree]
  /\ newRev \in [Txns -> Nat]
  /\ copied \in [Txns -> SUBSET Paths]
  /\ mine \in [Txns -> UNION {[S -> Content \cup {Absent}] : S \in SUBSET Paths}]

\* "One can't simply attach the txn root as the root of the new revision,
\* because that would lose all the changes between base and latest": a
\* revision differs from the one before it only at paths that the
\* transaction behind it changed or copied, however many commits it raced.
NoLostUpdate ==
  \A t \in Txns : state[t] = "done" =>
    \A p \in Paths :
      revs[newRev[t]][p] # revs[newRev[t] - 1][p] =>
        p \in Written(t) \cup copied[t]

\* Nor does a transaction lose its own changes to merging: what it put at a
\* path is in its revision, or was in an older one (two clients made the
\* same change, and it was changed again).
OwnChangesKept ==
  \A t \in Txns : state[t] = "done" =>
    \A p \in Written(t) \ copied[t] :
      \E rev \in 1..newRev[t] : revs[rev][p] = mine[t][p]
=============================================================================
