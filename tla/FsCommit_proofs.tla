--------------------------- MODULE FsCommit_proofs ---------------------------
(***************************************************************************)
(* FsCommit keeps its promises for any number of transactions, paths,      *)
(* contents and revisions.  The properties speak of finished transactions; *)
(* the inductive invariant says of open ones what will make them true:     *)
(* a transaction's base is a revision, its tree differs from its base only *)
(* where it wrote or copied, and what it wrote is in its tree unless some  *)
(* revision has it already.                                                *)
(***************************************************************************)
EXTENDS FsCommit, SequenceTheorems, TLAPS

BaseIsRevision ==
  \A t \in Txns : state[t] = "open" =>
    \E i \in 1..Len(revs) : base[t] = revs[i]

WorkDiffersWhereTouched ==
  \A t \in Txns : state[t] = "open" =>
    \A p \in Paths \ (Written(t) \cup copied[t]) : work[t][p] = base[t][p]

WorkHasOwnChanges ==
  \A t \in Txns : state[t] = "open" =>
    \A p \in Written(t) \ copied[t] :
      \/ work[t][p] = mine[t][p]
      \/ \E i \in 1..Len(revs) : revs[i][p] = mine[t][p]

NothingWrittenYet ==
  \A t \in Txns : state[t] = "none" => Written(t) = {}

NewRevisionExists ==
  \A t \in Txns :
    /\ state[t] = "done" => newRev[t] \in 2..Len(revs)
    /\ state[t] # "done" => newRev[t] = 0

IInv ==
  /\ TypeOK
  /\ BaseIsRevision
  /\ WorkDiffersWhereTouched
  /\ WorkHasOwnChanges
  /\ NothingWrittenYet
  /\ NewRevisionExists
  /\ NoLostUpdate
  /\ OwnChangesKept

-----------------------------------------------------------------------------
\* The functions from a set of paths to what may be there: mine[t].
PathMap == UNION {[S -> Content \cup {Absent}] : S \in SUBSET Paths}

\* Such a function is determined by its values, which are contents.
LEMMA PathMapProperties ==
  ASSUME NEW f \in PathMap
  PROVE  /\ DOMAIN f \subseteq Paths
         /\ f = [p \in DOMAIN f |-> f[p]]
         /\ \A p \in DOMAIN f : f[p] \in Content \cup {Absent}
BY DEF PathMap

\* What an operation records is again such a function.
LEMMA PathMapUpdate ==
  ASSUME NEW f \in PathMap, NEW S \in SUBSET Paths, NEW tree \in Tree
  PROVE  [p \in DOMAIN f \cup S |-> IF p \in S THEN tree[p] ELSE f[p]]
           \in PathMap
<1> DEFINE D == DOMAIN f \cup S
           g == [p \in D |-> IF p \in S THEN tree[p] ELSE f[p]]
<1>1. D \in SUBSET Paths
  BY PathMapProperties
<1>2. \A p \in D : (IF p \in S THEN tree[p] ELSE f[p]) \in Content \cup {Absent}
  BY PathMapProperties DEF Tree
<1>3. g \in [D -> Content \cup {Absent}]
  BY <1>2
<1> QED
  BY <1>1, <1>3 DEF PathMap

\* Revisions after a commit: the old ones in place, the new tree last.
LEMMA AppendRevision ==
  ASSUME NEW s \in Seq(Tree), NEW tree \in Tree
  PROVE  /\ Append(s, tree) \in Seq(Tree)
         /\ Append(s, tree) # <<>>
         /\ Len(Append(s, tree)) = Len(s) + 1
         /\ \A i \in 1..Len(s) : Append(s, tree)[i] = s[i]
         /\ Append(s, tree)[Len(s) + 1] = tree
BY AppendProperties

-----------------------------------------------------------------------------
\* The filesystem at the start, its revisions any nonempty sequence of trees.
LEMMA InitIInv == Init => IInv
<1> SUFFICES ASSUME Init PROVE IInv
  OBVIOUS
<1> USE DEF Init
<1>1. NoTree \in Tree
  BY DEF NoTree, Tree
<1>2. [p \in {} |-> Absent] \in PathMap
  <2>1. [p \in {} |-> Absent] \in [{} -> Content \cup {Absent}]
    OBVIOUS
  <2> QED
    BY <2>1 DEF PathMap
<1>3. TypeOK
  BY <1>1, <1>2, FirstRevsAssumption DEF TypeOK, PathMap
<1> QED
  BY <1>3 DEF IInv, BaseIsRevision, WorkDiffersWhereTouched,
     WorkHasOwnChanges, NothingWrittenYet, NewRevisionExists, NoLostUpdate,
     OwnChangesKept, Written

-----------------------------------------------------------------------------
(* One lemma per action. *)

\* A new transaction starts at a revision and has written nothing.
LEMMA BeginIInv ==
  ASSUME IInv, NEW t \in Txns, NEW rev \in 1..Len(revs), Begin(t, rev)
  PROVE  IInv'
<1> USE DEF Begin, IInv, TypeOK, Written
<1>1. revs[rev] \in Tree
  BY ElementOfSeq
<1>2. TypeOK'
  BY <1>1
<1>3. BaseIsRevision'
  BY DEF BaseIsRevision
<1>4. WorkDiffersWhereTouched'
  BY DEF WorkDiffersWhereTouched
<1>5. WorkHasOwnChanges'
  <2> SUFFICES ASSUME NEW u \in Txns, state'[u] = "open",
                      NEW p \in DOMAIN mine[u] \ copied[u]
               PROVE  \/ work'[u][p] = mine[u][p]
                      \/ \E i \in 1..Len(revs) : revs[i][p] = mine[u][p]
    BY DEF WorkHasOwnChanges
  <2>1. u # t
    BY DEF NothingWrittenYet
  <2> QED
    BY <2>1 DEF WorkHasOwnChanges
<1>6. NothingWrittenYet' /\ NewRevisionExists'
  BY DEF NothingWrittenYet, NewRevisionExists
<1>7. NoLostUpdate' /\ OwnChangesKept'
  BY DEF NoLostUpdate, OwnChangesKept
<1> QED
  BY <1>2, <1>3, <1>4, <1>5, <1>6, <1>7

\* What an operation changes it records as written.
LEMMA EditIInv ==
  ASSUME IInv, NEW t \in Txns, NEW tree \in Tree, NEW paths \in SUBSET Paths,
         Edit(t, tree, paths)
  PROVE  IInv'
<1> DEFINE touched == {p \in Paths : tree[p] # work[t][p]}
           record  == [p \in DOMAIN mine[t] \cup touched |->
                         IF p \in touched THEN tree[p] ELSE mine[t][p]]
<1> USE DEF IInv
<1>1. /\ state[t] = "open"
      /\ work' = [work EXCEPT ![t] = tree]
      /\ mine' = [mine EXCEPT ![t] = record]
      /\ copied' = [copied EXCEPT ![t] = @ \cup paths]
      /\ UNCHANGED <<revs, state, base, newRev>>
  BY DEF Edit
<1>2. mine \in [Txns -> PathMap]
  BY DEF TypeOK, PathMap
<1>3. record \in PathMap
  <2>1. mine[t] \in PathMap /\ touched \in SUBSET Paths
    BY <1>2
  <2> HIDE DEF touched
  <2> QED
    BY <2>1, PathMapUpdate
<1>4. TypeOK'
  <2>1. mine' \in [Txns -> PathMap]
    BY <1>1, <1>2, <1>3
  <2> QED
    BY <2>1, <1>1 DEF TypeOK, PathMap
<1>5. /\ mine'[t] = record
      /\ DOMAIN record = DOMAIN mine[t] \cup touched
      /\ \A u \in Txns \ {t} : mine'[u] = mine[u]
  BY <1>1, <1>2
<1>6. BaseIsRevision' /\ NothingWrittenYet' /\ NewRevisionExists'
  BY <1>1, <1>5
  DEF BaseIsRevision, NothingWrittenYet, NewRevisionExists, Written, TypeOK
<1>7. WorkDiffersWhereTouched'
  BY <1>1, <1>5 DEF WorkDiffersWhereTouched, Written, TypeOK, Tree
<1>8. WorkHasOwnChanges'
  <2>0. revs' = revs /\ state' = state
    BY <1>1
  <2> SUFFICES ASSUME NEW u \in Txns, state[u] = "open",
                      NEW p \in DOMAIN mine'[u] \ copied'[u]
               PROVE  \/ work'[u][p] = mine'[u][p]
                      \/ \E i \in 1..Len(revs) : revs[i][p] = mine'[u][p]
    BY <2>0 DEF WorkHasOwnChanges, Written
  <2>1. CASE u # t
    BY <1>1, <1>5, <2>1 DEF WorkHasOwnChanges, Written, TypeOK
  <2>2. CASE u = t /\ p \in touched
    BY <1>1, <1>5, <2>2 DEF TypeOK
  <2>3. CASE u = t /\ p \notin touched
    <3>1. p \in Written(t) \ copied[t] /\ mine'[t][p] = mine[t][p]
      BY <1>1, <1>5, <2>3 DEF TypeOK, Written
    <3>2. work'[t][p] = work[t][p]
      BY <1>1, <2>3, <3>1, <1>2, PathMapProperties DEF TypeOK, Written
    <3> QED
      BY <3>1, <3>2, <2>3 DEF WorkHasOwnChanges
  <2> QED
    BY <2>1, <2>2, <2>3
<1>9. NoLostUpdate' /\ OwnChangesKept'
  <2>1. \A u \in Txns : state'[u] = "done" =>
          mine'[u] = mine[u] /\ copied'[u] = copied[u]
    BY <1>1, <1>5 DEF TypeOK
  <2> QED
    BY <1>1, <2>1 DEF NoLostUpdate, OwnChangesKept, Written
<1> QED
  BY <1>4, <1>6, <1>7, <1>8, <1>9

\* Merging changes untouched paths with the base, and written ones not.
LEMMA MergeIInv ==
  ASSUME IInv, NEW t \in Txns, NEW rev \in 1..Len(revs), NEW tree \in Tree,
         Merge(t, rev, tree)
  PROVE  IInv'
<1> USE DEF IInv
<1>1. /\ state[t] = "open"
      /\ work' = [work EXCEPT ![t] = tree]
      /\ base' = [base EXCEPT ![t] = revs[rev]]
      /\ UNCHANGED <<revs, state, newRev, mine, copied>>
      /\ \A p \in Paths : MergesTo(t, revs[rev], p, tree[p])
  BY DEF Merge
<1>2. revs[rev] \in Tree
  BY ElementOfSeq DEF TypeOK
<1>3. TypeOK'
  BY <1>1, <1>2 DEF TypeOK
<1>4. BaseIsRevision' /\ NothingWrittenYet' /\ NewRevisionExists'
  BY <1>1
  DEF BaseIsRevision, NothingWrittenYet, NewRevisionExists, Written, TypeOK
<1>5. WorkDiffersWhereTouched'
  BY <1>1 DEF WorkDiffersWhereTouched, Written, TypeOK, MergesTo
<1>6. WorkHasOwnChanges'
  <2> SUFFICES ASSUME NEW u \in Txns, state[u] = "open",
                      NEW p \in Written(u) \ copied[u]
               PROVE  \/ work'[u][p] = mine[u][p]
                      \/ \E i \in 1..Len(revs) : revs[i][p] = mine[u][p]
    BY <1>1 DEF WorkHasOwnChanges, Written
  <2>1. CASE u # t
    BY <1>1, <2>1 DEF WorkHasOwnChanges, TypeOK
  <2>2. CASE u = t /\ work[t][p] = base[t][p]
    BY <1>1, <2>2 DEF WorkHasOwnChanges, BaseIsRevision
  <2>3. CASE u = t /\ work[t][p] # base[t][p]
    <3>1. p \in Paths
      BY PathMapProperties DEF Written, TypeOK, PathMap
    <3>2. work'[t][p] = work[t][p]
      BY <1>1, <3>1, <2>3 DEF MergesTo, TypeOK
    <3> QED
      BY <3>2, <2>3 DEF WorkHasOwnChanges
  <2> QED
    BY <2>1, <2>2, <2>3
<1>7. NoLostUpdate' /\ OwnChangesKept'
  BY <1>1 DEF NoLostUpdate, OwnChangesKept, Written
<1> QED
  BY <1>3, <1>4, <1>5, <1>6, <1>7

\* A commit makes the properties of finished transactions true of one more.
LEMMA CommitIInv ==
  ASSUME IInv, NEW t \in Txns, Commit(t)
  PROVE  IInv'
<1> USE DEF IInv
<1> DEFINE n == Len(revs)
<1>1. /\ state[t] = "open"
      /\ base[t] = revs[n]
      /\ state' = [state EXCEPT ![t] = "done"]
      /\ newRev' = [newRev EXCEPT ![t] = n + 1]
      /\ base' = [base EXCEPT ![t] = NoTree]
      /\ work' = [work EXCEPT ![t] = NoTree]
      /\ mine' = mine /\ copied' = copied
  BY DEF Commit, Youngest
<1>2. /\ revs' \in Seq(Tree) /\ revs' # <<>>
      /\ Len(revs') = n + 1
      /\ \A i \in 1..n : revs'[i] = revs[i]
      /\ revs'[n + 1] = work[t]
  BY AppendRevision DEF Commit, TypeOK
<1>3. n \in Nat \ {0}
  BY EmptySeq, LenProperties DEF TypeOK
<1>4. TypeOK'
  <2>1. NoTree \in Tree
    BY DEF NoTree, Tree
  <2> QED
    BY <1>1, <1>2, <1>3, <2>1 DEF TypeOK
<1>5. \A u \in Txns : state'[u] = "open" =>
        /\ u # t /\ state[u] = "open"
        /\ base'[u] = base[u] /\ work'[u] = work[u]
  BY <1>1 DEF TypeOK
<1>6. BaseIsRevision'
  <2> SUFFICES ASSUME NEW u \in Txns, state'[u] = "open"
               PROVE  \E i \in 1..Len(revs') : base'[u] = revs'[i]
    BY DEF BaseIsRevision
  <2>1. PICK i \in 1..n : base[u] = revs[i]
    BY <1>5 DEF BaseIsRevision
  <2>2. i \in 1..Len(revs') /\ base'[u] = revs'[i]
    BY <1>2, <1>3, <1>5, <2>1
  <2> QED
    BY <2>2
<1>7. WorkDiffersWhereTouched' /\ NothingWrittenYet'
  <2>1. WorkDiffersWhereTouched'
    BY <1>1, <1>5 DEF WorkDiffersWhereTouched, Written
  <2>2. NothingWrittenYet'
    BY <1>1 DEF NothingWrittenYet, Written, TypeOK
  <2> QED
    BY <2>1, <2>2
<1>8. WorkHasOwnChanges'
  <2> SUFFICES ASSUME NEW u \in Txns, state'[u] = "open",
                      NEW p \in Written(u) \ copied[u],
                      work[u][p] # mine[u][p]
               PROVE  \E i \in 1..Len(revs') : revs'[i][p] = mine[u][p]
    BY <1>1, <1>5 DEF WorkHasOwnChanges, Written
  <2>1. PICK i \in 1..n : revs[i][p] = mine[u][p]
    BY <1>5 DEF WorkHasOwnChanges
  <2>2. i \in 1..Len(revs') /\ revs'[i][p] = mine[u][p]
    BY <1>2, <1>3, <2>1
  <2> QED
    BY <2>2
<1>9. NewRevisionExists'
  BY <1>1, <1>2, <1>3 DEF NewRevisionExists, TypeOK
<1>10. \A u \in Txns : state'[u] = "done" /\ u # t =>
        /\ state[u] = "done"
        /\ newRev'[u] = newRev[u] /\ newRev[u] \in 2..n
  BY <1>1 DEF NewRevisionExists, TypeOK
<1>11. NoLostUpdate'
  <2> SUFFICES ASSUME NEW u \in Txns, state'[u] = "done", NEW p \in Paths,
                      p \notin Written(u) \cup copied[u]
               PROVE  revs'[newRev'[u]][p] = revs'[newRev'[u] - 1][p]
    BY <1>1 DEF NoLostUpdate, Written
  <2>1. CASE u = t
    <3>1. newRev'[t] = n + 1 /\ newRev'[t] - 1 = n
      BY <1>1, <1>3 DEF TypeOK
    <3>2. revs'[n] = base[t]
      BY <1>1, <1>2, <1>3
    <3>3. work[t][p] = base[t][p]
      BY <1>1, <2>1 DEF WorkDiffersWhereTouched
    <3> QED
      BY <1>2, <2>1, <3>1, <3>2, <3>3
  <2>2. CASE u # t
    BY <1>2, <1>3, <1>10, <2>2 DEF NoLostUpdate
  <2> QED
    BY <2>1, <2>2
<1>12. OwnChangesKept'
  <2> SUFFICES ASSUME NEW u \in Txns, state'[u] = "done",
                      NEW p \in Written(u) \ copied[u]
               PROVE  \E rev \in 1..newRev'[u] : revs'[rev][p] = mine[u][p]
    BY <1>1 DEF OwnChangesKept, Written
  <2>1. CASE u = t /\ work[t][p] = mine[t][p]
    <3>1. newRev'[t] = n + 1 /\ n + 1 \in 1..(n + 1)
      BY <1>1, <1>3 DEF TypeOK
    <3> QED
      BY <1>2, <2>1, <3>1
  <2>2. CASE u = t /\ work[t][p] # mine[t][p]
    <3>1. PICK i \in 1..n : revs[i][p] = mine[t][p]
      BY <1>1, <2>2 DEF WorkHasOwnChanges
    <3> QED
      BY <1>1, <1>2, <1>3, <2>2, <3>1 DEF TypeOK
  <2>3. CASE u # t
    <3>1. PICK i \in 1..newRev[u] : revs[i][p] = mine[u][p]
      BY <1>10, <2>3 DEF OwnChangesKept
    <3> QED
      BY <1>2, <1>3, <1>10, <2>3, <3>1
  <2> QED
    BY <2>1, <2>2, <2>3
<1> QED
  BY <1>4, <1>6, <1>7, <1>8, <1>9, <1>11, <1>12

\* An aborted transaction concerns nobody.
LEMMA AbortIInv ==
  ASSUME IInv, NEW t \in Txns, Abort(t)
  PROVE  IInv'
<1> USE DEF IInv, Abort
<1>1. TypeOK'
  BY DEF TypeOK, NoTree, Tree
<1>2. \A u \in Txns :
        /\ state'[u] = "open" => /\ state[u] = "open" /\ base'[u] = base[u]
                                /\ work'[u] = work[u]
        /\ state'[u] = "done" => state[u] = "done"
        /\ state'[u] = "none" => state[u] = "none"
        /\ state'[u] # "done" => state[u] # "done"
  BY DEF TypeOK
<1>3. BaseIsRevision' /\ NothingWrittenYet' /\ NewRevisionExists'
  BY <1>2 DEF BaseIsRevision, NothingWrittenYet, NewRevisionExists, Written
<1>4. WorkDiffersWhereTouched'
  BY <1>2 DEF WorkDiffersWhereTouched, Written
<1>5. WorkHasOwnChanges'
  BY <1>2 DEF WorkHasOwnChanges, Written
<1>6. NoLostUpdate' /\ OwnChangesKept'
  BY <1>2 DEF NoLostUpdate, OwnChangesKept, Written
<1> QED
  BY <1>1, <1>3, <1>4, <1>5, <1>6

\* The invariant is inductive.
LEMMA NextIInv == IInv /\ [Next]_vars => IInv'
<1> SUFFICES ASSUME IInv, [Next]_vars PROVE IInv'
  OBVIOUS
<1>1. CASE UNCHANGED vars
  BY <1>1 DEF vars, IInv, TypeOK, BaseIsRevision, WorkDiffersWhereTouched,
     WorkHasOwnChanges, NothingWrittenYet, NewRevisionExists, NoLostUpdate,
     OwnChangesKept, Written
<1>2. CASE Next
  BY <1>2, BeginIInv, EditIInv, MergeIInv, CommitIInv, AbortIInv DEF Next
<1> QED
  BY <1>1, <1>2

\* Every state of the specification satisfies the inductive invariant.
THEOREM Invariance == Spec => []IInv
BY InitIInv, NextIInv, PTL DEF Spec

\* Type correctness: trees stay trees, whatever is merged or committed.
THEOREM TypeCorrect == Spec => []TypeOK
<1>1. IInv => TypeOK
  BY DEF IInv
<1> QED
  BY <1>1, Invariance, PTL

\* No commit loses an update of another: a revision differs from the one
\* before it only where its transaction wrote or copied.
THEOREM UpdatesNotLost == Spec => []NoLostUpdate
<1>1. IInv => NoLostUpdate
  BY DEF IInv
<1> QED
  BY <1>1, Invariance, PTL

\* No merge loses the transaction's own changes.
THEOREM ChangesKept == Spec => []OwnChangesKept
<1>1. IInv => OwnChangesKept
  BY DEF IInv
<1> QED
  BY <1>1, Invariance, PTL
=============================================================================
