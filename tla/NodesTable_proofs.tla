------------------------- MODULE NodesTable_proofs -------------------------
(***************************************************************************)
(* The nodes table is sound and hands out no key twice, for tables and     *)
(* numbers of any size.  The order of the keys and the keys chosen from    *)
(* the table are in FsIds_proofs.  The inductive invariant adds what the   *)
(* choice needs: whatever a key begins with is a committed node revision's *)
(* ID.                                                                     *)
(***************************************************************************)
EXTENDS NodesTable, FsIds_proofs

-----------------------------------------------------------------------------
(* The inductive invariant *)

\* Every ID that a key begins with is a committed node revision's.
PrefixesCommitted ==
  \A k \in Keys : \A m \in 2..(Len(k) - 1) :
    m % 2 = 0 => SubSeq(k, 1, m) \in committed

TableInv ==
  /\ KeysTypeOK
  /\ IsFiniteSet(Keys)
  /\ RootId \in committed
  /\ \A k \in Keys : PartsPositive(k)
  /\ PrefixesCommitted
  /\ PredecessorsPresent

\* A key that may be added to the table: free, with its predecessor and all
\* that it begins with committed.
MayAdd(new) ==
  /\ new \notin Keys /\ IsId(new) /\ PartsPositive(new)
  /\ \A m \in 2..(Len(new) - 1) : m % 2 = 0 => SubSeq(new, 1, m) \in committed
  /\ IdPredecessor(new) = NoId \/ IdPredecessor(new) \in committed

\* svn_fs__new_node_id gives such a key.
LEMMA NodeMayBeAdded ==
  ASSUME TableInv
  PROVE  MayAdd(NewNodeId(Keys))
<1>1. PICK new : new = NewNodeId(Keys)
  OBVIOUS
<1>2. IsFiniteSet(Keys) /\ Keys # {} /\ \A k \in Keys : IsId(k)
  BY DEF TableInv, KeysTypeOK, Keys
<1>3. IsId(new) /\ Len(new) = 2 /\ new[2] = 1 /\ new \notin Keys
  BY <1>1, <1>2, NewNodeIdFresh
<1>4. PartsPositive(new)
  BY <1>3 DEF PartsPositive
<1>5. IdPredecessor(new) = NoId
  BY <1>3 DEF IdPredecessor
<1> QED
  BY <1>1, <1>3, <1>4, <1>5 DEF MayAdd

\* So does svn_fs__new_successor_id of a committed node revision.
LEMMA SuccessorMayBeAdded ==
  ASSUME TableInv, NEW id \in committed
  PROVE  MayAdd(NewSuccessorId(Keys, id))
<1>1. IdsSound(Keys, committed)
  BY DEF TableInv, KeysTypeOK, PrefixesCommitted, IdsSound, Keys
<1> QED
  BY <1>1, SuccessorIsFree DEF FreeKey, MayAdd

\* What KeysNotReused says of a step.
NothingReused ==
  /\ committed \subseteq committed'
  /\ \A k \in Keys \cap Keys' : origin'[k] = origin[k]

\* Adding such a key, with or without taking out mutable node revisions,
\* keeps the invariant, and no key that stays changes.
LEMMA AddingKeeps ==
  ASSUME TableInv, NEW new, MayAdd(new), NEW from, from = NoId \/ IsId(from),
         committed' = committed, mutable' \subseteq mutable \cup {new},
         DOMAIN origin' = Keys',
         \A k \in Keys' : origin'[k] = IF k = new THEN from ELSE origin[k]
  PROVE  TableInv' /\ NothingReused
<1>1. new \notin Keys /\ new \notin committed /\ committed \cap mutable = {}
  BY DEF MayAdd, Keys, TableInv, KeysTypeOK
<1>2. \A k \in Keys' : k \in Keys \/ k = new
  BY DEF Keys
<1>3. KeysTypeOK'
  <2>1. (committed \cap mutable)' = {}
    BY <1>1
  <2>2. \A k \in Keys' : IsId(k)
    BY <1>2 DEF TableInv, KeysTypeOK, MayAdd
  <2>3. \A k \in Keys' : origin'[k] = NoId \/ IsId(origin'[k])
    BY <1>2 DEF TableInv, KeysTypeOK
  <2> QED
    BY <2>1, <2>2, <2>3 DEF KeysTypeOK
<1>4. IsFiniteSet(Keys')
  <2>1. IsFiniteSet(Keys \cup {new})
    BY FS_AddElement DEF TableInv
  <2>2. Keys' \in SUBSET (Keys \cup {new})
    BY <1>2
  <2> QED
    BY <2>1, <2>2, FS_Subset
<1>5. \A k \in Keys' : PartsPositive(k)
  BY <1>2 DEF TableInv, MayAdd
<1>6. PrefixesCommitted'
  BY <1>2 DEF TableInv, MayAdd, PrefixesCommitted
<1>7. PredecessorsPresent'
  BY <1>2 DEF TableInv, MayAdd, PredecessorsPresent
<1>8. NothingReused
  BY <1>1 DEF NothingReused
<1> QED
  BY <1>3, <1>4, <1>5, <1>6, <1>7, <1>8 DEF TableInv

\* Neither node.c's deletion of a mutable node revision nor its getting a
\* revision number disturbs the others.
LEMMA RemovingKeeps ==
  ASSUME TableInv, NEW id \in mutable, Delete(id) \/ Commit(id)
  PROVE  TableInv' /\ NothingReused
<1>1. committed \cap mutable = {} /\ DOMAIN origin = Keys
  BY DEF TableInv, KeysTypeOK
<1>2. CASE Delete(id)
  <2>1. /\ committed' = committed /\ Keys' = Keys \ {id}
        /\ origin' = [k \in Keys \ {id} |-> origin[k]]
    BY <1>1, <1>2 DEF Delete, Keys
  <2>2. KeysTypeOK'
    BY <1>1, <1>2, <2>1 DEF Delete, TableInv, KeysTypeOK
  <2>3. IsFiniteSet(Keys)'
    BY <2>1, FS_RemoveElement DEF TableInv
  <2>4. PrefixesCommitted' /\ PredecessorsPresent' /\ \A k \in Keys' : PartsPositive(k)
    BY <2>1 DEF TableInv, PrefixesCommitted, PredecessorsPresent
  <2> QED
    BY <2>1, <2>2, <2>3, <2>4 DEF TableInv, NothingReused
<1>3. CASE Commit(id)
  <2>1. committed' = committed \cup {id} /\ Keys' = Keys /\ origin' = origin
    BY <1>3 DEF Commit, Keys
  <2>2. KeysTypeOK'
    BY <1>1, <1>3, <2>1 DEF Commit, TableInv, KeysTypeOK
  <2>3. PrefixesCommitted' /\ PredecessorsPresent'
    BY <2>1 DEF TableInv, PrefixesCommitted, PredecessorsPresent
  <2> QED
    BY <2>1, <2>2, <2>3 DEF TableInv, NothingReused
<1> QED
  BY <1>2, <1>3

\* Every step keeps the invariant and reuses no key.
LEMMA StepKeeps ==
  ASSUME TableInv, TableNext
  PROVE  TableInv' /\ NothingReused
<1>1. /\ \A k \in Keys : IsId(k)
      /\ committed \cap mutable = {} /\ DOMAIN origin = Keys
  BY DEF TableInv, KeysTypeOK
<1>2. ASSUME NEW new, NEW from, PutNew(new, from), MayAdd(new),
             from = NoId \/ IsId(from)
      PROVE  TableInv' /\ NothingReused
  <2>1. /\ committed' = committed /\ mutable' = mutable \cup {new}
        /\ origin' = [k \in Keys \cup {new} |->
                        IF k = new THEN from ELSE origin[k]]
    BY <1>1, <1>2 DEF PutNew, MayAdd, Keys
  <2>2. Keys' = Keys \cup {new}
    BY <2>1 DEF Keys
  <2> QED
    BY <1>2, <2>1, <2>2, AddingKeeps
<1>3. CASE CreateNode
  <2>1. PICK new : new = NewNodeId(Keys)
    OBVIOUS
  <2>2. MayAdd(new) /\ PutNew(new, NoId)
    BY <1>3, <2>1, NodeMayBeAdded DEF CreateNode
  <2> QED
    BY <1>2, <2>2
<1>4. ASSUME NEW id \in committed, NewSuccessor(id)
      PROVE  TableInv' /\ NothingReused
  <2>1. PICK new : new = NewSuccessorId(Keys, id)
    OBVIOUS
  <2>2. MayAdd(new) /\ PutNew(new, id) /\ IsId(id)
    BY <1>1, <1>4, <2>1, SuccessorMayBeAdded DEF NewSuccessor, Keys
  <2> QED
    BY <1>2, <2>2
<1>5. ASSUME NEW target \in mutable, NEW source \in committed, ReId(target, source)
      PROVE  TableInv' /\ NothingReused
  <2>1. PICK new : new = NewSuccessorId(Keys, source)
    OBVIOUS
  <2>2. MayAdd(new) /\ IsId(source) /\ new \notin Keys /\ new # target
    BY <1>1, <2>1, SuccessorMayBeAdded DEF Keys, MayAdd
  <2>3. /\ mutable' = (mutable \cup {new}) \ {target}
        /\ committed' = committed \ {new}
        /\ origin' = [k \in (Keys \cup {new}) \ {target} |->
                        IF k = new THEN source ELSE origin[k]]
    BY <1>1, <1>5, <2>1 DEF ReId
  <2>4. committed' = committed
    BY <2>2, <2>3 DEF Keys
  <2>5. Keys' = (Keys \cup {new}) \ {target}
    BY <1>1, <2>2, <2>3, <2>4 DEF Keys
  <2> QED
    BY <2>2, <2>3, <2>4, <2>5, AddingKeeps
<1> QED
  BY <1>3, <1>4, <1>5, RemovingKeeps DEF TableNext

-----------------------------------------------------------------------------
(* What follows from the invariant *)

\* The order compare_ids gives the keys is total.
LEMMA InvOrdersKeys ==
  ASSUME TableInv
  PROVE  KeyOrderTotal
<1>1. \A k \in Keys : IsId(k)
  BY DEF TableInv, KeysTypeOK
<1> SUFFICES ASSUME NEW a \in Keys, NEW b \in Keys
             PROVE  /\ ~ (IdLess(a, b) /\ IdLess(b, a))
                    /\ a # b => IdLess(a, b) \/ IdLess(b, a)
                    /\ \A c \in Keys : IdLess(a, b) /\ IdLess(b, c) => IdLess(a, c)
  BY DEF KeyOrderTotal
<1> QED
  BY <1>1, IdLessTotal, IdLessTransitive

\* The next even number after 2.
LEMMA MoreThanTwo ==
  ASSUME NEW n \in Nat, n >= 2, n # 2, n % 2 = 0
  PROVE  n >= 4
OBVIOUS

\* Y is N.first.1.1, where FIRST is the number of N's first revision.
FirstBranchOf(y, N) ==
  /\ y \in Seq(Nat) /\ Len(y) = 4 /\ y[1] = N
  /\ y[2] \in Nat /\ y[2] = IF N = 0 THEN 0 ELSE 1
  /\ y[3] = 1 /\ y[4] = 1

\* A revision of node N comes before it, and what comes between is one too.
LEMMA RevisionsBeforeFirstBranch ==
  ASSUME NEW N \in Nat, NEW y, FirstBranchOf(y, N)
  PROVE  /\ IsId(y)
         /\ \A r : IsId(r) /\ Len(r) = 2 /\ r[1] = N => IdLess(r, y)
         /\ \A r, l : /\ IsId(r) /\ Len(r) = 2 /\ r[1] = N
                      /\ IsId(l) /\ PartsPositive(l)
                      /\ r = l \/ IdLess(r, l)
                      /\ IdLess(l, y)
                      => Len(l) = 2 /\ l[1] = N /\ r[2] <= l[2]
<1>6. PICK first : first = IF N = 0 THEN 0 ELSE 1
  OBVIOUS
<1>1. /\ first \in Nat /\ y \in Seq(Nat) /\ Len(y) = 4
      /\ y[1] = N /\ y[2] = first /\ y[3] = 1 /\ y[4] = 1
  BY <1>6 DEF FirstBranchOf
<1>2. IsId(y)
  BY <1>1 DEF IsId
<1>3. /\ Component(y, 1) = N /\ Component(y, 2) = first /\ Component(y, 3) = 1
      /\ Component(y, 4) = 1 /\ Component(y, 5) = -1
  BY <1>1 DEF Component
<1>4. ASSUME NEW r, IsId(r), Len(r) = 2, r[1] = N PROVE IdLess(r, y)
  <2>1. /\ Component(r, 1) = N /\ Component(r, 2) = r[2] /\ r[2] \in Nat
        /\ Component(r, 3) = -1
    BY <1>4, FirstAndLast DEF Component
  <2>2. CASE r[2] # first
    <3>1. DifferFirstAt(r, y, 2)
      BY <1>3, <2>1, <2>2 DEF DifferFirstAt
    <3>2. OrderAt(r, y, 2)
      BY <1>1, <1>4 DEF OrderAt
    <3> QED
      BY <1>2, <1>4, <3>1, <3>2, DecidedAt
  <2>3. CASE r[2] = first
    <3>1. \A j \in 1..2 : Component(r, j) = Component(y, j)
      BY <1>3, <2>1, <2>3
    <3>2. DifferFirstAt(r, y, 3)
      BY <1>3, <2>1, <3>1 DEF DifferFirstAt
    <3>3. OrderAt(r, y, 3)
      BY <1>3, <2>1 DEF OrderAt
    <3> QED
      BY <1>2, <1>4, <3>2, <3>3, DecidedAt
  <2> QED
    BY <2>2, <2>3
<1>5. ASSUME NEW r, NEW l, IsId(r), Len(r) = 2, r[1] = N,
             IsId(l), PartsPositive(l), r = l \/ IdLess(r, l), IdLess(l, y)
      PROVE  Len(l) = 2 /\ l[1] = N /\ r[2] <= l[2]
  <2>1. /\ Component(r, 1) = N /\ Component(r, 2) = r[2] /\ r[2] \in Nat
        /\ Component(l, 1) = l[1] /\ Component(l, 2) = l[2]
        /\ l[1] \in Nat /\ l[2] \in Nat
        /\ Len(l) \in Nat /\ Len(l) >= 2 /\ Len(l) % 2 = 0
    BY <1>5, FirstAndLast, Components
  <2>2. l[1] = N
    <3>1. l[1] <= N
      BY <1>1, <1>2, <1>5, NodesInOrder
    <3>2. N <= l[1]
      BY <1>5, <2>1, NodesInOrder
    <3> QED
      BY <2>1, <3>1, <3>2
  <2>3. Len(l) = 2
    <3> SUFFICES ASSUME Len(l) # 2 PROVE FALSE
      OBVIOUS
    <3>1. Len(l) >= 4
      BY <2>1, MoreThanTwo
    <3>12. /\ 3 \in 3..Len(l) /\ 4 \in 3..Len(l)
           /\ 3 \in 1..Len(l) /\ 4 \in 1..Len(l)
      BY <2>1, <3>1
    <3>2. /\ l[3] \in Nat /\ l[4] \in Nat
          /\ Component(l, 3) = l[3] /\ Component(l, 4) = l[4]
      BY <1>5, <3>12, Components
    <3>3. l[3] >= 1 /\ l[4] >= 1 /\ l[2] >= first
      BY <1>5, <1>6, <2>1, <2>2, <3>12 DEF PartsPositive
    <3>4. PICK i \in 1..(Len(l) + 1) : DifferFirstAt(l, y, i)
      BY <1>5 DEF IdLess
    <3>5. i \in Nat \ {0}
      BY <2>1
    <3>6. i <= 5 /\ OrderAt(l, y, i)
      <4>1. i <= Len(y) + 1 /\ OrderAt(l, y, i)
        BY <1>2, <1>5, <3>4, <3>5, DecidedAt
      <4> QED
        BY <1>1, <3>5, <4>1
    <3>7. i # 1
      BY <1>3, <2>1, <2>2, <3>4 DEF DifferFirstAt
    <3>8. i # 2
      BY <1>1, <1>3, <2>1, <3>1, <3>3, <3>6 DEF OrderAt
    <3>9. i # 3
      BY <1>3, <3>2, <3>3, <3>6 DEF OrderAt
    <3>10. i # 4
      BY <1>1, <1>3, <2>1, <3>2, <3>3, <3>6 DEF OrderAt
    <3>11. i # 5
      <4>1. Component(l, 5) \in Int /\ Component(l, 5) >= -1
        <5>1. 5 \in Nat \ {0}
          OBVIOUS
        <5> QED
          BY <1>5, <5>1, Components
      <4> QED
        BY <1>3, <3>6, <4>1 DEF OrderAt
    <3> QED
      BY <3>5, <3>6, <3>7, <3>8, <3>9, <3>10, <3>11
  <2>4. r[2] <= l[2]
    <3>1. CASE r = l
      BY <2>1, <3>1
    <3>2. CASE IdLess(r, l)
      <4>1. PICK i \in 1..(Len(r) + 1) : DifferFirstAt(r, l, i)
        BY <3>2 DEF IdLess
      <4>2. i \in Nat \ {0} /\ i <= 3
        BY <1>5
      <4>3. OrderAt(r, l, i)
        BY <1>5, <3>2, <4>1, <4>2, DecidedAt
      <4>4. i # 1 /\ (i = 3 => r[2] = l[2])
        BY <2>1, <2>2, <4>1 DEF DifferFirstAt
      <4>5. i = 2 => r[2] < l[2]
        BY <1>5, <2>1, <2>3, <4>3 DEF OrderAt
      <4> QED
        BY <2>1, <4>2, <4>4, <4>5
    <3> QED
      BY <1>5, <3>1, <3>2
  <2> QED
    BY <2>2, <2>3, <2>4
<1> QED
  BY <1>2, <1>4, <1>5

\* The last key before the first branch is the node's latest revision.
LEMMA InvFindsLatest ==
  ASSUME TableInv
  PROVE  LatestRevisionFound
<1>1. /\ IsFiniteSet(Keys) /\ \A k \in Keys : IsId(k) /\ PartsPositive(k)
      /\ committed \subseteq Keys
  BY DEF TableInv, KeysTypeOK, Keys
<1>7. \A k \in Keys : FirstBranchOf(<<k[1], IF k[1] = 0 THEN 0 ELSE 1, 1, 1>>, k[1])
  <2> TAKE k \in Keys
  <2>1. k[1] \in Nat
    BY <1>1, FirstAndLast
  <2> QED
    BY <2>1 DEF FirstBranchOf
<1> SUFFICES ASSUME NEW k \in Keys, NEW N, N = k[1],
                    NEW y, FirstBranchOf(y, N),
                    NEW latest, latest = LastKeyBefore(Keys, y)
             PROVE  /\ latest \in Keys /\ Len(latest) = 2 /\ latest[1] = N
                    /\ \A r \in Keys : Len(r) = 2 /\ r[1] = N => r[2] <= latest[2]
  <2> USE DEF LatestRevisionFound
  <2> TAKE k \in Keys
  <2>1. PICK y : y = <<k[1], IF k[1] = 0 THEN 0 ELSE 1, 1, 1>>
    OBVIOUS
  <2>2. FirstBranchOf(y, k[1])
    BY <1>7, <2>1
  <2> QED
    BY <2>1, <2>2
<1>2. N \in Nat /\ Len(k) \in Nat /\ Len(k) >= 2 /\ Len(k) % 2 = 0
  BY <1>1, Components, FirstAndLast
<1>3. PICK own \in Keys : Len(own) = 2 /\ own[1] = N
  <2>1. CASE Len(k) = 2
    BY <2>1
  <2>2. CASE Len(k) # 2
    <3>1. 2 \in 2..Len(k) /\ 2 \in 2..(Len(k) - 1) /\ 1 \in 1..2
      <4>1. Len(k) \in Nat /\ Len(k) >= 4
        BY <1>2, <2>2, MoreThanTwo
      <4> QED
        BY <4>1
    <3>2. SubSeq(k, 1, 2) \in Keys
      BY <1>1, <3>1 DEF TableInv, PrefixesCommitted
    <3>3. Len(SubSeq(k, 1, 2)) = 2 /\ SubSeq(k, 1, 2)[1] = k[1]
      BY <1>1, <3>1, PrefixIsId
    <3> QED
      BY <3>2, <3>3
  <2> QED
    BY <2>1, <2>2
<1>4. \A r \in Keys : Len(r) = 2 /\ r[1] = N => IdLess(r, y)
  BY <1>1, <1>2, RevisionsBeforeFirstBranch
<1>5. /\ latest \in Keys /\ IdLess(latest, y)
      /\ \A l \in Keys : IdLess(l, y) => l = latest \/ IdLess(l, latest)
  BY <1>1, <1>3, <1>4, LastKeyBeforeIsLast
<1>6. ASSUME NEW r \in Keys, Len(r) = 2, r[1] = N
      PROVE  Len(latest) = 2 /\ latest[1] = N /\ r[2] <= latest[2]
  BY <1>1, <1>2, <1>4, <1>5, <1>6, RevisionsBeforeFirstBranch
<1> QED
  BY <1>3, <1>5, <1>6

\* The empty root directory's table.
LEMMA InitKeeps ==
  ASSUME TableInit
  PROVE  TableInv
<1>1. Keys = {RootId} /\ committed = {RootId} /\ mutable = {}
  BY DEF TableInit, Keys
<1>2. IsId(RootId) /\ Len(RootId) = 2 /\ RootId[1] = 0 /\ RootId[2] = 0
  BY DEF RootId, IsId
<1>3. KeysTypeOK
  BY <1>1, <1>2 DEF KeysTypeOK, TableInit
<1>4. IsFiniteSet(Keys)
  BY <1>1, FS_Singleton
<1>5. \A k \in Keys : PartsPositive(k)
  <2>1. PartsPositive(RootId)
    BY <1>2 DEF PartsPositive
  <2> QED
    BY <1>1, <2>1
<1>6. PrefixesCommitted
  <2>1. \A m \in 2..(Len(RootId) - 1) : FALSE
    BY <1>2
  <2> QED
    BY <1>1, <2>1 DEF PrefixesCommitted
<1>7. PredecessorsPresent
  <2>1. IdPredecessor(RootId) = NoId
    BY <1>2 DEF IdPredecessor
  <2> QED
    BY <1>1, <2>1 DEF PredecessorsPresent
<1> QED
  BY <1>1, <1>3, <1>4, <1>5, <1>6, <1>7 DEF TableInv

-----------------------------------------------------------------------------
(* The theorems *)

\* The invariant holds, whatever the bounds.
THEOREM TableInvariant == TableSpec => []TableInv
<1>1. TableInv /\ UNCHANGED tableVars => TableInv'
  BY DEF tableVars, TableInv, KeysTypeOK, Keys, PrefixesCommitted, PredecessorsPresent
<1>2. TableInv /\ [TableNext]_tableVars => TableInv'
  BY <1>1, StepKeeps
<1> QED
  BY <1>2, InitKeeps, PTL DEF TableSpec

\* Whatever ID's are handed out, deleted and handed out again: the order of
\* compare_ids stays total on the keys, so the btree never loses one; every
\* predecessor svn_fs__stable_node goes to is there and committed; and
\* last_key_before finds a node's latest revision.
THEOREM TableIsSound == TableSpec => []TableSound
<1>1. TableInv => TableSound
  BY InvOrdersKeys, InvFindsLatest DEF TableSound, TableInv
<1> QED
  BY <1>1, TableInvariant, PTL

\* No step gives out a key that is in use or changes what a key that stays was
\* made from (svn_fs__new_node_id, svn_fs__new_successor_id).
THEOREM NoKeyReused == TableSpec => KeysNotReused
<1>1. TableInv /\ [TableNext]_tableVars =>
        [ /\ committed \subseteq committed'
          /\ \A k \in Keys \cap Keys' : origin'[k] = origin[k] ]_tableVars
  BY StepKeeps DEF NothingReused
<1> QED
  BY <1>1, TableInvariant, PTL DEF TableSpec, KeysNotReused
=============================================================================
