------------------------------- MODULE FsIds -------------------------------
(***************************************************************************)
(* Node revision ID's: the operators of libsvn_fs/id.c and the choice of   *)
(* new ID's by libsvn_fs/nodes-table.c.                                    *)
(*                                                                         *)
(* The C code stores an ID as an array of integers closed by -1: a node    *)
(* number, a revision number, then pairs <branch number, revision number>. *)
(* Here it is the sequence of those integers, without the -1: 100.20.3.2   *)
(* is <<100, 20, 3, 2>>.  Its length is even.  The C code counts places    *)
(* from 0, this module from 1: an odd place holds a node or branch number, *)
(* an even one a revision number.                                          *)
(***************************************************************************)
EXTENDS Integers, Sequences, FiniteSets

\* The ID's of node revisions: nonempty, whole pairs.
IsId(id) ==
  /\ id \in Seq(Nat)
  /\ Len(id) >= 2
  /\ Len(id) % 2 = 0

\* No ID: the null pointer that svn_fs__id_predecessor returns.
NoId == <<>>

\* The i-th component of an ID, -1 past its end (the array's terminator).
Component(id, i) == IF i <= Len(id) THEN id[i] ELSE -1

\* Place i is the first one where A and B differ.
DifferFirstAt(a, b, i) ==
  /\ Component(a, i) # Component(b, i)
  /\ \A j \in 1..(i - 1) : Component(a, j) = Component(b, j)

\* The number of leading components that belong to pairs equal in A and B.
CommonPrefix(a, b) ==
  CHOOSE p \in 0..Len(a) :
    /\ p % 2 = 0 /\ p <= Len(b)
    /\ \A j \in 1..p : a[j] = b[j]
    /\ \/ p = Len(a)
       \/ Component(a, p + 1) # Component(b, p + 1)
       \/ Component(a, p + 2) # Component(b, p + 2)

-----------------------------------------------------------------------------
(* Relations between ID's (id.c). *)

\* svn_fs__id_is_ancestor.  The loop walks whole pairs; A is an ancestor
\* when it agrees with B up to its last component and that revision number
\* is not above B's.
IdIsAncestor(a, b) ==
  /\ Len(a) <= Len(b)
  /\ \A j \in 1..(Len(a) - 1) : a[j] = b[j]
  /\ a[Len(a)] <= b[Len(a)]

\* distance_from_prefix: the sum of the revision numbers after the first
\* `prefix' components.
DistanceFromPrefix(id, prefix) ==
  LET Sum[k \in Nat] == IF k <= prefix THEN 0 ELSE id[k] + Sum[k - 2]
  IN  Sum[Len(id)]

\* svn_fs_id_distance: -1 for unrelated nodes, otherwise the number of
\* steps between the two node revisions through their common ancestor.
IdDistance(a, b) ==
  LET p == CommonPrefix(a, b)
      Gap == IF a[p + 2] > b[p + 2] THEN a[p + 2] - b[p + 2]
                                    ELSE b[p + 2] - a[p + 2]
  IN  IF a[1] # b[1] THEN -1
      ELSE IF a = b THEN 0
      ELSE IF Component(a, p + 1) = Component(b, p + 1)
      THEN DistanceFromPrefix(a, p + 2) + DistanceFromPrefix(b, p + 2) + Gap
      ELSE DistanceFromPrefix(a, p) + DistanceFromPrefix(b, p)

\* svn_fs__id_predecessor: the previous revision on the same branch, or the
\* node revision the branch was made from; none for the first revision of a
\* node.  (Revision number 0 counts as none: 0.1 has no predecessor.)
IdPredecessor(id) ==
  LET n == Len(id)
  IN  IF id[n] - 1 > 0 THEN [id EXCEPT ![n] = @ - 1]
      ELSE IF n > 2 THEN SubSeq(id, 1, n - 2) ELSE NoId

-----------------------------------------------------------------------------
(* The key order of the `nodes' table and the ID's chosen from it           *)
(* (nodes-table.c).                                                         *)

\* compare_ids (a, b) < 0.  Nodes and branches are ordered by number; all
\* revisions of a node come before all branches off any of them; those are
\* ordered by the revision they branch from.
IdLess(a, b) ==
  \E i \in 1..(Len(a) + 1) :
    /\ DifferFirstAt(a, b, i)
    /\ \/ i % 2 = 1 /\ Component(a, i) < Component(b, i)
       \/ i % 2 = 0 /\ Len(a) = i /\ Len(b) > i
       \/ i % 2 = 0 /\ (Len(a) = i <=> Len(b) = i)
            /\ Component(a, i) < Component(b, i)

\* The key that a cursor finds with DB_LAST among the keys K.
LastKey(K) == CHOOSE k \in K : \A l \in K : l = k \/ IdLess(l, k)

\* last_key_before: the last key of K before ID (DB_SET_RANGE, DB_PREV).
LastKeyBefore(K, id) == LastKey({k \in K : IdLess(k, id)})

\* Mutant of NewNodeId: the number of the last key, not the one above it.
NewNodeId_NotAbove(K) == <<LastKey(K)[1], 1>>

\* svn_fs__new_node_id: the first revision of a node numbered one above the
\* last key's.
NewNodeId(K) == <<LastKey(K)[1] + 1, 1>>

\* Mutant of NewSuccessorId: a revision number is left out.
NewSuccessorId_Skips(K, id) ==
  LET n    == Len(id)
      next == [id EXCEPT ![n] = @ + 2]
      last == LastKeyBefore(K, next \o <<1, 1>>)
  IN  IF next \notin K THEN next
      ELSE IF Len(last) = n THEN id \o <<1, 1>>
      ELSE SubSeq(last, 1, n) \o <<last[n + 1] + 1, 1>>

\* svn_fs__new_successor_id: the next revision of ID if that key is free,
\* else a branch, numbered after the last key before N.(V+1).1.1.  The
\* branch is made from the first components of that last key, whatever
\* revision it is a branch of.
NewSuccessorId(K, id) ==
  LET n    == Len(id)
      next == [id EXCEPT ![n] = @ + 1]
      last == LastKeyBefore(K, next \o <<1, 1>>)
  IN  IF next \notin K THEN next
      ELSE IF Len(last) = n THEN id \o <<1, 1>>
      ELSE SubSeq(last, 1, n) \o <<last[n + 1] + 1, 1>>
=============================================================================
