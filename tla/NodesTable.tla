----------------------------- MODULE NodesTable -----------------------------
(***************************************************************************)
(* The `nodes' table of the filesystem as libsvn_fs/node-rev.c and         *)
(* nodes-table.c use it: a btree keyed by node revision ID's.  Whoever     *)
(* edits a tree asks the table for ID's and gets them from the keys that   *)
(* happen to be there: the edits of other open transactions, their aborts  *)
(* and the re-ID'ing of merged directories decide which ID comes next.     *)
(*                                                                         *)
(* Every action is one Berkeley DB transaction (a trail).                  *)
(***************************************************************************)
EXTENDS FsIds

CONSTANTS
  MaxKeys,      \* bound on the size of the table
  MaxNumber     \* bound on the node, branch and revision numbers

ASSUME BoundsAssumption == MaxKeys \in Nat /\ MaxNumber \in Nat

VARIABLES
  committed,   \* keys whose node revision carries a revision number
  mutable,     \* keys whose node revision does not (open transactions)
  origin       \* for each key, the node revision it was made from (history)

tableVars == <<committed, mutable, origin>>

Keys == committed \cup mutable

\* Node revision 0.0, the empty root directory (txn_body_dag_init_fs).
RootId == <<0, 0>>

TableInit ==
  /\ committed = {RootId}
  /\ mutable = {}
  /\ origin = [k \in {RootId} |-> NoId]

\* put_node_revision under a new key, made from `from'.
PutNew(id, from) ==
  /\ mutable' = mutable \cup {id}
  /\ committed' = committed \ {id}
  /\ origin' = [k \in DOMAIN origin \cup {id} |->
                  IF k = id THEN from ELSE origin[k]]

\* The bounds leave room for one more node revision, under the key id.
Room(id) ==
  /\ Cardinality(Keys) < MaxKeys
  /\ \A i \in 1..Len(id) : id[i] <= MaxNumber

\* svn_fs__create_node: make_entry and dag_copy.
CreateNode ==
  /\ Room(NewNodeId(Keys))
  /\ PutNew(NewNodeId(Keys), NoId)

\* svn_fs__create_successor: clone_child and clone_root, which clone only
\* node revisions that are not mutable.
NewSuccessor(id) ==
  /\ Room(NewSuccessorId(Keys, id))
  /\ PutNew(NewSuccessorId(Keys, id), id)

\* The re-ID'ing at the end of a merge: the target's node revision moves to
\* a successor of the source's, and its old key is deleted.
ReId(target, source) ==
  LET new == NewSuccessorId(Keys, source)
      ancestor == origin[target]
  IN  /\ Room(new)
      /\ ancestor # NoId
      /\ IdDistance(ancestor, target) = 1
      /\ IdDistance(ancestor, source) >= 1
      /\ mutable' = (mutable \cup {new}) \ {target}
      /\ committed' = committed \ {new}
      /\ origin' = [k \in (DOMAIN origin \cup {new}) \ {target} |->
                      IF k = new THEN source ELSE origin[k]]

\* svn_fs__delete_node_revision, which dag_delete_if_mutable calls.
Delete(id) ==
  /\ mutable' = mutable \ {id}
  /\ origin' = [k \in DOMAIN origin \ {id} |-> origin[k]]
  /\ UNCHANGED committed

\* make_node_immutable: the node revision gets its revision number.
Commit(id) ==
  /\ mutable' = mutable \ {id}
  /\ committed' = committed \cup {id}
  /\ UNCHANGED origin

TableNext ==
  \/ CreateNode
  \/ \E id \in committed : NewSuccessor(id)
  \/ \E target \in mutable, source \in committed : ReId(target, source)
  \/ \E id \in mutable : Delete(id) \/ Commit(id)

TableSpec == TableInit /\ [][TableNext]_tableVars

-----------------------------------------------------------------------------
(* Properties *)

\* The keys are node revision ID's, each with the ID it was made from.
KeysTypeOK ==
  /\ \A k \in Keys : IsId(k)
  /\ committed \cap mutable = {}
  /\ DOMAIN origin = Keys
  /\ \A k \in Keys : origin[k] = NoId \/ IsId(origin[k])

\* svn_fs__stable_node deltifies the predecessor of every node revision it
\* stabilizes and fails with a dangling ID when that is not in the table.
\* So whatever ID's are handed out, deleted and handed out again, the
\* predecessor of each key is there, and it is committed.
PredecessorsPresent ==
  \A k \in Keys : IdPredecessor(k) = NoId \/ IdPredecessor(k) \in committed

\* compare_ids orders any three keys of the table consistently: otherwise
\* the btree loses keys.
KeyOrderTotal ==
  \A a, b \in Keys :
    /\ ~(IdLess(a, b) /\ IdLess(b, a))
    /\ a # b => IdLess(a, b) \/ IdLess(b, a)
    /\ \A c \in Keys : IdLess(a, b) /\ IdLess(b, c) => IdLess(a, c)

\* What `structure' derives from the order: the last key before the first
\* branch off a node's first revision is the node's latest revision.
LatestRevisionFound ==
  \A k \in Keys :
    LET Revisions == {r \in Keys : Len(r) = 2 /\ r[1] = k[1]}
        first == IF k[1] = 0 THEN 0 ELSE 1
        latest == LastKeyBefore(Keys, <<k[1], first, 1, 1>>)
    IN  latest \in Revisions /\ \A r \in Revisions : r[2] <= latest[2]

\* A new node revision never takes over a key that is in use: no step
\* changes what a key that stays in the table was made from, or turns a
\* committed node revision into something else.
KeysNotReused ==
  [][ /\ committed \subseteq committed'
      /\ \A k \in Keys \cap Keys' : origin'[k] = origin[k] ]_tableVars

\* The table can be searched, and what is searched for is there.
TableSound ==
  KeysTypeOK /\ PredecessorsPresent /\ KeyOrderTotal /\ LatestRevisionFound
=============================================================================
