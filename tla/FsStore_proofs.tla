--------------------------- MODULE FsStore_proofs ---------------------------
(***************************************************************************)
(* Trails are atomic (trail.c): FsStore, whose trails interleave and are   *)
(* cut short by deadlocks, errors and deaths, implements FsTables, for any *)
(* number of processes and of calls.                                       *)
(*                                                                         *)
(* First, where the body of a trail can be (the bodies in txn.c, tree.c,   *)
(* dag.c): at each point of a body, what it has read is what the tables    *)
(* still say on the pages it has locked, and what it has written so far is *)
(* what its run on those tables would have written.  An access takes a     *)
(* body from one such place to the next; the last place is the effect of   *)
(* the whole body, run at once, that FsTables promises; and what others    *)
(* write to pages that the trail has not locked leaves it where it is.     *)
(* Then strict two-phase locking: what a trail has read and written stays  *)
(* as it is because nobody else can write to the pages it has locked, so   *)
(* its body has run once, whole, when it ends.                             *)
(***************************************************************************)
EXTENDS FsStore, SequenceTheorems, NaturalsInduction, WellFoundedInduction, TLAPS

-----------------------------------------------------------------------------
(* The tables. *)

IsSeq(s) == s \in Seq({s[i] : i \in DOMAIN s})

IsFunction(f, S) == f = [x \in S |-> f[x]]

IsTables(t) == IsFunction(t, {"next", "txns", "revs", "nodes"})

\* Records under keys.
IsTxnsTable(txns) ==
    /\ IsFunction(txns, DOMAIN txns)
    /\ \A x \in DOMAIN txns : IsFunction(txns[x], {"root", "base", "props"})

IsNodesTable(nodes) ==
    /\ IsFunction(nodes, DOMAIN nodes)
    /\ \A n \in DOMAIN nodes : IsFunction(nodes[n], {"rev", "text"})

IsRevsTable(revs) ==
    /\ IsSeq(revs) /\ Len(revs) >= 1
    /\ \A i \in 1..Len(revs) : IsFunction(revs[i], {"root", "props"})

WellFormed(t) ==
    /\ IsTables(t)
    /\ t.next \in Nat
    /\ IsTxnsTable(t.txns)
    /\ IsNodesTable(t.nodes)
    /\ IsRevsTable(t.revs)

\* The tables are of a size, and names of transactions are below the next.
Bounded(t) ==
    /\ \E N \in Nat : DOMAIN t.nodes \subseteq 0..N
    /\ \A x \in DOMAIN t.txns : x \in Nat /\ x < t.next

\* The node was the root of the revision that it says it was committed in.
CommittedRoot(t, n) ==
    /\ n \in DOMAIN t.nodes
    /\ t.nodes[n].rev \in 0..(Len(t.revs) - 1)
    /\ t.revs[t.nodes[n].rev + 1].root = n

RootsCommitted(t) ==
    /\ \A i \in 1..Len(t.revs) : CommittedRoot(t, t.revs[i].root)
    /\ \A x \in DOMAIN t.txns : CommittedRoot(t, t.txns[x].base)

\* A transaction's root is its base or a mutable node of its own.
RootsPrivate(t) ==
    /\ \A x \in DOMAIN t.txns : t.txns[x].root # t.txns[x].base =>
          /\ t.txns[x].root \in DOMAIN t.nodes
          /\ t.nodes[t.txns[x].root].rev = Uncommitted
    /\ \A x, y \in DOMAIN t.txns :
          x # y /\ t.txns[x].root # t.txns[x].base =>
              t.txns[x].root # t.txns[y].root

TablesInv(t) ==
    WellFormed(t) /\ Bounded(t) /\ RootsCommitted(t) /\ RootsPrivate(t)

-----------------------------------------------------------------------------
(* Where a trail is: b its body, l its variables, v the tables as it sees  *)
(* them, H the pages it has locked, t the tables.                          *)

IsLocals(l) ==
    IsFunction(l, {"root", "base", "rev", "txn", "props", "node", "cache",
                   "out"})

Same(v, t) == /\ v.next = t.next /\ v.txns = t.txns
              /\ v.revs = t.revs /\ v.nodes = t.nodes

AtYoungest(b, todo, l, v, H, t) ==
    \/ todo = <<"youngest">> /\ Same(v, t)
    \/ /\ todo = <<>> /\ Same(v, t)
       /\ "revs" \in H /\ l.out = <<Len(t.revs) - 1>>

AtList(b, todo, l, v, H, t) ==
    \/ todo = <<"list">> /\ Same(v, t)
    \/ /\ todo = <<>> /\ Same(v, t)
       /\ "txns" \in H /\ l.out = Promise!TxnNames(t.txns)

\* The record of revision b.rev has been read.
RevRead(b, l, H, t) ==
    /\ "revs" \in H
    /\ b.rev + 1 \in DOMAIN t.revs
    /\ l.root = t.revs[b.rev + 1].root
    /\ l.props = t.revs[b.rev + 1].props

AtBegin(b, todo, l, v, H, t) ==
    \/ /\ todo = <<"get_rev", "next_id", "put_next_id", "put_txn">>
       /\ Same(v, t)
    \/ /\ todo = <<"next_id", "put_next_id", "put_txn">>
       /\ Same(v, t) /\ RevRead(b, l, H, t)
    \/ /\ todo = <<"put_next_id", "put_txn">>
       /\ Same(v, t) /\ RevRead(b, l, H, t) /\ "txns" \in H /\ l.txn = t.next
    \/ /\ todo = <<"put_txn">>
       /\ RevRead(b, l, H, t) /\ "txns" \in H /\ l.txn = t.next
       /\ v.next = t.next + 1
       /\ v.txns = t.txns /\ v.revs = t.revs /\ v.nodes = t.nodes
    \/ /\ todo = <<>>
       /\ RevRead(b, l, H, t) /\ "txns" \in H
       /\ v.next = t.next + 1
       /\ v.txns = Promise!Put(t.txns, t.next,
                       [root  |-> t.revs[b.rev + 1].root,
                        base  |-> t.revs[b.rev + 1].root, props |-> <<>>])
       /\ v.revs = t.revs /\ v.nodes = t.nodes
       /\ l.out = <<t.next, b.rev>>

AtRevprop(b, todo, l, v, H, t) ==
    \/ todo = <<"get_rev", "put_rev_prop">> /\ Same(v, t) /\ l.out = <<>>
    \/ todo = <<"put_rev_prop">> /\ Same(v, t) /\ RevRead(b, l, H, t)
                                 /\ l.out = <<>>
    \/ /\ todo = <<>>
       /\ RevRead(b, l, H, t)
       /\ v.revs = [t.revs EXCEPT ![b.rev + 1].props =
                       Promise!SetProp(@, b.name, b.value)]
       /\ v.next = t.next /\ v.txns = t.txns /\ v.nodes = t.nodes
       /\ l.out = <<>>

\* The record of transaction b.txn has been read.
TxnRead(b, l, H, t) ==
    /\ "txns" \in H
    /\ b.txn \in DOMAIN t.txns
    /\ l.base = t.txns[b.txn].base
    /\ l.props = t.txns[b.txn].props

AtTxnprop(b, todo, l, v, H, t) ==
    \/ todo = <<"get_txn", "put_txn_prop">> /\ Same(v, t) /\ l.out = <<>>
    \/ /\ todo = <<"put_txn_prop">> /\ Same(v, t)
       /\ TxnRead(b, l, H, t) /\ l.root = t.txns[b.txn].root
       /\ l.out = <<>>
    \/ /\ todo = <<>>
       /\ TxnRead(b, l, H, t)
       /\ v.txns = [t.txns EXCEPT ![b.txn].props =
                       Promise!SetProp(@, b.name, b.value)]
       /\ v.next = t.next /\ v.revs = t.revs /\ v.nodes = t.nodes
       /\ l.out = <<>>

AtOpen(b, todo, l, v, H, t) ==
    \/ todo = <<"get_txn", "base_revision">> /\ Same(v, t)
    \/ todo = <<"base_revision">> /\ Same(v, t) /\ TxnRead(b, l, H, t)
    \/ /\ todo = <<>> /\ Same(v, t) /\ TxnRead(b, l, H, t) /\ "nodes" \in H
       /\ l.out = <<b.txn, t.nodes[t.txns[b.txn].base].rev>>

\* The nodes table with a mutable successor of the node in it.
WithSuccessor(nodes, n) ==
    Promise!Put(nodes, Promise!FreshNode(nodes),
                [nodes[n] EXCEPT !.rev = Uncommitted])

AtPrepare(b, todo, l, v, H, t) ==
    LET x == t.txns[b.txn]
        n == Promise!FreshNode(t.nodes)
    IN
    \/ todo = <<"get_txn", "clone_root">> /\ Same(v, t)
    \/ /\ todo = <<"clone_root">> /\ Same(v, t)
       /\ TxnRead(b, l, H, t) /\ l.root = x.root
    \/ /\ todo = <<"get_root">> /\ Same(v, t)
       /\ TxnRead(b, l, H, t) /\ "nodes" \in H
       /\ x.root # x.base /\ l.root = x.root /\ l.out = <<x.root>>
    \/ /\ todo = <<"create_successor", "set_txn_root", "get_root">>
       /\ Same(v, t) /\ TxnRead(b, l, H, t) /\ "nodes" \in H
       /\ x.root = x.base /\ l.node = t.nodes[x.base]
    \/ /\ todo = <<"set_txn_root", "get_root">>
       /\ TxnRead(b, l, H, t) /\ "nodes" \in H
       /\ x.root = x.base /\ l.root = n /\ l.out = <<n>>
       /\ v.nodes = WithSuccessor(t.nodes, x.base)
       /\ v.next = t.next /\ v.txns = t.txns /\ v.revs = t.revs
    \/ /\ todo = <<"get_root">>
       /\ TxnRead(b, l, H, t) /\ "nodes" \in H
       /\ x.root = x.base /\ l.root = n /\ l.out = <<n>>
       /\ v.nodes = WithSuccessor(t.nodes, x.base)
       /\ v.txns = [t.txns EXCEPT ![b.txn].root = n]
       /\ v.next = t.next /\ v.revs = t.revs
    \/ /\ todo = <<>>
       /\ TxnRead(b, l, H, t) /\ "nodes" \in H
       /\ x.root # x.base /\ Same(v, t) /\ l.out = <<x.root>>
       /\ l.cache = <<t.nodes[x.root]>>
    \/ /\ todo = <<>>
       /\ TxnRead(b, l, H, t) /\ "nodes" \in H
       /\ x.root = x.base /\ l.out = <<n>>
       /\ v.nodes = WithSuccessor(t.nodes, x.base)
       /\ v.txns = [t.txns EXCEPT ![b.txn].root = n]
       /\ v.next = t.next /\ v.revs = t.revs
       /\ l.cache = <<v.nodes[n]>>

\* A record that is in the cache is the one in the table, and will be: either
\* its page is locked or the node is committed.
CacheGood(b, l, H, t) ==
    /\ b.node \in DOMAIN t.nodes
    /\ l.cache = <<t.nodes[b.node]>>
    /\ "nodes" \in H \/ t.nodes[b.node].rev # Uncommitted

AtFinish(b, todo, l, v, H, t) ==
    \/ /\ todo = <<"get_node", "set_node">> /\ Same(v, t) /\ l.out = <<>>
       /\ l.cache = <<>> \/ CacheGood(b, l, H, t)
    \/ /\ todo = <<"set_node">> /\ Same(v, t) /\ l.out = <<>>
       /\ CacheGood(b, l, H, t) /\ l.node = t.nodes[b.node]
    \/ /\ todo = <<>>
       /\ "nodes" \in H /\ b.node \in DOMAIN t.nodes
       /\ t.nodes[b.node].rev = Uncommitted
       /\ v.nodes = [t.nodes EXCEPT ![b.node].text = @ \cup {b.edit}]
       /\ v.next = t.next /\ v.txns = t.txns /\ v.revs = t.revs
       /\ l.out = <<>> /\ l.cache = <<v.nodes[b.node]>>

AtAbort(b, todo, l, v, H, t) ==
    LET x == t.txns[b.txn]
        nodes == IF t.nodes[x.root].rev = Uncommitted
                 THEN Promise!Delete(t.nodes, x.root) ELSE t.nodes
    IN
    \/ todo = <<"get_txn", "delete_nodes", "delete_txn">> /\ Same(v, t)
       /\ l.out = <<>>
    \/ /\ todo = <<"delete_nodes", "delete_txn">> /\ Same(v, t)
       /\ TxnRead(b, l, H, t) /\ l.root = x.root /\ l.out = <<>>
    \/ /\ todo = <<"delete_txn">>
       /\ TxnRead(b, l, H, t) /\ "nodes" \in H /\ l.out = <<>>
       /\ v.nodes = nodes
       /\ v.next = t.next /\ v.txns = t.txns /\ v.revs = t.revs
    \/ /\ todo = <<>>
       /\ TxnRead(b, l, H, t) /\ "nodes" \in H /\ l.out = <<>>
       /\ v.nodes = nodes /\ v.txns = Promise!Delete(t.txns, b.txn)
       /\ v.next = t.next /\ v.revs = t.revs

\* The checks of a commit have been made.
MayCommit(b, l, H, t) ==
    /\ "revs" \in H /\ TxnRead(b, l, H, t)
    /\ l.root = t.txns[b.txn].root
    /\ t.revs[Len(t.revs)].root = t.txns[b.txn].base

NewRevision(revs, x, props) ==
    Append(revs, [root |-> x.root, props |-> props])

AtCommit(b, todo, l, v, H, t) ==
    LET x == t.txns[b.txn]
        dated == NewRevision(t.revs, x, Promise!SetProp(x.props, "date", "commit"))
        stable == [t.nodes EXCEPT ![x.root].rev =
                      IF @ = Uncommitted THEN Len(t.revs) ELSE @]
    IN
    \/ /\ todo = <<"youngest", "get_txn", "check_base", "get_root", "put_rev",
                   "set_date", "stabilize", "delete_txn">>
       /\ Same(v, t)
    \/ /\ todo = <<"get_txn", "check_base", "get_root", "put_rev",
                   "set_date", "stabilize", "delete_txn">>
       /\ Same(v, t) /\ "revs" \in H /\ l.rev = Len(t.revs) - 1
    \/ /\ todo = <<"check_base", "get_root", "put_rev",
                   "set_date", "stabilize", "delete_txn">>
       /\ Same(v, t) /\ "revs" \in H /\ l.rev = Len(t.revs) - 1
       /\ TxnRead(b, l, H, t) /\ l.root = x.root
    \/ /\ todo = <<"get_root", "put_rev",
                   "set_date", "stabilize", "delete_txn">>
       /\ Same(v, t) /\ MayCommit(b, l, H, t)
    \/ /\ todo = <<"put_rev", "set_date", "stabilize", "delete_txn">>
       /\ Same(v, t) /\ MayCommit(b, l, H, t)
       /\ "nodes" \in H /\ l.node = t.nodes[x.root]
    \/ /\ todo = <<"set_date", "stabilize", "delete_txn">>
       /\ MayCommit(b, l, H, t) /\ "nodes" \in H /\ l.node = t.nodes[x.root]
       /\ l.rev = Len(t.revs) /\ l.out = <<Len(t.revs)>>
       /\ v.revs = NewRevision(t.revs, x, x.props)
       /\ v.next = t.next /\ v.txns = t.txns /\ v.nodes = t.nodes
    \/ /\ todo = <<"stabilize", "delete_txn">>
       /\ MayCommit(b, l, H, t) /\ "nodes" \in H /\ l.node = t.nodes[x.root]
       /\ l.rev = Len(t.revs) /\ l.out = <<Len(t.revs)>>
       /\ v.revs = dated
       /\ v.next = t.next /\ v.txns = t.txns /\ v.nodes = t.nodes
    \/ /\ todo = <<"delete_txn">>
       /\ MayCommit(b, l, H, t) /\ "nodes" \in H /\ l.out = <<Len(t.revs)>>
       /\ v.revs = dated /\ v.nodes = stable
       /\ v.next = t.next /\ v.txns = t.txns
    \/ /\ todo = <<>>
       /\ MayCommit(b, l, H, t) /\ "nodes" \in H /\ l.out = <<Len(t.revs)>>
       /\ v.revs = dated /\ v.nodes = stable
       /\ v.next = t.next /\ v.txns = Promise!Delete(t.txns, b.txn)

At(b, todo, l, v, H, t) ==
    \/ b.do = "youngest" /\ AtYoungest(b, todo, l, v, H, t)
    \/ b.do = "list" /\ AtList(b, todo, l, v, H, t)
    \/ b.do = "begin" /\ b.rev \in Int /\ AtBegin(b, todo, l, v, H, t)
    \/ b.do = "revprop" /\ b.rev \in Int /\ AtRevprop(b, todo, l, v, H, t)
    \/ b.do = "txnprop" /\ AtTxnprop(b, todo, l, v, H, t)
    \/ b.do = "open" /\ AtOpen(b, todo, l, v, H, t)
    \/ b.do = "prepare" /\ AtPrepare(b, todo, l, v, H, t)
    \/ b.do = "finish" /\ AtFinish(b, todo, l, v, H, t)
    \/ b.do = "abort" /\ AtAbort(b, todo, l, v, H, t)
    \/ b.do = "commit" /\ AtCommit(b, todo, l, v, H, t)

-----------------------------------------------------------------------------
(* The accesses. *)

\* Each access is the operator of its name.
LEMMA AccessIs ==
  ASSUME NEW t, NEW l, NEW b
  PROVE  /\ Access("get_rev", t, l, b) = GetRev(t, l, b)
         /\ Access("youngest", t, l, b) = YoungestRev(t, l, b)
         /\ Access("check_base", t, l, b) = CheckBase(t, l, b)
         /\ Access("next_id", t, l, b) = NextId(t, l, b)
         /\ Access("get_txn", t, l, b) = GetTxn(t, l, b)
         /\ Access("list", t, l, b) = ListTxns(t, l, b)
         /\ Access("base_revision", t, l, b) = BaseRevision(t, l, b)
         /\ Access("clone_root", t, l, b) = CloneRoot(t, l, b)
         /\ Access("get_root", t, l, b) = GetRoot(t, l, b)
         /\ Access("get_node", t, l, b) = GetNodeRevision(t, l, b)
         /\ Access("put_rev_prop", t, l, b) = PutRevProp(t, l, b)
         /\ Access("put_rev", t, l, b) = PutRev(t, l, b)
         /\ Access("set_date", t, l, b) = SetRevDate(t, l, b)
         /\ Access("put_next_id", t, l, b) = PutNextId(t, l, b)
         /\ Access("put_txn", t, l, b) = PutTxn(t, l, b)
         /\ Access("put_txn_prop", t, l, b) = PutTxnProp(t, l, b)
         /\ Access("delete_txn", t, l, b) = DeleteTxn(t, l, b)
         /\ Access("set_txn_root", t, l, b) = SetTxnRoot(t, l, b)
         /\ Access("delete_nodes", t, l, b) = DeleteNodes(t, l, b)
         /\ Access("create_successor", t, l, b) = CreateSuccessor(t, l, b)
         /\ Access("set_node", t, l, b) = SetNodeRevision(t, l, b)
         /\ Access("stabilize", t, l, b) = Stabilize(t, l, b)
BY DEF Access

AccessNames ==
    {"get_rev", "youngest", "check_base", "next_id", "get_txn", "list",
     "base_revision", "clone_root", "get_root", "get_node", "put_rev_prop",
     "put_rev", "set_date", "put_next_id", "put_txn", "put_txn_prop",
     "delete_txn", "set_txn_root", "delete_nodes", "create_successor",
     "set_node", "stabilize"}

\* The page an access locks, and the tables as its trail sees them once the
\* page has been written.
PageOf(a, l) ==
    IF a = "get_node" /\ l.cache # <<>> THEN {}
    ELSE IF a \in DOMAIN Writes THEN {Writes[a]} ELSE {Reads[a]}

Written(a, x, v) ==
    IF a \notin DOMAIN Writes THEN v
    ELSE CASE Writes[a] = "txns" -> [next |-> x.next, txns |-> x.txns,
                                     revs |-> v.revs, nodes |-> v.nodes]
           [] Writes[a] = "revs" -> [next |-> v.next, txns |-> v.txns,
                                     revs |-> x.revs, nodes |-> v.nodes]
           [] Writes[a] = "nodes" -> [next |-> v.next, txns |-> v.txns,
                                      revs |-> v.revs, nodes |-> x.nodes]

\* The accesses that read: the page each one locks, and the tables unchanged.
LEMMA ReadPages ==
  ASSUME NEW l, NEW v, NEW x
  PROVE  /\ PageOf("get_rev", l) = {"revs"} /\ Written("get_rev", x, v) = v
         /\ PageOf("youngest", l) = {"revs"} /\ Written("youngest", x, v) = v
         /\ PageOf("check_base", l) = {"revs"} /\ Written("check_base", x, v) = v
         /\ PageOf("next_id", l) = {"txns"} /\ Written("next_id", x, v) = v
         /\ PageOf("get_txn", l) = {"txns"} /\ Written("get_txn", x, v) = v
         /\ PageOf("list", l) = {"txns"} /\ Written("list", x, v) = v
         /\ PageOf("base_revision", l) = {"nodes"}
         /\ Written("base_revision", x, v) = v
         /\ PageOf("clone_root", l) = {"nodes"} /\ Written("clone_root", x, v) = v
         /\ PageOf("get_root", l) = {"nodes"} /\ Written("get_root", x, v) = v
         /\ l.cache = <<>> => PageOf("get_node", l) = {"nodes"}
         /\ l.cache # <<>> => PageOf("get_node", l) = {}
         /\ Written("get_node", x, v) = v
BY DEF PageOf, Written, Writes, Reads

\* The accesses that write the revisions table.
LEMMA WriteRevs ==
  ASSUME NEW a \in {"put_rev_prop", "put_rev", "set_date"},
         NEW l, NEW v, NEW x
  PROVE  /\ PageOf(a, l) = {"revs"} /\ IsTables(Written(a, x, v))
         /\ Written(a, x, v).next = v.next /\ Written(a, x, v).txns = v.txns
         /\ Written(a, x, v).revs = x.revs /\ Written(a, x, v).nodes = v.nodes
<1>1. a \in DOMAIN Writes /\ Writes[a] = "revs" /\ a # "get_node"
  BY DEF Writes
<1>2. Written(a, x, v) = [next |-> v.next, txns |-> v.txns, revs |-> x.revs,
                          nodes |-> v.nodes]
  BY <1>1 DEF Written
<1>3. PageOf(a, l) = {"revs"}
  BY <1>1 DEF PageOf
<1> QED
  BY <1>2, <1>3 DEF IsTables, IsFunction

\* The accesses that write the transactions table, or its next key.
LEMMA WriteTxns ==
  ASSUME NEW a \in {"put_next_id", "put_txn", "put_txn_prop", "delete_txn",
                      "set_txn_root"},
         NEW l, NEW v, NEW x
  PROVE  /\ PageOf(a, l) = {"txns"} /\ IsTables(Written(a, x, v))
         /\ Written(a, x, v).next = x.next /\ Written(a, x, v).txns = x.txns
         /\ Written(a, x, v).revs = v.revs /\ Written(a, x, v).nodes = v.nodes
<1>1. a \in DOMAIN Writes /\ Writes[a] = "txns" /\ a # "get_node"
  BY DEF Writes
<1>2. Written(a, x, v) = [next |-> x.next, txns |-> x.txns, revs |-> v.revs,
                          nodes |-> v.nodes]
  BY <1>1 DEF Written
<1>3. PageOf(a, l) = {"txns"}
  BY <1>1 DEF PageOf
<1> QED
  BY <1>2, <1>3 DEF IsTables, IsFunction

\* The accesses that write the nodes table.
LEMMA WriteNodes ==
  ASSUME NEW a \in {"delete_nodes", "create_successor", "set_node",
                      "stabilize"},
         NEW l, NEW v, NEW x
  PROVE  /\ PageOf(a, l) = {"nodes"} /\ IsTables(Written(a, x, v))
         /\ Written(a, x, v).next = v.next /\ Written(a, x, v).txns = v.txns
         /\ Written(a, x, v).revs = v.revs /\ Written(a, x, v).nodes = x.nodes
<1>1. a \in DOMAIN Writes /\ Writes[a] = "nodes" /\ a # "get_node"
  BY DEF Writes
<1>2. Written(a, x, v) = [next |-> v.next, txns |-> v.txns, revs |-> v.revs,
                          nodes |-> x.nodes]
  BY <1>1 DEF Written
<1>3. PageOf(a, l) = {"nodes"}
  BY <1>1 DEF PageOf
<1> QED
  BY <1>2, <1>3 DEF IsTables, IsFunction

\* What an access that succeeds makes of the place its trail is at, and when
\* it may fail.
Advances(a, rest, b, l, v, H, t) ==
    LET r == Access(a, v, l, b) IN
    /\ r.ok \in BOOLEAN
    /\ r.ok => /\ IsLocals(r.l)
               /\ At(b, r.then \o rest, r.l, Written(a, r.tables, v),
                     H \cup PageOf(a, l), t)
    /\ ~ r.ok => Promise!Effect(b, t) = Promise!Failed(t)

\* An access without error, after which the body is at its next place.
LEMMA FineAdvances ==
  ASSUME NEW a, NEW rest, NEW b, NEW l, NEW v, NEW H, NEW t, NEW x, NEW m,
         Access(a, v, l, b) = Fine(x, m),
         rest \in Seq(AccessNames),
         IsLocals(m),
         At(b, rest, m, Written(a, x, v), H \cup PageOf(a, l), t)
  PROVE  Advances(a, rest, b, l, v, H, t)
<1>1. /\ Fine(x, m).ok = TRUE /\ Fine(x, m).tables = x /\ Fine(x, m).l = m
      /\ Fine(x, m).then = <<>>
  BY DEF Fine
<1>2. <<>> \o rest = rest
  OBVIOUS
<1> QED
  BY <1>1, <1>2 DEF Advances

\* An access with an error, at a place where the body was bound to fail.
LEMMA ErrorAdvances ==
  ASSUME NEW a, NEW rest, NEW b, NEW l, NEW v, NEW H, NEW t, NEW x, NEW m,
         Access(a, v, l, b) = Error(x, m),
         Promise!Effect(b, t) = Promise!Failed(t)
  PROVE  Advances(a, rest, b, l, v, H, t)
BY DEF Advances, Error

\* What the bodies do, access by access.
LEMMA YoungestStep ==
  ASSUME NEW b, NEW todo, NEW l, NEW v, NEW H, NEW t,
         b.do = "youngest", AtYoungest(b, todo, l, v, H, t), todo # <<>>,
         IsLocals(l)
  PROVE  Advances(Head(todo), Tail(todo), b, l, v, H, t)
<1>1. CASE todo = <<"youngest">> /\ Same(v, t)
  <2>1. /\ Head(todo) = "youngest"
        /\ Tail(todo) = <<>>
        /\ Tail(todo) \in Seq(AccessNames)
    BY <1>1 DEF AccessNames
  <2> DEFINE m == [l EXCEPT !.rev = Len(v.revs) - 1, !.out = <<Len(v.revs) - 1>>]
  <2>2. Access("youngest", v, l, b) = Fine(v, m)
    <3>1. Access("youngest", v, l, b) = YoungestRev(v, l, b)
      BY AccessIs
    <3> QED
      BY <3>1 DEF YoungestRev
  <2>3. IsLocals(m) /\ m.out = <<Len(v.revs) - 1>>
    BY DEF IsLocals, IsFunction
  <2> HIDE DEF m
  <2>7. AtYoungest(b, <<>>, m, v, H \cup {"revs"}, t)
    BY <1>1, <2>3 DEF AtYoungest, Same
  <2>8. At(b, Tail(todo), m, Written("youngest", v, v), H \cup PageOf("youngest", l), t)
    BY <2>1, <2>7, ReadPages DEF At
  <2> QED
    BY <2>1, <2>2, <2>3, <2>8, FineAdvances
<1> QED
  BY <1>1 DEF AtYoungest

\* One access of svn_fs_list_transactions' body.
LEMMA ListStep ==
  ASSUME NEW b, NEW todo, NEW l, NEW v, NEW H, NEW t,
         b.do = "list", AtList(b, todo, l, v, H, t), todo # <<>>,
         IsLocals(l), IsTables(v), IsTables(t)
  PROVE  Advances(Head(todo), Tail(todo), b, l, v, H, t)
<1>1. CASE todo = <<"list">> /\ Same(v, t)
  <2>0. v = t
    BY <1>1 DEF Same, IsTables, IsFunction
  <2>1. /\ Head(todo) = "list"
        /\ Tail(todo) = <<>>
        /\ Tail(todo) \in Seq(AccessNames)
    BY <1>1 DEF AccessNames
  <2> DEFINE m == [l EXCEPT !.out = Promise!TxnNames(v.txns)]
  <2>2. Access("list", v, l, b) = Fine(v, m)
    <3>1. Access("list", v, l, b) = ListTxns(v, l, b)
      BY AccessIs
    <3> QED
      BY <3>1 DEF ListTxns
  <2>3. IsLocals(m) /\ m.out = Promise!TxnNames(v.txns)
    BY DEF IsLocals, IsFunction
  <2> HIDE DEF m
  <2>7. AtList(b, <<>>, m, v, H \cup {"txns"}, t)
    BY <1>1, <2>3, <2>0 DEF AtList
  <2>8. At(b, Tail(todo), m, Written("list", v, v), H \cup PageOf("list", l), t)
    BY <2>1, <2>7, ReadPages DEF At
  <2> QED
    BY <2>1, <2>2, <2>3, <2>8, FineAdvances
<1> QED
  BY <1>1 DEF AtList

\* A body that asks for a revision that is not there fails as promised.
LEMMA NoSuchRevision ==
  ASSUME NEW b, NEW t, b.do \in {"begin", "revprop"}, b.rev \in Int,
         WellFormed(t)
  PROVE  /\ b.rev + 1 \in DOMAIN t.revs <=> b.rev \in 0..Promise!Youngest(t)
         /\ b.rev + 1 \notin DOMAIN t.revs =>
              Promise!Effect(b, t) = Promise!Failed(t)
<1>1. DOMAIN t.revs = 1..Len(t.revs) /\ Len(t.revs) \in Nat
  BY DEF WellFormed, IsRevsTable, IsSeq
<1>2. b.rev + 1 \in DOMAIN t.revs <=> b.rev \in 0..Promise!Youngest(t)
  BY <1>1 DEF Promise!Youngest
<1> QED
  BY <1>2 DEF Promise!Effect, Promise!AboutTxn, Promise!BodyEffect

\* get_rev and get_txn, when they find their record and when not.
LEMMA ReadsRevision ==
  ASSUME NEW b, NEW l, NEW v, NEW t, IsLocals(l), v.revs = t.revs
  PROVE  /\ b.rev + 1 \notin DOMAIN t.revs =>
              Access("get_rev", v, l, b) = Error(v, l)
         /\ b.rev + 1 \in DOMAIN t.revs =>
              \E m : /\ Access("get_rev", v, l, b) = Fine(v, m) /\ IsLocals(m)
                    /\ m.root = t.revs[b.rev + 1].root
                    /\ m.props = t.revs[b.rev + 1].props /\ m.out = l.out
<1> DEFINE m == [l EXCEPT !.root = v.revs[b.rev + 1].root,
                          !.props = v.revs[b.rev + 1].props]
<1>1. /\ b.rev + 1 \notin DOMAIN t.revs => Access("get_rev", v, l, b) = Error(v, l)
      /\ b.rev + 1 \in DOMAIN t.revs => Access("get_rev", v, l, b) = Fine(v, m)
  BY AccessIs DEF GetRev
<1>2. /\ IsLocals(m) /\ m.root = v.revs[b.rev + 1].root
      /\ m.props = v.revs[b.rev + 1].props /\ m.out = l.out
  BY DEF IsLocals, IsFunction
<1> QED
  BY <1>1, <1>2

\* What reading a transaction's record gives.
LEMMA ReadsTransaction ==
  ASSUME NEW b, NEW l, NEW v, NEW t, IsLocals(l), v.txns = t.txns
  PROVE  /\ b.txn \notin DOMAIN t.txns =>
              Access("get_txn", v, l, b) = Error(v, l)
         /\ b.txn \in DOMAIN t.txns =>
              \E m : /\ Access("get_txn", v, l, b) = Fine(v, m) /\ IsLocals(m)
                    /\ m.root = t.txns[b.txn].root /\ m.base = t.txns[b.txn].base
                    /\ m.props = t.txns[b.txn].props /\ m.out = l.out
                    /\ m.rev = l.rev
<1> DEFINE m == [l EXCEPT !.root = v.txns[b.txn].root, !.base = v.txns[b.txn].base,
                          !.props = v.txns[b.txn].props]
<1>1. /\ b.txn \notin DOMAIN t.txns => Access("get_txn", v, l, b) = Error(v, l)
      /\ b.txn \in DOMAIN t.txns => Access("get_txn", v, l, b) = Fine(v, m)
  BY AccessIs DEF GetTxn
<1>2. /\ IsLocals(m) /\ m.root = v.txns[b.txn].root
      /\ m.base = v.txns[b.txn].base /\ m.props = v.txns[b.txn].props
      /\ m.out = l.out /\ m.rev = l.rev
  BY DEF IsLocals, IsFunction
<1> QED
  BY <1>1, <1>2

\* Every body about a transaction that is gone fails.
LEMMA NoSuchTransaction ==
  ASSUME NEW b, NEW t, b.txn \notin DOMAIN t.txns,
         b.do \in {"txnprop", "open", "prepare", "abort", "commit"}
  PROVE  Promise!Effect(b, t) = Promise!Failed(t)
BY DEF Promise!Effect, Promise!AboutTxn

\* One access of svn_fs_begin_txn's body.
LEMMA BeginStep ==
  ASSUME NEW b, NEW todo, NEW l, NEW v, NEW H, NEW t,
         b.do = "begin", b.rev \in Int, AtBegin(b, todo, l, v, H, t),
         todo # <<>>, IsLocals(l), IsTables(v), WellFormed(t)
  PROVE  Advances(Head(todo), Tail(todo), b, l, v, H, t)
<1>1. CASE /\ todo = <<"get_rev", "next_id", "put_next_id", "put_txn">>
           /\ Same(v, t)
  <2>0. v.revs = t.revs
    BY <1>1 DEF Same
  <2>1. /\ Head(todo) = "get_rev"
        /\ Tail(todo) = <<"next_id", "put_next_id", "put_txn">>
        /\ Tail(todo) \in Seq(AccessNames)
    BY <1>1 DEF AccessNames
  <2>2. CASE b.rev + 1 \notin DOMAIN t.revs
    <3>1. Access("get_rev", v, l, b) = Error(v, l)
      BY <2>0, <2>2, ReadsRevision
    <3>2. Promise!Effect(b, t) = Promise!Failed(t)
      BY <2>2, NoSuchRevision
    <3> QED
      BY <2>1, <3>1, <3>2, ErrorAdvances
  <2>3. CASE ~ (b.rev + 1 \notin DOMAIN t.revs)
    <3>1. PICK m : /\ Access("get_rev", v, l, b) = Fine(v, m) /\ IsLocals(m)
                   /\ m.root = t.revs[b.rev + 1].root
                   /\ m.props = t.revs[b.rev + 1].props /\ m.out = l.out
      BY <2>0, <2>3, ReadsRevision
    <3>2. AtBegin(b, Tail(todo), m, v, H \cup {"revs"}, t)
      BY <1>1, <2>1, <2>3, <3>1 DEF AtBegin, RevRead
    <3>3. At(b, Tail(todo), m, Written("get_rev", v, v), H \cup PageOf("get_rev", l), t)
      BY <3>2, ReadPages DEF At
    <3> QED
      BY <2>1, <3>1, <3>3, FineAdvances
  <2> QED
    BY <2>2, <2>3
<1>2. CASE /\ todo = <<"next_id", "put_next_id", "put_txn">>
           /\ Same(v, t) /\ RevRead(b, l, H, t)
  <2>1. /\ Head(todo) = "next_id"
        /\ Tail(todo) = <<"put_next_id", "put_txn">>
        /\ Tail(todo) \in Seq(AccessNames)
    BY <1>2 DEF AccessNames
  <2> DEFINE m == [l EXCEPT !.txn = v.next]
  <2>2. Access("next_id", v, l, b) = Fine(v, m)
    <3>1. Access("next_id", v, l, b) = NextId(v, l, b)
      BY AccessIs
    <3> QED
      BY <3>1 DEF NextId
  <2>3. IsLocals(m) /\ m.txn = v.next /\ m.root = l.root /\ m.props = l.props
    BY DEF IsLocals, IsFunction
  <2> HIDE DEF m
  <2>7. AtBegin(b, <<"put_next_id", "put_txn">>, m, v, H \cup {"txns"}, t)
    BY <1>2, <2>3 DEF AtBegin, RevRead, Same
  <2>8. At(b, Tail(todo), m, Written("next_id", v, v), H \cup PageOf("next_id", l), t)
    BY <2>1, <2>7, ReadPages DEF At
  <2> QED
    BY <2>1, <2>2, <2>3, <2>8, FineAdvances
<1>3. CASE /\ todo = <<"put_next_id", "put_txn">>
           /\ Same(v, t) /\ RevRead(b, l, H, t) /\ "txns" \in H /\ l.txn = t.next
  <2>1. /\ Head(todo) = "put_next_id"
        /\ Tail(todo) = <<"put_txn">>
        /\ Tail(todo) \in Seq(AccessNames)
    BY <1>3 DEF AccessNames
  <2> DEFINE x == [v EXCEPT !.next = l.txn + 1]
  <2>2. Access("put_next_id", v, l, b) = Fine(x, l)
    <3>1. Access("put_next_id", v, l, b) = PutNextId(v, l, b)
      BY AccessIs
    <3> QED
      BY <3>1 DEF PutNextId
  <2>4. x.next = l.txn + 1 /\ x.txns = v.txns
    BY DEF IsTables, IsFunction
  <2> HIDE DEF x
  <2>5. PICK w : w = Written("put_next_id", x, v)
    OBVIOUS
  <2>6. /\ w.next = x.next /\ w.txns = x.txns
        /\ w.revs = v.revs /\ w.nodes = v.nodes
        /\ PageOf("put_next_id", l) = {"txns"}
    BY <2>5, WriteTxns
  <2>7. AtBegin(b, <<"put_txn">>, l, w, H \cup {"txns"}, t)
    BY <1>3, <2>4, <2>6 DEF AtBegin, RevRead, Same
  <2>8. At(b, Tail(todo), l, Written("put_next_id", x, v), H \cup PageOf("put_next_id", l), t)
    BY <2>1, <2>5, <2>6, <2>7 DEF At
  <2> QED
    BY <2>1, <2>2, <2>8, FineAdvances
<1>4. CASE /\ todo = <<"put_txn">>
           /\ RevRead(b, l, H, t) /\ "txns" \in H /\ l.txn = t.next
           /\ v.next = t.next + 1
           /\ v.txns = t.txns /\ v.revs = t.revs /\ v.nodes = t.nodes
  <2>1. /\ Head(todo) = "put_txn"
        /\ Tail(todo) = <<>>
        /\ Tail(todo) \in Seq(AccessNames)
    BY <1>4 DEF AccessNames
  <2> DEFINE m == [l EXCEPT !.out = <<l.txn, b.rev>>]
              x == [v EXCEPT !.txns = Promise!Put(@, l.txn, [root  |-> l.root,
                                                       base  |-> l.root,
                                                       props |-> <<>>])]
  <2>2. Access("put_txn", v, l, b) = Fine(x, m)
    <3>1. Access("put_txn", v, l, b) = PutTxn(v, l, b)
      BY AccessIs
    <3> QED
      BY <3>1 DEF PutTxn
  <2>3. IsLocals(m) /\ m.out = <<l.txn, b.rev>> /\ m.root = l.root /\ m.props = l.props
    BY DEF IsLocals, IsFunction
  <2>4. /\ x.next = v.next
        /\ x.txns = Promise!Put(v.txns, l.txn, [root  |-> l.root, base |-> l.root,
                                                props |-> <<>>])
    BY DEF IsTables, IsFunction
  <2> HIDE DEF m, x
  <2>5. PICK w : w = Written("put_txn", x, v)
    OBVIOUS
  <2>6. /\ w.next = x.next /\ w.txns = x.txns
        /\ w.revs = v.revs /\ w.nodes = v.nodes
        /\ PageOf("put_txn", l) = {"txns"}
    BY <2>5, WriteTxns
  <2>7. AtBegin(b, <<>>, m, w, H \cup {"txns"}, t)
    BY <1>4, <2>3, <2>4, <2>6 DEF AtBegin, RevRead
  <2>8. At(b, Tail(todo), m, Written("put_txn", x, v), H \cup PageOf("put_txn", l), t)
    BY <2>1, <2>5, <2>6, <2>7 DEF At
  <2> QED
    BY <2>1, <2>2, <2>3, <2>8, FineAdvances
<1> QED
  BY <1>1, <1>2, <1>3, <1>4 DEF AtBegin

\* One access of svn_fs_change_rev_prop's body.
LEMMA RevpropStep ==
  ASSUME NEW b, NEW todo, NEW l, NEW v, NEW H, NEW t,
         b.do = "revprop", b.rev \in Int, AtRevprop(b, todo, l, v, H, t),
         todo # <<>>, IsLocals(l), IsTables(v), WellFormed(t)
  PROVE  Advances(Head(todo), Tail(todo), b, l, v, H, t)
<1>1. CASE todo = <<"get_rev", "put_rev_prop">> /\ Same(v, t) /\ l.out = <<>>
  <2>0. v.revs = t.revs
    BY <1>1 DEF Same
  <2>1. /\ Head(todo) = "get_rev"
        /\ Tail(todo) = <<"put_rev_prop">>
        /\ Tail(todo) \in Seq(AccessNames)
    BY <1>1 DEF AccessNames
  <2>2. CASE b.rev + 1 \notin DOMAIN t.revs
    <3>1. Access("get_rev", v, l, b) = Error(v, l)
      BY <2>0, <2>2, ReadsRevision
    <3>2. Promise!Effect(b, t) = Promise!Failed(t)
      BY <2>2, NoSuchRevision
    <3> QED
      BY <2>1, <3>1, <3>2, ErrorAdvances
  <2>3. CASE ~ (b.rev + 1 \notin DOMAIN t.revs)
    <3>1. PICK m : /\ Access("get_rev", v, l, b) = Fine(v, m) /\ IsLocals(m)
                   /\ m.root = t.revs[b.rev + 1].root
                   /\ m.props = t.revs[b.rev + 1].props /\ m.out = l.out
      BY <2>0, <2>3, ReadsRevision
    <3>2. AtRevprop(b, Tail(todo), m, v, H \cup {"revs"}, t)
      BY <1>1, <2>1, <2>3, <3>1 DEF AtRevprop, RevRead
    <3>3. At(b, Tail(todo), m, Written("get_rev", v, v), H \cup PageOf("get_rev", l), t)
      BY <3>2, ReadPages DEF At
    <3> QED
      BY <2>1, <3>1, <3>3, FineAdvances
  <2> QED
    BY <2>2, <2>3
<1>2. CASE /\ todo = <<"put_rev_prop">> /\ Same(v, t) /\ RevRead(b, l, H, t)
           /\ l.out = <<>>
  <2>1. /\ Head(todo) = "put_rev_prop"
        /\ Tail(todo) = <<>>
        /\ Tail(todo) \in Seq(AccessNames)
    BY <1>2 DEF AccessNames
  <2> DEFINE x == [v EXCEPT !.revs[b.rev + 1].props =
                               Promise!SetProp(l.props, b.name, b.value)]
  <2>2. Access("put_rev_prop", v, l, b) = Fine(x, l)
    <3>1. Access("put_rev_prop", v, l, b) = PutRevProp(v, l, b)
      BY AccessIs
    <3> QED
      BY <3>1 DEF PutRevProp
  <2>4. x.revs = [v.revs EXCEPT ![b.rev + 1].props =
                        Promise!SetProp(l.props, b.name, b.value)]
    BY DEF IsTables, IsFunction
  <2> HIDE DEF x
  <2>5. PICK w : w = Written("put_rev_prop", x, v)
    OBVIOUS
  <2>6. /\ w.revs = x.revs
        /\ w.next = v.next /\ w.txns = v.txns /\ w.nodes = v.nodes
        /\ PageOf("put_rev_prop", l) = {"revs"}
    BY <2>5, WriteRevs
  <2>7. AtRevprop(b, <<>>, l, w, H \cup {"revs"}, t)
    BY <1>2, <2>4, <2>6 DEF AtRevprop, RevRead, Same
  <2>8. At(b, Tail(todo), l, Written("put_rev_prop", x, v), H \cup PageOf("put_rev_prop", l), t)
    BY <2>1, <2>5, <2>6, <2>7 DEF At
  <2> QED
    BY <2>1, <2>2, <2>8, FineAdvances
<1> QED
  BY <1>1, <1>2 DEF AtRevprop

\* One access of svn_fs_change_txn_prop's body.
LEMMA TxnpropStep ==
  ASSUME NEW b, NEW todo, NEW l, NEW v, NEW H, NEW t,
         b.do = "txnprop", AtTxnprop(b, todo, l, v, H, t),
         todo # <<>>, IsLocals(l), IsTables(v), WellFormed(t)
  PROVE  Advances(Head(todo), Tail(todo), b, l, v, H, t)
<1>1. CASE todo = <<"get_txn", "put_txn_prop">> /\ Same(v, t) /\ l.out = <<>>
  <2>0. v.txns = t.txns
    BY <1>1 DEF Same
  <2>1. /\ Head(todo) = "get_txn"
        /\ Tail(todo) = <<"put_txn_prop">>
        /\ Tail(todo) \in Seq(AccessNames)
    BY <1>1 DEF AccessNames
  <2>2. CASE b.txn \notin DOMAIN t.txns
    <3>1. Access("get_txn", v, l, b) = Error(v, l)
      BY <2>0, <2>2, ReadsTransaction
    <3>2. Promise!Effect(b, t) = Promise!Failed(t)
      BY <2>2, NoSuchTransaction
    <3> QED
      BY <2>1, <3>1, <3>2, ErrorAdvances
  <2>3. CASE ~ (b.txn \notin DOMAIN t.txns)
    <3>1. PICK m : /\ Access("get_txn", v, l, b) = Fine(v, m) /\ IsLocals(m)
                   /\ m.root = t.txns[b.txn].root /\ m.base = t.txns[b.txn].base
                   /\ m.props = t.txns[b.txn].props /\ m.out = l.out
                   /\ m.rev = l.rev
      BY <2>0, <2>3, ReadsTransaction
    <3>2. AtTxnprop(b, Tail(todo), m, v, H \cup {"txns"}, t)
      BY <1>1, <2>1, <2>3, <3>1 DEF AtTxnprop, TxnRead
    <3>3. At(b, Tail(todo), m, Written("get_txn", v, v), H \cup PageOf("get_txn", l), t)
      BY <3>2, ReadPages DEF At
    <3> QED
      BY <2>1, <3>1, <3>3, FineAdvances
  <2> QED
    BY <2>2, <2>3
<1>2. CASE /\ todo = <<"put_txn_prop">> /\ Same(v, t)
           /\ TxnRead(b, l, H, t) /\ l.root = t.txns[b.txn].root
           /\ l.out = <<>>
  <2>9. [t.txns EXCEPT ![b.txn] =
            [root  |-> l.root, base |-> l.base,
             props |-> Promise!SetProp(l.props, b.name, b.value)]] =
        [t.txns EXCEPT ![b.txn].props = Promise!SetProp(@, b.name, b.value)]
    BY <1>2 DEF WellFormed, IsTxnsTable, IsFunction, TxnRead
  <2>1. /\ Head(todo) = "put_txn_prop"
        /\ Tail(todo) = <<>>
        /\ Tail(todo) \in Seq(AccessNames)
    BY <1>2 DEF AccessNames
  <2> DEFINE x == [v EXCEPT !.txns[b.txn] =
                    [root  |-> l.root, base |-> l.base,
                     props |-> Promise!SetProp(l.props, b.name, b.value)]]
  <2>2. Access("put_txn_prop", v, l, b) = Fine(x, l)
    <3>1. Access("put_txn_prop", v, l, b) = PutTxnProp(v, l, b)
      BY AccessIs
    <3> QED
      BY <3>1 DEF PutTxnProp
  <2>4. /\ x.next = v.next
        /\ x.txns = [v.txns EXCEPT ![b.txn] =
                        [root  |-> l.root, base |-> l.base,
                         props |-> Promise!SetProp(l.props, b.name, b.value)]]
    BY DEF IsTables, IsFunction
  <2> HIDE DEF x
  <2>5. PICK w : w = Written("put_txn_prop", x, v)
    OBVIOUS
  <2>6. /\ w.next = x.next /\ w.txns = x.txns
        /\ w.revs = v.revs /\ w.nodes = v.nodes
        /\ PageOf("put_txn_prop", l) = {"txns"}
    BY <2>5, WriteTxns
  <2>7. AtTxnprop(b, <<>>, l, w, H \cup {"txns"}, t)
    BY <1>2, <2>9, <2>4, <2>6 DEF AtTxnprop, TxnRead, Same
  <2>8. At(b, Tail(todo), l, Written("put_txn_prop", x, v), H \cup PageOf("put_txn_prop", l), t)
    BY <2>1, <2>5, <2>6, <2>7 DEF At
  <2> QED
    BY <2>1, <2>2, <2>8, FineAdvances
<1> QED
  BY <1>1, <1>2 DEF AtTxnprop

\* One access of svn_fs_open_txn's body.
LEMMA OpenStep ==
  ASSUME NEW b, NEW todo, NEW l, NEW v, NEW H, NEW t,
         b.do = "open", AtOpen(b, todo, l, v, H, t),
         todo # <<>>, IsLocals(l), IsTables(v), WellFormed(t)
  PROVE  Advances(Head(todo), Tail(todo), b, l, v, H, t)
<1>1. CASE todo = <<"get_txn", "base_revision">> /\ Same(v, t)
  <2>0. v.txns = t.txns
    BY <1>1 DEF Same
  <2>1. /\ Head(todo) = "get_txn"
        /\ Tail(todo) = <<"base_revision">>
        /\ Tail(todo) \in Seq(AccessNames)
    BY <1>1 DEF AccessNames
  <2>2. CASE b.txn \notin DOMAIN t.txns
    <3>1. Access("get_txn", v, l, b) = Error(v, l)
      BY <2>0, <2>2, ReadsTransaction
    <3>2. Promise!Effect(b, t) = Promise!Failed(t)
      BY <2>2, NoSuchTransaction
    <3> QED
      BY <2>1, <3>1, <3>2, ErrorAdvances
  <2>3. CASE ~ (b.txn \notin DOMAIN t.txns)
    <3>1. PICK m : /\ Access("get_txn", v, l, b) = Fine(v, m) /\ IsLocals(m)
                   /\ m.root = t.txns[b.txn].root /\ m.base = t.txns[b.txn].base
                   /\ m.props = t.txns[b.txn].props /\ m.out = l.out
                   /\ m.rev = l.rev
      BY <2>0, <2>3, ReadsTransaction
    <3>2. AtOpen(b, Tail(todo), m, v, H \cup {"txns"}, t)
      BY <1>1, <2>1, <2>3, <3>1 DEF AtOpen, TxnRead
    <3>3. At(b, Tail(todo), m, Written("get_txn", v, v), H \cup PageOf("get_txn", l), t)
      BY <3>2, ReadPages DEF At
    <3> QED
      BY <2>1, <3>1, <3>3, FineAdvances
  <2> QED
    BY <2>2, <2>3
<1>2. CASE todo = <<"base_revision">> /\ Same(v, t) /\ TxnRead(b, l, H, t)
  <2>1. /\ Head(todo) = "base_revision"
        /\ Tail(todo) = <<>>
        /\ Tail(todo) \in Seq(AccessNames)
    BY <1>2 DEF AccessNames
  <2> DEFINE m == [l EXCEPT !.out = <<b.txn, v.nodes[l.base].rev>>]
  <2>2. Access("base_revision", v, l, b) = Fine(v, m)
    <3>1. Access("base_revision", v, l, b) = BaseRevision(v, l, b)
      BY AccessIs
    <3> QED
      BY <3>1 DEF BaseRevision
  <2>3. IsLocals(m) /\ m.out = <<b.txn, v.nodes[l.base].rev>>
        /\ m.base = l.base /\ m.props = l.props
    BY DEF IsLocals, IsFunction
  <2> HIDE DEF m
  <2>7. AtOpen(b, <<>>, m, v, H \cup {"nodes"}, t)
    BY <1>2, <2>3 DEF AtOpen, TxnRead, Same
  <2>8. At(b, Tail(todo), m, Written("base_revision", v, v), H \cup PageOf("base_revision", l), t)
    BY <2>1, <2>7, ReadPages DEF At
  <2> QED
    BY <2>1, <2>2, <2>3, <2>8, FineAdvances
<1> QED
  BY <1>1, <1>2 DEF AtOpen

\* The end of a text edit fails as promised when the node is gone or committed.
LEMMA FinishFails ==
  ASSUME NEW b, NEW t, b.do = "finish",
         b.node \in DOMAIN t.nodes => t.nodes[b.node].rev # Uncommitted
  PROVE  Promise!Effect(b, t) = Promise!Failed(t)
BY DEF Promise!Effect, Promise!AboutTxn, Promise!BodyEffect, Uncommitted,
       Promise!Uncommitted

\* One access of the body that finishes an edit; the record may be cached.
LEMMA FinishStep ==
  ASSUME NEW b, NEW todo, NEW l, NEW v, NEW H, NEW t,
         b.do = "finish", AtFinish(b, todo, l, v, H, t),
         todo # <<>>, IsLocals(l), IsTables(v), WellFormed(t)
  PROVE  Advances(Head(todo), Tail(todo), b, l, v, H, t)
<1>1. CASE /\ todo = <<"get_node", "set_node">> /\ Same(v, t) /\ l.out = <<>>
           /\ l.cache = <<>> \/ CacheGood(b, l, H, t)
  <2>1. /\ Head(todo) = "get_node"
        /\ Tail(todo) = <<"set_node">>
        /\ Tail(todo) \in Seq(AccessNames)
    BY <1>1 DEF AccessNames
  <2>2. CASE l.cache # <<>>
    <3> DEFINE m == [l EXCEPT !.node = l.cache[1]]
    <3>1. Access("get_node", v, l, b) = Fine(v, m)
      BY <2>2, AccessIs DEF GetNodeRevision
    <3>2. IsLocals(m) /\ m.node = l.cache[1] /\ m.out = l.out /\ m.cache = l.cache
      BY DEF IsLocals, IsFunction
    <3> HIDE DEF m
    <3>3. AtFinish(b, <<"set_node">>, m, v, H, t)
      BY <1>1, <2>2, <3>2 DEF AtFinish, CacheGood
    <3>4. At(b, Tail(todo), m, Written("get_node", v, v), H \cup PageOf("get_node", l), t)
      <4>1. H \cup PageOf("get_node", l) = H
        BY <2>2, ReadPages
      <4> QED
        BY <2>1, <3>3, <4>1, ReadPages DEF At
    <3> QED
      BY <2>1, <3>1, <3>2, <3>4, FineAdvances
  <2>3. CASE l.cache = <<>> /\ b.node \in DOMAIN t.nodes
    <3> DEFINE m == [l EXCEPT !.node = v.nodes[b.node], !.cache = <<v.nodes[b.node]>>]
    <3>1. Access("get_node", v, l, b) = Fine(v, m)
      BY <1>1, <2>3, AccessIs DEF GetNodeRevision, Same
    <3>2. /\ IsLocals(m) /\ m.node = v.nodes[b.node] /\ m.out = l.out
          /\ m.cache = <<v.nodes[b.node]>>
      BY DEF IsLocals, IsFunction
    <3> HIDE DEF m
    <3>3. AtFinish(b, <<"set_node">>, m, v, H \cup {"nodes"}, t)
      BY <1>1, <2>3, <3>2 DEF AtFinish, CacheGood, Same
    <3>4. At(b, Tail(todo), m, Written("get_node", v, v), H \cup PageOf("get_node", l), t)
      BY <2>1, <2>3, <3>3, ReadPages DEF At
    <3> QED
      BY <2>1, <3>1, <3>2, <3>4, FineAdvances
  <2>4. CASE l.cache = <<>> /\ b.node \notin DOMAIN t.nodes
    <3>1. Access("get_node", v, l, b) = Error(v, l)
      BY <1>1, <2>4, AccessIs DEF GetNodeRevision, Same
    <3>2. Promise!Effect(b, t) = Promise!Failed(t)
      BY <2>4, FinishFails
    <3> QED
      BY <2>1, <3>1, <3>2, ErrorAdvances
  <2> QED
    BY <2>2, <2>3, <2>4
<1>2. CASE /\ todo = <<"set_node">> /\ Same(v, t) /\ l.out = <<>>
           /\ CacheGood(b, l, H, t) /\ l.node = t.nodes[b.node]
  <2>1. /\ Head(todo) = "set_node"
        /\ Tail(todo) = <<>>
        /\ Tail(todo) \in Seq(AccessNames)
    BY <1>2 DEF AccessNames
  <2>2. CASE l.node.rev # Uncommitted
    <3>1. Access("set_node", v, l, b) = Error(v, l)
      BY <2>2, AccessIs DEF SetNodeRevision
    <3>2. Promise!Effect(b, t) = Promise!Failed(t)
      BY <1>2, <2>2, FinishFails
    <3> QED
      BY <2>1, <3>1, <3>2, ErrorAdvances
  <2>3. CASE l.node.rev = Uncommitted
    <3> DEFINE n == [l.node EXCEPT !.text = @ \cup {b.edit}]
               m == [l EXCEPT !.cache = <<n>>]
               x == [v EXCEPT !.nodes = Promise!Put(@, b.node, n)]
    <3>1. Access("set_node", v, l, b) = Fine(x, m)
      <4>1. SetNodeRevision(v, l, b) = Fine(x, m)
        BY <2>3, Zenon DEF SetNodeRevision
      <4> QED
        BY <4>1, AccessIs
    <3>2. IsLocals(m) /\ m.cache = <<n>> /\ m.out = l.out
      BY DEF IsLocals, IsFunction
    <3>3. x.nodes = Promise!Put(v.nodes, b.node, n)
      BY DEF IsTables, IsFunction
    <3>4. /\ Promise!Put(t.nodes, b.node, n) =
               [t.nodes EXCEPT ![b.node].text = @ \cup {b.edit}]
          /\ Promise!Put(t.nodes, b.node, n)[b.node] = n
      BY <1>2 DEF CacheGood, WellFormed, IsNodesTable, IsFunction, Promise!Put
    <3> HIDE DEF m, n, x
    <3>5. PICK w : w = Written("set_node", x, v)
      OBVIOUS
    <3>6. /\ w.nodes = x.nodes
          /\ w.next = v.next /\ w.txns = v.txns /\ w.revs = v.revs
          /\ PageOf("set_node", l) = {"nodes"}
      BY <3>5, WriteNodes
    <3>7. AtFinish(b, <<>>, m, w, H \cup {"nodes"}, t)
      <4>1. w.nodes = Promise!Put(t.nodes, b.node, n)
        BY <1>2, <3>3, <3>6 DEF Same
      <4>2. w.next = t.next /\ w.txns = t.txns /\ w.revs = t.revs
        BY <1>2, <3>6 DEF Same
      <4> QED
        BY <1>2, <2>3, <3>2, <3>4, <4>1, <4>2 DEF AtFinish, CacheGood
    <3>8. At(b, Tail(todo), m, Written("set_node", x, v), H \cup PageOf("set_node", l), t)
      BY <2>1, <3>5, <3>6, <3>7 DEF At
    <3> QED
      BY <2>1, <3>1, <3>2, <3>8, FineAdvances
  <2> QED
    BY <2>2, <2>3
<1> QED
  BY <1>1, <1>2 DEF AtFinish

\* One access of svn_fs_abort_txn's body.
LEMMA AbortStep ==
  ASSUME NEW b, NEW todo, NEW l, NEW v, NEW H, NEW t,
         b.do = "abort", AtAbort(b, todo, l, v, H, t),
         todo # <<>>, IsLocals(l), IsTables(v), WellFormed(t)
  PROVE  Advances(Head(todo), Tail(todo), b, l, v, H, t)
<1>1. CASE /\ todo = <<"get_txn", "delete_nodes", "delete_txn">> /\ Same(v, t)
           /\ l.out = <<>>
  <2>0. v.txns = t.txns
    BY <1>1 DEF Same
  <2>1. /\ Head(todo) = "get_txn"
        /\ Tail(todo) = <<"delete_nodes", "delete_txn">>
        /\ Tail(todo) \in Seq(AccessNames)
    BY <1>1 DEF AccessNames
  <2>2. CASE b.txn \notin DOMAIN t.txns
    <3>1. Access("get_txn", v, l, b) = Error(v, l)
      BY <2>0, <2>2, ReadsTransaction
    <3>2. Promise!Effect(b, t) = Promise!Failed(t)
      BY <2>2, NoSuchTransaction
    <3> QED
      BY <2>1, <3>1, <3>2, ErrorAdvances
  <2>3. CASE ~ (b.txn \notin DOMAIN t.txns)
    <3>1. PICK m : /\ Access("get_txn", v, l, b) = Fine(v, m) /\ IsLocals(m)
                   /\ m.root = t.txns[b.txn].root /\ m.base = t.txns[b.txn].base
                   /\ m.props = t.txns[b.txn].props /\ m.out = l.out
                   /\ m.rev = l.rev
      BY <2>0, <2>3, ReadsTransaction
    <3>2. AtAbort(b, Tail(todo), m, v, H \cup {"txns"}, t)
      BY <1>1, <2>1, <2>3, <3>1 DEF AtAbort, TxnRead
    <3>3. At(b, Tail(todo), m, Written("get_txn", v, v), H \cup PageOf("get_txn", l), t)
      BY <3>2, ReadPages DEF At
    <3> QED
      BY <2>1, <3>1, <3>3, FineAdvances
  <2> QED
    BY <2>2, <2>3
<1>2. CASE /\ todo = <<"delete_nodes", "delete_txn">> /\ Same(v, t)
           /\ TxnRead(b, l, H, t) /\ l.root = t.txns[b.txn].root /\ l.out = <<>>
  <2>1. /\ Head(todo) = "delete_nodes"
        /\ Tail(todo) = <<"delete_txn">>
        /\ Tail(todo) \in Seq(AccessNames)
    BY <1>2 DEF AccessNames
  <2> DEFINE x == [v EXCEPT !.nodes = IF v.nodes[l.root].rev = Uncommitted
                                     THEN Promise!Delete(@, l.root) ELSE @]
  <2>2. Access("delete_nodes", v, l, b) = Fine(x, l)
    <3>1. Access("delete_nodes", v, l, b) = DeleteNodes(v, l, b)
      BY AccessIs
    <3> QED
      BY <3>1 DEF DeleteNodes
  <2>4. x.nodes = IF v.nodes[l.root].rev = Uncommitted
                  THEN Promise!Delete(v.nodes, l.root) ELSE v.nodes
    BY DEF IsTables, IsFunction
  <2> HIDE DEF x
  <2>5. PICK w : w = Written("delete_nodes", x, v)
    OBVIOUS
  <2>6. /\ w.nodes = x.nodes
        /\ w.next = v.next /\ w.txns = v.txns /\ w.revs = v.revs
        /\ PageOf("delete_nodes", l) = {"nodes"}
    BY <2>5, WriteNodes
  <2>7. AtAbort(b, <<"delete_txn">>, l, w, H \cup {"nodes"}, t)
    BY <1>2, <2>4, <2>6 DEF AtAbort, TxnRead, Same
  <2>8. At(b, Tail(todo), l, Written("delete_nodes", x, v), H \cup PageOf("delete_nodes", l), t)
    BY <2>1, <2>5, <2>6, <2>7 DEF At
  <2> QED
    BY <2>1, <2>2, <2>8, FineAdvances
<1>3. CASE /\ todo = <<"delete_txn">>
           /\ TxnRead(b, l, H, t) /\ "nodes" \in H /\ l.out = <<>>
           /\ v.nodes = IF t.nodes[t.txns[b.txn].root].rev = Uncommitted
                        THEN Promise!Delete(t.nodes, t.txns[b.txn].root) ELSE t.nodes
           /\ v.next = t.next /\ v.txns = t.txns /\ v.revs = t.revs
  <2>1. /\ Head(todo) = "delete_txn"
        /\ Tail(todo) = <<>>
        /\ Tail(todo) \in Seq(AccessNames)
    BY <1>3 DEF AccessNames
  <2> DEFINE x == [v EXCEPT !.txns = Promise!Delete(@, b.txn)]
  <2>2. Access("delete_txn", v, l, b) = Fine(x, l)
    <3>1. Access("delete_txn", v, l, b) = DeleteTxn(v, l, b)
      BY AccessIs
    <3> QED
      BY <3>1 DEF DeleteTxn
  <2>4. x.next = v.next /\ x.txns = Promise!Delete(v.txns, b.txn)
    BY DEF IsTables, IsFunction
  <2> HIDE DEF x
  <2>5. PICK w : w = Written("delete_txn", x, v)
    OBVIOUS
  <2>6. /\ w.next = x.next /\ w.txns = x.txns
        /\ w.revs = v.revs /\ w.nodes = v.nodes
        /\ PageOf("delete_txn", l) = {"txns"}
    BY <2>5, WriteTxns
  <2>7. AtAbort(b, <<>>, l, w, H \cup {"txns"}, t)
    BY <1>3, <2>4, <2>6 DEF AtAbort, TxnRead
  <2>8. At(b, Tail(todo), l, Written("delete_txn", x, v), H \cup PageOf("delete_txn", l), t)
    BY <2>1, <2>5, <2>6, <2>7 DEF At
  <2> QED
    BY <2>1, <2>2, <2>8, FineAdvances
<1> QED
  BY <1>1, <1>2, <1>3 DEF AtAbort

\* An access that decides what comes next.
LEMMA ThenAdvances ==
  ASSUME NEW a, NEW rest, NEW b, NEW l, NEW v, NEW H, NEW t, NEW r, NEW todo,
         Access(a, v, l, b) = r,
         r.ok = TRUE, r.then \o rest = todo, IsLocals(r.l),
         At(b, todo, r.l, Written(a, r.tables, v), H \cup PageOf(a, l), t)
  PROVE  Advances(a, rest, b, l, v, H, t)
BY DEF Advances

\* One access of the body that makes the root mutable and caches it.
LEMMA PrepareStep ==
  ASSUME NEW b, NEW todo, NEW l, NEW v, NEW H, NEW t,
         b.do = "prepare", AtPrepare(b, todo, l, v, H, t),
         todo # <<>>, IsLocals(l), IsTables(v), WellFormed(t)
  PROVE  Advances(Head(todo), Tail(todo), b, l, v, H, t)
<1>1. CASE todo = <<"get_txn", "clone_root">> /\ Same(v, t)
  <2>0. v.txns = t.txns
    BY <1>1 DEF Same
  <2>1. /\ Head(todo) = "get_txn"
        /\ Tail(todo) = <<"clone_root">>
        /\ Tail(todo) \in Seq(AccessNames)
    BY <1>1 DEF AccessNames
  <2>2. CASE b.txn \notin DOMAIN t.txns
    <3>1. Access("get_txn", v, l, b) = Error(v, l)
      BY <2>0, <2>2, ReadsTransaction
    <3>2. Promise!Effect(b, t) = Promise!Failed(t)
      BY <2>2, NoSuchTransaction
    <3> QED
      BY <2>1, <3>1, <3>2, ErrorAdvances
  <2>3. CASE ~ (b.txn \notin DOMAIN t.txns)
    <3>1. PICK m : /\ Access("get_txn", v, l, b) = Fine(v, m) /\ IsLocals(m)
                   /\ m.root = t.txns[b.txn].root /\ m.base = t.txns[b.txn].base
                   /\ m.props = t.txns[b.txn].props /\ m.out = l.out
                   /\ m.rev = l.rev
      BY <2>0, <2>3, ReadsTransaction
    <3>2. AtPrepare(b, Tail(todo), m, v, H \cup {"txns"}, t)
      BY <1>1, <2>1, <2>3, <3>1 DEF AtPrepare, TxnRead
    <3>3. At(b, Tail(todo), m, Written("get_txn", v, v), H \cup PageOf("get_txn", l), t)
      BY <3>2, ReadPages DEF At
    <3> QED
      BY <2>1, <3>1, <3>3, FineAdvances
  <2> QED
    BY <2>2, <2>3
<1>2. CASE /\ todo = <<"clone_root">> /\ Same(v, t)
           /\ TxnRead(b, l, H, t) /\ l.root = t.txns[b.txn].root
  <2>1. Head(todo) = "clone_root" /\ Tail(todo) = <<>>
    BY <1>2
  <2>2. CASE l.root # l.base
    <3> DEFINE m == [l EXCEPT !.out = <<l.root>>]
    <3>1. PICK r : r = [Fine(v, m) EXCEPT !.then = <<"get_root">>]
      OBVIOUS
    <3>2. Access("clone_root", v, l, b) = r
      <4>1. CloneRoot(v, l, b) = [Fine(v, m) EXCEPT !.then = <<"get_root">>]
        BY <2>2, Zenon DEF CloneRoot
      <4> QED
        BY <3>1, <4>1, AccessIs
    <3>3. r.ok = TRUE /\ r.tables = v /\ r.l = m /\ r.then = <<"get_root">>
      BY <3>1 DEF Fine
    <3>4. /\ IsLocals(m) /\ m.out = <<l.root>> /\ m.root = l.root
          /\ m.base = l.base /\ m.props = l.props
      BY DEF IsLocals, IsFunction
    <3> HIDE DEF m
    <3>5. AtPrepare(b, <<"get_root">>, m, v, H \cup {"nodes"}, t)
      BY <1>2, <2>2, <3>4 DEF AtPrepare, TxnRead
    <3>6. At(b, <<"get_root">>, m, Written("clone_root", v, v), H \cup PageOf("clone_root", l), t)
      BY <3>5, ReadPages DEF At
    <3>7. <<"get_root">> \o <<>> = <<"get_root">>
      OBVIOUS
    <3> QED
      BY <2>1, <3>2, <3>3, <3>4, <3>6, <3>7, ThenAdvances
  <2>3. CASE l.root = l.base
    <3> DEFINE m == [l EXCEPT !.node = v.nodes[l.base]]
               then == <<"create_successor", "set_txn_root", "get_root">>
    <3>1. PICK r : r = [Fine(v, m) EXCEPT !.then = then]
      OBVIOUS
    <3>2. Access("clone_root", v, l, b) = r
      <4>1. CloneRoot(v, l, b) = [Fine(v, m) EXCEPT !.then = then]
        BY <2>3, Zenon DEF CloneRoot
      <4> QED
        BY <3>1, <4>1, AccessIs
    <3>3. r.ok = TRUE /\ r.tables = v /\ r.l = m /\ r.then = then
      BY <3>1 DEF Fine
    <3>4. /\ IsLocals(m) /\ m.node = v.nodes[l.base]
          /\ m.base = l.base /\ m.props = l.props
      BY DEF IsLocals, IsFunction
    <3> HIDE DEF m
    <3>5. AtPrepare(b, then, m, v, H \cup {"nodes"}, t)
      BY <1>2, <2>3, <3>4 DEF AtPrepare, TxnRead, Same
    <3>6. At(b, then, m, Written("clone_root", v, v), H \cup PageOf("clone_root", l), t)
      BY <3>5, ReadPages DEF At
    <3>7. then \o <<>> = then
      OBVIOUS
    <3> HIDE DEF then
    <3> QED
      BY <2>1, <3>2, <3>3, <3>4, <3>6, <3>7, ThenAdvances
  <2> QED
    BY <2>2, <2>3
<1>3. CASE /\ todo = <<"get_root">> /\ Same(v, t)
           /\ TxnRead(b, l, H, t) /\ "nodes" \in H
           /\ t.txns[b.txn].root # t.txns[b.txn].base
           /\ l.root = t.txns[b.txn].root /\ l.out = <<t.txns[b.txn].root>>
  <2>1. /\ Head(todo) = "get_root"
        /\ Tail(todo) = <<>>
        /\ Tail(todo) \in Seq(AccessNames)
    BY <1>3 DEF AccessNames
  <2> DEFINE m == [l EXCEPT !.node = v.nodes[l.root], !.cache = <<v.nodes[l.root]>>]
  <2>2. Access("get_root", v, l, b) = Fine(v, m)
    <3>1. Access("get_root", v, l, b) = GetRoot(v, l, b)
      BY AccessIs
    <3> QED
      BY <3>1 DEF GetRoot
  <2>3. IsLocals(m) /\ m.cache = <<v.nodes[l.root]>> /\ m.out = l.out
        /\ m.base = l.base /\ m.props = l.props
    BY DEF IsLocals, IsFunction
  <2> HIDE DEF m
  <2>7. AtPrepare(b, <<>>, m, v, H \cup {"nodes"}, t)
    BY <1>3, <2>3 DEF AtPrepare, TxnRead, Same
  <2>8. At(b, Tail(todo), m, Written("get_root", v, v), H \cup PageOf("get_root", l), t)
    BY <2>1, <2>7, ReadPages DEF At
  <2> QED
    BY <2>1, <2>2, <2>3, <2>8, FineAdvances
<1>4. CASE /\ todo = <<"create_successor", "set_txn_root", "get_root">>
           /\ Same(v, t) /\ TxnRead(b, l, H, t) /\ "nodes" \in H
           /\ t.txns[b.txn].root = t.txns[b.txn].base
           /\ l.node = t.nodes[t.txns[b.txn].base]
  <2>9. v = t
    BY <1>4 DEF Same, WellFormed, IsTables, IsFunction
  <2>1. /\ Head(todo) = "create_successor"
        /\ Tail(todo) = <<"set_txn_root", "get_root">>
        /\ Tail(todo) \in Seq(AccessNames)
    BY <1>4 DEF AccessNames
  <2> DEFINE m == [l EXCEPT !.root = Promise!FreshNode(v.nodes), !.out = <<Promise!FreshNode(v.nodes)>>]
              x == [v EXCEPT !.nodes = Promise!Put(@, Promise!FreshNode(v.nodes),
                                              [l.node EXCEPT !.rev = Uncommitted])]
  <2>2. Access("create_successor", v, l, b) = Fine(x, m)
    <3>1. Access("create_successor", v, l, b) = CreateSuccessor(v, l, b)
      BY AccessIs
    <3> QED
      BY <3>1 DEF CreateSuccessor
  <2>3. IsLocals(m) /\ m.root = Promise!FreshNode(v.nodes) /\ m.out = <<Promise!FreshNode(v.nodes)>>
        /\ m.base = l.base /\ m.props = l.props
    BY DEF IsLocals, IsFunction
  <2>4. x.nodes = Promise!Put(v.nodes, Promise!FreshNode(v.nodes),
                              [l.node EXCEPT !.rev = Uncommitted])
    BY DEF IsTables, IsFunction
  <2> HIDE DEF m, x
  <2>5. PICK w : w = Written("create_successor", x, v)
    OBVIOUS
  <2>6. /\ w.nodes = x.nodes
        /\ w.next = v.next /\ w.txns = v.txns /\ w.revs = v.revs
        /\ PageOf("create_successor", l) = {"nodes"}
    BY <2>5, WriteNodes
  <2>7. AtPrepare(b, <<"set_txn_root", "get_root">>, m, w, H \cup {"nodes"}, t)
    BY <1>4, <2>3, <2>9, <2>4, <2>6 DEF AtPrepare, TxnRead, WithSuccessor
  <2>8. At(b, Tail(todo), m, Written("create_successor", x, v), H \cup PageOf("create_successor", l), t)
    BY <2>1, <2>5, <2>6, <2>7 DEF At
  <2> QED
    BY <2>1, <2>2, <2>3, <2>8, FineAdvances
<1>5. CASE /\ todo = <<"set_txn_root", "get_root">>
           /\ TxnRead(b, l, H, t) /\ "nodes" \in H
           /\ t.txns[b.txn].root = t.txns[b.txn].base
           /\ l.root = Promise!FreshNode(t.nodes) /\ l.out = <<Promise!FreshNode(t.nodes)>>
           /\ v.nodes = WithSuccessor(t.nodes, t.txns[b.txn].base)
           /\ v.next = t.next /\ v.txns = t.txns /\ v.revs = t.revs
  <2>1. /\ Head(todo) = "set_txn_root"
        /\ Tail(todo) = <<"get_root">>
        /\ Tail(todo) \in Seq(AccessNames)
    BY <1>5 DEF AccessNames
  <2> DEFINE x == [v EXCEPT !.txns[b.txn].root = l.root]
  <2>2. Access("set_txn_root", v, l, b) = Fine(x, l)
    <3>1. Access("set_txn_root", v, l, b) = SetTxnRoot(v, l, b)
      BY AccessIs
    <3> QED
      BY <3>1 DEF SetTxnRoot
  <2>4. x.next = v.next /\ x.txns = [v.txns EXCEPT ![b.txn].root = l.root]
    BY DEF IsTables, IsFunction
  <2> HIDE DEF x
  <2>5. PICK w : w = Written("set_txn_root", x, v)
    OBVIOUS
  <2>6. /\ w.next = x.next /\ w.txns = x.txns
        /\ w.revs = v.revs /\ w.nodes = v.nodes
        /\ PageOf("set_txn_root", l) = {"txns"}
    BY <2>5, WriteTxns
  <2>7. AtPrepare(b, <<"get_root">>, l, w, H \cup {"txns"}, t)
    BY <1>5, <2>4, <2>6 DEF AtPrepare, TxnRead
  <2>8. At(b, Tail(todo), l, Written("set_txn_root", x, v), H \cup PageOf("set_txn_root", l), t)
    BY <2>1, <2>5, <2>6, <2>7 DEF At
  <2> QED
    BY <2>1, <2>2, <2>8, FineAdvances
<1>6. CASE /\ todo = <<"get_root">>
           /\ TxnRead(b, l, H, t) /\ "nodes" \in H
           /\ t.txns[b.txn].root = t.txns[b.txn].base
           /\ l.root = Promise!FreshNode(t.nodes) /\ l.out = <<Promise!FreshNode(t.nodes)>>
           /\ v.nodes = WithSuccessor(t.nodes, t.txns[b.txn].base)
           /\ v.txns = [t.txns EXCEPT ![b.txn].root = Promise!FreshNode(t.nodes)]
           /\ v.next = t.next /\ v.revs = t.revs
  <2>1. /\ Head(todo) = "get_root"
        /\ Tail(todo) = <<>>
        /\ Tail(todo) \in Seq(AccessNames)
    BY <1>6 DEF AccessNames
  <2> DEFINE m == [l EXCEPT !.node = v.nodes[l.root], !.cache = <<v.nodes[l.root]>>]
  <2>2. Access("get_root", v, l, b) = Fine(v, m)
    <3>1. Access("get_root", v, l, b) = GetRoot(v, l, b)
      BY AccessIs
    <3> QED
      BY <3>1 DEF GetRoot
  <2>3. IsLocals(m) /\ m.cache = <<v.nodes[l.root]>> /\ m.out = l.out
        /\ m.base = l.base /\ m.props = l.props
    BY DEF IsLocals, IsFunction
  <2> HIDE DEF m
  <2>7. AtPrepare(b, <<>>, m, v, H \cup {"nodes"}, t)
    BY <1>6, <2>3 DEF AtPrepare, TxnRead
  <2>8. At(b, Tail(todo), m, Written("get_root", v, v), H \cup PageOf("get_root", l), t)
    BY <2>1, <2>7, ReadPages DEF At
  <2> QED
    BY <2>1, <2>2, <2>3, <2>8, FineAdvances
<1> QED
  BY <1>1, <1>2, <1>3, <1>4, <1>5, <1>6 DEF AtPrepare

\* The new revision is dated after it has been put.
LEMMA DatedRevision ==
  ASSUME NEW s, IsSeq(s), NEW root, NEW props
  PROVE  [Append(s, [root |-> root, props |-> props]) EXCEPT
              ![Len(s) + 1].props = Promise!SetProp(@, "date", "commit")]
         = Append(s, [root |-> root,
                      props |-> Promise!SetProp(props, "date", "commit")])
<1> DEFINE d == Promise!SetProp(props, "date", "commit")
           e == [root |-> root, props |-> props]
           f == [root |-> root, props |-> d]
           u == Append(s, e)
           w == Append(s, f)
<1>1. PICK S : s \in Seq(S)
  BY DEF IsSeq
<1>2. /\ u \in Seq(S \cup {e, f}) /\ w \in Seq(S \cup {e, f})
      /\ Len(u) = Len(s) + 1 /\ Len(w) = Len(s) + 1 /\ Len(s) \in Nat
      /\ u[Len(s) + 1] = e /\ w[Len(s) + 1] = f
      /\ \A i \in 1..Len(s) : u[i] = s[i] /\ w[i] = s[i]
  BY <1>1
<1>3. [e EXCEPT !.props = d] = f
  OBVIOUS
<1>4. e.props = props
  OBVIOUS
<1> HIDE DEF d, e, f, u, w
<1>5. [u EXCEPT ![Len(s) + 1] = [u[Len(s) + 1] EXCEPT !.props = d]] = [u EXCEPT ![Len(s) + 1] = f]
  BY <1>2, <1>3
<1>6. [u EXCEPT ![Len(s) + 1] = f] = w
  <2>1. [u EXCEPT ![Len(s) + 1] = f] \in Seq(S \cup {e, f})
    BY <1>2
  <2>2. Len([u EXCEPT ![Len(s) + 1] = f]) = Len(s) + 1
    BY <1>2
  <2>3. \A i \in 1..(Len(s) + 1) : [u EXCEPT ![Len(s) + 1] = f][i] = w[i]
    BY <1>2
  <2> QED
    BY <1>2, <2>1, <2>2, <2>3, SeqEqual
<1>7. [u EXCEPT ![Len(s) + 1].props = Promise!SetProp(@, "date", "commit")] =
      [u EXCEPT ![Len(s) + 1] = [u[Len(s) + 1] EXCEPT !.props = d]]
  BY <1>2, <1>4 DEF d
<1> QED
  BY <1>5, <1>6, <1>7 DEF d, e, f, u, w

\* A commit whose base is not the youngest revision fails.
LEMMA OutOfDate ==
  ASSUME NEW b, NEW t, b.do = "commit", b.txn \in DOMAIN t.txns,
         t.revs[Len(t.revs)].root # t.txns[b.txn].base
  PROVE  Promise!Effect(b, t) = Promise!Failed(t)
BY DEF Promise!Effect, Promise!AboutTxn, Promise!TxnEffect

\* One access of a commit's body.
LEMMA CommitStep ==
  ASSUME NEW b, NEW todo, NEW l, NEW v, NEW H, NEW t,
         b.do = "commit", AtCommit(b, todo, l, v, H, t),
         todo # <<>>, IsLocals(l), IsTables(v), WellFormed(t)
  PROVE  Advances(Head(todo), Tail(todo), b, l, v, H, t)
<1>1. CASE /\ todo = <<"youngest", "get_txn", "check_base", "get_root", "put_rev",
                       "set_date", "stabilize", "delete_txn">>
           /\ Same(v, t)
  <2>1. /\ Head(todo) = "youngest"
        /\ Tail(todo) = <<"get_txn", "check_base", "get_root", "put_rev",
                         "set_date", "stabilize", "delete_txn">>
        /\ Tail(todo) \in Seq(AccessNames)
    BY <1>1 DEF AccessNames
  <2> DEFINE m == [l EXCEPT !.rev = Len(v.revs) - 1, !.out = <<Len(v.revs) - 1>>]
  <2>2. Access("youngest", v, l, b) = Fine(v, m)
    <3>1. Access("youngest", v, l, b) = YoungestRev(v, l, b)
      BY AccessIs
    <3> QED
      BY <3>1 DEF YoungestRev
  <2>3. IsLocals(m) /\ m.rev = Len(v.revs) - 1
    BY DEF IsLocals, IsFunction
  <2> HIDE DEF m
  <2>7. AtCommit(b, <<"get_txn", "check_base", "get_root", "put_rev",
                         "set_date", "stabilize", "delete_txn">>, m, v, H \cup {"revs"}, t)
    BY <1>1, <2>3 DEF AtCommit, Same
  <2>8. At(b, Tail(todo), m, Written("youngest", v, v), H \cup PageOf("youngest", l), t)
    BY <2>1, <2>7, ReadPages DEF At
  <2> QED
    BY <2>1, <2>2, <2>3, <2>8, FineAdvances
<1>2. CASE /\ todo = <<"get_txn", "check_base", "get_root", "put_rev",
                       "set_date", "stabilize", "delete_txn">>
           /\ Same(v, t) /\ "revs" \in H /\ l.rev = Len(t.revs) - 1
  <2>0. v.txns = t.txns
    BY <1>2 DEF Same
  <2>1. /\ Head(todo) = "get_txn"
        /\ Tail(todo) = <<"check_base", "get_root", "put_rev",
                         "set_date", "stabilize", "delete_txn">>
        /\ Tail(todo) \in Seq(AccessNames)
    BY <1>2 DEF AccessNames
  <2>2. CASE b.txn \notin DOMAIN t.txns
    <3>1. Access("get_txn", v, l, b) = Error(v, l)
      BY <2>0, <2>2, ReadsTransaction
    <3>2. Promise!Effect(b, t) = Promise!Failed(t)
      BY <2>2, NoSuchTransaction
    <3> QED
      BY <2>1, <3>1, <3>2, ErrorAdvances
  <2>3. CASE ~ (b.txn \notin DOMAIN t.txns)
    <3>1. PICK m : /\ Access("get_txn", v, l, b) = Fine(v, m) /\ IsLocals(m)
                   /\ m.root = t.txns[b.txn].root /\ m.base = t.txns[b.txn].base
                   /\ m.props = t.txns[b.txn].props /\ m.out = l.out
                   /\ m.rev = l.rev
      BY <2>0, <2>3, ReadsTransaction
    <3>2. AtCommit(b, Tail(todo), m, v, H \cup {"txns"}, t)
      BY <1>2, <2>1, <2>3, <3>1 DEF AtCommit, TxnRead
    <3>3. At(b, Tail(todo), m, Written("get_txn", v, v), H \cup PageOf("get_txn", l), t)
      BY <3>2, ReadPages DEF At
    <3> QED
      BY <2>1, <3>1, <3>3, FineAdvances
  <2> QED
    BY <2>2, <2>3
<1>3. CASE /\ todo = <<"check_base", "get_root", "put_rev",
                       "set_date", "stabilize", "delete_txn">>
           /\ Same(v, t) /\ "revs" \in H /\ l.rev = Len(t.revs) - 1
           /\ TxnRead(b, l, H, t) /\ l.root = t.txns[b.txn].root
  <2>1. /\ Head(todo) = "check_base"
        /\ Tail(todo) = <<"get_root", "put_rev", "set_date", "stabilize", "delete_txn">>
        /\ Tail(todo) \in Seq(AccessNames)
    BY <1>3 DEF AccessNames
  <2>2. v.revs[l.rev + 1].root = t.revs[Len(t.revs)].root
    <3>1. Len(t.revs) \in Nat
      BY DEF WellFormed, IsRevsTable, IsSeq
    <3>2. l.rev + 1 = Len(t.revs)
      BY <1>3, <3>1
    <3> QED
      BY <1>3, <3>2 DEF Same
  <2>3. CASE t.revs[Len(t.revs)].root # t.txns[b.txn].base
    <3>1. Access("check_base", v, l, b) = Error(v, l)
      BY <1>3, <2>2, <2>3, AccessIs DEF CheckBase, TxnRead
    <3>2. Promise!Effect(b, t) = Promise!Failed(t)
      BY <1>3, <2>3, OutOfDate DEF TxnRead
    <3> QED
      BY <2>1, <3>1, <3>2, ErrorAdvances
  <2>4. CASE t.revs[Len(t.revs)].root = t.txns[b.txn].base
    <3>1. Access("check_base", v, l, b) = Fine(v, l)
      BY <1>3, <2>2, <2>4, AccessIs DEF CheckBase, TxnRead
    <3>2. AtCommit(b, Tail(todo), l, v, H \cup {"revs"}, t)
      BY <1>3, <2>1, <2>4 DEF AtCommit, MayCommit, TxnRead
    <3>3. At(b, Tail(todo), l, Written("check_base", v, v), H \cup PageOf("check_base", l), t)
      BY <3>2, ReadPages DEF At
    <3> QED
      BY <2>1, <3>1, <3>3, FineAdvances
  <2> QED
    BY <2>3, <2>4
<1>4. CASE /\ todo = <<"get_root", "put_rev", "set_date", "stabilize", "delete_txn">>
           /\ Same(v, t) /\ MayCommit(b, l, H, t)
  <2>1. /\ Head(todo) = "get_root"
        /\ Tail(todo) = <<"put_rev", "set_date", "stabilize", "delete_txn">>
        /\ Tail(todo) \in Seq(AccessNames)
    BY <1>4 DEF AccessNames
  <2> DEFINE m == [l EXCEPT !.node = v.nodes[l.root], !.cache = <<v.nodes[l.root]>>]
  <2>2. Access("get_root", v, l, b) = Fine(v, m)
    <3>1. Access("get_root", v, l, b) = GetRoot(v, l, b)
      BY AccessIs
    <3> QED
      BY <3>1 DEF GetRoot
  <2>3. IsLocals(m) /\ m.node = v.nodes[l.root] /\ m.root = l.root
        /\ m.base = l.base /\ m.props = l.props
    BY DEF IsLocals, IsFunction
  <2> HIDE DEF m
  <2>7. AtCommit(b, <<"put_rev", "set_date", "stabilize", "delete_txn">>, m, v, H \cup {"nodes"}, t)
    BY <1>4, <2>3 DEF AtCommit, MayCommit, TxnRead, Same
  <2>8. At(b, Tail(todo), m, Written("get_root", v, v), H \cup PageOf("get_root", l), t)
    BY <2>1, <2>7, ReadPages DEF At
  <2> QED
    BY <2>1, <2>2, <2>3, <2>8, FineAdvances
<1>5. CASE /\ todo = <<"put_rev", "set_date", "stabilize", "delete_txn">>
           /\ Same(v, t) /\ MayCommit(b, l, H, t)
           /\ "nodes" \in H /\ l.node = t.nodes[t.txns[b.txn].root]
  <2>1. /\ Head(todo) = "put_rev"
        /\ Tail(todo) = <<"set_date", "stabilize", "delete_txn">>
        /\ Tail(todo) \in Seq(AccessNames)
    BY <1>5 DEF AccessNames
  <2> DEFINE m == [l EXCEPT !.rev = Len(v.revs), !.out = <<Len(v.revs)>>]
              x == [v EXCEPT !.revs = Append(@, [root |-> l.root, props |-> l.props])]
  <2>2. Access("put_rev", v, l, b) = Fine(x, m)
    <3>1. Access("put_rev", v, l, b) = PutRev(v, l, b)
      BY AccessIs
    <3> QED
      BY <3>1 DEF PutRev
  <2>3. IsLocals(m) /\ m.rev = Len(v.revs) /\ m.out = <<Len(v.revs)>>
        /\ m.root = l.root /\ m.base = l.base /\ m.props = l.props /\ m.node = l.node
    BY DEF IsLocals, IsFunction
  <2>4. x.revs = Append(v.revs, [root |-> l.root, props |-> l.props])
    BY DEF IsTables, IsFunction
  <2> HIDE DEF m, x
  <2>5. PICK w : w = Written("put_rev", x, v)
    OBVIOUS
  <2>6. /\ w.revs = x.revs
        /\ w.next = v.next /\ w.txns = v.txns /\ w.nodes = v.nodes
        /\ PageOf("put_rev", l) = {"revs"}
    BY <2>5, WriteRevs
  <2>7. AtCommit(b, <<"set_date", "stabilize", "delete_txn">>, m, w, H \cup {"revs"}, t)
    BY <1>5, <2>3, <2>4, <2>6 DEF AtCommit, MayCommit, TxnRead, NewRevision, Same
  <2>8. At(b, Tail(todo), m, Written("put_rev", x, v), H \cup PageOf("put_rev", l), t)
    BY <2>1, <2>5, <2>6, <2>7 DEF At
  <2> QED
    BY <2>1, <2>2, <2>3, <2>8, FineAdvances
<1>6. CASE /\ todo = <<"set_date", "stabilize", "delete_txn">>
           /\ MayCommit(b, l, H, t)
           /\ "nodes" \in H /\ l.node = t.nodes[t.txns[b.txn].root]
           /\ l.rev = Len(t.revs) /\ l.out = <<Len(t.revs)>>
           /\ v.revs = NewRevision(t.revs, t.txns[b.txn], t.txns[b.txn].props)
           /\ v.next = t.next /\ v.txns = t.txns /\ v.nodes = t.nodes
  <2>9. [v.revs EXCEPT ![l.rev + 1].props = Promise!SetProp(@, "date", "commit")] =
        NewRevision(t.revs, t.txns[b.txn],
                    Promise!SetProp(t.txns[b.txn].props, "date", "commit"))
    <3>1. PICK s, root, props : /\ s = t.revs /\ root = t.txns[b.txn].root
                                /\ props = t.txns[b.txn].props
      OBVIOUS
    <3>2. IsSeq(s) /\ l.rev = Len(s)
      BY <1>6, <3>1 DEF WellFormed, IsRevsTable
    <3>3. v.revs = Append(s, [root |-> root, props |-> props])
      BY <1>6, <3>1 DEF NewRevision
    <3>4. [v.revs EXCEPT ![Len(s) + 1].props = Promise!SetProp(@, "date", "commit")] =
          Append(s, [root |-> root,
                     props |-> Promise!SetProp(props, "date", "commit")])
      BY <3>2, <3>3, DatedRevision
    <3> QED
      BY <3>1, <3>2, <3>4 DEF NewRevision
  <2>1. /\ Head(todo) = "set_date"
        /\ Tail(todo) = <<"stabilize", "delete_txn">>
        /\ Tail(todo) \in Seq(AccessNames)
    BY <1>6 DEF AccessNames
  <2> DEFINE x == [v EXCEPT !.revs[l.rev + 1].props =
                               Promise!SetProp(@, "date", "commit")]
  <2>2. Access("set_date", v, l, b) = Fine(x, l)
    <3>1. Access("set_date", v, l, b) = SetRevDate(v, l, b)
      BY AccessIs
    <3> QED
      BY <3>1 DEF SetRevDate
  <2>4. x.revs = [v.revs EXCEPT ![l.rev + 1].props =
                        Promise!SetProp(@, "date", "commit")]
    BY DEF IsTables, IsFunction
  <2> HIDE DEF x
  <2>5. PICK w : w = Written("set_date", x, v)
    OBVIOUS
  <2>6. /\ w.revs = x.revs
        /\ w.next = v.next /\ w.txns = v.txns /\ w.nodes = v.nodes
        /\ PageOf("set_date", l) = {"revs"}
    BY <2>5, WriteRevs
  <2>7. AtCommit(b, <<"stabilize", "delete_txn">>, l, w, H \cup {"revs"}, t)
    BY <1>6, <2>9, <2>4, <2>6 DEF AtCommit, MayCommit, TxnRead
  <2>8. At(b, Tail(todo), l, Written("set_date", x, v), H \cup PageOf("set_date", l), t)
    BY <2>1, <2>5, <2>6, <2>7 DEF At
  <2> QED
    BY <2>1, <2>2, <2>8, FineAdvances
<1>7. CASE /\ todo = <<"stabilize", "delete_txn">>
           /\ MayCommit(b, l, H, t)
           /\ "nodes" \in H /\ l.node = t.nodes[t.txns[b.txn].root]
           /\ l.rev = Len(t.revs) /\ l.out = <<Len(t.revs)>>
           /\ v.revs = NewRevision(t.revs, t.txns[b.txn],
                       Promise!SetProp(t.txns[b.txn].props, "date", "commit"))
           /\ v.next = t.next /\ v.txns = t.txns /\ v.nodes = t.nodes
  <2>1. /\ Head(todo) = "stabilize"
        /\ Tail(todo) = <<"delete_txn">>
        /\ Tail(todo) \in Seq(AccessNames)
    BY <1>7 DEF AccessNames
  <2> DEFINE x == IF l.node.rev = Uncommitted
                   THEN [v EXCEPT !.nodes[l.root].rev = l.rev] ELSE v
  <2>2. Access("stabilize", v, l, b) = Fine(x, l)
    <3>1. Access("stabilize", v, l, b) = Stabilize(v, l, b)
      BY AccessIs
    <3> QED
      BY <3>1 DEF Stabilize
  <2>4. x.nodes = [t.nodes EXCEPT ![t.txns[b.txn].root].rev =
                         IF @ = Uncommitted THEN Len(t.revs) ELSE @]
    <3>1. CASE l.node.rev = Uncommitted
      <4>1. x.nodes = [v.nodes EXCEPT ![l.root].rev = l.rev]
        BY <3>1 DEF IsTables, IsFunction
      <4> QED
        BY <1>7, <3>1, <4>1 DEF MayCommit
    <3>2. CASE l.node.rev # Uncommitted
      <4>1. x.nodes = t.nodes
        BY <1>7, <3>2
      <4> QED
        BY <1>7, <3>2, <4>1 DEF WellFormed, IsNodesTable, IsFunction
    <3> QED
      BY <3>1, <3>2
  <2> HIDE DEF x
  <2>5. PICK w : w = Written("stabilize", x, v)
    OBVIOUS
  <2>6. /\ w.nodes = x.nodes
        /\ w.next = v.next /\ w.txns = v.txns /\ w.revs = v.revs
        /\ PageOf("stabilize", l) = {"nodes"}
    BY <2>5, WriteNodes
  <2>7. AtCommit(b, <<"delete_txn">>, l, w, H \cup {"nodes"}, t)
    BY <1>7, <2>4, <2>6 DEF AtCommit, MayCommit, TxnRead
  <2>8. At(b, Tail(todo), l, Written("stabilize", x, v), H \cup PageOf("stabilize", l), t)
    BY <2>1, <2>5, <2>6, <2>7 DEF At
  <2> QED
    BY <2>1, <2>2, <2>8, FineAdvances
<1>8. CASE /\ todo = <<"delete_txn">>
           /\ MayCommit(b, l, H, t) /\ "nodes" \in H /\ l.out = <<Len(t.revs)>>
           /\ v.revs = NewRevision(t.revs, t.txns[b.txn],
                       Promise!SetProp(t.txns[b.txn].props, "date", "commit"))
           /\ v.nodes = [t.nodes EXCEPT ![t.txns[b.txn].root].rev =
                         IF @ = Uncommitted THEN Len(t.revs) ELSE @]
           /\ v.next = t.next /\ v.txns = t.txns
  <2>1. /\ Head(todo) = "delete_txn"
        /\ Tail(todo) = <<>>
        /\ Tail(todo) \in Seq(AccessNames)
    <3>1. todo = <<"delete_txn">>
      BY <1>8, Zenon
    <3> QED
      BY <3>1 DEF AccessNames
  <2> DEFINE x == [v EXCEPT !.txns = Promise!Delete(@, b.txn)]
  <2>2. Access("delete_txn", v, l, b) = Fine(x, l)
    <3>1. Access("delete_txn", v, l, b) = DeleteTxn(v, l, b)
      BY AccessIs
    <3> QED
      BY <3>1 DEF DeleteTxn
  <2>4. x.next = v.next /\ x.txns = Promise!Delete(v.txns, b.txn)
    BY DEF IsTables, IsFunction
  <2> HIDE DEF x
  <2>5. PICK w : w = Written("delete_txn", x, v)
    OBVIOUS
  <2>6. /\ w.next = x.next /\ w.txns = x.txns
        /\ w.revs = v.revs /\ w.nodes = v.nodes
        /\ PageOf("delete_txn", l) = {"txns"}
    BY <2>5, WriteTxns
  <2>7. AtCommit(b, <<>>, l, w, H \cup {"txns"}, t)
    BY <1>8, <2>4, <2>6 DEF AtCommit, MayCommit, TxnRead
  <2>8. At(b, Tail(todo), l, Written("delete_txn", x, v), H \cup PageOf("delete_txn", l), t)
    BY <2>1, <2>5, <2>6, <2>7 DEF At
  <2> QED
    BY <2>1, <2>2, <2>8, FineAdvances
<1> QED
  BY <1>1, <1>2, <1>3, <1>4, <1>5, <1>6, <1>7, <1>8 DEF AtCommit

\* An access takes any body from one of its places to the next, or fails as
\* the body run at once would.
LEMMA StepAdvances ==
  ASSUME NEW b, NEW todo, NEW l, NEW v, NEW H, NEW t,
         At(b, todo, l, v, H, t), todo # <<>>,
         IsLocals(l), IsTables(v), WellFormed(t)
  PROVE  Advances(Head(todo), Tail(todo), b, l, v, H, t)
<1>1. IsTables(t)
  BY DEF WellFormed
<1> QED
  BY <1>1, YoungestStep, ListStep, BeginStep, RevpropStep, TxnpropStep, OpenStep,
     PrepareStep, FinishStep, AbortStep, CommitStep DEF At

-----------------------------------------------------------------------------
(* At its end a body has done what it is promised to do. *)

\* The outcome of a body is v and out.
Ends(b, t, v, out) == Promise!Effect(b, t) = Promise!Done(v, out)

\* Records with the same tables in them are the same.
LEMMA SameTables ==
  ASSUME NEW v, NEW w, IsTables(v), IsTables(w), Same(v, w)
  PROVE  v = w
BY DEF IsTables, IsFunction, Same

\* The end of each body: its effect is the promised one.
LEMMA YoungestEnds ==
  ASSUME NEW b, NEW l, NEW v, NEW H, NEW t,
         b.do = "youngest", AtYoungest(b, <<>>, l, v, H, t),
         IsTables(v), WellFormed(t)
  PROVE  Ends(b, t, v, l.out)
<1>1. Same(v, t) /\ l.out = <<Len(t.revs) - 1>>
  BY DEF AtYoungest
<1>2. v = t
  BY <1>1, SameTables DEF WellFormed
<1> QED
  BY <1>1, <1>2 DEF Ends, Promise!Effect, Promise!AboutTxn, Promise!BodyEffect,
                    Promise!Youngest

LEMMA ListEnds ==
  ASSUME NEW b, NEW l, NEW v, NEW H, NEW t,
         b.do = "list", AtList(b, <<>>, l, v, H, t), IsTables(v), WellFormed(t)
  PROVE  Ends(b, t, v, l.out)
<1>1. Same(v, t) /\ l.out = Promise!TxnNames(t.txns)
  BY DEF AtList
<1>2. v = t
  BY <1>1, SameTables DEF WellFormed
<1> QED
  BY <1>1, <1>2 DEF Ends, Promise!Effect, Promise!AboutTxn, Promise!BodyEffect

LEMMA OpenEnds ==
  ASSUME NEW b, NEW l, NEW v, NEW H, NEW t,
         b.do = "open", AtOpen(b, <<>>, l, v, H, t), IsTables(v), WellFormed(t)
  PROVE  Ends(b, t, v, l.out)
<1>1. /\ Same(v, t) /\ b.txn \in DOMAIN t.txns
      /\ l.out = <<b.txn, t.nodes[t.txns[b.txn].base].rev>>
  BY DEF AtOpen, TxnRead
<1>2. v = t
  BY <1>1, SameTables DEF WellFormed
<1> QED
  BY <1>1, <1>2 DEF Ends, Promise!Effect, Promise!AboutTxn, Promise!TxnEffect

LEMMA BeginEnds ==
  ASSUME NEW b, NEW l, NEW v, NEW H, NEW t,
         b.do = "begin", b.rev \in Int, AtBegin(b, <<>>, l, v, H, t),
         IsTables(v), WellFormed(t)
  PROVE  Ends(b, t, v, l.out)
<1>1. /\ b.rev \in 0..Promise!Youngest(t)
      /\ v.next = t.next + 1
      /\ v.txns = Promise!Put(t.txns, t.next,
                       [root  |-> t.revs[b.rev + 1].root,
                        base  |-> t.revs[b.rev + 1].root, props |-> <<>>])
      /\ v.revs = t.revs /\ v.nodes = t.nodes /\ l.out = <<t.next, b.rev>>
  <2>1. b.rev + 1 \in DOMAIN t.revs
    BY DEF AtBegin, RevRead
  <2>2. b.rev \in 0..Promise!Youngest(t)
    <3>1. DOMAIN t.revs = 1..Len(t.revs) /\ Len(t.revs) \in Nat
      BY DEF WellFormed, IsRevsTable, IsSeq
    <3> QED
      BY <2>1, <3>1 DEF Promise!Youngest
  <2> QED
    BY <2>2 DEF AtBegin
<1> DEFINE w == [t EXCEPT !.next = @ + 1,
                           !.txns = Promise!Put(@, t.next,
                                        [root  |-> t.revs[b.rev + 1].root,
                                         base  |-> t.revs[b.rev + 1].root,
                                         props |-> <<>>])]
<1>2. Promise!Effect(b, t) = Promise!Done(w, <<t.next, b.rev>>)
  BY <1>1 DEF Promise!Effect, Promise!AboutTxn, Promise!BodyEffect
<1>3. IsTables(w) /\ w.next = t.next + 1
      /\ w.txns = Promise!Put(t.txns, t.next,
                       [root  |-> t.revs[b.rev + 1].root,
                        base  |-> t.revs[b.rev + 1].root, props |-> <<>>])
      /\ w.revs = t.revs /\ w.nodes = t.nodes
  BY DEF WellFormed, IsTables, IsFunction
<1> HIDE DEF w
<1>4. v = w
  BY <1>1, <1>3, SameTables DEF Same
<1> QED
  BY <1>1, <1>2, <1>4 DEF Ends

LEMMA RevpropEnds ==
  ASSUME NEW b, NEW l, NEW v, NEW H, NEW t,
         b.do = "revprop", b.rev \in Int, AtRevprop(b, <<>>, l, v, H, t),
         IsTables(v), WellFormed(t)
  PROVE  Ends(b, t, v, l.out)
<1>1. /\ b.rev \in 0..Promise!Youngest(t)
      /\ v.revs = [t.revs EXCEPT ![b.rev + 1].props =
                      Promise!SetProp(@, b.name, b.value)]
      /\ v.next = t.next /\ v.txns = t.txns /\ v.nodes = t.nodes /\ l.out = <<>>
  BY NoSuchRevision DEF AtRevprop, RevRead
<1> DEFINE w == [t EXCEPT !.revs[b.rev + 1].props =
                              Promise!SetProp(@, b.name, b.value)]
<1>2. Promise!Effect(b, t) = Promise!Done(w, <<>>)
  BY <1>1 DEF Promise!Effect, Promise!AboutTxn, Promise!BodyEffect
<1>3. IsTables(w) /\ w.next = t.next /\ w.txns = t.txns /\ w.nodes = t.nodes
      /\ w.revs = [t.revs EXCEPT ![b.rev + 1].props =
                      Promise!SetProp(@, b.name, b.value)]
  BY DEF WellFormed, IsTables, IsFunction
<1> HIDE DEF w
<1>4. v = w
  BY <1>1, <1>3, SameTables DEF Same
<1> QED
  BY <1>1, <1>2, <1>4 DEF Ends

LEMMA FinishEnds ==
  ASSUME NEW b, NEW l, NEW v, NEW H, NEW t,
         b.do = "finish", AtFinish(b, <<>>, l, v, H, t),
         IsTables(v), WellFormed(t)
  PROVE  Ends(b, t, v, l.out)
<1>1. /\ b.node \in DOMAIN t.nodes /\ t.nodes[b.node].rev = Uncommitted
      /\ v.nodes = [t.nodes EXCEPT ![b.node].text = @ \cup {b.edit}]
      /\ v.next = t.next /\ v.txns = t.txns /\ v.revs = t.revs /\ l.out = <<>>
  BY DEF AtFinish
<1> DEFINE w == [t EXCEPT !.nodes[b.node].text = @ \cup {b.edit}]
<1>2. Promise!Effect(b, t) = Promise!Done(w, <<>>)
  BY <1>1 DEF Promise!Effect, Promise!AboutTxn, Promise!BodyEffect, Uncommitted,
                Promise!Uncommitted
<1>3. IsTables(w) /\ w.next = t.next /\ w.txns = t.txns /\ w.revs = t.revs
      /\ w.nodes = [t.nodes EXCEPT ![b.node].text = @ \cup {b.edit}]
  BY DEF WellFormed, IsTables, IsFunction
<1> HIDE DEF w
<1>4. v = w
  BY <1>1, <1>3, SameTables DEF Same
<1> QED
  BY <1>1, <1>2, <1>4 DEF Ends

LEMMA TxnpropEnds ==
  ASSUME NEW b, NEW l, NEW v, NEW H, NEW t,
         b.do = "txnprop", AtTxnprop(b, <<>>, l, v, H, t),
         IsTables(v), WellFormed(t)
  PROVE  Ends(b, t, v, l.out)
<1>1. /\ b.txn \in DOMAIN t.txns
      /\ v.txns = [t.txns EXCEPT ![b.txn].props =
                      Promise!SetProp(@, b.name, b.value)]
      /\ v.next = t.next /\ v.revs = t.revs /\ v.nodes = t.nodes /\ l.out = <<>>
  BY DEF AtTxnprop, TxnRead
<1> DEFINE w == [t EXCEPT !.txns[b.txn].props =
                              Promise!SetProp(@, b.name, b.value)]
<1>2. Promise!Effect(b, t) = Promise!Done(w, <<>>)
  BY <1>1 DEF Promise!Effect, Promise!AboutTxn, Promise!TxnEffect
<1>3. IsTables(w) /\ w.next = t.next /\ w.revs = t.revs /\ w.nodes = t.nodes
      /\ w.txns = [t.txns EXCEPT ![b.txn].props =
                      Promise!SetProp(@, b.name, b.value)]
  BY DEF WellFormed, IsTables, IsFunction
<1> HIDE DEF w
<1>4. v = w
  BY <1>1, <1>3, SameTables DEF Same
<1> QED
  BY <1>1, <1>2, <1>4 DEF Ends

LEMMA AbortEnds ==
  ASSUME NEW b, NEW l, NEW v, NEW H, NEW t,
         b.do = "abort", AtAbort(b, <<>>, l, v, H, t),
         IsTables(v), WellFormed(t)
  PROVE  Ends(b, t, v, l.out)
<1>1. /\ b.txn \in DOMAIN t.txns
      /\ v.nodes = IF t.nodes[t.txns[b.txn].root].rev = Uncommitted
                   THEN Promise!Delete(t.nodes, t.txns[b.txn].root) ELSE t.nodes
      /\ v.txns = Promise!Delete(t.txns, b.txn)
      /\ v.next = t.next /\ v.revs = t.revs /\ l.out = <<>>
  BY DEF AtAbort, TxnRead
<1> DEFINE w == [t EXCEPT
                   !.nodes = IF t.nodes[t.txns[b.txn].root].rev = Uncommitted
                             THEN Promise!Delete(@, t.txns[b.txn].root) ELSE @,
                   !.txns = Promise!Delete(@, b.txn)]
<1>2. Promise!Effect(b, t) = Promise!Done(w, <<>>)
  BY <1>1 DEF Promise!Effect, Promise!AboutTxn, Promise!TxnEffect, Uncommitted,
                Promise!Uncommitted
<1>3. IsTables(w) /\ w.next = t.next /\ w.revs = t.revs
      /\ w.txns = Promise!Delete(t.txns, b.txn)
      /\ w.nodes = IF t.nodes[t.txns[b.txn].root].rev = Uncommitted
                   THEN Promise!Delete(t.nodes, t.txns[b.txn].root) ELSE t.nodes
  BY DEF WellFormed, IsTables, IsFunction
<1> HIDE DEF w
<1>4. v = w
  BY <1>1, <1>3, SameTables DEF Same
<1> QED
  BY <1>1, <1>2, <1>4 DEF Ends

LEMMA CommitEnds ==
  ASSUME NEW b, NEW l, NEW v, NEW H, NEW t,
         b.do = "commit", AtCommit(b, <<>>, l, v, H, t),
         IsTables(v), WellFormed(t)
  PROVE  Ends(b, t, v, l.out)
<1>1. /\ b.txn \in DOMAIN t.txns
      /\ t.revs[Len(t.revs)].root = t.txns[b.txn].base
      /\ v.revs = Append(t.revs, [root |-> t.txns[b.txn].root,
                              props |-> Promise!SetProp(t.txns[b.txn].props,
                                                        "date", "commit")])
      /\ v.nodes = [t.nodes EXCEPT ![t.txns[b.txn].root].rev =
                       IF @ = Uncommitted THEN Len(t.revs) ELSE @]
      /\ v.txns = Promise!Delete(t.txns, b.txn)
      /\ v.next = t.next /\ l.out = <<Len(t.revs)>>
  BY DEF AtCommit, MayCommit, TxnRead, NewRevision
<1> DEFINE w == [t EXCEPT
                   !.revs = Append(@, [root |-> t.txns[b.txn].root,
                              props |-> Promise!SetProp(t.txns[b.txn].props,
                                                        "date", "commit")]),
                   !.nodes[t.txns[b.txn].root].rev =
                       IF @ = Uncommitted THEN Len(t.revs) ELSE @,
                   !.txns = Promise!Delete(@, b.txn)]
<1>2. Promise!Effect(b, t) = Promise!Done(w, <<Len(t.revs)>>)
  BY <1>1 DEF Promise!Effect, Promise!AboutTxn, Promise!TxnEffect, Uncommitted,
                Promise!Uncommitted
<1>3. IsTables(w) /\ w.next = t.next
      /\ w.revs = Append(t.revs, [root |-> t.txns[b.txn].root,
                              props |-> Promise!SetProp(t.txns[b.txn].props,
                                                        "date", "commit")])
      /\ w.nodes = [t.nodes EXCEPT ![t.txns[b.txn].root].rev =
                       IF @ = Uncommitted THEN Len(t.revs) ELSE @]
      /\ w.txns = Promise!Delete(t.txns, b.txn)
  BY DEF WellFormed, IsTables, IsFunction
<1> HIDE DEF w
<1>4. v = w
  BY <1>1, <1>3, SameTables DEF Same
<1> QED
  BY <1>1, <1>2, <1>4 DEF Ends

LEMMA PrepareEnds ==
  ASSUME NEW b, NEW l, NEW v, NEW H, NEW t,
         b.do = "prepare", AtPrepare(b, <<>>, l, v, H, t),
         IsTables(v), WellFormed(t)
  PROVE  Ends(b, t, v, l.out)
<1>1. b.txn \in DOMAIN t.txns
  BY DEF AtPrepare, TxnRead
<1>2. CASE t.txns[b.txn].root # t.txns[b.txn].base
  <2>1. Same(v, t) /\ l.out = <<t.txns[b.txn].root>>
    BY <1>2 DEF AtPrepare
  <2>2. v = t
    BY <2>1, SameTables DEF WellFormed
  <2> QED
    BY <1>1, <1>2, <2>1, <2>2
       DEF Ends, Promise!Effect, Promise!AboutTxn, Promise!TxnEffect
<1>3. CASE t.txns[b.txn].root = t.txns[b.txn].base
  <2> DEFINE n == Promise!FreshNode(t.nodes)
             w == [t EXCEPT !.txns[b.txn].root = n,
                            !.nodes = Promise!Put(@, n,
                                         [t.nodes[t.txns[b.txn].base] EXCEPT
                                             !.rev = Uncommitted])]
  <2>1. /\ l.out = <<n>> /\ v.nodes = WithSuccessor(t.nodes, t.txns[b.txn].base)
        /\ v.txns = [t.txns EXCEPT ![b.txn].root = n]
        /\ v.next = t.next /\ v.revs = t.revs
    BY <1>3 DEF AtPrepare
  <2>2. Promise!Effect(b, t) = Promise!Done(w, <<n>>)
    BY <1>1, <1>3 DEF Promise!Effect, Promise!AboutTxn, Promise!TxnEffect, Uncommitted,
                      Promise!Uncommitted
  <2>3. /\ IsTables(w) /\ w.next = t.next /\ w.revs = t.revs
        /\ w.txns = [t.txns EXCEPT ![b.txn].root = n]
        /\ w.nodes = WithSuccessor(t.nodes, t.txns[b.txn].base)
    BY DEF WellFormed, IsTables, IsFunction, WithSuccessor
  <2> HIDE DEF w, n
  <2>4. v = w
    BY <2>1, <2>3, SameTables DEF Same
  <2> QED
    BY <2>1, <2>2, <2>4 DEF Ends
<1> QED
  BY <1>2, <1>3

\* A body at its end has done what FsTables promises of it, run at once.
LEMMA BodyEnds ==
  ASSUME NEW b, NEW l, NEW v, NEW H, NEW t, At(b, <<>>, l, v, H, t),
         IsTables(v), WellFormed(t)
  PROVE  Promise!Effect(b, t) = Promise!Done(v, l.out)
BY YoungestEnds, ListEnds, BeginEnds, RevpropEnds, TxnpropEnds, OpenEnds,
   PrepareEnds, FinishEnds, AbortEnds, CommitEnds DEF At, Ends

-----------------------------------------------------------------------------
(* What others do does not disturb a trail. *)

KeepsCommitted(t, u) ==
    \A n \in DOMAIN t.nodes : t.nodes[n].rev # Uncommitted =>
        n \in DOMAIN u.nodes /\ u.nodes[n] = t.nodes[n]

\* The tables t became u, the trail with locks on the pages H saw v, sees w:
\* what it has locked is as it was, elsewhere it sees the tables.
Moved(H, t, u, v, w) ==
    /\ "txns" \in H => /\ u.next = t.next /\ u.txns = t.txns
                       /\ w.next = v.next /\ w.txns = v.txns
    /\ "revs" \in H => u.revs = t.revs /\ w.revs = v.revs
    /\ "nodes" \in H => u.nodes = t.nodes /\ w.nodes = v.nodes
    /\ "txns" \notin H => /\ w.next = u.next /\ w.txns = u.txns
                          /\ v.next = t.next /\ v.txns = t.txns
    /\ "revs" \notin H => w.revs = u.revs /\ v.revs = t.revs
    /\ "nodes" \notin H => w.nodes = u.nodes /\ v.nodes = t.nodes
    /\ KeepsCommitted(t, u)

\* What a trail has read under its locks stays true while others write.
LEMMA ReadsMoved ==
  ASSUME NEW b, NEW l, NEW H, NEW t, NEW u, NEW v, NEW w, Moved(H, t, u, v, w)
  PROVE  /\ Same(v, t) => Same(w, u)
         /\ RevRead(b, l, H, t) => RevRead(b, l, H, u)
         /\ TxnRead(b, l, H, t) => TxnRead(b, l, H, u)
         /\ MayCommit(b, l, H, t) => MayCommit(b, l, H, u)
         /\ CacheGood(b, l, H, t) => /\ CacheGood(b, l, H, u)
                                     /\ u.nodes[b.node] = t.nodes[b.node]
<1>1. Same(v, t) => Same(w, u)
  BY DEF Moved, Same
<1>2. RevRead(b, l, H, t) => RevRead(b, l, H, u)
  BY DEF Moved, RevRead
<1>3. TxnRead(b, l, H, t) => TxnRead(b, l, H, u)
  BY DEF Moved, TxnRead
<1>4. MayCommit(b, l, H, t) => MayCommit(b, l, H, u)
  BY DEF Moved, MayCommit, TxnRead
<1>5. CacheGood(b, l, H, t) => /\ CacheGood(b, l, H, u)
                               /\ u.nodes[b.node] = t.nodes[b.node]
  BY DEF Moved, CacheGood, KeepsCommitted
<1> QED
  BY <1>1, <1>2, <1>3, <1>4, <1>5

\* Each body stays at its place while others write.
LEMMA YoungestStays ==
  ASSUME NEW b, NEW todo, NEW l, NEW H, NEW t, NEW u, NEW v, NEW w,
         Moved(H, t, u, v, w), AtYoungest(b, todo, l, v, H, t)
  PROVE  AtYoungest(b, todo, l, w, H, u)
BY ReadsMoved DEF Moved, AtYoungest

LEMMA ListStays ==
  ASSUME NEW b, NEW todo, NEW l, NEW H, NEW t, NEW u, NEW v, NEW w,
         Moved(H, t, u, v, w), AtList(b, todo, l, v, H, t)
  PROVE  AtList(b, todo, l, w, H, u)
BY ReadsMoved DEF Moved, AtList

LEMMA BeginStays ==
  ASSUME NEW b, NEW todo, NEW l, NEW H, NEW t, NEW u, NEW v, NEW w,
         Moved(H, t, u, v, w), AtBegin(b, todo, l, v, H, t)
  PROVE  AtBegin(b, todo, l, w, H, u)
BY ReadsMoved DEF Moved, AtBegin, RevRead

LEMMA RevpropStays ==
  ASSUME NEW b, NEW todo, NEW l, NEW H, NEW t, NEW u, NEW v, NEW w,
         Moved(H, t, u, v, w), AtRevprop(b, todo, l, v, H, t)
  PROVE  AtRevprop(b, todo, l, w, H, u)
BY ReadsMoved DEF Moved, AtRevprop, RevRead

LEMMA TxnpropStays ==
  ASSUME NEW b, NEW todo, NEW l, NEW H, NEW t, NEW u, NEW v, NEW w,
         Moved(H, t, u, v, w), AtTxnprop(b, todo, l, v, H, t)
  PROVE  AtTxnprop(b, todo, l, w, H, u)
BY ReadsMoved DEF Moved, AtTxnprop, TxnRead

LEMMA OpenStays ==
  ASSUME NEW b, NEW todo, NEW l, NEW H, NEW t, NEW u, NEW v, NEW w,
         Moved(H, t, u, v, w), AtOpen(b, todo, l, v, H, t)
  PROVE  AtOpen(b, todo, l, w, H, u)
BY ReadsMoved DEF Moved, AtOpen, TxnRead

LEMMA PrepareStays ==
  ASSUME NEW b, NEW todo, NEW l, NEW H, NEW t, NEW u, NEW v, NEW w,
         Moved(H, t, u, v, w), AtPrepare(b, todo, l, v, H, t)
  PROVE  AtPrepare(b, todo, l, w, H, u)
<1>1. /\ Same(v, t) => Same(w, u)
      /\ TxnRead(b, l, H, t) => TxnRead(b, l, H, u) /\ "txns" \in H
  <2>1. Same(v, t) => Same(w, u)
    BY ReadsMoved
  <2>2. TxnRead(b, l, H, t) => TxnRead(b, l, H, u)
    BY ReadsMoved
  <2>3. TxnRead(b, l, H, t) => "txns" \in H
    BY DEF TxnRead
  <2> QED
    BY <2>1, <2>2, <2>3
<1>2. CASE "txns" \notin H
  BY <1>1, <1>2 DEF AtPrepare
<1>3. CASE "txns" \in H /\ "nodes" \notin H
  <2>1. u.txns = t.txns
    BY <1>3 DEF Moved
  <2> QED
    BY <1>1, <1>3, <2>1 DEF AtPrepare
<1>4. CASE "txns" \in H /\ "nodes" \in H
  <2>1. /\ u.txns = t.txns /\ u.next = t.next /\ u.nodes = t.nodes
        /\ w.txns = v.txns /\ w.next = v.next /\ w.nodes = v.nodes
        /\ v.revs = t.revs => w.revs = u.revs
    BY <1>4 DEF Moved
  <2> QED
    BY <1>1, <2>1 DEF AtPrepare
<1> QED
  BY <1>2, <1>3, <1>4

LEMMA FinishStays ==
  ASSUME NEW b, NEW todo, NEW l, NEW H, NEW t, NEW u, NEW v, NEW w,
         Moved(H, t, u, v, w), AtFinish(b, todo, l, v, H, t)
  PROVE  AtFinish(b, todo, l, w, H, u)
<1>1. /\ Same(v, t) => Same(w, u)
      /\ CacheGood(b, l, H, t) => /\ CacheGood(b, l, H, u)
                                  /\ u.nodes[b.node] = t.nodes[b.node]
  BY ReadsMoved
<1>2. CASE /\ todo = <<"get_node", "set_node">> /\ Same(v, t) /\ l.out = <<>>
           /\ l.cache = <<>> \/ CacheGood(b, l, H, t)
  BY <1>1, <1>2 DEF AtFinish
<1>3. CASE /\ todo = <<"set_node">> /\ Same(v, t) /\ l.out = <<>>
           /\ CacheGood(b, l, H, t) /\ l.node = t.nodes[b.node]
  BY <1>1, <1>3 DEF AtFinish
<1>4. CASE todo = <<>>
  BY <1>4 DEF AtFinish, Moved
<1> QED
  BY <1>2, <1>3, <1>4 DEF AtFinish

LEMMA AbortStays ==
  ASSUME NEW b, NEW todo, NEW l, NEW H, NEW t, NEW u, NEW v, NEW w,
         Moved(H, t, u, v, w), AtAbort(b, todo, l, v, H, t)
  PROVE  AtAbort(b, todo, l, w, H, u)
BY ReadsMoved DEF Moved, AtAbort, TxnRead

LEMMA CommitStays ==
  ASSUME NEW b, NEW todo, NEW l, NEW H, NEW t, NEW u, NEW v, NEW w,
         Moved(H, t, u, v, w), AtCommit(b, todo, l, v, H, t)
  PROVE  AtCommit(b, todo, l, w, H, u)
<1>1. /\ Same(v, t) => Same(w, u)
      /\ TxnRead(b, l, H, t) => TxnRead(b, l, H, u) /\ "txns" \in H
      /\ MayCommit(b, l, H, t) =>
            MayCommit(b, l, H, u) /\ "txns" \in H /\ "revs" \in H
  <2>1. Same(v, t) => Same(w, u)
    BY ReadsMoved
  <2>2. TxnRead(b, l, H, t) => TxnRead(b, l, H, u)
    BY ReadsMoved
  <2>3. MayCommit(b, l, H, t) => MayCommit(b, l, H, u)
    BY ReadsMoved
  <2>4. TxnRead(b, l, H, t) => "txns" \in H
    BY DEF TxnRead
  <2>5. MayCommit(b, l, H, t) => "revs" \in H /\ TxnRead(b, l, H, t)
    BY DEF MayCommit
  <2> QED
    BY <2>1, <2>2, <2>3, <2>4, <2>5
<1>2. CASE "revs" \notin H
  BY <1>1, <1>2 DEF AtCommit
<1>3. CASE "revs" \in H /\ "txns" \notin H
  <2>1. u.revs = t.revs
    BY <1>3 DEF Moved
  <2> QED
    BY <1>1, <1>3, <2>1 DEF AtCommit
<1>4. CASE "revs" \in H /\ "txns" \in H /\ "nodes" \notin H
  <2>1. u.revs = t.revs /\ u.txns = t.txns
    BY <1>4 DEF Moved
  <2> QED
    BY <1>1, <1>4, <2>1 DEF AtCommit
<1>5. CASE "revs" \in H /\ "txns" \in H /\ "nodes" \in H
  <2>1. /\ u.txns = t.txns /\ u.next = t.next /\ u.nodes = t.nodes
        /\ w.txns = v.txns /\ w.next = v.next /\ w.nodes = v.nodes
        /\ u.revs = t.revs /\ w.revs = v.revs
    BY <1>5 DEF Moved
  <2> QED
    BY <1>1, <2>1 DEF AtCommit
<1> QED
  BY <1>2, <1>3, <1>4, <1>5

\* A trail stays at its place while others write to pages it has not locked.
LEMMA TrailStays ==
  ASSUME NEW b, NEW todo, NEW l, NEW H, NEW t, NEW u, NEW v, NEW w,
         Moved(H, t, u, v, w), At(b, todo, l, v, H, t)
  PROVE  At(b, todo, l, w, H, u)
BY YoungestStays, ListStays, BeginStays, RevpropStays,
   TxnpropStays, OpenStays, PrepareStays, FinishStays,
   AbortStays, CommitStays DEF At

-----------------------------------------------------------------------------
(* A trail begins. *)

BodyNames == {"youngest", "list", "begin", "revprop", "txnprop", "open",
              "prepare", "finish", "abort", "commit"}

\* A body that can be begun with the record c in the cache.
BodyGood(b, c, t) ==
    /\ b.do \in BodyNames
    /\ b.do \in {"begin", "revprop"} => b.rev \in Int
    /\ b.do = "finish" /\ c # <<>> => /\ b.node \in DOMAIN t.nodes
                                     /\ c = <<t.nodes[b.node]>>
                                     /\ t.nodes[b.node].rev # Uncommitted

\* A body starts at its first place.
LEMMA TrailStarts ==
  ASSUME NEW b, NEW c, NEW t, NEW v, NEW H, Same(v, t), BodyGood(b, c, t)
  PROVE  /\ IsLocals([NoLocals EXCEPT !.cache = c])
         /\ At(b, Steps[b.do], [NoLocals EXCEPT !.cache = c], v, H, t)
<1> DEFINE l == [NoLocals EXCEPT !.cache = c]
<1>1. IsLocals(l) /\ l.cache = c /\ l.out = <<>>
  BY DEF NoLocals, IsLocals, IsFunction
<1> HIDE DEF l
<1>2. ASSUME b.do = "youngest"
     PROVE  At(b, Steps[b.do], l, v, H, t)
  BY <1>1, <1>2 DEF Steps, At, AtYoungest
<1>3. ASSUME b.do = "list"
     PROVE  At(b, Steps[b.do], l, v, H, t)
  BY <1>1, <1>3 DEF Steps, At, AtList
<1>4. ASSUME b.do = "begin"
     PROVE  At(b, Steps[b.do], l, v, H, t)
  BY <1>1, <1>4 DEF Steps, At, AtBegin, BodyGood
<1>5. ASSUME b.do = "revprop"
     PROVE  At(b, Steps[b.do], l, v, H, t)
  BY <1>1, <1>5 DEF Steps, At, AtRevprop, BodyGood
<1>6. ASSUME b.do = "txnprop"
     PROVE  At(b, Steps[b.do], l, v, H, t)
  BY <1>1, <1>6 DEF Steps, At, AtTxnprop
<1>7. ASSUME b.do = "open"
     PROVE  At(b, Steps[b.do], l, v, H, t)
  BY <1>1, <1>7 DEF Steps, At, AtOpen
<1>8. ASSUME b.do = "prepare"
     PROVE  At(b, Steps[b.do], l, v, H, t)
  BY <1>1, <1>8 DEF Steps, At, AtPrepare
<1>9. ASSUME b.do = "finish"
     PROVE  At(b, Steps[b.do], l, v, H, t)
  BY <1>1, <1>9 DEF Steps, At, AtFinish, BodyGood, CacheGood
<1>10. ASSUME b.do = "abort"
     PROVE  At(b, Steps[b.do], l, v, H, t)
  BY <1>1, <1>10 DEF Steps, At, AtAbort
<1>11. ASSUME b.do = "commit"
     PROVE  At(b, Steps[b.do], l, v, H, t)
  BY <1>1, <1>11 DEF Steps, At, AtCommit
<1>12. At(b, Steps[b.do], l, v, H, t)
  BY <1>2, <1>3, <1>4, <1>5, <1>6, <1>7, <1>8, <1>9, <1>10, <1>11
     DEF BodyGood, BodyNames
<1> QED
  BY <1>1, <1>12 DEF l


-----------------------------------------------------------------------------
(* What the bodies keep true of the tables, and what a body that has run   *)
(* leaves alone: committed nodes, the roots of revisions, the base of a    *)
(* transaction.                                                            *)

\* Every nonempty set of numbers has a least one.
LEMMA LeastNumber ==
  ASSUME NEW T \in SUBSET Nat, T # {}
  PROVE  \E n \in T : \A m \in T : n <= m
<1> DEFINE R == OpToRel(<, Nat)
<1>1. PICK n \in T : \A m \in T : ~ (<<m, n>> \in R)
  BY NatLessThanWellFounded, WFMin, Zenon
<1>2. R = {ss \in Nat \X Nat : ss[1] < ss[2]}
  BY Zenon DEF OpToRel
<1>3. \A m \in T : n <= m
  <2> TAKE m \in T
  <2>1. m \in Nat /\ n \in Nat
    OBVIOUS
  <2>2. ~ (m < n)
    BY <1>1, <1>2, <2>1
  <2> QED
    BY <2>1, <2>2
<1> QED
  BY <1>3

\* There is a key that is not in use, and it is the one that is chosen.
LEMMA FreshNodeFree ==
  ASSUME NEW nodes, NEW N \in Nat, DOMAIN nodes \subseteq 0..N
  PROVE  /\ Promise!FreshNode(nodes) \in Nat
         /\ Promise!FreshNode(nodes) <= N + 1
         /\ Promise!FreshNode(nodes) \notin DOMAIN nodes
<1> DEFINE T == {k \in Nat : \A n \in DOMAIN nodes : n < k}
           C == {0} \cup {m + 1 : m \in DOMAIN nodes}
<1>1. N + 1 \in T
  OBVIOUS
<1>2. PICK k \in T : \A j \in T : k <= j
  BY <1>1, LeastNumber
<1>3. k \notin DOMAIN nodes
  BY <1>2
<1>4. k \in C
  <2>1. CASE k = 0
    BY <2>1
  <2>2. CASE k # 0
    <3>1. k - 1 \in Nat /\ k - 1 \notin T
      BY <1>2, <2>2
    <3>2. PICK n \in DOMAIN nodes : ~ (n < k - 1)
      BY <3>1
    <3>3. n \in Nat /\ n < k
      BY <1>2
    <3>4. k = n + 1
      BY <3>1, <3>2, <3>3
    <3> QED
      BY <3>2, <3>4
  <2> QED
    BY <2>1, <2>2
<1>5. PICK f : f = Promise!FreshNode(nodes)
  OBVIOUS
<1>6. f \in C /\ f \notin DOMAIN nodes
  BY <1>3, <1>4, <1>5 DEF Promise!FreshNode
<1>7. \A x \in C : x \in Nat /\ x <= N + 1
  OBVIOUS
<1> QED
  BY <1>5, <1>6, <1>7

\* The members of Seq(S) are what the proofs call sequences.
LEMMA SequenceIs ==
  ASSUME NEW S, NEW s \in Seq(S)
  PROVE  IsSeq(s)
BY DEF IsSeq

\* A revision is added after the others (rev-table.c).
LEMMA RevsPut ==
  ASSUME NEW revs, IsRevsTable(revs), NEW e, IsFunction(e, {"root", "props"}),
         NEW new, new = Append(revs, e)
  PROVE  /\ IsRevsTable(new) /\ Len(new) = Len(revs) + 1
         /\ \A i \in 1..Len(revs) : new[i] = revs[i]
         /\ new[Len(revs) + 1] = e
<1> DEFINE S == {revs[i] : i \in DOMAIN revs}
<1>1. revs \in Seq(S) /\ Len(revs) \in Nat /\ Len(revs) >= 1
  BY DEF IsRevsTable, IsSeq
<1>2. /\ new \in Seq(S \cup {e}) /\ Len(new) = Len(revs) + 1
      /\ \A i \in 1..Len(revs) : new[i] = revs[i]
      /\ new[Len(revs) + 1] = e
  BY <1>1
<1> HIDE DEF S
<1>3. \A i \in 1..Len(new) : IsFunction(new[i], {"root", "props"})
  <2>1. \A i \in 1..Len(new) : i \in 1..Len(revs) \/ i = Len(revs) + 1
    BY <1>1, <1>2
  <2> QED
    BY <1>2, <2>1 DEF IsRevsTable
<1>4. IsSeq(new)
  BY <1>2, SequenceIs
<1> QED
  BY <1>1, <1>2, <1>3, <1>4 DEF IsRevsTable

\* A revision's record is rewritten with the same root.
LEMMA RevsChanged ==
  ASSUME NEW revs, IsRevsTable(revs), NEW k \in 1..Len(revs), NEW e, NEW new,
         IsFunction(e, {"root", "props"}), e.root = revs[k].root,
         new = [revs EXCEPT ![k] = e]
  PROVE  /\ IsRevsTable(new) /\ Len(new) = Len(revs)
         /\ \A i \in 1..Len(revs) : new[i].root = revs[i].root
<1> DEFINE S == {revs[i] : i \in DOMAIN revs}
<1>1. revs \in Seq(S) /\ Len(revs) \in Nat /\ Len(revs) >= 1
  BY DEF IsRevsTable, IsSeq
<1>2. /\ new \in Seq(S \cup {e}) /\ Len(new) = Len(revs)
      /\ \A i \in 1..Len(revs) : i # k => new[i] = revs[i]
      /\ new[k] = e
  BY <1>1
<1> HIDE DEF S
<1>4. \A i \in 1..Len(new) : IsFunction(new[i], {"root", "props"})
  BY <1>2 DEF IsRevsTable
<1>5. IsSeq(new)
  BY <1>2, SequenceIs
<1> QED
  BY <1>1, <1>2, <1>4, <1>5 DEF IsRevsTable

\* A table with one record changed.
LEMMA TableChanged ==
  ASSUME NEW table, IsFunction(table, DOMAIN table), NEW k \in DOMAIN table,
         NEW e, NEW new, new = [table EXCEPT ![k] = e]
  PROVE  /\ IsFunction(new, DOMAIN new) /\ DOMAIN new = DOMAIN table
         /\ new[k] = e
         /\ \A x \in DOMAIN table : x # k => new[x] = table[x]
BY DEF IsFunction

\* There is a revision, and they are numbered without gaps.
LEMMA RevsLen ==
  ASSUME NEW t, WellFormed(t)
  PROVE  /\ Len(t.revs) \in Nat /\ Len(t.revs) >= 1
         /\ DOMAIN t.revs = 1..Len(t.revs)
BY DEF WellFormed, IsRevsTable, IsSeq

\* What running a body never does: change a committed node, the root of a
\* revision or the base of a transaction, or name a new transaction as one
\* was named before.
Follows(t, v) ==
    /\ KeepsCommitted(t, v)
    /\ v.next >= t.next
    /\ Len(v.revs) >= Len(t.revs)
    /\ \A i \in 1..Len(t.revs) : v.revs[i].root = t.revs[i].root
    /\ \A x \in DOMAIN v.txns : x < t.next =>
          x \in DOMAIN t.txns /\ v.txns[x].base = t.txns[x].base

\* The root of a committed revision stays one.
LEMMA CommittedStays ==
  ASSUME NEW t, NEW v, NEW n, WellFormed(t), WellFormed(v), Follows(t, v),
         CommittedRoot(t, n)
  PROVE  CommittedRoot(v, n)
<1>1. PICK r : r = t.nodes[n].rev
  OBVIOUS
<1>2. /\ r \in Int /\ 0 <= r /\ r <= Len(t.revs) - 1 /\ r # Uncommitted
      /\ n \in DOMAIN t.nodes /\ t.revs[r + 1].root = n
      /\ Len(t.revs) \in Nat /\ Len(v.revs) \in Nat
  BY <1>1, RevsLen DEF CommittedRoot, Uncommitted
<1>3. n \in DOMAIN v.nodes /\ v.nodes[n].rev = r
  BY <1>1, <1>2 DEF Follows, KeepsCommitted
<1>4. r + 1 \in 1..Len(t.revs) /\ r \in 0..(Len(v.revs) - 1)
  BY <1>2 DEF Follows
<1>5. v.revs[r + 1].root = n
  BY <1>2, <1>4 DEF Follows
<1> QED
  BY <1>3, <1>4, <1>5 DEF CommittedRoot

\* A new transaction on a committed revision.
LEMMA BeginKeeps ==
  ASSUME NEW t, NEW v, NEW k, TablesInv(t), IsTables(v),
         k \in 1..Len(t.revs), v.next = t.next + 1,
         v.txns = Promise!Put(t.txns, t.next,
                      [root |-> t.revs[k].root, base |-> t.revs[k].root,
                       props |-> <<>>]),
         v.revs = t.revs, v.nodes = t.nodes
  PROVE  TablesInv(v) /\ Follows(t, v)
<1> DEFINE e == [root |-> t.revs[k].root, base |-> t.revs[k].root, props |-> <<>>]
<1>1. /\ IsFunction(e, {"root", "base", "props"})
      /\ e.root = t.revs[k].root /\ e.base = t.revs[k].root
  BY DEF IsFunction
<1>0. v.txns = Promise!Put(t.txns, t.next, e)
  OBVIOUS
<1> HIDE DEF e
<1>2. /\ IsFunction(v.txns, DOMAIN v.txns)
      /\ DOMAIN v.txns = DOMAIN t.txns \cup {t.next}
      /\ v.txns[t.next] = e
      /\ \A x \in DOMAIN t.txns : x # t.next => v.txns[x] = t.txns[x]
  BY <1>0 DEF Promise!Put, IsFunction
<1>3. /\ t.next \in Nat /\ v.next \in Nat
      /\ \A x \in DOMAIN t.txns : x \in Nat /\ x < t.next /\ x # t.next
      /\ t.next \notin DOMAIN t.txns
  BY DEF TablesInv, WellFormed, Bounded
<1>4. \A x \in DOMAIN t.txns : v.txns[x] = t.txns[x]
  BY <1>2, <1>3
<1>5. WellFormed(v)
  BY <1>1, <1>2, <1>3, <1>4 DEF TablesInv, WellFormed, IsTxnsTable
<1>6. Bounded(v)
  BY <1>2, <1>3 DEF TablesInv, Bounded
<1>7. Len(t.revs) \in Nat
  BY RevsLen DEF TablesInv
<1>8. Follows(t, v)
  <2>1. KeepsCommitted(t, v)
    BY DEF KeepsCommitted
  <2>2. v.next >= t.next /\ Len(v.revs) >= Len(t.revs)
    BY <1>3, <1>7
  <2>3. \A x \in DOMAIN v.txns : x < t.next => x \in DOMAIN t.txns
    BY <1>2, <1>3
  <2> QED
    BY <1>4, <2>1, <2>2, <2>3 DEF Follows
<1>9. \A n : CommittedRoot(v, n) <=> CommittedRoot(t, n)
  BY DEF CommittedRoot
<1>10. RootsCommitted(v)
  BY <1>1, <1>2, <1>4, <1>9 DEF TablesInv, RootsCommitted
<1>11. RootsPrivate(v)
  <2>1. v.txns[t.next].root = v.txns[t.next].base
    BY <1>1, <1>2
  <2>2. \A x \in DOMAIN t.txns : t.txns[x].root # t.txns[x].base =>
           t.txns[x].root # v.txns[t.next].root
    <3> SUFFICES ASSUME NEW x \in DOMAIN t.txns, t.txns[x].root # t.txns[x].base
                 PROVE  t.txns[x].root # t.revs[k].root
      BY <1>1, <1>2
    <3>1. t.nodes[t.txns[x].root].rev = Uncommitted
      BY DEF TablesInv, RootsPrivate
    <3>2. CommittedRoot(t, t.revs[k].root)
      BY DEF TablesInv, RootsCommitted
    <3>3. t.nodes[t.revs[k].root].rev # Uncommitted
      BY ONLY <1>7, <3>2 DEF CommittedRoot, Uncommitted
    <3> QED
      BY <3>1, <3>3
  <2>3. \A x \in DOMAIN v.txns : x \in DOMAIN t.txns \/ x = t.next
    BY <1>2
  <2>4. \A x \in DOMAIN v.txns : v.txns[x].root # v.txns[x].base =>
          /\ x \in DOMAIN t.txns /\ t.txns[x].root # t.txns[x].base
          /\ v.txns[x] = t.txns[x]
    BY <1>4, <2>1, <2>3
  <2>5. \A x \in DOMAIN v.txns : v.txns[x].root # v.txns[x].base =>
          /\ v.txns[x].root \in DOMAIN v.nodes
          /\ v.nodes[v.txns[x].root].rev = Uncommitted
    BY <2>4 DEF TablesInv, RootsPrivate
  <2>6. \A x, y \in DOMAIN v.txns :
          x # y /\ v.txns[x].root # v.txns[x].base =>
              v.txns[x].root # v.txns[y].root
    BY <1>4, <2>2, <2>3, <2>4 DEF TablesInv, RootsPrivate
  <2> QED
    BY <2>5, <2>6 DEF RootsPrivate
<1> QED
  BY <1>5, <1>6, <1>8, <1>10, <1>11 DEF TablesInv

\* A body that has only read.
LEMMA SameKeeps ==
  ASSUME NEW t, NEW v, TablesInv(t), IsTables(v), Same(v, t)
  PROVE  TablesInv(v) /\ Follows(t, v)
<1>1. v = t
  BY SameTables DEF TablesInv, WellFormed
<1>2. Len(t.revs) \in Nat /\ t.next \in Nat
  BY RevsLen DEF TablesInv, WellFormed
<1>3. Follows(t, t)
  BY <1>2 DEF Follows, KeepsCommitted
<1> QED
  BY <1>1, <1>3

\* A property of a revision, changed.
LEMMA RevpropKeeps ==
  ASSUME NEW t, NEW v, NEW k, NEW name, NEW value, TablesInv(t), IsTables(v),
         k \in 1..Len(t.revs),
         v.revs = [t.revs EXCEPT ![k].props = Promise!SetProp(@, name, value)],
         v.next = t.next, v.txns = t.txns, v.nodes = t.nodes
  PROVE  TablesInv(v) /\ Follows(t, v)
<1>1. IsRevsTable(t.revs) /\ Len(t.revs) \in Nat /\ t.next \in Nat
  BY RevsLen DEF TablesInv, WellFormed
<1>2. /\ IsRevsTable(v.revs) /\ Len(v.revs) = Len(t.revs)
      /\ \A i \in 1..Len(t.revs) : v.revs[i].root = t.revs[i].root
  <2> DEFINE e == [t.revs[k] EXCEPT !.props = Promise!SetProp(@, name, value)]
  <2>1. IsFunction(t.revs[k], {"root", "props"})
    BY <1>1 DEF IsRevsTable
  <2>2. IsFunction(e, {"root", "props"}) /\ e.root = t.revs[k].root
    BY <2>1 DEF IsFunction
  <2>3. v.revs = [t.revs EXCEPT ![k] = e]
    OBVIOUS
  <2> HIDE DEF e
  <2> QED
    BY <1>1, <2>2, <2>3, RevsChanged
<1>3. WellFormed(v) /\ Bounded(v)
  BY <1>2 DEF TablesInv, WellFormed, Bounded
<1>4. Follows(t, v)
  BY <1>1, <1>2 DEF Follows, KeepsCommitted
<1>5. \A n : CommittedRoot(t, n) => CommittedRoot(v, n)
  BY <1>3, <1>4, CommittedStays DEF TablesInv
<1>6. RootsCommitted(v)
  BY <1>2, <1>5 DEF TablesInv, RootsCommitted
<1>7. RootsPrivate(v)
  BY DEF TablesInv, RootsPrivate
<1> QED
  BY <1>3, <1>4, <1>6, <1>7 DEF TablesInv

\* A property of a transaction, changed.
LEMMA TxnpropKeeps ==
  ASSUME NEW t, NEW v, NEW k, NEW name, NEW value, TablesInv(t), IsTables(v),
         k \in DOMAIN t.txns,
         v.txns = [t.txns EXCEPT ![k].props = Promise!SetProp(@, name, value)],
         v.next = t.next, v.revs = t.revs, v.nodes = t.nodes
  PROVE  TablesInv(v) /\ Follows(t, v)
<1>1. Len(t.revs) \in Nat /\ t.next \in Nat
  BY RevsLen DEF TablesInv, WellFormed
<1>2. /\ IsTxnsTable(v.txns) /\ DOMAIN v.txns = DOMAIN t.txns
      /\ \A x \in DOMAIN t.txns : /\ v.txns[x].root = t.txns[x].root
                                  /\ v.txns[x].base = t.txns[x].base
  <2> DEFINE e == [t.txns[k] EXCEPT !.props = Promise!SetProp(@, name, value)]
  <2>1. IsTxnsTable(t.txns) /\ IsFunction(t.txns[k], {"root", "base", "props"})
    BY DEF TablesInv, WellFormed, IsTxnsTable
  <2>2. /\ IsFunction(e, {"root", "base", "props"})
        /\ e.root = t.txns[k].root /\ e.base = t.txns[k].base
    BY <2>1 DEF IsFunction
  <2>3. v.txns = [t.txns EXCEPT ![k] = e]
    OBVIOUS
  <2> HIDE DEF e
  <2>4. /\ IsFunction(v.txns, DOMAIN v.txns) /\ DOMAIN v.txns = DOMAIN t.txns
        /\ v.txns[k] = e
        /\ \A x \in DOMAIN t.txns : x # k => v.txns[x] = t.txns[x]
    BY <2>1, <2>3, TableChanged DEF IsTxnsTable
  <2> QED
    BY <2>1, <2>2, <2>4 DEF IsTxnsTable
<1>3. WellFormed(v) /\ Bounded(v)
  BY <1>2 DEF TablesInv, WellFormed, Bounded
<1>4. Follows(t, v)
  BY <1>1, <1>2 DEF Follows, KeepsCommitted
<1>5. \A n : CommittedRoot(t, n) => CommittedRoot(v, n)
  BY DEF CommittedRoot
<1>6. RootsCommitted(v)
  BY <1>2, <1>5 DEF TablesInv, RootsCommitted
<1>7. RootsPrivate(v)
  BY <1>2 DEF TablesInv, RootsPrivate
<1> QED
  BY <1>3, <1>4, <1>6, <1>7 DEF TablesInv

\* An edit, finished on a mutable node.
LEMMA FinishKeeps ==
  ASSUME NEW t, NEW v, NEW k, NEW edit, TablesInv(t), IsTables(v),
         k \in DOMAIN t.nodes, t.nodes[k].rev = Uncommitted,
         v.nodes = [t.nodes EXCEPT ![k].text = @ \cup {edit}],
         v.next = t.next, v.revs = t.revs, v.txns = t.txns
  PROVE  TablesInv(v) /\ Follows(t, v)
<1>1. Len(t.revs) \in Nat /\ t.next \in Nat
  BY RevsLen DEF TablesInv, WellFormed
<1>2. /\ IsNodesTable(v.nodes) /\ DOMAIN v.nodes = DOMAIN t.nodes
      /\ \A n \in DOMAIN t.nodes : /\ n # k => v.nodes[n] = t.nodes[n]
                                   /\ v.nodes[n].rev = t.nodes[n].rev
  <2> DEFINE e == [t.nodes[k] EXCEPT !.text = @ \cup {edit}]
  <2>1. IsNodesTable(t.nodes) /\ IsFunction(t.nodes[k], {"rev", "text"})
    BY DEF TablesInv, WellFormed, IsNodesTable
  <2>2. IsFunction(e, {"rev", "text"}) /\ e.rev = t.nodes[k].rev
    BY <2>1 DEF IsFunction
  <2>3. v.nodes = [t.nodes EXCEPT ![k] = e]
    OBVIOUS
  <2> HIDE DEF e
  <2>4. /\ IsFunction(v.nodes, DOMAIN v.nodes) /\ DOMAIN v.nodes = DOMAIN t.nodes
        /\ v.nodes[k] = e
        /\ \A n \in DOMAIN t.nodes : n # k => v.nodes[n] = t.nodes[n]
    BY <2>1, <2>3, TableChanged DEF IsNodesTable
  <2> QED
    BY <2>1, <2>2, <2>4 DEF IsNodesTable
<1>3. WellFormed(v) /\ Bounded(v)
  BY <1>2 DEF TablesInv, WellFormed, Bounded
<1>4. Follows(t, v)
  BY <1>1, <1>2 DEF Follows, KeepsCommitted
<1>5. \A n : CommittedRoot(t, n) => CommittedRoot(v, n)
  BY <1>2 DEF CommittedRoot
<1>6. RootsCommitted(v)
  BY <1>5 DEF TablesInv, RootsCommitted
<1>7. RootsPrivate(v)
  BY <1>2 DEF TablesInv, RootsPrivate
<1> QED
  BY <1>3, <1>4, <1>6, <1>7 DEF TablesInv

\* A transaction deleted with its mutable root, which is nobody else's.
LEMMA AbortKeeps ==
  ASSUME NEW t, NEW v, NEW k, TablesInv(t), IsTables(v), k \in DOMAIN t.txns,
         v.nodes = IF t.nodes[t.txns[k].root].rev = Uncommitted
                   THEN Promise!Delete(t.nodes, t.txns[k].root) ELSE t.nodes,
         v.txns = Promise!Delete(t.txns, k),
         v.next = t.next, v.revs = t.revs
  PROVE  TablesInv(v) /\ Follows(t, v)
<1>1. Len(t.revs) \in Nat /\ t.next \in Nat
  BY RevsLen DEF TablesInv, WellFormed
<1>2. PICK root : root = t.txns[k].root
  OBVIOUS
<1>3. /\ IsTxnsTable(v.txns) /\ DOMAIN v.txns = DOMAIN t.txns \ {k}
      /\ \A x \in DOMAIN v.txns : v.txns[x] = t.txns[x]
  <2>1. IsTxnsTable(t.txns)
    BY DEF TablesInv, WellFormed
  <2>2. /\ IsFunction(v.txns, DOMAIN v.txns) /\ DOMAIN v.txns = DOMAIN t.txns \ {k}
        /\ \A x \in DOMAIN v.txns : v.txns[x] = t.txns[x]
    BY DEF Promise!Delete, IsFunction
  <2> QED
    BY <2>1, <2>2 DEF IsTxnsTable
<1>4. /\ IsNodesTable(v.nodes) /\ DOMAIN v.nodes \subseteq DOMAIN t.nodes
      /\ \A n \in DOMAIN t.nodes :
            n # root \/ t.nodes[n].rev # Uncommitted =>
               n \in DOMAIN v.nodes /\ v.nodes[n] = t.nodes[n]
  <2>1. CASE t.nodes[root].rev = Uncommitted
    <3>1. v.nodes = Promise!Delete(t.nodes, root)
      BY <1>2, <2>1
    <3>2. IsNodesTable(t.nodes)
      BY DEF TablesInv, WellFormed
    <3>3. /\ IsFunction(v.nodes, DOMAIN v.nodes)
          /\ DOMAIN v.nodes = DOMAIN t.nodes \ {root}
          /\ \A n \in DOMAIN t.nodes : n # root => v.nodes[n] = t.nodes[n]
      BY <3>1 DEF Promise!Delete, IsFunction
    <3> QED
      BY <2>1, <3>2, <3>3 DEF IsNodesTable
  <2>2. CASE t.nodes[root].rev # Uncommitted
    BY <1>2, <2>2 DEF TablesInv, WellFormed
  <2> QED
    BY <2>1, <2>2
<1>5. WellFormed(v)
  BY <1>3, <1>4 DEF TablesInv, WellFormed
<1>6. Bounded(v)
  <2>1. PICK N \in Nat : DOMAIN t.nodes \subseteq 0..N
    BY DEF TablesInv, Bounded
  <2>2. DOMAIN v.nodes \subseteq 0..N
    BY <1>4, <2>1
  <2>3. \A x \in DOMAIN v.txns : x \in Nat /\ x < v.next
    BY <1>3 DEF TablesInv, Bounded
  <2> QED
    BY <2>2, <2>3 DEF Bounded
<1>7. Follows(t, v)
  <2>1. KeepsCommitted(t, v)
    BY <1>4 DEF KeepsCommitted
  <2>2. \A x \in DOMAIN v.txns :
           x \in DOMAIN t.txns /\ v.txns[x].base = t.txns[x].base
    BY <1>3
  <2> QED
    BY <1>1, <2>1, <2>2 DEF Follows
<1>8. \A n : CommittedRoot(t, n) => CommittedRoot(v, n)
  BY <1>5, <1>7, CommittedStays DEF TablesInv
<1>9. RootsCommitted(v)
  BY <1>3, <1>8 DEF TablesInv, RootsCommitted
<1>10. RootsPrivate(v)
  <2>1. \A x \in DOMAIN v.txns : v.txns[x].root # v.txns[x].base =>
          /\ x \in DOMAIN t.txns /\ v.txns[x] = t.txns[x]
          /\ t.txns[x].root \in DOMAIN t.nodes
          /\ t.nodes[t.txns[x].root].rev = Uncommitted
          /\ t.txns[x].root # root
    BY <1>2, <1>3 DEF TablesInv, RootsPrivate
  <2>2. \A x \in DOMAIN v.txns : v.txns[x].root # v.txns[x].base =>
          /\ v.txns[x].root \in DOMAIN v.nodes
          /\ v.nodes[v.txns[x].root].rev = Uncommitted
    BY <1>4, <2>1
  <2>3. \A x, y \in DOMAIN v.txns :
          x # y /\ v.txns[x].root # v.txns[x].base =>
              v.txns[x].root # v.txns[y].root
    BY <1>3 DEF TablesInv, RootsPrivate
  <2> QED
    BY <2>2, <2>3 DEF RootsPrivate
<1> QED
  BY <1>5, <1>6, <1>7, <1>9, <1>10 DEF TablesInv

\* A transaction with a new mutable root.
LEMMA PrepareKeeps ==
  ASSUME NEW t, NEW v, NEW k, TablesInv(t), IsTables(v), k \in DOMAIN t.txns,
         t.txns[k].root = t.txns[k].base,
         v.nodes = WithSuccessor(t.nodes, t.txns[k].base),
         v.txns = [t.txns EXCEPT ![k].root = Promise!FreshNode(t.nodes)],
         v.next = t.next, v.revs = t.revs
  PROVE  TablesInv(v) /\ Follows(t, v)
<1>1. Len(t.revs) \in Nat /\ t.next \in Nat
  BY RevsLen DEF TablesInv, WellFormed
<1>2. PICK base, new : base = t.txns[k].base /\ new = Promise!FreshNode(t.nodes)
  OBVIOUS
<1>3. PICK N \in Nat : DOMAIN t.nodes \subseteq 0..N
  BY DEF TablesInv, Bounded
<1>4. new \in Nat /\ new <= N + 1 /\ new \notin DOMAIN t.nodes
  BY <1>2, <1>3, FreshNodeFree
<1>5. base \in DOMAIN t.nodes /\ IsNodesTable(t.nodes) /\ IsTxnsTable(t.txns)
  BY <1>2 DEF TablesInv, WellFormed, RootsCommitted, CommittedRoot
<1>6. /\ IsNodesTable(v.nodes) /\ DOMAIN v.nodes = DOMAIN t.nodes \cup {new}
      /\ v.nodes[new].rev = Uncommitted
      /\ \A n \in DOMAIN t.nodes : v.nodes[n] = t.nodes[n]
  <2> DEFINE e == [t.nodes[base] EXCEPT !.rev = Uncommitted]
  <2>1. IsFunction(t.nodes[base], {"rev", "text"})
    BY <1>5 DEF IsNodesTable
  <2>2. IsFunction(e, {"rev", "text"}) /\ e.rev = Uncommitted
    BY <2>1 DEF IsFunction
  <2>3. v.nodes = Promise!Put(t.nodes, new, e)
    BY <1>2 DEF WithSuccessor
  <2> HIDE DEF e
  <2>4. /\ IsFunction(v.nodes, DOMAIN v.nodes)
        /\ DOMAIN v.nodes = DOMAIN t.nodes \cup {new} /\ v.nodes[new] = e
        /\ \A n \in DOMAIN t.nodes : n # new => v.nodes[n] = t.nodes[n]
    BY <2>3 DEF Promise!Put, IsFunction
  <2> QED
    BY <1>4, <1>5, <2>2, <2>4 DEF IsNodesTable
<1>7. /\ IsTxnsTable(v.txns) /\ DOMAIN v.txns = DOMAIN t.txns
      /\ v.txns[k].root = new /\ v.txns[k].base = base
      /\ \A x \in DOMAIN t.txns : x # k => v.txns[x] = t.txns[x]
  <2> DEFINE e == [t.txns[k] EXCEPT !.root = new]
  <2>1. IsFunction(t.txns[k], {"root", "base", "props"})
    BY <1>5 DEF IsTxnsTable
  <2>2. /\ IsFunction(e, {"root", "base", "props"})
        /\ e.root = new /\ e.base = base
    BY <1>2, <2>1 DEF IsFunction
  <2>3. v.txns = [t.txns EXCEPT ![k] = e]
    BY <1>2
  <2> HIDE DEF e
  <2>4. /\ IsFunction(v.txns, DOMAIN v.txns) /\ DOMAIN v.txns = DOMAIN t.txns
        /\ v.txns[k] = e
        /\ \A x \in DOMAIN t.txns : x # k => v.txns[x] = t.txns[x]
    BY <1>5, <2>3, TableChanged DEF IsTxnsTable
  <2> QED
    BY <1>5, <2>2, <2>4 DEF IsTxnsTable
<1>8. WellFormed(v)
  BY <1>6, <1>7 DEF TablesInv, WellFormed
<1>9. Bounded(v)
  <2>1. N + 1 \in Nat /\ DOMAIN v.nodes \subseteq 0..(N + 1)
    BY <1>3, <1>4, <1>6
  <2>2. \A x \in DOMAIN v.txns : x \in Nat /\ x < v.next
    BY <1>7 DEF TablesInv, Bounded
  <2> QED
    BY <2>1, <2>2 DEF Bounded
<1>10. Follows(t, v)
  <2>1. KeepsCommitted(t, v)
    BY <1>6 DEF KeepsCommitted
  <2>2. \A x \in DOMAIN v.txns : x \in DOMAIN t.txns
                                 /\ v.txns[x].base = t.txns[x].base
    BY <1>2, <1>7
  <2> QED
    BY <1>1, <2>1, <2>2 DEF Follows
<1>11. \A n : CommittedRoot(t, n) => CommittedRoot(v, n)
  BY <1>8, <1>10, CommittedStays DEF TablesInv
<1>12. RootsCommitted(v)
  BY <1>2, <1>7, <1>11 DEF TablesInv, RootsCommitted
<1>13. RootsPrivate(v)
  <2>1. \A x \in DOMAIN t.txns : t.txns[x].root \in DOMAIN t.nodes
    BY DEF TablesInv, RootsPrivate, RootsCommitted, CommittedRoot
  <2>2. \A x \in DOMAIN v.txns : v.txns[x].root # v.txns[x].base =>
          /\ v.txns[x].root \in DOMAIN v.nodes
          /\ v.nodes[v.txns[x].root].rev = Uncommitted
    <3> SUFFICES ASSUME NEW x \in DOMAIN v.txns, x # k,
                        v.txns[x].root # v.txns[x].base
                 PROVE  /\ v.txns[x].root \in DOMAIN v.nodes
                        /\ v.nodes[v.txns[x].root].rev = Uncommitted
      BY <1>6, <1>7
    <3> QED
      BY <1>6, <1>7 DEF TablesInv, RootsPrivate
  <2>3. ASSUME NEW x \in DOMAIN v.txns, NEW y \in DOMAIN v.txns, x # y,
               v.txns[x].root # v.txns[x].base
        PROVE  v.txns[x].root # v.txns[y].root
    <3>1. CASE x = k
      BY <1>4, <1>7, <2>1, <2>3, <3>1
    <3>2. CASE y = k
      BY <1>4, <1>7, <2>1, <2>3, <3>2
    <3>3. CASE x # k /\ y # k
      BY <1>7, <2>3, <3>3 DEF TablesInv, RootsPrivate
    <3> QED
      BY <3>1, <3>2, <3>3
  <2> QED
    BY <2>2, <2>3 DEF RootsPrivate
<1> QED
  BY <1>8, <1>9, <1>10, <1>12, <1>13 DEF TablesInv

\* A transaction turned into the youngest revision: the root it leaves behind
\* says the revision it is the root of.
LEMMA CommitKeeps ==
  ASSUME NEW t, NEW v, NEW k, NEW props, TablesInv(t), IsTables(v),
         k \in DOMAIN t.txns,
         v.revs = NewRevision(t.revs, t.txns[k], props),
         v.nodes = [t.nodes EXCEPT ![t.txns[k].root].rev =
                       IF @ = Uncommitted THEN Len(t.revs) ELSE @],
         v.txns = Promise!Delete(t.txns, k), v.next = t.next
  PROVE  TablesInv(v) /\ Follows(t, v)
<1>1. Len(t.revs) \in Nat /\ Len(t.revs) >= 1 /\ t.next \in Nat
  BY RevsLen DEF TablesInv, WellFormed
<1>2. PICK root, L : root = t.txns[k].root /\ L = Len(t.revs)
  OBVIOUS
<1>3. /\ root \in DOMAIN t.nodes
      /\ t.nodes[root].rev = Uncommitted \/ CommittedRoot(t, root)
  <2>1. CASE root = t.txns[k].base
    BY <2>1 DEF TablesInv, RootsCommitted, CommittedRoot
  <2>2. CASE root # t.txns[k].base
    BY <1>2, <2>2 DEF TablesInv, RootsPrivate
  <2> QED
    BY <2>1, <2>2
<1>4. /\ IsRevsTable(v.revs) /\ Len(v.revs) = L + 1
      /\ \A i \in 1..L : v.revs[i] = t.revs[i]
      /\ v.revs[L + 1].root = root
  <2>1. PICK e : e = [root |-> root, props |-> props]
    OBVIOUS
  <2>2. IsFunction(e, {"root", "props"}) /\ e.root = root
    BY <2>1 DEF IsFunction
  <2>3. IsRevsTable(t.revs) /\ v.revs = Append(t.revs, e)
    BY <1>2, <2>1 DEF NewRevision, TablesInv, WellFormed
  <2>4. /\ IsRevsTable(v.revs) /\ Len(v.revs) = Len(t.revs) + 1
        /\ \A i \in 1..Len(t.revs) : v.revs[i] = t.revs[i]
        /\ v.revs[Len(t.revs) + 1] = e
    BY ONLY <2>2, <2>3, RevsPut
  <2> QED
    BY <1>2, <2>2, <2>4
<1>5. /\ IsTxnsTable(v.txns) /\ DOMAIN v.txns = DOMAIN t.txns \ {k}
      /\ \A x \in DOMAIN v.txns : v.txns[x] = t.txns[x]
  <2>1. IsTxnsTable(t.txns)
    BY DEF TablesInv, WellFormed
  <2>2. /\ IsFunction(v.txns, DOMAIN v.txns) /\ DOMAIN v.txns = DOMAIN t.txns \ {k}
        /\ \A x \in DOMAIN v.txns : v.txns[x] = t.txns[x]
    BY DEF Promise!Delete, IsFunction
  <2> QED
    BY <2>1, <2>2 DEF IsTxnsTable
<1>6. /\ IsNodesTable(v.nodes) /\ DOMAIN v.nodes = DOMAIN t.nodes
      /\ \A n \in DOMAIN t.nodes : n # root => v.nodes[n] = t.nodes[n]
      /\ t.nodes[root].rev = Uncommitted => v.nodes[root].rev = L
      /\ t.nodes[root].rev # Uncommitted => v.nodes[root] = t.nodes[root]
  <2> DEFINE e == [t.nodes[root] EXCEPT !.rev = IF @ = Uncommitted THEN L ELSE @]
  <2>1. IsNodesTable(t.nodes) /\ IsFunction(t.nodes[root], {"rev", "text"})
    BY <1>3 DEF TablesInv, WellFormed, IsNodesTable
  <2>2. /\ IsFunction(e, {"rev", "text"})
        /\ t.nodes[root].rev = Uncommitted => e.rev = L
        /\ t.nodes[root].rev # Uncommitted => e = t.nodes[root]
    BY <2>1 DEF IsFunction
  <2>3. v.nodes = [t.nodes EXCEPT ![root] = e]
    BY <1>2
  <2> HIDE DEF e
  <2>4. /\ IsFunction(v.nodes, DOMAIN v.nodes) /\ DOMAIN v.nodes = DOMAIN t.nodes
        /\ v.nodes[root] = e
        /\ \A n \in DOMAIN t.nodes : n # root => v.nodes[n] = t.nodes[n]
    BY ONLY <1>3, <2>1, <2>3, TableChanged DEF IsNodesTable
  <2> QED
    BY <2>1, <2>2, <2>4 DEF IsNodesTable
<1>7. WellFormed(v)
  BY <1>4, <1>5, <1>6 DEF TablesInv, WellFormed
<1>8. Bounded(v)
  BY <1>5, <1>6 DEF TablesInv, Bounded
<1>9. Follows(t, v)
  <2>1. KeepsCommitted(t, v)
    BY <1>6 DEF KeepsCommitted
  <2>2. Len(v.revs) >= Len(t.revs) /\ v.next >= t.next
    BY <1>1, <1>2, <1>4
  <2>3. \A i \in 1..Len(t.revs) : v.revs[i].root = t.revs[i].root
    BY <1>2, <1>4
  <2> QED
    BY <1>5, <2>1, <2>2, <2>3 DEF Follows
<1>10. \A n : CommittedRoot(t, n) => CommittedRoot(v, n)
  BY <1>7, <1>9, CommittedStays DEF TablesInv
<1>11. CommittedRoot(v, root)
  <2>1. CASE t.nodes[root].rev = Uncommitted
    <3>1. v.nodes[root].rev = L /\ root \in DOMAIN v.nodes
      BY <1>3, <1>6, <2>1
    <3>2. L \in 0..(Len(v.revs) - 1)
      BY <1>1, <1>2, <1>4
    <3> QED
      BY <1>4, <3>1, <3>2 DEF CommittedRoot
  <2>2. CASE CommittedRoot(t, root)
    BY <1>10, <2>2
  <2> QED
    BY <1>3, <2>1, <2>2
<1>12. RootsCommitted(v)
  <2>1. \A i \in 1..Len(v.revs) : CommittedRoot(v, v.revs[i].root)
    <3> SUFFICES ASSUME NEW i \in 1..Len(v.revs)
                 PROVE  CommittedRoot(v, v.revs[i].root)
      OBVIOUS
    <3>1. i = L + 1 \/ i \in 1..L
      BY <1>1, <1>2, <1>4
    <3> QED
      BY <1>2, <1>4, <1>10, <1>11, <3>1 DEF TablesInv, RootsCommitted
  <2> QED
    BY <1>5, <1>10, <2>1 DEF TablesInv, RootsCommitted
<1>13. RootsPrivate(v)
  <2>1. \A x \in DOMAIN v.txns : v.txns[x].root # v.txns[x].base =>
          /\ t.txns[x].root \in DOMAIN t.nodes
          /\ t.nodes[t.txns[x].root].rev = Uncommitted
          /\ t.txns[x].root # root
    <3> SUFFICES ASSUME NEW x \in DOMAIN v.txns, v.txns[x].root # v.txns[x].base
                 PROVE  /\ t.txns[x].root \in DOMAIN t.nodes
                        /\ t.nodes[t.txns[x].root].rev = Uncommitted
                        /\ t.txns[x].root # root
      OBVIOUS
    <3>1. /\ x \in DOMAIN t.txns /\ x # k
          /\ t.txns[x].root # t.txns[x].base
      BY <1>5
    <3> QED
      BY <1>2, <3>1 DEF TablesInv, RootsPrivate
  <2>2. \A x \in DOMAIN v.txns : v.txns[x].root # v.txns[x].base =>
          /\ v.txns[x].root \in DOMAIN v.nodes
          /\ v.nodes[v.txns[x].root].rev = Uncommitted
    <3> SUFFICES ASSUME NEW x \in DOMAIN v.txns, v.txns[x].root # v.txns[x].base
                 PROVE  /\ v.txns[x].root \in DOMAIN v.nodes
                        /\ v.nodes[v.txns[x].root].rev = Uncommitted
      OBVIOUS
    <3>1. PICK n : n = t.txns[x].root
      OBVIOUS
    <3>2. n \in DOMAIN t.nodes /\ t.nodes[n].rev = Uncommitted /\ n # root
      BY <2>1, <3>1
    <3>3. n \in DOMAIN v.nodes /\ v.nodes[n] = t.nodes[n]
      BY <1>6, <3>2
    <3>4. v.txns[x].root = n
      BY <1>5, <3>1
    <3> QED
      BY <3>2, <3>3, <3>4
  <2>3. \A x, y \in DOMAIN v.txns :
          x # y /\ v.txns[x].root # v.txns[x].base =>
              v.txns[x].root # v.txns[y].root
    <3> SUFFICES ASSUME NEW x \in DOMAIN v.txns, NEW y \in DOMAIN v.txns, x # y,
                        v.txns[x].root # v.txns[x].base
                 PROVE  v.txns[x].root # v.txns[y].root
      OBVIOUS
    <3>1. /\ x \in DOMAIN t.txns /\ y \in DOMAIN t.txns
          /\ v.txns[x] = t.txns[x] /\ v.txns[y] = t.txns[y]
      BY <1>5
    <3>2. t.txns[x].root # t.txns[x].base
      BY <3>1
    <3>3. RootsPrivate(t) /\ x # y
      BY DEF TablesInv
    <3>4. t.txns[x].root # t.txns[y].root
      BY ONLY <3>1, <3>2, <3>3 DEF RootsPrivate
    <3> QED
      BY <3>1, <3>4
  <2> QED
    BY <2>2, <2>3 DEF RootsPrivate
<1> QED
  BY <1>7, <1>8, <1>9, <1>12, <1>13 DEF TablesInv

\* Whatever body has run, the invariant of the tables holds and what was
\* committed is as it was.
LEMMA BodyKeeps ==
  ASSUME NEW b, NEW l, NEW v, NEW H, NEW t, At(b, <<>>, l, v, H, t),
         IsTables(v), TablesInv(t)
  PROVE  TablesInv(v) /\ Follows(t, v)
<1>1. CASE Same(v, t)
  BY <1>1, SameKeeps
<1>2. CASE b.do = "begin" /\ b.rev \in Int /\ AtBegin(b, <<>>, l, v, H, t)
  <2>1. b.rev + 1 \in 1..Len(t.revs)
    BY <1>2, RevsLen DEF AtBegin, RevRead, TablesInv
  <2> QED
    BY <1>2, <2>1, BeginKeeps DEF AtBegin
<1>3. CASE b.do = "revprop" /\ b.rev \in Int /\ AtRevprop(b, <<>>, l, v, H, t)
  <2>1. b.rev + 1 \in 1..Len(t.revs)
    BY <1>3, RevsLen DEF AtRevprop, RevRead, TablesInv
  <2> QED
    BY <1>3, <2>1, RevpropKeeps DEF AtRevprop
<1>4. CASE AtTxnprop(b, <<>>, l, v, H, t)
  <2>1. b.txn \in DOMAIN t.txns
    BY <1>4 DEF AtTxnprop, TxnRead
  <2>2. /\ v.txns = [t.txns EXCEPT ![b.txn].props =
                         Promise!SetProp(@, b.name, b.value)]
        /\ v.next = t.next /\ v.revs = t.revs /\ v.nodes = t.nodes
    BY <1>4 DEF AtTxnprop
  <2>3. PICK k, name, value : k = b.txn /\ name = b.name /\ value = b.value
    OBVIOUS
  <2>4. /\ v.txns = [t.txns EXCEPT ![k].props = Promise!SetProp(@, name, value)]
        /\ k \in DOMAIN t.txns
    BY <2>1, <2>2, <2>3
  <2> QED
    BY <2>2, <2>4, TxnpropKeeps
<1>5. CASE AtPrepare(b, <<>>, l, v, H, t)
  <2>1. b.txn \in DOMAIN t.txns
    BY <1>5 DEF AtPrepare, TxnRead
  <2> QED
    BY <1>1, <1>5, <2>1, PrepareKeeps DEF AtPrepare
<1>6. CASE AtFinish(b, <<>>, l, v, H, t)
  BY <1>6, FinishKeeps DEF AtFinish
<1>7. CASE AtAbort(b, <<>>, l, v, H, t)
  <2>1. b.txn \in DOMAIN t.txns
    BY <1>7 DEF AtAbort, TxnRead
  <2> QED
    BY <1>7, <2>1, AbortKeeps DEF AtAbort
<1>8. CASE AtCommit(b, <<>>, l, v, H, t)
  <2>1. b.txn \in DOMAIN t.txns
    BY <1>8 DEF AtCommit, MayCommit, TxnRead
  <2> QED
    BY <1>8, <2>1, CommitKeeps DEF AtCommit
<1>9. CASE \/ AtYoungest(b, <<>>, l, v, H, t) \/ AtList(b, <<>>, l, v, H, t)
           \/ AtOpen(b, <<>>, l, v, H, t)
  BY <1>1, <1>9 DEF AtYoungest, AtList, AtOpen
<1> QED
  BY <1>2, <1>3, <1>4, <1>5, <1>6, <1>7, <1>8, <1>9 DEF At

-----------------------------------------------------------------------------
(* Handles. *)

\* A process has in hand a transaction and a revision with its base root.
HandleGood(h, t) ==
    h # <<>> =>
        /\ h = <<h[1], h[2]>> /\ h[1] \in Nat /\ h[1] < t.next
        /\ h[2] \in 0..(Len(t.revs) - 1)
        /\ h[1] \in DOMAIN t.txns =>
              t.revs[h[2] + 1].root = t.txns[h[1]].base

\* A transaction handle stays right when others' bodies run.
LEMMA HandleStays ==
  ASSUME NEW h, NEW t, NEW v, TablesInv(t), TablesInv(v), Follows(t, v),
         HandleGood(h, t)
  PROVE  HandleGood(h, v)
<1>1. /\ Len(t.revs) \in Nat /\ Len(v.revs) \in Nat
      /\ t.next \in Nat /\ v.next \in Nat
  BY RevsLen DEF TablesInv, WellFormed
<1> SUFFICES ASSUME h # <<>> PROVE HandleGood(h, v)
  BY DEF HandleGood
<1>2. PICK x, r : x = h[1] /\ r = h[2]
  OBVIOUS
<1>3. /\ h = <<x, r>> /\ x \in Nat /\ x < t.next /\ r \in Int /\ 0 <= r
      /\ r <= Len(t.revs) - 1
      /\ x \in DOMAIN t.txns => t.revs[r + 1].root = t.txns[x].base
  BY <1>1, <1>2 DEF HandleGood
<1>4. x < v.next /\ r \in 0..(Len(v.revs) - 1)
  BY <1>1, <1>3 DEF Follows
<1>5. r + 1 \in 1..Len(t.revs)
  BY <1>1, <1>3
<1>6. v.revs[r + 1].root = t.revs[r + 1].root
  BY <1>5 DEF Follows
<1>7. x \in DOMAIN v.txns => /\ x \in DOMAIN t.txns
                             /\ v.txns[x].base = t.txns[x].base
  BY <1>3 DEF Follows
<1> QED
  BY <1>2, <1>3, <1>4, <1>6, <1>7 DEF HandleGood

\* The handle that svn_fs_begin_txn returns is right.
LEMMA BeginHandle ==
  ASSUME NEW b, NEW l, NEW v, NEW H, NEW t, AtBegin(b, <<>>, l, v, H, t),
         b.rev \in Int, TablesInv(t)
  PROVE  HandleGood(l.out, v)
<1>1. /\ l.out = <<t.next, b.rev>> /\ v.next = t.next + 1 /\ v.revs = t.revs
      /\ b.rev + 1 \in DOMAIN t.revs
      /\ v.txns = Promise!Put(t.txns, t.next,
                      [root  |-> t.revs[b.rev + 1].root,
                       base  |-> t.revs[b.rev + 1].root, props |-> <<>>])
  BY DEF AtBegin, RevRead
<1>2. t.next \in Nat /\ Len(t.revs) \in Nat /\ DOMAIN t.revs = 1..Len(t.revs)
  BY RevsLen DEF TablesInv, WellFormed
<1>3. b.rev \in 0..(Len(v.revs) - 1) /\ t.next < v.next
  BY <1>1, <1>2
<1>4. v.txns[t.next].base = v.revs[b.rev + 1].root
  BY <1>1 DEF Promise!Put
<1>5. l.out[1] = t.next /\ l.out[2] = b.rev
  BY <1>1
<1> QED
  BY <1>1, <1>2, <1>3, <1>4, <1>5 DEF HandleGood

\* The handle that svn_fs_open_txn returns is right: the root of its base says
\* the revision that the transaction was begun on, or an older one with that root.
LEMMA OpenHandle ==
  ASSUME NEW b, NEW l, NEW v, NEW H, NEW t, AtOpen(b, <<>>, l, v, H, t),
         TablesInv(t)
  PROVE  HandleGood(l.out, v)
<1>1. PICK x, base, r : /\ x = b.txn /\ base = t.txns[x].base
                        /\ r = t.nodes[base].rev
  OBVIOUS
<1>2. x \in DOMAIN t.txns /\ l.out = <<x, r>> /\ Same(v, t)
  BY <1>1 DEF AtOpen, TxnRead
<1>3. /\ x \in Nat /\ x < t.next /\ CommittedRoot(t, base)
  BY <1>1, <1>2 DEF TablesInv, Bounded, RootsCommitted
<1>4. r \in 0..(Len(t.revs) - 1) /\ t.revs[r + 1].root = base
  BY <1>1, <1>3 DEF CommittedRoot
<1>5. l.out[1] = x /\ l.out[2] = r
  BY <1>2
<1> QED
  BY <1>1, <1>2, <1>3, <1>4, <1>5 DEF HandleGood, Same

-----------------------------------------------------------------------------
(* The inductive invariant. *)

\* The tables t with the pages m that a trail has written, the pages it has
\* locked, and the lock an access needs.
ViewOf(m, t) ==
    [next  |-> IF "txns" \in DOMAIN m THEN m["txns"][1] ELSE t.next,
     txns  |-> IF "txns" \in DOMAIN m THEN m["txns"][2] ELSE t.txns,
     revs  |-> IF "revs" \in DOMAIN m THEN m["revs"] ELSE t.revs,
     nodes |-> IF "nodes" \in DOMAIN m THEN m["nodes"] ELSE t.nodes]

HeldBy(lock) == {page \in Pages : lock[page] # "no"}

LockModes == {"no", "read", "write"}

\* A trail has written only to pages it has locked, and it is at a place of
\* its body; no trail, no locks.
TrailGood(tr, lock, t) ==
    /\ tr.on \in BOOLEAN
    /\ ~ tr.on => lock = Unlocked
    /\ tr.on => /\ IsFunction(tr, {"on", "body", "todo", "l", "mine"})
                /\ IsLocals(tr.l)
                /\ \A page \in DOMAIN tr.mine :
                      page \in Pages /\ lock[page] = "write"
                /\ At(tr.body, tr.todo, tr.l, ViewOf(tr.mine, t),
                      HeldBy(lock), t)

ProcGood(pr, tr, t) ==
    /\ IsFunction(pr, {"state", "nr", "handle", "reply"})
    /\ HandleGood(pr.handle, t)
    /\ pr.state = "idle" => ~ tr.on

\* A page that a trail may write to is locked by nobody else.
Apart(lock, other) ==
    \A page \in Pages : ~ (lock[page] = "write" /\ other[page] # "no")

LocksExclude ==
    \A p, q \in Procs : p # q => Apart(locks[p], locks[q])

StoreInv ==
    /\ TablesInv(tables)
    /\ IsFunction(trail, Procs) /\ IsFunction(proc, Procs)
    /\ locks \in [Procs -> [Pages -> LockModes]]
    /\ LocksExclude
    /\ \A p \in Procs : /\ TrailGood(trail[p], locks[p], tables)
                        /\ ProcGood(proc[p], trail[p], tables)

-----------------------------------------------------------------------------
(* Views and locks. *)

\* What a trail sees: the pages it has written, and the tables elsewhere.
LEMMA ViewIs ==
  ASSUME NEW m, NEW t
  PROVE  /\ IsTables(ViewOf(m, t))
         /\ "txns" \in DOMAIN m => /\ ViewOf(m, t).next = m["txns"][1]
                                   /\ ViewOf(m, t).txns = m["txns"][2]
         /\ "revs" \in DOMAIN m => ViewOf(m, t).revs = m["revs"]
         /\ "nodes" \in DOMAIN m => ViewOf(m, t).nodes = m["nodes"]
         /\ "txns" \notin DOMAIN m => /\ ViewOf(m, t).next = t.next
                                      /\ ViewOf(m, t).txns = t.txns
         /\ "revs" \notin DOMAIN m => ViewOf(m, t).revs = t.revs
         /\ "nodes" \notin DOMAIN m => ViewOf(m, t).nodes = t.nodes
BY DEF ViewOf, IsTables, IsFunction

\* A trail that has written nothing sees the tables.
LEMMA NothingWritten ==
  ASSUME NEW t
  PROVE  Same(ViewOf(<<>>, t), t)
<1>1. DOMAIN <<>> = {}
  OBVIOUS
<1> QED
  BY <1>1, ViewIs DEF Same

\* A page written again.
LEMMA ViewWritten ==
  ASSUME NEW a \in DOMAIN Writes, NEW m, NEW t, NEW x
  PROVE  LET new == Promise!Put(m, Writes[a], PageIn(x, Writes[a])) IN
         /\ Same(ViewOf(new, t), Written(a, x, ViewOf(m, t)))
         /\ IsTables(Written(a, x, ViewOf(m, t)))
<1> DEFINE page == Writes[a]
           new == Promise!Put(m, page, PageIn(x, page))
           v == ViewOf(m, t)
           w == ViewOf(new, t)
<1>1. page \in {"txns", "revs", "nodes"}
  BY DEF Writes
<1>2. /\ DOMAIN new = DOMAIN m \cup {page} /\ new[page] = PageIn(x, page)
      /\ \A k \in DOMAIN m : k # page => new[k] = m[k]
  BY DEF Promise!Put
<1> HIDE DEF new
<1>3. CASE page = "txns"
  <2>1. new["txns"] = <<x.next, x.txns>> /\ "txns" \in DOMAIN new
    BY <1>2, <1>3 DEF PageIn
  <2>2. w.next = x.next /\ w.txns = x.txns /\ w.revs = v.revs /\ w.nodes = v.nodes
    BY <1>2, <1>3, <2>1 DEF ViewOf
  <2>3. Written(a, x, v) = [next |-> x.next, txns |-> x.txns, revs |-> v.revs,
                            nodes |-> v.nodes]
    BY <1>3 DEF Written
  <2> HIDE DEF v, w
  <2> QED
    BY <2>2, <2>3 DEF Same, IsTables, IsFunction, new, w, v
<1>4. CASE page = "revs"
  <2>1. new["revs"] = x.revs /\ "revs" \in DOMAIN new
    BY <1>2, <1>4 DEF PageIn
  <2>2. w.next = v.next /\ w.txns = v.txns /\ w.revs = x.revs /\ w.nodes = v.nodes
    BY <1>2, <1>4, <2>1 DEF ViewOf
  <2>3. Written(a, x, v) = [next |-> v.next, txns |-> v.txns, revs |-> x.revs,
                            nodes |-> v.nodes]
    BY <1>4 DEF Written
  <2> HIDE DEF v, w
  <2> QED
    BY <2>2, <2>3 DEF Same, IsTables, IsFunction, new, w, v
<1>5. CASE page = "nodes"
  <2>1. new["nodes"] = x.nodes /\ "nodes" \in DOMAIN new
    BY <1>2, <1>5 DEF PageIn
  <2>2. w.next = v.next /\ w.txns = v.txns /\ w.revs = v.revs /\ w.nodes = x.nodes
    BY <1>2, <1>5, <2>1 DEF ViewOf
  <2>3. Written(a, x, v) = [next |-> v.next, txns |-> v.txns, revs |-> v.revs,
                            nodes |-> x.nodes]
    BY <1>5 DEF Written
  <2> HIDE DEF v, w
  <2> QED
    BY <2>2, <2>3 DEF Same, IsTables, IsFunction, new, w, v
<1> QED
  BY <1>1, <1>3, <1>4, <1>5

\* The trail with the pages m ends; what the one with the pages other sees on
\* the pages it has locked is still the same.
LEMMA OthersMoved ==
  ASSUME NEW m, NEW lock, NEW other, NEW otherLock, NEW t,
         \A page \in DOMAIN m : page \in Pages /\ lock[page] = "write",
         \A page \in DOMAIN other : page \in Pages /\ otherLock[page] = "write",
         Apart(lock, otherLock), KeepsCommitted(t, ViewOf(m, t))
  PROVE  Moved(HeldBy(otherLock), t, ViewOf(m, t), ViewOf(other, t),
               ViewOf(other, ViewOf(m, t)))
<1> DEFINE H == HeldBy(otherLock)
<1>1. \A page \in Pages : page \in H => page \notin DOMAIN m
  BY DEF HeldBy, Apart
<1>2. \A page \in Pages : page \notin H => page \notin DOMAIN other
  BY DEF HeldBy
<1>3. "txns" \in Pages /\ "revs" \in Pages /\ "nodes" \in Pages
  BY DEF Pages
<1> HIDE DEF H
<1>4. PICK u, v, w : /\ u = ViewOf(m, t) /\ v = ViewOf(other, t)
                     /\ w = ViewOf(other, u)
  OBVIOUS
<1>5. /\ "txns" \in H => u.next = t.next /\ u.txns = t.txns
      /\ "revs" \in H => u.revs = t.revs
      /\ "nodes" \in H => u.nodes = t.nodes
  BY <1>1, <1>3, <1>4, ViewIs
<1>6. /\ "txns" \notin H => /\ w.next = u.next /\ w.txns = u.txns
                            /\ v.next = t.next /\ v.txns = t.txns
      /\ "revs" \notin H => w.revs = u.revs /\ v.revs = t.revs
      /\ "nodes" \notin H => w.nodes = u.nodes /\ v.nodes = t.nodes
  BY <1>2, <1>3, <1>4, ViewIs
<1>7. /\ "txns" \in H => w.next = v.next /\ w.txns = v.txns
      /\ "revs" \in H => w.revs = v.revs
      /\ "nodes" \in H => w.nodes = v.nodes
  BY <1>4, <1>5, ViewIs
<1> QED
  BY <1>4, <1>5, <1>6, <1>7 DEF Moved, H

\* What an access that comes next wants.
WantedBy(a, l) ==
    CASE a = "get_node" /\ l.cache # <<>> -> <<"nodes", "no">>
      [] a \in DOMAIN Writes -> <<Writes[a], "write">>
      [] OTHER -> <<Reads[a], "read">>

Taken(lock, w) ==
    [lock EXCEPT ![w[1]] = IF @ = "write" \/ w[2] = "no" THEN @ ELSE w[2]]

\* The page and the mode an access asks for.
LEMMA WantedIs ==
  ASSUME NEW a \in AccessNames, NEW l
  PROVE  \E page \in Pages, mode \in LockModes :
            /\ WantedBy(a, l) = <<page, mode>>
            /\ a \in DOMAIN Writes <=> mode = "write"
            /\ a \in DOMAIN Writes => page = Writes[a]
            /\ PageOf(a, l) = IF mode = "no" THEN {} ELSE {page}
<1>1. CASE a = "get_node"
  <2>1. a \notin DOMAIN Writes /\ Reads[a] = "nodes"
    BY <1>1 DEF Writes, Reads
  <2>2. CASE l.cache # <<>>
    <3>1. WantedBy(a, l) = <<"nodes", "no">> /\ PageOf(a, l) = {}
      BY <1>1, <2>1, <2>2 DEF WantedBy, PageOf
    <3> QED
      BY <2>1, <3>1 DEF Pages, LockModes
  <2>3. CASE l.cache = <<>>
    <3>1. WantedBy(a, l) = <<"nodes", "read">> /\ PageOf(a, l) = {"nodes"}
      BY <1>1, <2>1, <2>3 DEF WantedBy, PageOf
    <3> QED
      BY <2>1, <3>1 DEF Pages, LockModes
  <2> QED
    BY <2>2, <2>3
<1>2. CASE a \in DOMAIN Writes
  <2>1. a # "get_node" /\ Writes[a] \in Pages
    BY <1>2 DEF Writes, Pages
  <2>2. WantedBy(a, l) = <<Writes[a], "write">> /\ PageOf(a, l) = {Writes[a]}
    BY <1>2, <2>1 DEF WantedBy, PageOf
  <2> QED
    BY <1>2, <2>1, <2>2 DEF LockModes
<1>3. CASE a # "get_node" /\ a \notin DOMAIN Writes
  <2>1. Reads[a] \in Pages
    BY <1>3 DEF AccessNames, Reads, Writes, Pages
  <2>2. WantedBy(a, l) = <<Reads[a], "read">> /\ PageOf(a, l) = {Reads[a]}
    BY <1>3 DEF WantedBy, PageOf
  <2> QED
    BY <1>3, <2>1, <2>2 DEF LockModes
<1> QED
  BY <1>1, <1>2, <1>3

\* What a trail has locked once it has the lock it waited for; trails that
\* were apart stay apart.
LEMMA LockTaken ==
  ASSUME NEW lock \in [Pages -> LockModes], NEW page \in Pages,
         NEW mode \in LockModes, NEW w, w = <<page, mode>>
  PROVE  /\ Taken(lock, w) \in [Pages -> LockModes]
         /\ HeldBy(Taken(lock, w)) =
               HeldBy(lock) \cup (IF mode = "no" THEN {} ELSE {page})
         /\ \A k \in Pages : lock[k] = "write" => Taken(lock, w)[k] = "write"
         /\ mode = "write" => Taken(lock, w)[page] = "write"
         /\ \A other \in [Pages -> LockModes] :
               /\ Apart(lock, other) /\ Apart(other, lock)
               /\ ~ Excludes(other[page], mode)
               => Apart(Taken(lock, w), other) /\ Apart(other, Taken(lock, w))
<1>1. PICK new : new = [lock EXCEPT ![page] = IF @ = "write" \/ mode = "no"
                                              THEN @ ELSE mode]
  OBVIOUS
<1>2. Taken(lock, w) = new
  BY <1>1 DEF Taken
<1>3. /\ new \in [Pages -> LockModes]
      /\ \A k \in Pages : k # page => new[k] = lock[k]
      /\ lock[page] = "write" \/ mode = "no" => new[page] = lock[page]
      /\ ~ (lock[page] = "write" \/ mode = "no") => new[page] = mode
  BY <1>1
<1>4. HeldBy(new) = HeldBy(lock) \cup (IF mode = "no" THEN {} ELSE {page})
  BY <1>3 DEF HeldBy
<1>5. \A k \in Pages : lock[k] = "write" => new[k] = "write"
  BY <1>3
<1>6. mode = "write" => new[page] = "write"
  BY <1>3
<1>7. ASSUME NEW other \in [Pages -> LockModes], Apart(lock, other),
             Apart(other, lock), ~ Excludes(other[page], mode)
      PROVE  Apart(new, other) /\ Apart(other, new)
  <2>1. ~ (new[page] = "write" /\ other[page] # "no")
    BY <1>3, <1>7 DEF Apart, Excludes
  <2>2. ~ (other[page] = "write" /\ new[page] # "no")
    BY <1>3, <1>7 DEF Apart, Excludes
  <2> QED
    BY <1>3, <1>7, <2>1, <2>2 DEF Apart
<1> QED
  BY <1>2, <1>3, <1>4, <1>5, <1>6, <1>7

\* What a trail has still to do.
LEMMA NextAccess ==
  ASSUME NEW b, NEW todo, NEW l, NEW v, NEW H, NEW t,
         At(b, todo, l, v, H, t), todo # <<>>
  PROVE  Head(todo) \in AccessNames
<1>1. CASE \/ AtYoungest(b, todo, l, v, H, t) \/ AtList(b, todo, l, v, H, t)
           \/ AtOpen(b, todo, l, v, H, t) \/ AtRevprop(b, todo, l, v, H, t)
           \/ AtTxnprop(b, todo, l, v, H, t) \/ AtFinish(b, todo, l, v, H, t)
  BY <1>1 DEF AtYoungest, AtList, AtOpen, AtRevprop, AtTxnprop, AtFinish,
              AccessNames
<1>2. CASE AtBegin(b, todo, l, v, H, t)
  BY <1>2 DEF AtBegin, AccessNames
<1>3. CASE AtPrepare(b, todo, l, v, H, t)
  BY <1>3 DEF AtPrepare, AccessNames
<1>4. CASE AtAbort(b, todo, l, v, H, t)
  BY <1>4 DEF AtAbort, AccessNames
<1>5. CASE AtCommit(b, todo, l, v, H, t)
  <2>1. \/ todo = <<"youngest", "get_txn", "check_base", "get_root", "put_rev",
                   "set_date", "stabilize", "delete_txn">>
        \/ todo = <<"get_txn", "check_base", "get_root", "put_rev",
                   "set_date", "stabilize", "delete_txn">>
        \/ todo = <<"check_base", "get_root", "put_rev",
                   "set_date", "stabilize", "delete_txn">>
        \/ todo = <<"get_root", "put_rev", "set_date", "stabilize", "delete_txn">>
        \/ todo = <<"put_rev", "set_date", "stabilize", "delete_txn">>
        \/ todo = <<"set_date", "stabilize", "delete_txn">>
        \/ todo = <<"stabilize", "delete_txn">>
        \/ todo = <<"delete_txn">>
    BY <1>5, Zenon DEF AtCommit
  <2>2. Head(todo) \in {"youngest", "get_txn", "check_base", "get_root",
                        "put_rev", "set_date", "stabilize", "delete_txn"}
    BY <2>1
  <2> QED
    BY <2>2 DEF AccessNames
<1> QED
  BY <1>1, <1>2, <1>3, <1>4, <1>5 DEF At

\* A trail that begins again, and the next trail of a call.
LEMMA BodyAgain ==
  ASSUME NEW b, NEW todo, NEW l, NEW v, NEW H, NEW t, At(b, todo, l, v, H, t),
         IsNodesTable(t.nodes)
  PROVE  BodyGood(b, UncacheNodeRevision(l.cache), t)
<1>1. /\ b.do \in BodyNames
      /\ b.do \in {"begin", "revprop"} => b.rev \in Int
      /\ b.do = "finish" => AtFinish(b, todo, l, v, H, t)
  BY DEF At, BodyNames
<1>2. ASSUME b.do = "finish", UncacheNodeRevision(l.cache) # <<>>
      PROVE  /\ b.node \in DOMAIN t.nodes
             /\ UncacheNodeRevision(l.cache) = <<t.nodes[b.node]>>
             /\ t.nodes[b.node].rev # Uncommitted
  <2>1. /\ l.cache # <<>> /\ l.cache[1].rev # Uncommitted
        /\ UncacheNodeRevision(l.cache) = l.cache
    BY <1>2 DEF UncacheNodeRevision
  <2>2. CASE CacheGood(b, l, H, t)
    BY <2>1, <2>2 DEF CacheGood
  <2>3. CASE /\ b.node \in DOMAIN t.nodes /\ t.nodes[b.node].rev = Uncommitted
             /\ v.nodes = [t.nodes EXCEPT ![b.node].text = @ \cup {b.edit}]
             /\ l.cache = <<v.nodes[b.node]>>
    <3>1. v.nodes[b.node].rev = Uncommitted
      BY <2>3 DEF IsNodesTable, IsFunction
    <3> QED
      BY <2>1, <2>3, <3>1
  <2> QED
    BY <1>1, <1>2, <2>1, <2>2, <2>3 DEF AtFinish
<1> QED
  BY <1>1, <1>2 DEF BodyGood

\* A body that follows another in the same call finds in the cache what the
\* first left in the table, if it was a committed node.
LEMMA NextBody ==
  ASSUME NEW p \in Procs, NEW b, NEW l, NEW v, NEW H, NEW t,
         At(b, <<>>, l, v, H, t), TablesInv(t),
         NEW next \in NextTrails(p, b, l.out)
  PROVE  BodyGood(next, UncacheNodeRevision(l.cache), v)
<1>1. CASE b.do = "youngest"
  <2>1. next = [do |-> "begin", rev |-> l.out[1]]
    BY <1>1 DEF NextTrails
  <2>2. l.out = <<Len(t.revs) - 1>>
    BY <1>1 DEF At, AtYoungest
  <2>3. Len(t.revs) \in Nat
    BY RevsLen DEF TablesInv
  <2>4. next.do = "begin" /\ next.rev \in Int
    BY <2>1, <2>2, <2>3
  <2> QED
    BY <2>4 DEF BodyGood, BodyNames
<1>2. CASE b.do = "begin"
  <2>1. next.do = "txnprop"
    BY <1>2 DEF NextTrails
  <2> QED
    BY <2>1 DEF BodyGood, BodyNames
<1>3. CASE b.do = "list"
  <2>1. next.do = "open"
    BY <1>3 DEF NextTrails
  <2> QED
    BY <2>1 DEF BodyGood, BodyNames
<1>4. CASE b.do = "prepare"
  <2>1. next.do = "finish"
    BY <1>4 DEF NextTrails
  <2>2. AtPrepare(b, <<>>, l, v, H, t)
    BY <1>4 DEF At
  <2>3. PICK x, n, base : /\ x = b.txn /\ n = Promise!FreshNode(t.nodes)
                          /\ base = t.txns[x].base
    OBVIOUS
  <2>4. x \in DOMAIN t.txns
    BY <2>2, <2>3 DEF AtPrepare, TxnRead
  <2>5. CASE /\ t.txns[x].root # base /\ l.cache = <<t.nodes[t.txns[x].root]>>
    <3>1. t.nodes[t.txns[x].root].rev = Uncommitted
      BY <2>3, <2>4, <2>5 DEF TablesInv, RootsPrivate
    <3>2. UncacheNodeRevision(l.cache) = <<>>
      BY <2>5, <3>1 DEF UncacheNodeRevision
    <3> QED
      BY <2>1, <3>2 DEF BodyGood, BodyNames
  <2>6. CASE /\ v.nodes = WithSuccessor(t.nodes, base)
             /\ l.cache = <<v.nodes[n]>>
    <3>1. IsFunction(t.nodes[base], {"rev", "text"})
      BY <2>3, <2>4 DEF TablesInv, RootsCommitted, CommittedRoot, WellFormed,
                        IsNodesTable
    <3>2. v.nodes[n] = [t.nodes[base] EXCEPT !.rev = Uncommitted]
      BY <2>3, <2>6 DEF WithSuccessor, Promise!Put
    <3>3. v.nodes[n].rev = Uncommitted
      BY <3>1, <3>2 DEF IsFunction
    <3>4. UncacheNodeRevision(l.cache) = <<>>
      BY <2>6, <3>3 DEF UncacheNodeRevision
    <3> QED
      BY <2>1, <3>4 DEF BodyGood, BodyNames
  <2> QED
    BY <2>2, <2>3, <2>5, <2>6 DEF AtPrepare
<1>5. b.do \in {"youngest", "begin", "list", "prepare"}
  BY DEF NextTrails
<1> QED
  BY <1>1, <1>2, <1>3, <1>4, <1>5

\* A trail that has just begun, and no trail.
LEMMA BeginGood ==
  ASSUME NEW b, NEW c, NEW t, BodyGood(b, c, t)
  PROVE  TrailGood(BeginTrail(b, c), Unlocked, t)
<1>1. PICK tr, l : tr = BeginTrail(b, c) /\ l = [NoLocals EXCEPT !.cache = c]
  OBVIOUS
<1>2. /\ IsFunction(tr, {"on", "body", "todo", "l", "mine"})
      /\ tr.on = TRUE /\ tr.body = b /\ tr.todo = Steps[b.do] /\ tr.l = l
      /\ tr.mine = <<>> /\ DOMAIN tr.mine = {}
  <2>1. PICK todo : todo = Steps[b.do]
    OBVIOUS
  <2>2. tr = [on |-> TRUE, body |-> b, todo |-> todo, l |-> l, mine |-> <<>>]
    BY <1>1, <2>1 DEF BeginTrail
  <2>3. IsFunction(tr, {"on", "body", "todo", "l", "mine"})
    BY <2>2 DEF IsFunction
  <2> QED
    BY <2>1, <2>2, <2>3
<1>3. Same(ViewOf(<<>>, t), t)
  BY NothingWritten
<1>4. /\ IsLocals(l)
      /\ At(b, Steps[b.do], l, ViewOf(<<>>, t), HeldBy(Unlocked), t)
  BY <1>1, <1>3, TrailStarts
<1>5. TrailGood(tr, Unlocked, t)
  BY <1>2, <1>4 DEF TrailGood
<1> QED
  BY <1>1, <1>5

\* Between calls there is no trail.
LEMMA NoTrailGood ==
  ASSUME NEW t
  PROVE  TrailGood(NoTrail, Unlocked, t) /\ ~ NoTrail.on
BY DEF TrailGood, NoTrail

\* No locks exclude nobody.
LEMMA UnlockedApart ==
  ASSUME NEW lock
  PROVE  /\ Unlocked \in [Pages -> LockModes]
         /\ Apart(Unlocked, lock) /\ Apart(lock, Unlocked)
BY DEF Unlocked, Apart, LockModes

-----------------------------------------------------------------------------
(* Each action keeps the invariant. *)

\* An action of one process.
LEMMA OneActs ==
  ASSUME StoreInv, NEW p \in Procs, NEW tr, NEW lock, NEW pr, NEW u,
         trail' = [trail EXCEPT ![p] = tr],
         locks' = [locks EXCEPT ![p] = lock],
         proc' = [proc EXCEPT ![p] = pr],
         tables' = u,
         TablesInv(u), lock \in [Pages -> LockModes],
         \A q \in Procs : q # p =>
             /\ Apart(lock, locks[q]) /\ Apart(locks[q], lock)
             /\ TrailGood(trail[q], locks[q], u)
             /\ ProcGood(proc[q], trail[q], u),
         TrailGood(tr, lock, u), ProcGood(pr, tr, u)
  PROVE  StoreInv'
<1>1. /\ IsFunction(trail, Procs) /\ IsFunction(proc, Procs)
      /\ locks \in [Procs -> [Pages -> LockModes]] /\ LocksExclude
  BY DEF StoreInv
<1>2. IsFunction(trail', Procs) /\ trail'[p] = tr
      /\ \A q \in Procs : q # p => trail'[q] = trail[q]
  BY <1>1 DEF IsFunction
<1>3. IsFunction(proc', Procs) /\ proc'[p] = pr
      /\ \A q \in Procs : q # p => proc'[q] = proc[q]
  BY <1>1 DEF IsFunction
<1>4. locks' \in [Procs -> [Pages -> LockModes]] /\ locks'[p] = lock
      /\ \A q \in Procs : q # p => locks'[q] = locks[q]
  BY <1>1
<1>5. LocksExclude'
  BY <1>1, <1>4 DEF LocksExclude
<1>6. \A q \in Procs : /\ TrailGood(trail'[q], locks'[q], u)
                       /\ ProcGood(proc'[q], trail'[q], u)
  BY <1>2, <1>3, <1>4
<1> QED
  BY <1>2, <1>3, <1>4, <1>5, <1>6 DEF StoreInv

\* The first revision is the root of an empty tree.
LEMMA InitInv ==
  ASSUME Init
  PROVE  StoreInv
<1>1. TablesInv(tables)
  <2>1. tables = Promise!EmptyTables
    BY DEF Init
  <2>2. /\ IsTables(tables) /\ tables.next = 0 /\ tables.txns = <<>>
        /\ tables.revs = <<[root |-> 0, props |-> <<>>]>>
        /\ tables.nodes = [n \in {0} |-> [rev |-> 0, text |-> {}]]
    BY <2>1 DEF Promise!EmptyTables, IsTables, IsFunction
  <2>3. IsTxnsTable(tables.txns) /\ DOMAIN tables.txns = {}
    BY <2>2 DEF IsTxnsTable, IsFunction
  <2>4. /\ IsNodesTable(tables.nodes) /\ DOMAIN tables.nodes = {0}
        /\ tables.nodes[0].rev = 0
    BY <2>2 DEF IsNodesTable, IsFunction
  <2>5. /\ Len(tables.revs) = 1 /\ tables.revs[1].root = 0
        /\ tables.revs \in Seq({[root |-> 0, props |-> <<>>]})
        /\ tables.revs[1] = [root |-> 0, props |-> <<>>]
    BY <2>2
  <2>6. IsRevsTable(tables.revs)
    <3>1. IsFunction(tables.revs[1], {"root", "props"})
      BY <2>5 DEF IsFunction
    <3> QED
      BY <2>5, <3>1, SequenceIs DEF IsRevsTable
  <2>7. WellFormed(tables)
    BY <2>2, <2>3, <2>4, <2>6 DEF WellFormed
  <2>8. Bounded(tables)
    <3>1. DOMAIN tables.nodes \subseteq 0..0
      BY <2>4
    <3> QED
      BY <2>3, <3>1 DEF Bounded
  <2>9. RootsCommitted(tables) /\ RootsPrivate(tables)
    BY <2>3, <2>4, <2>5 DEF RootsCommitted, CommittedRoot, RootsPrivate
  <2> QED
    BY <2>7, <2>8, <2>9 DEF TablesInv
<1>2. IsFunction(trail, Procs) /\ IsFunction(proc, Procs)
  BY DEF Init, IsFunction
<1>3. /\ locks \in [Procs -> [Pages -> LockModes]]
      /\ \A p \in Procs : locks[p] = Unlocked
  BY DEF Init, Unlocked, LockModes
<1>4. LocksExclude
  BY <1>3, UnlockedApart DEF LocksExclude
<1>5. \A p \in Procs : trail[p] = NoTrail /\ proc[p] = Idle
  BY DEF Init
<1>6. /\ IsFunction(Idle, {"state", "nr", "handle", "reply"})
      /\ Idle.handle = <<>>
  BY DEF Idle, IsFunction
<1>7. ProcGood(Idle, NoTrail, tables)
  BY <1>6, NoTrailGood DEF ProcGood, HandleGood
<1> QED
  BY <1>1, <1>2, <1>3, <1>4, <1>5, <1>7, NoTrailGood DEF StoreInv

\* What stays true of the others when the tables do not change.
LEMMA OthersKept ==
  ASSUME StoreInv, NEW p \in Procs
  PROVE  \A q \in Procs : q # p =>
             /\ Apart(locks[p], locks[q]) /\ Apart(locks[q], locks[p])
             /\ TrailGood(trail[q], locks[q], tables)
             /\ ProcGood(proc[q], trail[q], tables)
BY DEF StoreInv, LocksExclude

\* The first body of a call starts with an empty cache.
LEMMA FirstBody ==
  ASSUME NEW p \in Procs, NEW call \in Calls, NEW t
  PROVE  BodyGood(FirstTrail(p, call), <<>>, t)
<1>1. call \in {"begin", "open", "edit", "log", "commit", "abort", "revprop"}
  BY CallsAssumption
<1>2. CASE call = "begin"
  <2>1. FirstTrail(p, call).do = "youngest"
    BY <1>2 DEF FirstTrail
  <2> QED
    BY <2>1 DEF BodyGood, BodyNames
<1>3. CASE call = "open"
  <2>1. FirstTrail(p, call).do = "list"
    BY <1>3 DEF FirstTrail
  <2> QED
    BY <2>1 DEF BodyGood, BodyNames
<1>4. CASE call = "edit"
  <2>1. FirstTrail(p, call).do = "prepare"
    BY <1>4 DEF FirstTrail
  <2> QED
    BY <2>1 DEF BodyGood, BodyNames
<1>5. CASE call = "log"
  <2>1. FirstTrail(p, call).do = "txnprop"
    BY <1>5 DEF FirstTrail
  <2> QED
    BY <2>1 DEF BodyGood, BodyNames
<1>6. CASE call = "commit"
  <2>1. FirstTrail(p, call).do = "commit"
    BY <1>6 DEF FirstTrail
  <2> QED
    BY <2>1 DEF BodyGood, BodyNames
<1>7. CASE call = "abort"
  <2>1. FirstTrail(p, call).do = "abort"
    BY <1>7 DEF FirstTrail
  <2> QED
    BY <2>1 DEF BodyGood, BodyNames
<1>8. CASE call = "revprop"
  <2>1. FirstTrail(p, call).do = "revprop" /\ FirstTrail(p, call).rev = 0
    BY <1>8 DEF FirstTrail
  <2> QED
    BY <2>1 DEF BodyGood, BodyNames
<1> QED
  BY <1>1, <1>2, <1>3, <1>4, <1>5, <1>6, <1>7, <1>8

\* A call begins its first trail.
LEMMA CallInv ==
  ASSUME StoreInv, NEW p \in Procs, NEW call \in Calls, Call(p, call)
  PROVE  StoreInv'
<1>1. PICK tr : tr = BeginTrail(FirstTrail(p, call), <<>>)
  OBVIOUS
<1>2. PICK pr : pr = [proc[p] EXCEPT !.state = "busy", !.nr = calls + 1,
                                     !.reply = "none"]
  OBVIOUS
<1>3. /\ TrailGood(trail[p], locks[p], tables)
      /\ ProcGood(proc[p], trail[p], tables)
      /\ IsFunction(proc, Procs) /\ locks \in [Procs -> [Pages -> LockModes]]
      /\ TablesInv(tables)
  BY DEF StoreInv
<1>4. locks[p] = Unlocked
  BY <1>3 DEF Call, ProcGood, TrailGood
<1>5. TrailGood(tr, locks[p], tables)
  BY <1>1, <1>4, BeginGood, FirstBody
<1>6. ProcGood(pr, tr, tables)
  <2>1. /\ IsFunction(pr, {"state", "nr", "handle", "reply"})
        /\ pr.handle = proc[p].handle /\ pr.state = "busy"
    BY <1>2, <1>3 DEF ProcGood, IsFunction
  <2> QED
    BY <1>3, <2>1 DEF ProcGood
<1>7. /\ trail' = [trail EXCEPT ![p] = tr]
      /\ proc' = [proc EXCEPT ![p] = pr]
      /\ locks' = [locks EXCEPT ![p] = locks[p]]
      /\ tables' = tables /\ locks[p] \in [Pages -> LockModes]
  BY <1>1, <1>2, <1>3 DEF Call
<1> QED
  BY <1>3, <1>5, <1>6, <1>7, OthersKept, OneActs

\* A death leaves the trail where it is, with its locks.
LEMMA DieInv ==
  ASSUME StoreInv, NEW p \in Procs, Die(p)
  PROVE  StoreInv'
<1>1. PICK pr : pr = [proc[p] EXCEPT !.state = "dead"]
  OBVIOUS
<1>2. /\ TrailGood(trail[p], locks[p], tables)
      /\ ProcGood(proc[p], trail[p], tables) /\ IsFunction(trail, Procs)
      /\ IsFunction(proc, Procs) /\ locks \in [Procs -> [Pages -> LockModes]]
      /\ TablesInv(tables)
  BY DEF StoreInv
<1>3. ProcGood(pr, trail[p], tables)
  <2>1. /\ IsFunction(pr, {"state", "nr", "handle", "reply"})
        /\ pr.handle = proc[p].handle /\ pr.state = "dead"
    BY <1>1, <1>2 DEF ProcGood, IsFunction
  <2> QED
    BY <1>2, <2>1 DEF ProcGood
<1>4. trail' = [trail EXCEPT ![p] = trail[p]]
  BY <1>2 DEF Die, IsFunction
<1>5. /\ proc' = [proc EXCEPT ![p] = pr]
      /\ locks' = [locks EXCEPT ![p] = locks[p]]
      /\ tables' = tables /\ locks[p] \in [Pages -> LockModes]
  BY <1>1, <1>2 DEF Die
<1> QED
  BY <1>2, <1>3, <1>4, <1>5, OthersKept, OneActs

\* Recovery ends every trail without a trace in the tables.
LEMMA RecoverInv ==
  ASSUME StoreInv, Recover
  PROVE  StoreInv'
<1>1. TablesInv(tables')
  BY DEF StoreInv, Recover
<1>2. IsFunction(trail', Procs) /\ IsFunction(proc', Procs)
  BY DEF Recover, IsFunction
<1>3. /\ locks' \in [Procs -> [Pages -> LockModes]]
      /\ \A p \in Procs : locks'[p] = Unlocked
  BY DEF Recover, Unlocked, LockModes
<1>4. LocksExclude'
  BY <1>3, UnlockedApart DEF LocksExclude
<1>5. \A p \in Procs : trail'[p] = NoTrail /\ proc'[p] = Idle
  BY DEF Recover
<1>6. /\ IsFunction(Idle, {"state", "nr", "handle", "reply"})
      /\ Idle.handle = <<>>
  BY DEF Idle, IsFunction
<1>7. \A t : ProcGood(Idle, NoTrail, t)
  BY <1>6, NoTrailGood DEF ProcGood, HandleGood
<1> QED
  BY <1>1, <1>2, <1>3, <1>4, <1>5, <1>7, NoTrailGood DEF StoreInv

\* A deadlock's victim starts again; only committed nodes stay in its cache.
LEMMA DeadlockInv ==
  ASSUME StoreInv, NEW p \in Procs, Deadlock(p)
  PROVE  StoreInv'
<1>1. PICK tr : tr = Retry(p)
  OBVIOUS
<1>2. /\ TrailGood(trail[p], locks[p], tables)
      /\ ProcGood(proc[p], trail[p], tables)
      /\ IsFunction(proc, Procs) /\ locks \in [Procs -> [Pages -> LockModes]]
      /\ TablesInv(tables) /\ IsNodesTable(tables.nodes)
  BY DEF StoreInv, TablesInv, WellFormed
<1>3. WaitsFor(p) # {}
  BY DEF Deadlock, Deadlocked
<1>4. Active(p)
  BY <1>3 DEF WaitsFor
<1>5. At(trail[p].body, trail[p].todo, trail[p].l,
         ViewOf(trail[p].mine, tables), HeldBy(locks[p]), tables)
  BY <1>2, <1>4 DEF Active, TrailGood
<1>6. BodyGood(trail[p].body, UncacheNodeRevision(trail[p].l.cache), tables)
  BY <1>2, <1>5, BodyAgain
<1>7. TrailGood(tr, Unlocked, tables)
  BY <1>1, <1>6, BeginGood DEF Retry
<1>8. ProcGood(proc[p], tr, tables)
  BY <1>2, <1>4 DEF ProcGood, Active
<1>9. /\ trail' = [trail EXCEPT ![p] = tr]
      /\ locks' = [locks EXCEPT ![p] = Unlocked]
      /\ tables' = tables
  BY <1>1 DEF Deadlock
<1>10. proc' = [proc EXCEPT ![p] = proc[p]]
  BY <1>2 DEF Deadlock, IsFunction
<1> QED
  BY <1>2, <1>7, <1>8, <1>9, <1>10, OthersKept, UnlockedApart, OneActs

\* The trail after an access that succeeded.
After(tr, r, w) ==
    [tr EXCEPT !.todo = r.then \o Tail(tr.todo), !.l = r.l,
               !.mine = IF w[2] = "write"
                        THEN Promise!Put(tr.mine, w[1], PageIn(r.tables, w[1]))
                        ELSE tr.mine]

\* An access that succeeds: where its trail is then, which locks it has, and
\* what it has written.
LEMMA AccessGood ==
  ASSUME NEW tr, NEW lock, NEW t, NEW a, NEW r, NEW w, NEW new, WellFormed(t),
         TrailGood(tr, lock, t), tr.on, tr.todo # <<>>,
         lock \in [Pages -> LockModes],
         a = Head(tr.todo), w = WantedBy(a, tr.l),
         r = Access(a, ViewOf(tr.mine, t), tr.l, tr.body), r.ok,
         new = After(tr, r, w)
  PROVE  TrailGood(new, Taken(lock, w), t) /\ new.on
<1>1. PICK b, todo, l, m, v, H :
         /\ b = tr.body /\ todo = tr.todo /\ l = tr.l /\ m = tr.mine
         /\ v = ViewOf(m, t) /\ H = HeldBy(lock)
  OBVIOUS
<1>2. /\ IsFunction(tr, {"on", "body", "todo", "l", "mine"}) /\ IsLocals(l)
      /\ \A page \in DOMAIN m : page \in Pages /\ lock[page] = "write"
      /\ At(b, todo, l, v, H, t) /\ todo # <<>>
  BY <1>1 DEF TrailGood
<1>3. IsTables(v)
  BY <1>1, ViewIs
<1>4. Advances(Head(todo), Tail(todo), b, l, v, H, t)
  BY <1>2, <1>3, StepAdvances
<1>5. /\ IsLocals(r.l)
      /\ At(b, r.then \o Tail(todo), r.l, Written(a, r.tables, v),
            H \cup PageOf(a, l), t)
  BY <1>1, <1>4 DEF Advances
<1>6. a \in AccessNames
  BY <1>1, <1>2, NextAccess
<1>7. PICK page \in Pages, mode \in LockModes :
         /\ w = <<page, mode>>
         /\ a \in DOMAIN Writes <=> mode = "write"
         /\ a \in DOMAIN Writes => page = Writes[a]
         /\ PageOf(a, l) = IF mode = "no" THEN {} ELSE {page}
  <2>1. w = WantedBy(a, l)
    BY <1>1
  <2> QED
    BY ONLY <1>6, <2>1, WantedIs
<1>8. PICK lk : lk = Taken(lock, w)
  OBVIOUS
<1>9. /\ HeldBy(lk) = H \cup PageOf(a, l)
      /\ \A k \in Pages : lock[k] = "write" => lk[k] = "write"
      /\ mode = "write" => lk[page] = "write"
  BY <1>1, <1>7, <1>8, LockTaken
<1>10. PICK n : n = IF mode = "write"
                    THEN Promise!Put(m, page, PageIn(r.tables, page)) ELSE m
  OBVIOUS
<1>11. /\ ViewOf(n, t) = Written(a, r.tables, v)
       /\ \A k \in DOMAIN n : k \in Pages /\ lk[k] = "write"
  <2>1. CASE mode = "write"
    <3>1. /\ a \in DOMAIN Writes /\ page = Writes[a]
          /\ n = Promise!Put(m, Writes[a], PageIn(r.tables, Writes[a]))
      BY <1>7, <1>10, <2>1
    <3>2. Same(ViewOf(n, t), Written(a, r.tables, v))
          /\ IsTables(Written(a, r.tables, v)) /\ IsTables(ViewOf(n, t))
      BY <1>1, <3>1, ViewWritten, ViewIs
    <3>3. DOMAIN n = DOMAIN m \cup {page}
      BY <1>10, <2>1 DEF Promise!Put
    <3> QED
      BY <1>2, <1>9, <2>1, <3>2, <3>3, SameTables
  <2>2. CASE mode # "write"
    <3>1. n = m /\ a \notin DOMAIN Writes
      BY <1>7, <1>10, <2>2
    <3>2. Written(a, r.tables, v) = v
      BY <3>1 DEF Written
    <3> QED
      BY <1>1, <1>2, <1>9, <3>1, <3>2
  <2> QED
    BY <2>1, <2>2
<1>12. PICK todo2, l2 : todo2 = r.then \o Tail(todo) /\ l2 = r.l
  OBVIOUS
<1>13. w[1] = page /\ w[2] = mode
  BY <1>7
<1>14. new = [tr EXCEPT !.todo = todo2, !.l = l2, !.mine = n]
  BY <1>1, <1>10, <1>12, <1>13 DEF After
<1>15. /\ IsFunction(new, {"on", "body", "todo", "l", "mine"})
       /\ new.on = tr.on /\ new.body = b /\ new.todo = todo2 /\ new.l = l2
       /\ new.mine = n
  BY <1>1, <1>2, <1>14 DEF IsFunction
<1>16. At(b, todo2, l2, ViewOf(n, t), HeldBy(lk), t) /\ IsLocals(l2)
  BY <1>5, <1>9, <1>11, <1>12
<1>17. new.on /\ new.on \in BOOLEAN
  BY <1>15 DEF TrailGood
<1> QED
  BY <1>8, <1>11, <1>15, <1>16, <1>17 DEF TrailGood

\* A body's error undoes what the trail has written.
LEMMA AbortTrailInv ==
  ASSUME StoreInv, NEW p \in Procs, AbortTrail(p)
  PROVE  StoreInv'
<1>1. PICK pr : pr = [proc[p] EXCEPT !.state = "idle", !.nr = 0,
                                     !.reply = "error"]
  OBVIOUS
<1>2. ProcGood(proc[p], trail[p], tables) /\ TablesInv(tables)
  BY DEF StoreInv
<1>3. ProcGood(pr, NoTrail, tables)
  <2>1. /\ IsFunction(pr, {"state", "nr", "handle", "reply"})
        /\ pr.handle = proc[p].handle
    BY <1>1, <1>2 DEF ProcGood, IsFunction
  <2> QED
    BY <1>2, <2>1, NoTrailGood DEF ProcGood
<1>4. /\ trail' = [trail EXCEPT ![p] = NoTrail]
      /\ locks' = [locks EXCEPT ![p] = Unlocked]
      /\ proc' = [proc EXCEPT ![p] = pr]
      /\ tables' = tables
  BY <1>1 DEF AbortTrail
<1> QED
  BY <1>2, <1>3, <1>4, OthersKept, UnlockedApart, NoTrailGood, OneActs

\* The step of FsStore in the terms of this module.
LEMMA StepIs ==
  ASSUME StoreInv, NEW p \in Procs, Step(p), NEW a, NEW w, NEW r,
         a = Head(trail[p].todo), w = WantedBy(a, trail[p].l),
         r = Access(a, ViewOf(trail[p].mine, tables), trail[p].l, trail[p].body)
  PROVE  /\ Active(p) /\ WaitsFor(p) = {} /\ Wanted(p) = w
         /\ ~ r.ok => AbortTrail(p)
         /\ r.ok =>
              /\ trail' = [trail EXCEPT ![p] = After(trail[p], r, w)]
              /\ locks' = [locks EXCEPT ![p] = Taken(locks[p], w)]
              /\ UNCHANGED <<tables, proc, last>>
<1>4. View(p) = ViewOf(trail[p].mine, tables)
  BY DEF View, ViewOf
<1>5. Wanted(p) = w
  BY DEF Wanted, WantedBy
<1>6. /\ Active(p) /\ WaitsFor(p) = {}
      /\ ~ r.ok => AbortTrail(p)
      /\ r.ok =>
          /\ trail' = [trail EXCEPT
                 ![p].todo = r.then \o Tail(@),
                 ![p].l = r.l,
                 ![p].mine =
                     IF w[2] = "write"
                     THEN Promise!Put(@, w[1], PageIn(r.tables, w[1])) ELSE @]
          /\ locks' = [locks EXCEPT ![p][w[1]] =
                          IF @ = "write" \/ w[2] = "no" THEN @ ELSE w[2]]
          /\ UNCHANGED <<tables, proc, last>>
  BY <1>4, <1>5 DEF Step
<1>7. IsFunction(trail, Procs) /\ locks \in [Procs -> [Pages -> LockModes]]
  BY DEF StoreInv
<1>8. ASSUME r.ok
      PROVE  trail' = [trail EXCEPT ![p] = After(trail[p], r, w)]
  BY <1>6, <1>7, <1>8 DEF IsFunction, After
<1>9. ASSUME r.ok
      PROVE  locks' = [locks EXCEPT ![p] = Taken(locks[p], w)]
  BY <1>6, <1>7, <1>9 DEF Taken
<1> QED
  BY <1>5, <1>6, <1>8, <1>9

\* One access of one trail.
LEMMA StepInv ==
  ASSUME StoreInv, NEW p \in Procs, Step(p)
  PROVE  StoreInv'
<1>1. PICK a : a = Head(trail[p].todo)
  OBVIOUS
<1>2. PICK w : w = WantedBy(a, trail[p].l)
  OBVIOUS
<1>3. PICK r : r = Access(a, ViewOf(trail[p].mine, tables), trail[p].l,
                          trail[p].body)
  OBVIOUS
<1>4. PICK tr : tr = After(trail[p], r, w)
  OBVIOUS
<1>5. /\ Active(p) /\ WaitsFor(p) = {} /\ Wanted(p) = w
      /\ ~ r.ok => AbortTrail(p)
      /\ r.ok => /\ trail' = [trail EXCEPT ![p] = tr]
                 /\ locks' = [locks EXCEPT ![p] = Taken(locks[p], w)]
                 /\ UNCHANGED <<tables, proc, last>>
  BY <1>1, <1>2, <1>3, <1>4, StepIs
<1>6. CASE ~ r.ok
  BY <1>5, <1>6, AbortTrailInv
<1>7. CASE r.ok
  <2>1. /\ TrailGood(trail[p], locks[p], tables) /\ trail[p].on
        /\ ProcGood(proc[p], trail[p], tables) /\ WellFormed(tables)
        /\ IsFunction(proc, Procs) /\ locks \in [Procs -> [Pages -> LockModes]]
        /\ TablesInv(tables) /\ trail[p].todo # <<>>
    BY <1>5 DEF StoreInv, TablesInv, Active
  <2>2. PICK lock : lock = Taken(locks[p], w)
    OBVIOUS
  <2>3. TrailGood(tr, lock, tables) /\ tr.on
    BY <1>1, <1>2, <1>3, <1>4, <1>7, <2>1, <2>2, AccessGood
  <2>4. a \in AccessNames
    BY <1>1, <2>1, NextAccess DEF TrailGood
  <2>5. PICK page \in Pages, mode \in LockModes : w = <<page, mode>>
    BY <1>2, <2>4, WantedIs
  <2>6. \A q \in Procs : q # p => ~ Excludes(locks[q][page], mode)
    <3>1. WaitsFor(p) = {q \in Procs \ {p} : Excludes(locks[q][w[1]], w[2])}
      BY <1>5 DEF WaitsFor
    <3>2. w[1] = page /\ w[2] = mode
      BY <2>5
    <3> QED
      BY <1>5, <3>1, <3>2
  <2>7. lock \in [Pages -> LockModes]
    BY <2>1, <2>2, <2>5, LockTaken
  <2>8. ASSUME NEW q \in Procs, q # p
        PROVE  Apart(lock, locks[q]) /\ Apart(locks[q], lock)
    <3>1. Apart(locks[p], locks[q]) /\ Apart(locks[q], locks[p])
      BY <2>8 DEF StoreInv, LocksExclude
    <3>2. locks[q] \in [Pages -> LockModes] /\ locks[p] \in [Pages -> LockModes]
      BY <2>1
    <3> QED
      BY <2>2, <2>5, <2>6, <2>8, <3>1, <3>2, LockTaken
  <2>9. ProcGood(proc[p], tr, tables)
    BY <1>5, <2>1, <2>3 DEF ProcGood, Active
  <2>10. proc' = [proc EXCEPT ![p] = proc[p]]
    BY <1>5, <1>7, <2>1 DEF IsFunction
  <2>11. /\ trail' = [trail EXCEPT ![p] = tr]
         /\ locks' = [locks EXCEPT ![p] = lock] /\ tables' = tables
    BY <1>5, <1>7, <2>2
  <2> QED
    BY <2>1, <2>3, <2>7, <2>8, <2>9, <2>10, <2>11, OthersKept, OneActs
<1>8. r.ok \in BOOLEAN
  <2>1. /\ TrailGood(trail[p], locks[p], tables) /\ trail[p].on
        /\ WellFormed(tables) /\ trail[p].todo # <<>>
    BY <1>5 DEF StoreInv, TablesInv, Active
  <2>2. IsTables(ViewOf(trail[p].mine, tables))
    BY ViewIs
  <2> QED
    BY <1>1, <1>3, <2>1, <2>2, StepAdvances DEF TrailGood, Advances
<1> QED
  BY <1>6, <1>7, <1>8

\* The trail of p has run to its end: what that makes of the tables.
LEMMA TrailEnds ==
  ASSUME StoreInv, NEW p \in Procs, trail[p].on, trail[p].todo = <<>>,
         NEW u, u = ViewOf(trail[p].mine, tables)
  PROVE  /\ At(trail[p].body, <<>>, trail[p].l, u, HeldBy(locks[p]), tables)
         /\ TablesInv(u) /\ Follows(tables, u)
         /\ Promise!Effect(trail[p].body, tables) =
               Promise!Done(u, trail[p].l.out)
         /\ \A q \in Procs : q # p =>
               /\ TrailGood(trail[q], locks[q], u)
               /\ ProcGood(proc[q], trail[q], u)
<1>1. /\ TrailGood(trail[p], locks[p], tables) /\ TablesInv(tables)
      /\ WellFormed(tables)
  BY DEF StoreInv, TablesInv
<1>2. At(trail[p].body, <<>>, trail[p].l, u, HeldBy(locks[p]), tables)
  BY <1>1 DEF TrailGood
<1>3. IsTables(u)
  BY ViewIs
<1>4. TablesInv(u) /\ Follows(tables, u)
  BY <1>1, <1>2, <1>3, BodyKeeps
<1>5. Promise!Effect(trail[p].body, tables) = Promise!Done(u, trail[p].l.out)
  BY <1>1, <1>2, <1>3, BodyEnds
<1>6. ASSUME NEW q \in Procs, q # p
      PROVE  /\ TrailGood(trail[q], locks[q], u)
             /\ ProcGood(proc[q], trail[q], u)
  <2>1. /\ Apart(locks[p], locks[q]) /\ TrailGood(trail[q], locks[q], tables)
        /\ ProcGood(proc[q], trail[q], tables)
    BY <1>6, OthersKept
  <2>2. ProcGood(proc[q], trail[q], u)
    BY <1>1, <1>4, <2>1, HandleStays DEF ProcGood
  <2>3. CASE ~ trail[q].on
    BY <2>1, <2>2, <2>3 DEF TrailGood
  <2>4. CASE trail[q].on
    <3>1. \A page \in DOMAIN trail[p].mine :
             page \in Pages /\ locks[p][page] = "write"
      BY <1>1 DEF TrailGood
    <3>2. \A page \in DOMAIN trail[q].mine :
             page \in Pages /\ locks[q][page] = "write"
      BY <2>1, <2>4 DEF TrailGood
    <3>3. KeepsCommitted(tables, ViewOf(trail[p].mine, tables))
      BY <1>4 DEF Follows
    <3>4. Moved(HeldBy(locks[q]), tables, u, ViewOf(trail[q].mine, tables),
                ViewOf(trail[q].mine, u))
      BY <2>1, <3>1, <3>2, <3>3, OthersMoved
    <3>5. At(trail[q].body, trail[q].todo, trail[q].l,
             ViewOf(trail[q].mine, tables), HeldBy(locks[q]), tables)
      BY <2>1, <2>4 DEF TrailGood
    <3>6. At(trail[q].body, trail[q].todo, trail[q].l,
             ViewOf(trail[q].mine, u), HeldBy(locks[q]), u)
      BY <3>4, <3>5, TrailStays
    <3> QED
      BY <2>1, <2>2, <2>4, <3>6 DEF TrailGood
  <2> QED
    BY <2>1, <2>2, <2>3, <2>4 DEF TrailGood
<1> QED
  BY <1>2, <1>4, <1>5, <1>6

\* The handle a process has after its trail is right.
LEMMA NewHandleGood ==
  ASSUME StoreInv, NEW p \in Procs, trail[p].on, trail[p].todo = <<>>,
         NEW u, u = ViewOf(trail[p].mine, tables)
  PROVE  HandleGood(NewHandle(p), u) /\ HandleGood(proc[p].handle, u)
<1>1. /\ At(trail[p].body, <<>>, trail[p].l, u, HeldBy(locks[p]), tables)
      /\ TablesInv(u) /\ Follows(tables, u)
  BY TrailEnds
<1>2. TablesInv(tables) /\ HandleGood(proc[p].handle, tables)
  BY DEF StoreInv, ProcGood
<1>3. HandleGood(proc[p].handle, u)
  BY <1>1, <1>2, HandleStays
<1>4. PICK b, l, H : b = trail[p].body /\ l = trail[p].l /\ H = HeldBy(locks[p])
  OBVIOUS
<1>5. CASE b.do = "begin"
  <2>1. AtBegin(b, <<>>, l, u, H, tables) /\ b.rev \in Int
    BY <1>1, <1>4, <1>5 DEF At
  <2>2. HandleGood(l.out, u)
    BY <1>2, <2>1, BeginHandle
  <2>3. NewHandle(p) = l.out
    BY <1>4, <1>5 DEF NewHandle
  <2> QED
    BY <1>3, <2>2, <2>3
<1>6. CASE b.do = "open"
  <2>1. AtOpen(b, <<>>, l, u, H, tables)
    BY <1>1, <1>4, <1>6 DEF At
  <2>2. HandleGood(l.out, u)
    BY <1>2, <2>1, OpenHandle
  <2>3. NewHandle(p) = l.out
    BY <1>4, <1>6 DEF NewHandle
  <2> QED
    BY <1>3, <2>2, <2>3
<1>7. CASE b.do \in {"commit", "abort"}
  <2>1. NewHandle(p) = <<>>
    BY <1>4, <1>7 DEF NewHandle
  <2> QED
    BY <1>3, <2>1 DEF HandleGood
<1>8. CASE b.do \notin {"begin", "open", "commit", "abort"}
  <2>1. NewHandle(p) = proc[p].handle
    BY <1>4, <1>8 DEF NewHandle
  <2> QED
    BY <1>3, <2>1
<1> QED
  BY <1>5, <1>6, <1>7, <1>8

\* A trail is committed, and the next one of the call begins, or the call ends.
LEMMA CommitTrailInv ==
  ASSUME StoreInv, NEW p \in Procs, NEW fails \in BOOLEAN, CommitTrail(p, fails)
  PROVE  StoreInv'
<1>1. PICK u : u = ViewOf(trail[p].mine, tables)
  OBVIOUS
<1>2. /\ trail[p].on /\ proc[p].state = "busy" /\ trail[p].todo = <<>>
      /\ tables' = View(p) /\ locks' = [locks EXCEPT ![p] = Unlocked]
  BY DEF CommitTrail
<1>3. tables' = u
  BY <1>1, <1>2 DEF View, ViewOf
<1>4. /\ At(trail[p].body, <<>>, trail[p].l, u, HeldBy(locks[p]), tables)
      /\ TablesInv(u)
      /\ \A q \in Procs : q # p =>
            /\ TrailGood(trail[q], locks[q], u)
            /\ ProcGood(proc[q], trail[q], u)
  BY <1>1, <1>2, TrailEnds
<1>5. HandleGood(NewHandle(p), u) /\ HandleGood(proc[p].handle, u)
  BY <1>1, <1>2, NewHandleGood
<1>6. PICK more, cache :
         /\ more = IF fails THEN {}
                   ELSE NextTrails(p, trail[p].body, trail[p].l.out)
         /\ cache = UncacheNodeRevision(trail[p].l.cache)
  OBVIOUS
<1>7. /\ IsFunction(proc, Procs) /\ TablesInv(tables)
      /\ IsFunction(proc[p], {"state", "nr", "handle", "reply"})
  BY DEF StoreInv, ProcGood
<1>8. CASE more = {}
  <2>1. PICK pr : pr = [state |-> "idle", nr |-> 0,
                        reply |-> IF fails THEN "error" ELSE "ok",
                        handle |-> IF fails THEN proc[p].handle
                                   ELSE NewHandle(p)]
    OBVIOUS
  <2>2. trail' = [trail EXCEPT ![p] = NoTrail] /\ proc' = [proc EXCEPT ![p] = pr]
    BY <1>6, <1>8, <2>1 DEF CommitTrail
  <2>3. /\ IsFunction(pr, {"state", "nr", "handle", "reply"})
        /\ pr.handle = NewHandle(p) \/ pr.handle = proc[p].handle
    BY <2>1 DEF IsFunction
  <2>4. ProcGood(pr, NoTrail, u)
    BY <1>5, <2>3, NoTrailGood DEF ProcGood
  <2> QED
    BY <1>2, <1>3, <1>4, <2>2, <2>4, UnlockedApart, NoTrailGood, OneActs
<1>9. CASE more # {}
  <2>1. more = NextTrails(p, trail[p].body, trail[p].l.out)
    BY <1>6, <1>9
  <2>2. PICK b \in more : trail' = [trail EXCEPT ![p] = BeginTrail(b, cache)]
    BY <1>6, <1>9 DEF CommitTrail
  <2>3. PICK pr : pr = [proc[p] EXCEPT !.handle = NewHandle(p)]
    OBVIOUS
  <2>4. proc' = [proc EXCEPT ![p] = pr]
    BY <1>6, <1>9, <2>3 DEF CommitTrail
  <2>5. PICK tr : tr = BeginTrail(b, cache)
    OBVIOUS
  <2>6. BodyGood(b, cache, u)
    BY <1>4, <1>6, <1>7, <2>1, NextBody
  <2>7. TrailGood(tr, Unlocked, u)
    BY <2>5, <2>6, BeginGood
  <2>8. /\ IsFunction(pr, {"state", "nr", "handle", "reply"})
        /\ pr.handle = NewHandle(p) /\ pr.state = "busy"
    BY <1>2, <1>7, <2>3 DEF IsFunction
  <2>9. ProcGood(pr, tr, u)
    BY <1>5, <2>8 DEF ProcGood
  <2> QED
    BY <1>2, <1>3, <1>4, <2>2, <2>4, <2>5, <2>7, <2>9, UnlockedApart, OneActs
<1> QED
  BY <1>8, <1>9

-----------------------------------------------------------------------------
(* The theorems. *)

\* StoreInv is inductive.
LEMMA NextInv ==
  ASSUME StoreInv, [Next]_vars
  PROVE  StoreInv'
<1>1. CASE UNCHANGED vars
  BY <1>1 DEF vars, StoreInv, LocksExclude
<1>2. CASE Recover
  BY <1>2, RecoverInv
<1>3. CASE Finished
  BY <1>1, <1>3 DEF Finished
<1>4. ASSUME NEW p \in Procs, NEW call \in Calls, Call(p, call)
      PROVE  StoreInv'
  BY <1>4, CallInv
<1>5. ASSUME NEW p \in Procs, Step(p) PROVE StoreInv'
  BY <1>5, StepInv
<1>6. ASSUME NEW p \in Procs, Deadlock(p) PROVE StoreInv'
  BY <1>6, DeadlockInv
<1>7. ASSUME NEW p \in Procs, NEW fails \in BOOLEAN, CommitTrail(p, fails)
      PROVE  StoreInv'
  BY <1>7, CommitTrailInv
<1>8. ASSUME NEW p \in Procs, Die(p) PROVE StoreInv'
  BY <1>8, DieInv
<1> QED
  BY <1>1, <1>2, <1>3, <1>4, <1>5, <1>6, <1>7, <1>8 DEF Next

\* The tables stay sound, every trail is where its body can be with what it
\* has locked, and no page that one trail writes to is locked by another
\* (trail.c, and the bodies of txn-table.c, rev-table.c, dag.c, txn.c).
THEOREM StoreInvariant == Spec => []StoreInv
<1>1. Init => StoreInv
  BY InitInv
<1>2. StoreInv /\ [Next]_vars => StoreInv'
  BY NextInv
<1> QED
  BY <1>1, <1>2, PTL DEF Spec

\* The places of a text edit's last trail at which it has a cached record.
LEMMA CacheIsTheRecord ==
  ASSUME NEW b, NEW todo, NEW l, NEW v, NEW H, NEW t, At(b, todo, l, v, H, t),
         b.do = "finish", l.cache # <<>>
  PROVE  b.node \in DOMAIN v.nodes /\ l.cache[1] = v.nodes[b.node]
<1>1. AtFinish(b, todo, l, v, H, t)
  BY DEF At
<1>2. CASE Same(v, t) /\ CacheGood(b, l, H, t)
  BY <1>2 DEF Same, CacheGood
<1>3. CASE /\ b.node \in DOMAIN t.nodes
           /\ v.nodes = [t.nodes EXCEPT ![b.node].text = @ \cup {b.edit}]
           /\ l.cache = <<v.nodes[b.node]>>
  BY <1>3
<1> QED
  BY <1>1, <1>2, <1>3 DEF AtFinish

\* For any number of processes, what a process keeps cached of a node between
\* the trails of a text edit is what the table has (cache_node_revision,
\* uncache_node_revision).
THEOREM CacheIsFresh == Spec => []CacheFresh
<1>1. StoreInv => CacheFresh
  <2> SUFFICES ASSUME StoreInv, NEW p \in Procs, trail[p].on,
                      trail[p].body.do = "finish", trail[p].l.cache # <<>>
               PROVE  /\ trail[p].body.node \in DOMAIN View(p).nodes
                      /\ trail[p].l.cache[1] =
                            View(p).nodes[trail[p].body.node]
    BY DEF CacheFresh
  <2>1. View(p) = ViewOf(trail[p].mine, tables)
    BY DEF View, ViewOf
  <2>2. At(trail[p].body, trail[p].todo, trail[p].l, View(p),
           HeldBy(locks[p]), tables)
    BY <2>1 DEF StoreInv, TrailGood
  <2> QED
    BY <2>2, CacheIsTheRecord
<1> QED
  BY <1>1, StoreInvariant, PTL

\* For any number of processes, the base revision in a handle has the
\* transaction's base root (svn_fs_begin_txn, svn_fs_open_txn).
THEOREM BaseRevisionIsRight == Spec => []BaseRevisionRight
<1>1. StoreInv => BaseRevisionRight
  <2> SUFFICES ASSUME StoreInv, NEW p \in Procs, NEW h, h = proc[p].handle,
                      h # <<>>
               PROVE  /\ h[2] + 1 \in DOMAIN tables.revs
                      /\ h[1] \in DOMAIN tables.txns =>
                            tables.revs[h[2] + 1].root = tables.txns[h[1]].base
    BY DEF BaseRevisionRight
  <2>1. HandleGood(h, tables) /\ WellFormed(tables)
    BY DEF StoreInv, ProcGood, TablesInv
  <2>2. /\ Len(tables.revs) \in Nat /\ DOMAIN tables.revs = 1..Len(tables.revs)
    BY <2>1, RevsLen
  <2> QED
    BY <2>1, <2>2 DEF HandleGood
<1> QED
  BY <1>1, StoreInvariant, PTL

\* The body of a trail is not the body there is before the first.
LEMMA SomeBody ==
  ASSUME NEW b, NEW todo, NEW l, NEW v, NEW H, NEW t, At(b, todo, l, v, H, t)
  PROVE  b # Promise!NoBody
<1>1. b.do # "none"
  BY DEF At
<1>2. Promise!NoBody.do = "none"
  BY DEF Promise!NoBody
<1> QED
  BY <1>1, <1>2

\* An access is no step of FsTables, unless it fails: then its body has failed.
LEMMA StepPromised ==
  ASSUME StoreInv, NEW p \in Procs, Step(p)
  PROVE  Promise!RunBody \/ UNCHANGED <<tables, last>>
<1>1. PICK a : a = Head(trail[p].todo)
  OBVIOUS
<1>2. PICK w : w = WantedBy(a, trail[p].l)
  OBVIOUS
<1>3. PICK r : r = Access(a, ViewOf(trail[p].mine, tables), trail[p].l,
                          trail[p].body)
  OBVIOUS
<1>4. /\ Active(p)
      /\ ~ r.ok => AbortTrail(p)
      /\ r.ok => UNCHANGED <<tables, last>>
  BY <1>1, <1>2, <1>3, StepIs
<1>5. /\ At(trail[p].body, trail[p].todo, trail[p].l,
            ViewOf(trail[p].mine, tables), HeldBy(locks[p]), tables)
      /\ trail[p].todo # <<>> /\ IsLocals(trail[p].l) /\ WellFormed(tables)
  BY <1>4 DEF StoreInv, TablesInv, Active, TrailGood
<1>6. Advances(a, Tail(trail[p].todo), trail[p].body, trail[p].l,
               ViewOf(trail[p].mine, tables), HeldBy(locks[p]), tables)
  BY <1>1, <1>5, ViewIs, StepAdvances
<1>7. CASE ~ r.ok
  <2>1. Promise!Effect(trail[p].body, tables) = Promise!Failed(tables)
    BY <1>3, <1>6, <1>7 DEF Advances
  <2>2. /\ last'.body = trail[p].body /\ last'.ok = FALSE /\ last'.out = <<>>
        /\ tables' = tables
    BY <1>4, <1>7 DEF AbortTrail
  <2>3. trail[p].body # Promise!NoBody
    BY <1>5, SomeBody
  <2>4. PICK e : e = Promise!Effect(last'.body, tables)
    OBVIOUS
  <2>5. e.tables = tables /\ e.ok = FALSE /\ e.out = <<>>
    BY <2>1, <2>2, <2>4 DEF Promise!Failed
  <2>6. /\ last'.body # Promise!NoBody /\ tables' = e.tables
        /\ last'.ok = e.ok /\ last'.out = e.out
    BY <2>2, <2>3, <2>5
  <2> QED
    BY <2>4, <2>6 DEF Promise!RunBody
<1> QED
  BY <1>4, <1>7

\* The end of a trail is the run of its body.
LEMMA CommitTrailPromised ==
  ASSUME StoreInv, NEW p \in Procs, NEW fails \in BOOLEAN, CommitTrail(p, fails)
  PROVE  Promise!RunBody
<1>1. PICK u : u = ViewOf(trail[p].mine, tables)
  OBVIOUS
<1>2. /\ trail[p].on /\ trail[p].todo = <<>> /\ tables' = View(p)
      /\ last'.body = trail[p].body /\ last'.ok = TRUE
      /\ last'.out = trail[p].l.out
  BY DEF CommitTrail
<1>3. tables' = u
  BY <1>1, <1>2 DEF View, ViewOf
<1>4. /\ At(trail[p].body, <<>>, trail[p].l, u, HeldBy(locks[p]), tables)
      /\ Promise!Effect(trail[p].body, tables) = Promise!Done(u, trail[p].l.out)
  BY <1>1, <1>2, TrailEnds
<1>5. trail[p].body # Promise!NoBody
  BY <1>4, SomeBody
<1>6. PICK e : e = Promise!Effect(last'.body, tables)
  OBVIOUS
<1>7. e.tables = u /\ e.ok = TRUE /\ e.out = trail[p].l.out
  BY <1>2, <1>4, <1>6 DEF Promise!Done
<1>8. /\ last'.body # Promise!NoBody /\ tables' = e.tables
      /\ last'.ok = e.ok /\ last'.out = e.out
  BY <1>2, <1>3, <1>5, <1>7
<1> QED
  BY <1>6, <1>8 DEF Promise!RunBody

\* For any number of processes, calls, deadlocks and deaths: every trail that
\* ends is one run of its body on the tables as the trails before it left
\* them (svn_fs__retry_txn).
THEOREM TrailsAreAtomic == Spec => TrailsAtomic
<1>1. Init => Promise!Init
  BY DEF Init, Promise!Init
<1>2. StoreInv /\ [Next]_vars => [Promise!Next]_<<tables, last>>
  <2> SUFFICES ASSUME StoreInv, [Next]_vars
               PROVE  Promise!Next \/ UNCHANGED <<tables, last>>
    OBVIOUS
  <2>1. CASE UNCHANGED vars
    BY <2>1 DEF vars
  <2>2. CASE Recover
    BY <2>2 DEF Recover, Promise!Next, Promise!Restart
  <2>3. CASE Finished
    BY <2>3 DEF Finished, vars
  <2>4. ASSUME NEW p \in Procs, NEW call \in Calls, Call(p, call)
        PROVE  UNCHANGED <<tables, last>>
    BY <2>4 DEF Call
  <2>5. ASSUME NEW p \in Procs, Step(p)
        PROVE  Promise!RunBody \/ UNCHANGED <<tables, last>>
    BY <2>5, StepPromised
  <2>6. ASSUME NEW p \in Procs, Deadlock(p) PROVE UNCHANGED <<tables, last>>
    BY <2>6 DEF Deadlock
  <2>7. ASSUME NEW p \in Procs, NEW fails \in BOOLEAN, CommitTrail(p, fails)
        PROVE  Promise!RunBody
    BY <2>7, CommitTrailPromised
  <2>8. ASSUME NEW p \in Procs, Die(p) PROVE UNCHANGED <<tables, last>>
    BY <2>8 DEF Die
  <2> QED
    BY <2>1, <2>2, <2>3, <2>4, <2>5, <2>6, <2>7, <2>8 DEF Next, Promise!Next
<1> QED
  BY <1>1, <1>2, StoreInvariant, PTL DEF Spec, TrailsAtomic, Promise!Spec

=============================================================================
