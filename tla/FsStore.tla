------------------------------- MODULE FsStore -------------------------------
(***************************************************************************)
(* libsvn_fs/trail.c over the tables of transactions, revisions and root   *)
(* node revisions: several processes make calls of the filesystem library, *)
(* each call one or two trails, each trail a body that reads and writes    *)
(* one record after the other.  Berkeley DB locks the page of a record     *)
(* until the trail ends (the instance is small enough for a table to be    *)
(* one page); when trails wait for one another it picks one of them at     *)
(* random, whose body then returns DB_LOCK_DEADLOCK and is tried again.    *)
(* A process can die anywhere, its locks and half done writes staying      *)
(* until svnadmin runs recovery, for which all others have to leave.       *)
(***************************************************************************)
EXTENDS Integers, Sequences, SequencesExt, TLC

CONSTANTS Procs,        \* the processes
          Calls,        \* the calls they make
          MaxCalls,     \* bound on the calls altogether
          MaxDeaths,    \* bound on the processes that die
          MaxIncomplete \* bound on the checkpoints that fail

ASSUME CallsAssumption ==
    Calls \subseteq {"begin", "open", "edit", "log", "commit", "abort",
                     "revprop"}

VARIABLES tables,   \* as the disk has them, half done writes included
          trail,    \* each process's trail
          locks,    \* the pages each trail has locked
          proc,     \* each process's call and what it keeps between trails
          last,     \* the trail that ended last
          calls, deaths, incomplete

vars == <<tables, trail, locks, proc, last, calls, deaths, incomplete>>

(* What svn_fs__retry_txn promises. *)
Promise == INSTANCE FsTables

Uncommitted == -1
Pages == {"txns", "revs", "nodes"}

(***************************************************************************)
(* The accesses a body is made of.  Each takes the tables t, what the body *)
(* has in its variables so far, l, and the arguments of the body, b; it    *)
(* says whether it succeeds, what it makes of the tables and of l, and     *)
(* which accesses come next because of what it read.                       *)
(***************************************************************************)
Fine(t, l) == [ok |-> TRUE, tables |-> t, l |-> l, then |-> <<>>]
Error(t, l) == [ok |-> FALSE, tables |-> t, l |-> l, then |-> <<>>]

GetRev(t, l, b) ==
    IF b.rev + 1 \in DOMAIN t.revs
    THEN Fine(t, [l EXCEPT !.root = t.revs[b.rev + 1].root,
                           !.props = t.revs[b.rev + 1].props])
    ELSE Error(t, l)

PutRevProp(t, l, b) ==
    Fine([t EXCEPT !.revs[b.rev + 1].props = 
                                   Promise!SetProp(l.props, b.name, b.value)],
         l)

YoungestRev(t, l, b) == Fine(t, [l EXCEPT !.rev = Len(t.revs) - 1,
                                          !.out = <<Len(t.revs) - 1>>])

NextId(t, l, b) == Fine(t, [l EXCEPT !.txn = t.next])
PutNextId(t, l, b) == Fine([t EXCEPT !.next = l.txn + 1], l)

PutTxn(t, l, b) ==
    Fine([t EXCEPT !.txns = Promise!Put(@, l.txn, [root  |-> l.root,
                                                   base  |-> l.root,
                                                   props |-> <<>>])],
         [l EXCEPT !.out = <<l.txn, b.rev>>])

GetTxn(t, l, b) ==
    IF b.txn \in DOMAIN t.txns
    THEN Fine(t, [l EXCEPT !.root = t.txns[b.txn].root,
                           !.base = t.txns[b.txn].base,
                           !.props = t.txns[b.txn].props])
    ELSE Error(t, l)

(* put_txn, after svn_fs__get_txn, with one property changed. *)
PutTxnProp(t, l, b) ==
    Fine([t EXCEPT !.txns[b.txn] = [root  |-> l.root, base |-> l.base,
                                    props |-> Promise!SetProp(l.props,
                                                      b.name, b.value)]], l)

DeleteTxn(t, l, b) ==
    Fine([t EXCEPT !.txns = Promise!Delete(@, b.txn)], l)

ListTxns(t, l, b) == Fine(t, [l EXCEPT !.out = Promise!TxnNames(t.txns)])

(* svn_fs_open_txn: the base revision is the one the base root was created *)
(* in.                                                                     *)
BaseRevision_Root(t, l, b) ==
    Fine(t, [l EXCEPT !.out = <<b.txn, t.nodes[l.root].rev>>])
BaseRevision(t, l, b) ==
    Fine(t, [l EXCEPT !.out = <<b.txn, t.nodes[l.base].rev>>])

(* svn_fs__dag_delete_if_mutable on the transaction's root.                *)
DeleteNodes(t, l, b) ==
    Fine([t EXCEPT !.nodes = IF t.nodes[l.root].rev = Uncommitted
                             THEN Promise!Delete(@, l.root) ELSE @], l)

(* svn_fs__dag_clone_root: a transaction whose root is still the base root *)
(* gets a successor of it.                                                 *)
CloneRoot(t, l, b) ==
    IF l.root # l.base
    THEN [Fine(t, [l EXCEPT !.out = <<l.root>>]) EXCEPT !.then = <<"get_root">>]
    ELSE [Fine(t, [l EXCEPT !.node = t.nodes[l.base]]) EXCEPT
             !.then = <<"create_successor", "set_txn_root", "get_root">>]

CreateSuccessor(t, l, b) ==
    LET n == Promise!FreshNode(t.nodes) IN
    Fine([t EXCEPT !.nodes = Promise!Put(@, n, [l.node EXCEPT
                                                   !.rev = Uncommitted])],
         [l EXCEPT !.root = n, !.out = <<n>>])

SetTxnRoot(t, l, b) == Fine([t EXCEPT !.txns[b.txn].root = l.root], l)

GetRoot(t, l, b) == Fine(t, [l EXCEPT !.node = t.nodes[l.root],
                                      !.cache = <<t.nodes[l.root]>>])

(* get_node_revision on the node the process keeps from an earlier trail:  *)
(* what it has cached, or what the table says.                             *)
GetNodeRevision(t, l, b) ==
    IF l.cache # <<>> THEN Fine(t, [l EXCEPT !.node = l.cache[1]])
    ELSE IF b.node \in DOMAIN t.nodes
         THEN Fine(t, [l EXCEPT !.node = t.nodes[b.node],
                                !.cache = <<t.nodes[b.node]>>])
         ELSE Error(t, l)

SetNodeRevision(t, l, b) ==
    IF l.node.rev # Uncommitted THEN Error(t, l)
    ELSE LET n == [l.node EXCEPT !.text = @ \cup {b.edit}] IN
         Fine([t EXCEPT !.nodes = Promise!Put(@, b.node, n)],
              [l EXCEPT !.cache = <<n>>])

(* txn_body_commit: out of date when the youngest revision's root is not   *)
(* the base root.                                                          *)
CheckBase(t, l, b) ==
    IF t.revs[l.rev + 1].root = l.base THEN Fine(t, l) ELSE Error(t, l)

PutRev(t, l, b) ==
    Fine([t EXCEPT !.revs = Append(@, [root |-> l.root, props |-> l.props])],
         [l EXCEPT !.rev = Len(t.revs), !.out = <<Len(t.revs)>>])

SetRevDate(t, l, b) ==
    Fine([t EXCEPT !.revs[l.rev + 1].props =
                       Promise!SetProp(@, "date", "commit")], l)

Stabilize(t, l, b) ==
    Fine(IF l.node.rev = Uncommitted
         THEN [t EXCEPT !.nodes[l.root].rev = l.rev] ELSE t, l)

(* Which page each access locks, and how. *)
Reads == [get_rev |-> "revs", youngest |-> "revs", check_base |-> "revs",
          next_id |-> "txns", get_txn |-> "txns", list |-> "txns",
          base_revision |-> "nodes", clone_root |-> "nodes",
          get_root |-> "nodes", get_node |-> "nodes"]

Writes == [put_rev_prop |-> "revs", put_rev |-> "revs", set_date |-> "revs",
           put_next_id |-> "txns", put_txn |-> "txns",
           put_txn_prop |-> "txns", delete_txn |-> "txns",
           set_txn_root |-> "txns", delete_nodes |-> "nodes",
           create_successor |-> "nodes", set_node |-> "nodes",
           stabilize |-> "nodes"]

Access(a, t, l, b) ==
    CASE a = "get_rev" -> GetRev(t, l, b)
      [] a = "youngest" -> YoungestRev(t, l, b)
      [] a = "check_base" -> CheckBase(t, l, b)
      [] a = "next_id" -> NextId(t, l, b)
      [] a = "get_txn" -> GetTxn(t, l, b)
      [] a = "list" -> ListTxns(t, l, b)
      [] a = "base_revision" -> BaseRevision(t, l, b)
      [] a = "clone_root" -> CloneRoot(t, l, b)
      [] a = "get_root" -> GetRoot(t, l, b)
      [] a = "get_node" -> GetNodeRevision(t, l, b)
      [] a = "put_rev_prop" -> PutRevProp(t, l, b)
      [] a = "put_rev" -> PutRev(t, l, b)
      [] a = "set_date" -> SetRevDate(t, l, b)
      [] a = "put_next_id" -> PutNextId(t, l, b)
      [] a = "put_txn" -> PutTxn(t, l, b)
      [] a = "put_txn_prop" -> PutTxnProp(t, l, b)
      [] a = "delete_txn" -> DeleteTxn(t, l, b)
      [] a = "set_txn_root" -> SetTxnRoot(t, l, b)
      [] a = "delete_nodes" -> DeleteNodes(t, l, b)
      [] a = "create_successor" -> CreateSuccessor(t, l, b)
      [] a = "set_node" -> SetNodeRevision(t, l, b)
      [] a = "stabilize" -> Stabilize(t, l, b)

(***************************************************************************)
(* The bodies, and the trails each call consists of.                       *)
(***************************************************************************)
Steps ==
    [youngest |-> <<"youngest">>,
     begin    |-> <<"get_rev", "next_id", "put_next_id", "put_txn">>,
     txnprop  |-> <<"get_txn", "put_txn_prop">>,
     list     |-> <<"list">>,
     open     |-> <<"get_txn", "base_revision">>,
     prepare  |-> <<"get_txn", "clone_root">>,
     finish   |-> <<"get_node", "set_node">>,
     commit   |-> <<"youngest", "get_txn", "check_base", "get_root",
                    "put_rev", "set_date", "stabilize", "delete_txn">>,
     abort    |-> <<"get_txn", "delete_nodes", "delete_txn">>,
     revprop  |-> <<"get_rev", "put_rev_prop">>]

(* svn_fs_youngest_rev and svn_fs_begin_txn, the second dating the new     *)
(* transaction in a trail of its own; svn_fs_list_transactions and         *)
(* svn_fs_open_txn of one of the names; a text edit, its node kept from    *)
(* the trail that makes it mutable to the one that ends the edit.          *)
FirstTrail(p, call) ==
    LET h == proc[p].handle IN
    CASE call = "begin" -> [do |-> "youngest"]
      [] call = "open" -> [do |-> "list"]
      [] call = "edit" -> [do |-> "prepare", txn |-> h[1]]
      [] call = "log" -> [do |-> "txnprop", txn |-> h[1], name |-> "log",
                          value |-> calls]
      [] call = "commit" -> [do |-> "commit", txn |-> h[1]]
      [] call = "abort" -> [do |-> "abort", txn |-> h[1]]
      [] call = "revprop" -> [do |-> "revprop", rev |-> 0, name |-> "log",
                              value |-> calls]

NextTrails(p, body, out) ==
    CASE body.do = "youngest" -> {[do |-> "begin", rev |-> out[1]]}
      [] body.do = "begin" -> {[do |-> "txnprop", txn |-> out[1],
                                name |-> "date", value |-> "begin"]}
      [] body.do = "list" -> {[do |-> "open", txn |-> n] : n \in Range(out)}
      [] body.do = "prepare" -> {[do |-> "finish", node |-> out[1],
                                  edit |-> proc[p].nr]}
      [] OTHER -> {}

(***************************************************************************)
(* Trails.                                                                 *)
(***************************************************************************)
NoTrail == [on |-> FALSE]
NoLocals == [root |-> 0, base |-> 0, rev |-> 0, txn |-> 0, props |-> <<>>,
             node |-> <<>>, cache |-> <<>>, out |-> <<>>]

(* begin_trail: a transaction of the database and an empty undo list.      *)
BeginTrail(body, cache) ==
    [on |-> TRUE, body |-> body, todo |-> Steps[body.do],
     l |-> [NoLocals EXCEPT !.cache = cache], mine |-> <<>>]

Idle == [state |-> "idle", nr |-> 0, handle |-> <<>>, reply |-> "none"]

Init == /\ tables = Promise!EmptyTables
        /\ trail = [p \in Procs |-> NoTrail]
        /\ locks = [p \in Procs |-> [page \in Pages |-> "no"]]
        /\ proc = [p \in Procs |-> Idle]
        /\ last = [body |-> Promise!NoBody, by |-> <<>>, ok |-> TRUE,
                   out |-> <<>>]
        /\ calls = 0 /\ deaths = 0 /\ incomplete = 0

Call(p, call) ==
    /\ proc[p].state = "idle" /\ calls < MaxCalls
    /\ call \in {"edit", "log", "commit", "abort"} => proc[p].handle # <<>>
    /\ calls' = calls + 1
    /\ proc' = [proc EXCEPT ![p].state = "busy", ![p].nr = calls + 1,
                            ![p].reply = "none"]
    /\ trail' = [trail EXCEPT ![p] = BeginTrail(FirstTrail(p, call), <<>>)]
    /\ UNCHANGED <<tables, locks, last, deaths, incomplete>>

(* The page and the lock the next access of p's trail needs; an access     *)
(* that finds the node in the cache needs none.                            *)
Wanted(p) ==
    LET a == Head(trail[p].todo) IN
    CASE a = "get_node" /\ trail[p].l.cache # <<>> -> <<"nodes", "no">>
      [] a \in DOMAIN Writes -> <<Writes[a], "write">>
      [] OTHER -> <<Reads[a], "read">>

Excludes(held, wanted) ==
    \/ held = "write" /\ wanted # "no"
    \/ wanted = "write" /\ held # "no"

Active(p) == trail[p].on /\ proc[p].state = "busy" /\ trail[p].todo # <<>>

(* Whom p's next access waits for. *)
WaitsFor(p) ==
    IF ~Active(p) THEN {}
    ELSE LET w == Wanted(p) IN
         {q \in Procs \ {p} : Excludes(locks[q][w[1]], w[2])}

(* The tables as p's trail sees them: its own writes are on pages nobody   *)
(* else can look at before it ends.                                        *)
View(p) ==
    LET m == trail[p].mine IN
    [next  |-> IF "txns" \in DOMAIN m THEN m["txns"][1] ELSE tables.next,
     txns  |-> IF "txns" \in DOMAIN m THEN m["txns"][2] ELSE tables.txns,
     revs  |-> IF "revs" \in DOMAIN m THEN m["revs"] ELSE tables.revs,
     nodes |-> IF "nodes" \in DOMAIN m THEN m["nodes"] ELSE tables.nodes]

PageIn(t, page) == CASE page = "txns" -> <<t.next, t.txns>>
                     [] page = "revs" -> t.revs
                     [] page = "nodes" -> t.nodes

(* What ending a trail does to the node that the process keeps:            *)
(* cache_node_revision had the cached record of a mutable node dropped     *)
(* when the trail is complete, however it ends.                            *)
UncacheNodeRevision_Keeps(cache) == cache
UncacheNodeRevision(cache) ==
    IF cache # <<>> /\ cache[1].rev = Uncommitted THEN <<>> ELSE cache

Unlocked == [page \in Pages |-> "no"]

(* A body returns an error: abort_trail, and the call fails. *)
AbortTrail(p) ==
    /\ trail' = [trail EXCEPT ![p] = NoTrail]
    /\ locks' = [locks EXCEPT ![p] = Unlocked]
    /\ proc' = [proc EXCEPT ![p].state = "idle", ![p].nr = 0,
                            ![p].reply = "error"]
    /\ last' = [body |-> trail[p].body, by |-> <<p>>, ok |-> FALSE,
                out |-> <<>>]
    /\ UNCHANGED tables

(* One access of the body, once its lock is to be had. *)
Step(p) ==
    /\ Active(p) /\ WaitsFor(p) = {}
    /\ LET w == Wanted(p)
           a == Head(trail[p].todo)
       IN \E r \in {Access(a, View(p), trail[p].l, trail[p].body)} :
          IF ~r.ok THEN AbortTrail(p)
          ELSE /\ trail' = [trail EXCEPT
                      ![p].todo = r.then \o Tail(@),
                      ![p].l = r.l,
                      ![p].mine =
                          IF w[2] = "write"
                          THEN Promise!Put(@, w[1], PageIn(r.tables, w[1])) ELSE @]
               /\ locks' = [locks EXCEPT ![p][w[1]] =
                               IF @ = "write" \/ w[2] = "no" THEN @ ELSE w[2]]
               /\ UNCHANGED <<tables, proc, last>>
    /\ UNCHANGED <<calls, deaths, incomplete>>

(* p is one of several processes that wait for one another in a circle.    *)
Deadlocked(p) ==
    \E S \in SUBSET Procs : \E f \in [S -> S] :
        /\ p \in S
        /\ \A q \in S : f[q] \in WaitsFor(q)
        /\ \A q, r \in S : f[q] = f[r] => q = r

(* svn_fs__retry_txn, its trail the one the deadlock detector chose: the   *)
(* trail is aborted, what it has cached undone, its pool destroyed, and    *)
(* the body begun again with the same baton.                               *)
Retry_KeepsLocals(p) ==
    [BeginTrail(trail[p].body, <<>>) EXCEPT !.l = trail[p].l]
Retry(p) ==
    BeginTrail(trail[p].body, UncacheNodeRevision(trail[p].l.cache))

Deadlock(p) ==
    /\ Deadlocked(p)
    /\ trail' = [trail EXCEPT ![p] = Retry(p)]
    /\ locks' = [locks EXCEPT ![p] = Unlocked]
    /\ UNCHANGED <<tables, proc, last, calls, deaths, incomplete>>

(* What the process has in hand after its trail: the transaction it opened *)
(* or began, none after a commit or an abort.                              *)
NewHandle(p) ==
    LET b == trail[p].body IN
    CASE b.do \in {"begin", "open"} -> trail[p].l.out
      [] b.do \in {"commit", "abort"} -> <<>>
      [] OTHER -> proc[p].handle

(* commit_trail: the undo list's completions, the commit, a checkpoint;    *)
(* then the next trail of the call, or its return.  A checkpoint that      *)
(* returns DB_INCOMPLETE makes the call fail although the trail has        *)
(* committed.                                                              *)
CommitTrail(p, fails) ==
    /\ trail[p].on /\ proc[p].state = "busy" /\ trail[p].todo = <<>>
    /\ fails => incomplete < MaxIncomplete
    /\ incomplete' = IF fails THEN incomplete + 1 ELSE incomplete
    /\ tables' = View(p)
    /\ locks' = [locks EXCEPT ![p] = Unlocked]
    /\ last' = [body |-> trail[p].body, by |-> <<p>>, ok |-> TRUE,
                out |-> trail[p].l.out]
    /\ LET more  == IF fails THEN {}
                    ELSE NextTrails(p, trail[p].body, trail[p].l.out)
           cache == UncacheNodeRevision(trail[p].l.cache)
       IN IF more = {}
          THEN /\ trail' = [trail EXCEPT ![p] = NoTrail]
               /\ proc' = [proc EXCEPT
                      ![p] = [state |-> "idle", nr |-> 0,
                              reply |-> IF fails THEN "error" ELSE "ok",
                              handle |-> IF fails THEN @.handle
                                         ELSE NewHandle(p)]]
          ELSE /\ \E b \in more :
                     trail' = [trail EXCEPT ![p] = BeginTrail(b, cache)]
               /\ proc' = [proc EXCEPT ![p].handle = NewHandle(p)]
    /\ UNCHANGED <<calls, deaths>>

(* A process dies in the middle of a call.  Its locks stay.                *)
Die(p) ==
    /\ proc[p].state = "busy"
    /\ \/ deaths < MaxDeaths
       \/ \E q \in WaitsFor(p) : proc[q].state = "dead"
    /\ deaths' = IF deaths < MaxDeaths THEN deaths + 1 ELSE deaths
    /\ proc' = [proc EXCEPT ![p].state = "dead"]
    /\ UNCHANGED <<tables, trail, locks, last, calls, incomplete>>

(* svn_fs_berkeley_recover, under svnadmin's exclusive lock on the         *)
(* repository: what no ended trail wrote is taken back; everyone starts    *)
(* anew.                                                                   *)
Recover ==
    /\ \E p \in Procs : proc[p].state = "dead"
    /\ \A p \in Procs : proc[p].state # "busy"
    /\ trail' = [p \in Procs |-> NoTrail]
    /\ locks' = [p \in Procs |-> Unlocked]
    /\ proc' = [p \in Procs |-> Idle]
    /\ last' = [last EXCEPT !.body = Promise!NoBody]
    /\ UNCHANGED <<tables, calls, deaths, incomplete>>

Finished == /\ calls = MaxCalls
            /\ \A p \in Procs : proc[p].state = "idle"
            /\ UNCHANGED vars

Next == \/ \E p \in Procs :
             \/ \E call \in Calls : Call(p, call)
             \/ Step(p)
             \/ Deadlock(p)
             \/ \E fails \in BOOLEAN : CommitTrail(p, fails)
             \/ Die(p)
        \/ Recover
        \/ Finished

Spec == Init /\ [][Next]_vars

(* Every trail is one run of its body on the tables as the trails before   *)
(* it left them, whatever deadlocks, errors and deaths there were: what it *)
(* leaves in the tables and what it gives its caller are those of that     *)
(* run.  (svn_fs__retry_txn and the bodies that keep nothing of an attempt *)
(* that was aborted.)                                                      *)
TrailsAtomic == Promise!Spec

(* The cached record of the node that a process keeps from an earlier      *)
(* trail or attempt is the one in the table, as the trail sees it: nobody  *)
(* can have changed it since (cache_node_revision, uncache_node_revision). *)
CacheFresh ==
    \A p \in Procs :
        LET n == trail[p].body.node
            c == trail[p].l.cache
        IN  trail[p].on /\ trail[p].body.do = "finish" /\ c # <<>> =>
                n \in DOMAIN View(p).nodes /\ c[1] = View(p).nodes[n]

(* The base revision in an open transaction's handle is a revision whose   *)
(* root is the transaction's base root, also when an older revision shares *)
(* that root and when the transaction was begun by a process that died     *)
(* (svn_fs_begin_txn, svn_fs_open_txn).                                    *)
BaseRevisionRight ==
    \A p \in Procs :
        LET h == proc[p].handle IN
        h # <<>> =>
            /\ h[2] + 1 \in DOMAIN tables.revs
            /\ h[1] \in DOMAIN tables.txns =>
                   tables.revs[h[2] + 1].root = tables.txns[h[1]].base
=============================================================================
