------------------------------ MODULE FsTables ------------------------------
(***************************************************************************)
(* What svn_fs__retry_txn (libsvn_fs/trail.c) promises its callers: a      *)
(* trail body runs as a whole against the tables of the filesystem, or     *)
(* not at all.  A body is given by what it is to do to the tables in one   *)
(* step, with no word of locks, of deadlocks or of attempts.               *)
(*                                                                         *)
(* The tables: the next transaction name, the transactions (root and base  *)
(* root node revision, property list), the revisions (record r + 1 holds   *)
(* revision r) and the node revisions of the root directory (the revision  *)
(* a node was committed in, or Uncommitted, and its text: the set of the   *)
(* edits that made it).                                                    *)
(***************************************************************************)
EXTENDS Integers, Sequences, SequencesExt

VARIABLES tables, last

Uncommitted == -1

(* A table with a record put under a key, and with a key deleted.          *)
Put(table, key, record) ==
    [k \in DOMAIN table \cup {key} |-> IF k = key THEN record ELSE table[k]]
Delete(table, key) == [k \in DOMAIN table \ {key} |-> table[k]]

(* The property list proplist, a sequence of names and values, with NAME   *)
(* set: the pair that is there is overwritten, a new one goes first.       *)
SetProp(proplist, name, value) ==
    IF \E i \in DOMAIN proplist : proplist[i][1] = name
    THEN [i \in DOMAIN proplist |->
             IF proplist[i][1] = name THEN <<name, value>> ELSE proplist[i]]
    ELSE <<<<name, value>>>> \o proplist

(* The first transaction: the filesystem has revision 0 and its root.      *)
EmptyTables ==
    [next  |-> 0,
     txns  |-> <<>>,
     revs  |-> <<[root |-> 0, props |-> <<>>]>>,
     nodes |-> [n \in {0} |-> [rev |-> 0, text |-> {}]]]

Failed(t) == [ok |-> FALSE, tables |-> t, out |-> <<>>]
Done(t, out) == [ok |-> TRUE, tables |-> t, out |-> out]

Youngest(t) == Len(t.revs) - 1
TxnNames(txns) == SetToSortSeq(DOMAIN txns, <)

(* A key that is not in use, it may be one that was.                       *)
FreshNode(nodes) == CHOOSE n \in {0} \cup {m + 1 : m \in DOMAIN nodes} :
                        n \notin DOMAIN nodes

(* What each body does to the tables t as a whole; `out' is what it gives  *)
(* its caller.  First the bodies that name no transaction, then those that *)
(* are about the transaction b.txn, x its record.                          *)
BodyEffect(b, t) ==
    CASE b.do = "begin" ->
            IF b.rev \notin 0 .. Youngest(t) THEN Failed(t)
            ELSE LET root == t.revs[b.rev + 1].root IN
                 Done([t EXCEPT !.next = @ + 1,
                                !.txns = Put(@, t.next, [root  |-> root,
                                                         base  |-> root,
                                                         props |-> <<>>])],
                      <<t.next, b.rev>>)
      [] b.do = "youngest" -> Done(t, <<Youngest(t)>>)
      [] b.do = "list" -> Done(t, TxnNames(t.txns))
      [] b.do = "revprop" ->
            IF b.rev \notin 0 .. Youngest(t) THEN Failed(t)
            ELSE Done([t EXCEPT !.revs[b.rev + 1].props =
                                    SetProp(@, b.name, b.value)], <<>>)
      [] b.do = "finish" ->
            IF b.node \notin DOMAIN t.nodes THEN Failed(t)
            ELSE IF t.nodes[b.node].rev # Uncommitted THEN Failed(t)
            ELSE Done([t EXCEPT !.nodes[b.node].text = @ \cup {b.edit}], <<>>)

TxnEffect(b, t, x) ==
    CASE b.do = "txnprop" ->
            Done([t EXCEPT !.txns[b.txn].props = SetProp(@, b.name, b.value)],
                 <<>>)
      [] b.do = "open" -> Done(t, <<b.txn, t.nodes[x.base].rev>>)
      [] b.do = "prepare" ->
            IF x.root # x.base THEN Done(t, <<x.root>>)
            ELSE LET n == FreshNode(t.nodes) IN
                 Done([t EXCEPT !.txns[b.txn].root = n,
                                !.nodes = Put(@, n, [t.nodes[x.base] EXCEPT
                                                        !.rev = Uncommitted])],
                      <<n>>)
      [] b.do = "abort" ->
            Done([t EXCEPT
                    !.nodes = IF t.nodes[x.root].rev = Uncommitted
                              THEN Delete(@, x.root) ELSE @,
                    !.txns = Delete(@, b.txn)], <<>>)
      [] b.do = "commit" ->
            IF t.revs[Len(t.revs)].root # x.base THEN Failed(t)
            ELSE Done([t EXCEPT
                         !.revs = Append(@, [root  |-> x.root,
                                             props |-> SetProp(x.props,
                                                          "date", "commit")]),
                         !.nodes[x.root].rev =
                             IF @ = Uncommitted THEN Len(t.revs) ELSE @,
                         !.txns = Delete(@, b.txn)],
                      <<Len(t.revs)>>)

AboutTxn == {"txnprop", "open", "prepare", "abort", "commit"}

Effect(b, t) ==
    IF b.do \notin AboutTxn THEN BodyEffect(b, t)
    ELSE IF b.txn \notin DOMAIN t.txns THEN Failed(t)
    ELSE TxnEffect(b, t, t.txns[b.txn])

NoBody == [do |-> "none"]

Init == /\ tables = EmptyTables
        /\ last = [body |-> NoBody, by |-> <<>>, ok |-> TRUE, out |-> <<>>]

(* A trail ends: its body has been run once, on the tables as they are,    *)
(* and what it gives its caller is what that run gives.                    *)
RunBody == /\ last'.body # NoBody
           /\ LET e == Effect(last'.body, tables) IN
              /\ tables' = e.tables
              /\ last'.ok = e.ok
              /\ last'.out = e.out

(* Processes die, and recovery leaves the tables as the ended trails did.  *)
Restart == tables' = tables /\ last' = [last EXCEPT !.body = NoBody]

Next == RunBody \/ Restart

Spec == Init /\ [][Next]_<<tables, last>>
=============================================================================
