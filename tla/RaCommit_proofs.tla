-------------------------- MODULE RaCommit_proofs ---------------------------
(***************************************************************************)
(* That a commit happens or does not, through either access layer, for any *)
(* number of clients, paths, commits and faults.                           *)
(*                                                                         *)
(* The inductive invariant CommitInv says, of the commit that a client has *)
(* under way, what there is of it at each stage: no transaction before     *)
(* begin_txn, then none but the one in the batons, which an activity that  *)
(* could not be stored has lost; no revision up to commit_txn, and one     *)
(* after it.  An owner is a client with the number of its commit, so that  *)
(* what earlier commits left behind is nobody else's.                      *)
(***************************************************************************)
EXTENDS RaCommit, FiniteSetTheorems, SequenceTheorems, TLAPS

-----------------------------------------------------------------------------
(* The inductive invariant *)

Early == {"youngest", "begin_txn"}
Open == {"latest", "apply_log", "drive", "pre_commit", "commit_txn"}
Sent == {"drive", "pre_commit", "commit_txn"}
Done == {"post_commit", "merge_response", "process_committed"}

\* The name of a commit, when n commits of each client were begun.
Numbered(n, x) == \E c \in Clients : \E i \in 0..n[c] : x = <<c, i>>

IsSeq(s) == s \in Seq({s[i] : i \in DOMAIN s})

NamesRight ==
  /\ commits \in [Clients -> Nat] /\ nextTxn \in Nat \ {0}
  /\ DOMAIN edit = Clients /\ DOMAIN result = Clients
  /\ IsSeq(made)
  /\ \A r \in DOMAIN made : made[r].by = <<>> \/ Numbered(commits, made[r].by)
  /\ \A t \in DOMAIN txns :
       /\ t \in Nat /\ t < nextTxn /\ DOMAIN txns[t] = {"tree", "base", "log", "owner"}
       /\ Numbered(commits, txns[t].owner)
       /\ \A r \in DOMAIN made : made[r].by # txns[t].owner

\* The transactions of a client's latest commit; its revisions are NewRevs.
OwnTxns(c) == {t \in DOMAIN txns : txns[t].owner = Value(c)}
One(S) == \E x \in S : S = {x}

BatonsRight(e) ==
  /\ DOMAIN e = DOMAIN NoEdit
  /\ e.stage \in {"idle"} \cup Early \cup Open \cup Done
  /\ e.last \in {"commit_txn", "process_committed"}
  /\ e.stage \in Early => e.txn = NoTxn
  /\ e.stage \in Sent => e.txn # NoTxn

\* What is left of a commit that ended with the result x: its transactions and
\* its revisions.
Ended(x, own, new) ==
  /\ new = {} \/ One(new)
  /\ x \in {"ok", "late"} => One(new)
  /\ x \in {"error", "aborted"} => new = {}
  /\ x = "aborted" => own = {}

\* What there is of a commit with the batons e: a client that died may still
\* have one under way in the server.
CommitRight(e, x, own, new) ==
  /\ e.stage = "idle" => Ended(x, own, new)
  /\ e.stage # "idle" => x \in {"none", "died"}
  /\ e.last = "commit_txn" => x = "died"
  /\ e.stage \in Early => own = {} /\ new = {}
  /\ e.stage \in Open => (own \subseteq {e.txn} \/ e.txn = NoTxn) /\ new = {}
  /\ e.stage \in Done => One(new)

ClientRight(c) ==
  /\ BatonsRight(edit[c])
  /\ CommitRight(edit[c], result[c], OwnTxns(c), NewRevs(c))

CommitInv == NamesRight /\ \A c \in Clients : ClientRight(c)

-----------------------------------------------------------------------------
(* What it implies *)

LEMMA CommitsAreAtomic == CommitInv => AllOrNothing
<1> SUFFICES ASSUME CommitInv
             PROVE  AllOrNothing
  OBVIOUS
<1>1. ASSUME NEW c \in Clients
      PROVE  /\ Cardinality(NewRevs(c)) <= 1
             /\ result[c] \in {"ok", "late"} => NewRevs(c) # {}
             /\ result[c] \in {"error", "aborted"} => NewRevs(c) = {}
             /\ result[c] = "aborted" => \A t \in DOMAIN txns : txns[t].owner # Value(c)
  <2>1. BatonsRight(edit[c]) /\ CommitRight(edit[c], result[c], OwnTxns(c), NewRevs(c))
    BY Zenon DEF CommitInv, ClientRight
  <2>2. edit[c].stage \in {"idle"} \cup Early \cup Open \cup Done
    BY <2>1, Zenon DEF BatonsRight
  <2>3. NewRevs(c) = {} \/ One(NewRevs(c))
    BY <2>1, <2>2, Zenon DEF CommitRight, Ended
  <2>4. Cardinality(NewRevs(c)) <= 1
    <3>1. CASE NewRevs(c) = {}
      BY <3>1, FS_EmptySet
    <3>2. CASE One(NewRevs(c))
      <4>1. PICK r : NewRevs(c) = {r}
        BY <3>2, Zenon DEF One
      <4>2. Cardinality(NewRevs(c)) = 1
        BY <4>1, FS_Singleton, Zenon
      <4> QED
        BY <4>2
    <3> QED
      BY <2>3, <3>1, <3>2
  <2>5. ASSUME result[c] # "none", result[c] # "died"
        PROVE  Ended(result[c], OwnTxns(c), NewRevs(c))
    <3>1. result[c] \notin {"none", "died"}
      BY <2>5
    <3> QED
      BY <2>1, <3>1, Zenon DEF CommitRight
  <2>6. ASSUME result[c] \in {"ok", "late"}
        PROVE  NewRevs(c) # {}
    <3>1. result[c] # "none" /\ result[c] # "died"
      BY <2>6
    <3>2. One(NewRevs(c))
      BY <2>5, <2>6, <3>1, Zenon DEF Ended
    <3> QED
      BY <3>2, Zenon DEF One
  <2>7. ASSUME result[c] \in {"error", "aborted"}
        PROVE  NewRevs(c) = {}
    <3>1. result[c] # "none" /\ result[c] # "died"
      BY <2>7
    <3> QED
      BY <2>5, <2>7, <3>1, Zenon DEF Ended
  <2>8. ASSUME result[c] = "aborted"
        PROVE  \A t \in DOMAIN txns : txns[t].owner # Value(c)
    <3>1. result[c] # "none" /\ result[c] # "died"
      BY <2>8
    <3>2. OwnTxns(c) = {}
      BY <2>5, <2>8, <3>1, Zenon DEF Ended
    <3> QED
      BY <3>2, Zenon DEF OwnTxns
  <2> QED
    BY <2>4, <2>6, <2>7, <2>8, Zenon
<1>2. \A t \in DOMAIN txns, r \in DOMAIN made : made[r].by # txns[t].owner
  BY Zenon DEF CommitInv, NamesRight
<1> QED
  BY <1>1, <1>2, Zenon DEF AllOrNothing

-----------------------------------------------------------------------------
(* What becomes of a commit, as long as it makes no transaction or revision *)

\* Batons that differ in nothing that CommitInv looks at.
SameBatons(e, f) ==
  /\ DOMAIN f = DOMAIN e
  /\ f.stage = e.stage /\ f.last = e.last /\ f.txn = e.txn

LEMMA SameRight ==
  ASSUME NEW e, NEW f, SameBatons(e, f), BatonsRight(e)
  PROVE  /\ BatonsRight(f)
         /\ \A x, own, new :
              CommitRight(e, x, own, new) => CommitRight(f, x, own, new)
<1>1. f.stage = e.stage /\ f.last = e.last /\ f.txn = e.txn /\ DOMAIN f = DOMAIN e
  BY Zenon DEF SameBatons
<1>2. BatonsRight(f)
  BY <1>1, Zenon DEF BatonsRight
<1>3. ASSUME NEW x, NEW own, NEW new, CommitRight(e, x, own, new)
      PROVE  CommitRight(f, x, own, new)
  BY <1>1, <1>3, Zenon DEF CommitRight
<1> QED
  BY <1>2, <1>3, Zenon

\* The transactions of a commit may go.
LEMMA CommitMonotone ==
  ASSUME NEW e, NEW x, NEW own, NEW new, CommitRight(e, x, own, new),
         NEW own2, own2 \subseteq own
  PROVE  CommitRight(e, x, own2, new)
<1>1. own = {} => own2 = {}
  OBVIOUS
<1>2. \A s : own \subseteq s => own2 \subseteq s
  OBVIOUS
<1>3. Ended(x, own, new) => Ended(x, own2, new)
  BY <1>1, Zenon DEF Ended
<1> QED
  BY <1>1, <1>2, <1>3, Zenon DEF CommitRight

LEMMA NoEditRight == BatonsRight(NoEdit) /\ NoEdit.stage = "idle" /\ NoEdit.last = "process_committed"
<1>1. NoEdit.stage = "idle" /\ NoEdit.last = "process_committed"
  BY DEF NoEdit
<1>2. NoEdit.stage \notin Early /\ NoEdit.stage \notin Sent
  BY <1>1 DEF Early, Sent
<1> QED
  BY <1>1, <1>2, Zenon DEF BatonsRight

\* The stages at which a commit may end with a result.
EndsAt(st, how) ==
  /\ st \in Early \cup Open \cup Done
  /\ how \in {"error", "aborted"} => st \in Early \cup Open
  /\ how \in {"ok", "late"} => st \in Done

LEMMA EndedRight ==
  ASSUME NEW e, NEW x, NEW own, NEW new, CommitRight(e, x, own, new), NEW how, EndsAt(e.stage, how),
         NEW own2, how = "aborted" => own2 = {}
  PROVE  CommitRight(NoEdit, how, own2, new)
<1>1. e.stage \in Early \cup Open => new = {}
  BY Zenon DEF CommitRight
<1>2. e.stage \in Done => One(new)
  BY Zenon DEF CommitRight
<1>3. /\ NoEdit.stage = "idle" /\ NoEdit.last # "commit_txn"
      /\ NoEdit.stage \notin Early /\ NoEdit.stage \notin Open /\ NoEdit.stage \notin Done
  BY NoEditRight DEF Early, Open, Done
<1>4. Ended(how, own2, new)
  BY <1>1, <1>2, Zenon DEF Ended, EndsAt
<1> QED
  BY <1>3, <1>4, Zenon DEF CommitRight

\* The batons after a call that succeeds.
Onward(c, e) ==
  IF e.stage = "drive" /\ Len(e.calls) > 1 THEN [e EXCEPT !.calls = Tail(@)]
  ELSE IF e.stage = e.last THEN NoEdit
  ELSE [e EXCEPT !.stage = After(c, @)]

\* The stages that neither begin a transaction nor commit it.
Passing == {"youngest", "latest", "apply_log", "drive", "pre_commit", "post_commit", "merge_response"}

LEMMA OnwardRight ==
  ASSUME NEW c, NEW e, BatonsRight(e), e.stage \in Passing, e.stage = "apply_log" => e.txn # NoTxn
  PROVE  /\ BatonsRight(Onward(c, e))
         /\ \A x, own, new :
              CommitRight(e, x, own, new) => CommitRight(Onward(c, e), x, own, new)
<1>0. PICK k : k = (e.stage = "drive" /\ Len(e.calls) > 1)
  OBVIOUS
<1>d. DOMAIN e = DOMAIN NoEdit
  BY Zenon DEF BatonsRight
<1>e. {"stage", "last", "txn", "calls"} \subseteq DOMAIN e
  BY <1>d DEF NoEdit
<1>1. CASE k
  <2>1. Onward(c, e) = [e EXCEPT !.calls = Tail(@)]
    BY <1>0, <1>1, Zenon DEF Onward
  <2>2. SameBatons(e, [e EXCEPT !.calls = Tail(@)])
    BY <1>e DEF SameBatons
  <2> QED
    BY <2>1, <2>2, SameRight, Zenon
<1>2. CASE ~k
  <2>1. e.stage # e.last
    <3>1. e.last \in {"commit_txn", "process_committed"}
      BY Zenon DEF BatonsRight
    <3> QED
      BY <3>1 DEF Passing
  <2>2. PICK a : a = After(c, e.stage)
    OBVIOUS
  <2>3. PICK f : f = [e EXCEPT !.stage = a]
    OBVIOUS
  <2>4. Onward(c, e) = f
    BY <1>0, <1>2, <2>1, <2>2, <2>3, Zenon DEF Onward
  <2>5. DOMAIN f = DOMAIN e /\ f.stage = a /\ f.last = e.last /\ f.txn = e.txn
    BY <1>e, <2>3
  <2>6. /\ e.stage = "youngest" => a = "begin_txn"
        /\ e.stage = "latest" => a = "apply_log"
        /\ e.stage = "apply_log" => a = "drive"
        /\ e.stage = "drive" => a = "pre_commit"
        /\ e.stage = "pre_commit" => a = "commit_txn"
        /\ e.stage = "post_commit" => a \in {"merge_response", "process_committed"}
        /\ e.stage = "merge_response" => a = "process_committed"
    BY <2>2 DEF After
  <2>7. /\ a \in {"begin_txn", "apply_log", "drive", "pre_commit", "commit_txn",
                  "merge_response", "process_committed"}
        /\ a \in Early => e.stage \in Early
        /\ a \in Open => e.stage \in Open
        /\ a \in Sent => e.stage \in Sent \/ e.stage = "apply_log"
        /\ a \in Done => e.stage \in Done
        /\ a # "idle" /\ e.stage # "idle"
    BY <2>6 DEF Passing, Early, Open, Sent, Done
  <2>8. BatonsRight(f)
    <3>1. a \in {"idle"} \cup Early \cup Open \cup Done
      BY <2>7 DEF Early, Open, Done
    <3> QED
      BY <2>5, <2>7, <3>1, <1>d, Zenon DEF BatonsRight
  <2>9. ASSUME NEW x, NEW own, NEW new, CommitRight(e, x, own, new)
        PROVE  CommitRight(f, x, own, new)
    BY <2>5, <2>7, <2>9, Zenon DEF CommitRight
  <2> QED
    BY <2>4, <2>8, <2>9, Zenon
<1> QED
  BY <1>1, <1>2

-----------------------------------------------------------------------------
(* The other clients during a step of one *)

\* A step touches the batons and the result of its own client only.
OnlyItsOwn(c) ==
  /\ DOMAIN edit' = Clients /\ DOMAIN result' = Clients
  /\ \A d \in Clients \ {c} : edit'[d] = edit[d] /\ result'[d] = result[d]

\* Nothing is added to what the other clients have.
OthersKept(c) ==
  \A d \in Clients \ {c} : OwnTxns(d)' \subseteq OwnTxns(d) /\ NewRevs(d)' = NewRevs(d)

LEMMA StepKeeps ==
  ASSUME CommitInv, NEW c \in Clients, OnlyItsOwn(c), OthersKept(c), NamesRight', ClientRight(c)'
  PROVE  CommitInv'
<1>1. ASSUME NEW d \in Clients \ {c}
      PROVE  ClientRight(d)'
  <2>1. BatonsRight(edit[d]) /\ CommitRight(edit[d], result[d], OwnTxns(d), NewRevs(d))
    BY Zenon DEF CommitInv, ClientRight
  <2>2. edit'[d] = edit[d] /\ result'[d] = result[d]
    BY Zenon DEF OnlyItsOwn
  <2>3. OwnTxns(d)' \subseteq OwnTxns(d) /\ NewRevs(d)' = NewRevs(d)
    BY Zenon DEF OthersKept
  <2>4. CommitRight(edit[d], result[d], OwnTxns(d)', NewRevs(d))
    BY <2>1, <2>3, CommitMonotone, Zenon
  <2>5. ClientRight(d)' = (BatonsRight(edit'[d]) /\
          CommitRight(edit'[d], result'[d], OwnTxns(d)', NewRevs(d)'))
    BY Zenon DEF ClientRight
  <2> QED
    BY <2>1, <2>2, <2>3, <2>4, <2>5, Zenon
<1>2. \A d \in Clients : ClientRight(d)'
  BY <1>1, Zenon
<1> QED
  BY <1>2, Zenon DEF CommitInv

TxnsKept ==
  \A t \in DOMAIN txns' :
    t \in DOMAIN txns /\ DOMAIN txns'[t] = DOMAIN txns[t] /\ txns'[t].owner = txns[t].owner

\* Steps that make neither a revision nor a transaction, nor begin a commit.
Quiet ==
  /\ made' = made /\ commits' = commits /\ nextTxn' = nextTxn
  /\ TxnsKept

LEMMA TxnsShrink ==
  ASSUME Quiet, NEW d
  PROVE  Value(d)' = Value(d) /\ OwnTxns(d)' \subseteq OwnTxns(d)
<1>1. Value(d)' = Value(d)
  BY Zenon DEF Quiet, Value
<1>2. ASSUME NEW t \in OwnTxns(d)'
      PROVE  t \in OwnTxns(d)
  <2>1. t \in DOMAIN txns' /\ txns'[t].owner = Value(d)
    BY <1>1, <1>2, Zenon DEF OwnTxns
  <2>2. t \in DOMAIN txns /\ txns[t].owner = Value(d)
    BY <2>1, Zenon DEF Quiet, TxnsKept
  <2> QED
    BY <2>2, Zenon DEF OwnTxns
<1> QED
  BY <1>1, <1>2, Zenon

LEMMA QuietStep ==
  ASSUME CommitInv, NEW c \in Clients, Quiet, OnlyItsOwn(c), BatonsRight(edit'[c]),
         CommitRight(edit'[c], result'[c], OwnTxns(c)', NewRevs(c))
  PROVE  CommitInv'
<1>q. /\ made' = made /\ commits' = commits /\ nextTxn' = nextTxn
      /\ OnlyItsOwn(c) /\ TxnsKept
  BY Zenon DEF Quiet
<1>n. NamesRight
  BY Zenon DEF CommitInv
<1>1. \A d : Value(d)' = Value(d)
  BY TxnsShrink, Zenon
<1>2. \A d : OwnTxns(d)' \subseteq OwnTxns(d)
  BY TxnsShrink, Zenon
<1>3. \A d : NewRevs(d)' = NewRevs(d)
  BY <1>q, <1>1, Zenon DEF NewRevs
<1>4. NamesRight'
  <2>1. commits' \in [Clients -> Nat] /\ nextTxn' \in Nat \ {0}
    BY <1>q, <1>n, Zenon DEF NamesRight
  <2>2. DOMAIN edit' = Clients /\ DOMAIN result' = Clients
    BY <1>q, Zenon DEF OnlyItsOwn
  <2>3. IsSeq(made') /\ \A r \in DOMAIN made' : made'[r].by = <<>> \/ Numbered(commits', made'[r].by)
    BY <1>q, <1>n, Zenon DEF NamesRight
  <2>4. ASSUME NEW t \in DOMAIN txns'
        PROVE  /\ t \in Nat /\ t < nextTxn'
               /\ DOMAIN txns'[t] = {"tree", "base", "log", "owner"}
               /\ Numbered(commits', txns'[t].owner)
               /\ \A r \in DOMAIN made' : made'[r].by # txns'[t].owner
    <3>1. t \in DOMAIN txns /\ DOMAIN txns'[t] = DOMAIN txns[t] /\ txns'[t].owner = txns[t].owner
      BY <1>q, Zenon DEF TxnsKept
    <3>2. /\ t \in Nat /\ t < nextTxn /\ DOMAIN txns[t] = {"tree", "base", "log", "owner"}
          /\ Numbered(commits, txns[t].owner) /\ \A r \in DOMAIN made : made[r].by # txns[t].owner
      BY <1>n, <3>1, Zenon DEF NamesRight
    <3>3. Numbered(commits', txns'[t].owner)
      BY <1>q, <3>1, <3>2, Zenon
    <3> QED
      BY <1>q, <3>1, <3>2, <3>3, Zenon
  <2> QED
    BY <2>1, <2>2, <2>3, <2>4, Zenon DEF NamesRight
<1>5. ClientRight(c)'
  <2>1. CommitRight(edit'[c], result'[c], OwnTxns(c)', NewRevs(c)')
    BY <1>3, Zenon
  <2> QED
    BY <2>1, Zenon DEF ClientRight
<1>6. OthersKept(c)
  BY <1>q, <1>2, <1>3, Zenon DEF OthersKept
<1> QED
  BY <1>q, <1>4, <1>5, <1>6, StepKeeps, Zenon

LEMMA QuietKeeps ==
  ASSUME CommitInv, NEW c \in Clients, Quiet, OnlyItsOwn(c), BatonsRight(edit'[c]),
         CommitRight(edit'[c], result'[c], OwnTxns(c), NewRevs(c))
  PROVE  CommitInv'
<1>1. CommitRight(edit'[c], result'[c], OwnTxns(c)', NewRevs(c))
  BY TxnsShrink, CommitMonotone, Zenon
<1> QED
  BY <1>1, QuietStep, Zenon

-----------------------------------------------------------------------------
(* A call that succeeds, and one that fails *)

LEMMA OwnStep ==
  ASSUME CommitInv, NEW c \in Clients, NEW e, edit' = [edit EXCEPT ![c] = e],
         \/ result' = result
         \/ \E x : result' = [result EXCEPT ![c] = x]
  PROVE  OnlyItsOwn(c) /\ edit'[c] = e
<1>1. DOMAIN edit = Clients /\ DOMAIN result = Clients
  BY Zenon DEF CommitInv, NamesRight
<1>2. DOMAIN edit' = Clients /\ edit'[c] = e /\ \A d \in Clients \ {c} : edit'[d] = edit[d]
  BY <1>1
<1>3. DOMAIN result' = Clients /\ \A d \in Clients \ {c} : result'[d] = result[d]
  BY <1>1
<1> QED
  BY <1>2, <1>3, Zenon DEF OnlyItsOwn

LEMMA TxnKept ==
  ASSUME CommitInv, NEW t \in DOMAIN txns, NEW v, NEW r,
         r = [txns[t] EXCEPT !.tree = v] \/ r = [txns[t] EXCEPT !.log = v]
  PROVE  DOMAIN r = DOMAIN txns[t] /\ r.owner = txns[t].owner
<1>1. DOMAIN txns[t] = {"tree", "base", "log", "owner"}
  BY Zenon DEF CommitInv, NamesRight
<1> QED
  BY <1>1

LEMMA TxnChanged ==
  ASSUME CommitInv, NEW k, NEW v,
         txns' = [txns EXCEPT ![k].tree = v] \/ txns' = [txns EXCEPT ![k].log = v]
  PROVE  TxnsKept
<1>1. DOMAIN txns' = DOMAIN txns
  OBVIOUS
<1>2. \A t \in DOMAIN txns : t # k => txns'[t] = txns[t]
  OBVIOUS
<1>3. ASSUME k \in DOMAIN txns
      PROVE  DOMAIN txns'[k] = DOMAIN txns[k] /\ txns'[k].owner = txns[k].owner
  <2>1. PICK r : r = txns'[k]
    OBVIOUS
  <2>2. r = [txns[k] EXCEPT !.tree = v] \/ r = [txns[k] EXCEPT !.log = v]
    BY <1>3, <2>1
  <2>3. DOMAIN r = DOMAIN txns[k] /\ r.owner = txns[k].owner
    BY <2>2, <1>3, TxnKept
  <2> QED
    BY <2>1, <2>3, Zenon
<1> QED
  BY <1>1, <1>2, <1>3, Zenon DEF TxnsKept

LEMMA TxnsStay ==
  ASSUME CommitInv, NEW c, txns' = txns \/ DropTxn(c) \/ LeaveTxn(c)
  PROVE  TxnsKept
<1>1. CASE txns' = txns
  BY <1>1, Zenon DEF TxnsKept
<1>2. CASE DropTxn(c)
  <2>1. PICK k : k = edit[c].txn
    OBVIOUS
  <2>2. txns' = [t \in DOMAIN txns \ {k} |-> txns[t]]
    BY <1>2, <2>1, Zenon DEF DropTxn
  <2>3. DOMAIN txns' \subseteq DOMAIN txns /\ \A t \in DOMAIN txns' : txns'[t] = txns[t]
    BY <2>2
  <2> QED
    BY <2>3, Zenon DEF TxnsKept
<1>3. CASE LeaveTxn(c)
  <2>1. PICK k : k = edit[c].txn
    OBVIOUS
  <2>2. txns' = [t \in DOMAIN txns |-> IF t = k THEN [txns[t] EXCEPT !.tree = <<>>] ELSE txns[t]]
    BY <1>3, <2>1, Zenon DEF LeaveTxn
  <2>3. DOMAIN txns' = DOMAIN txns
    BY <2>2
  <2>4. ASSUME NEW t \in DOMAIN txns
        PROVE  DOMAIN txns'[t] = DOMAIN txns[t] /\ txns'[t].owner = txns[t].owner
    <3>1. PICK r : r = txns'[t]
      OBVIOUS
    <3>2. r = txns[t] \/ r = [txns[t] EXCEPT !.tree = <<>>]
      BY <2>2, <3>1
    <3>3. DOMAIN r = DOMAIN txns[t] /\ r.owner = txns[t].owner
      BY <3>2, TxnKept
    <3> QED
      BY <3>1, <3>3, Zenon
  <2> QED
    BY <2>3, <2>4, Zenon DEF TxnsKept
<1> QED
  BY <1>1, <1>2, <1>3, Zenon

\* The end of a client's commit.
Ends(c, how) == edit' = [edit EXCEPT ![c] = NoEdit] /\ result' = [result EXCEPT ![c] = how]

LEMMA EndKeeps ==
  ASSUME CommitInv, NEW c \in Clients, Quiet, NEW how, Ends(c, how), EndsAt(edit[c].stage, how),
         how = "aborted" => OwnTxns(c)' = {}
  PROVE  CommitInv'
<1>1. edit' = [edit EXCEPT ![c] = NoEdit] /\ result' = [result EXCEPT ![c] = how]
  BY Zenon DEF Ends
<1>2. OnlyItsOwn(c) /\ edit'[c] = NoEdit
  BY <1>1, OwnStep, Zenon
<1>3. result'[c] = how
  <2>1. DOMAIN result = Clients
    BY Zenon DEF CommitInv, NamesRight
  <2> QED
    BY <2>1, <1>1
<1>4. CommitRight(edit[c], result[c], OwnTxns(c), NewRevs(c))
  BY Zenon DEF CommitInv, ClientRight
<1>5. CommitRight(NoEdit, how, OwnTxns(c)', NewRevs(c))
  BY <1>4, EndedRight, Zenon
<1> QED
  BY <1>2, <1>3, <1>5, NoEditRight, QuietStep, Zenon

LEMMA FailKeeps ==
  ASSUME CommitInv, NEW c \in Clients, Quiet, Fail(c), edit[c].stage \in Early \cup Open
  PROVE  CommitInv'
<1>1. Ends(c, "error")
  BY Zenon DEF Fail, FailWith, Ends
<1>2. EndsAt(edit[c].stage, "error") /\ "error" # "aborted"
  BY DEF EndsAt
<1> QED
  BY <1>1, <1>2, EndKeeps, Zenon

\* When the transaction in the batons is removed, the commit has none.
LEMMA DroppedAll ==
  ASSUME CommitInv, NEW c \in Clients, DropTxn(c), edit[c].stage \in Sent, Quiet
  PROVE  OwnTxns(c)' = {}
<1>1. BatonsRight(edit[c]) /\ CommitRight(edit[c], result[c], OwnTxns(c), NewRevs(c))
  BY Zenon DEF CommitInv, ClientRight
<1>2. PICK k : k = edit[c].txn
  OBVIOUS
<1>3. OwnTxns(c) \subseteq {k}
  <2>1. edit[c].stage \in Open
    BY DEF Sent, Open
  <2> QED
    BY <1>1, <1>2, <2>1, Zenon DEF CommitRight, BatonsRight
<1>4. DOMAIN txns' = DOMAIN txns \ {k}
  <2>1. txns' = [t \in DOMAIN txns \ {k} |-> txns[t]]
    BY <1>2, Zenon DEF DropTxn
  <2> QED
    BY <2>1
<1>5. \A t : t \in OwnTxns(c)' => t \in OwnTxns(c) /\ t \in DOMAIN txns'
  BY TxnsShrink, Zenon DEF OwnTxns
<1> QED
  BY <1>3, <1>4, <1>5

LEMMA AbortKeeps ==
  ASSUME CommitInv, NEW c \in Clients, Quiet, FailWith(c, "aborted"), DropTxn(c), edit[c].stage \in Sent
  PROVE  CommitInv'
<1>1. Ends(c, "aborted")
  BY Zenon DEF FailWith, Ends
<1>2. EndsAt(edit[c].stage, "aborted")
  BY DEF EndsAt, Early, Open, Sent, Done
<1> QED
  BY <1>1, <1>2, DroppedAll, EndKeeps, Zenon

LEMMA ProceedKeeps ==
  ASSUME CommitInv, NEW c \in Clients, NEW e, SameBatons(edit[c], e), Quiet, Proceed(c, e),
         edit[c].stage \in Passing, edit[c].stage = "apply_log" => edit[c].txn # NoTxn
  PROVE  CommitInv'
<1>1. edit' = [edit EXCEPT ![c] = Onward(c, e)] /\ result' = result
  BY Zenon DEF Proceed, Onward
<1>2. OnlyItsOwn(c) /\ edit'[c] = Onward(c, e)
  BY <1>1, OwnStep, Zenon
<1>3. BatonsRight(edit[c]) /\ CommitRight(edit[c], result[c], OwnTxns(c), NewRevs(c))
  BY Zenon DEF CommitInv, ClientRight
<1>4. BatonsRight(e) /\ CommitRight(e, result[c], OwnTxns(c), NewRevs(c))
  BY <1>3, SameRight, Zenon
<1>5. e.stage \in Passing /\ (e.stage = "apply_log" => e.txn # NoTxn)
  BY Zenon DEF SameBatons
<1>6. /\ BatonsRight(Onward(c, e))
      /\ CommitRight(Onward(c, e), result[c], OwnTxns(c), NewRevs(c))
  BY <1>4, <1>5, OnwardRight, Zenon
<1> QED
  BY <1>1, <1>2, <1>6, QuietKeeps, Zenon

-----------------------------------------------------------------------------
(* The calls of the editors *)

LEMMA BatonsKept ==
  ASSUME NEW e, NEW f, DOMAIN e = DOMAIN NoEdit, SameBatons(e, f)
  PROVE  \A p, url : /\ SameBatons(e, WithRes(f, p, url))
                     /\ SameBatons(e, CheckedOut(f, p))
                     /\ SameBatons(e, AddTarget(f, p))
<1>1. DOMAIN f = DOMAIN e /\ f.stage = e.stage /\ f.last = e.last /\ f.txn = e.txn
  BY Zenon DEF SameBatons
<1>2. {"stage", "last", "txn", "res", "wr", "targets"} \subseteq DOMAIN f
  BY <1>1 DEF NoEdit
<1>3. ASSUME NEW g, NEW a, NEW b,
             \/ g = [f EXCEPT !.res = a, !.wr = b]
             \/ g = [f EXCEPT !.wr = b]
             \/ g = [f EXCEPT !.targets = b]
      PROVE  SameBatons(e, g)
  <2>1. DOMAIN g = DOMAIN f /\ g.stage = f.stage /\ g.last = f.last /\ g.txn = f.txn
    BY <1>2, <1>3
  <2> QED
    BY <1>1, <2>1, Zenon DEF SameBatons
<1>4. ASSUME NEW p, NEW url
      PROVE  SameBatons(e, WithRes(f, p, url))
  <2>1. PICK a : a = [q \in DOMAIN f.res \cup {p} |-> IF q = p THEN url ELSE f.res[q]]
    OBVIOUS
  <2>2. PICK b : b = IF url = NoUrl THEN f.wr \cup {p} ELSE f.wr
    OBVIOUS
  <2>3. WithRes(f, p, url) = [f EXCEPT !.res = a, !.wr = b]
    BY <1>2, <2>1, <2>2 DEF WithRes
  <2> QED
    BY <1>3, <2>3, Zenon
<1>5. ASSUME NEW p
      PROVE  SameBatons(e, CheckedOut(f, p)) /\ SameBatons(e, AddTarget(f, p))
  <2>1. PICK a : a = f.wr \cup {p}
    OBVIOUS
  <2>2. PICK b : b = f.targets \cup {p}
    OBVIOUS
  <2>3. CheckedOut(f, p) = [f EXCEPT !.wr = a] /\ AddTarget(f, p) = [f EXCEPT !.targets = b]
    BY <2>1, <2>2, Zenon DEF CheckedOut, AddTarget
  <2> QED
    BY <1>3, <2>3, Zenon
<1> QED
  BY <1>4, <1>5, Zenon

\* What all calls of an editor have in common.
AnyCall(c) ==
  /\ Calls(c, "drive")
  /\ \E ok, e, tree : SameBatons(edit[c], e) /\ EditorCall(c, ok, e, tree)

LEMMA DriveKeeps ==
  ASSUME CommitInv, NEW c \in Clients, AnyCall(c)
  PROVE  CommitInv'
<1>1. PICK ok, e, tree : SameBatons(edit[c], e) /\ EditorCall(c, ok, e, tree)
  BY Zenon DEF AnyCall
<1>2. edit[c].stage = "drive"
  BY Zenon DEF AnyCall, Calls
<1>3. /\ made' = made /\ commits' = commits /\ nextTxn' = nextTxn
      /\ \/ Proceed(c, e) /\ txns' = [txns EXCEPT ![e.txn].tree = tree]
         \/ Fail(c) /\ LeaveTxn(c)
  BY <1>1, Zenon DEF EditorCall
<1>4. TxnsKept
  BY <1>3, TxnChanged, TxnsStay, Zenon
<1>5. Quiet
  BY <1>3, <1>4, Zenon DEF Quiet
<1>6. edit[c].stage \in Passing /\ edit[c].stage \in Early \cup Open /\ edit[c].stage # "apply_log"
  BY <1>2 DEF Passing, Early, Open
<1> QED
  BY <1>1, <1>3, <1>5, <1>6, ProceedKeeps, FailKeeps, Zenon

LEMMA EditorKeeps ==
  ASSUME CommitInv, NEW c \in Clients, EditorStep(c)
  PROVE  CommitInv'
<1>e. DOMAIN edit[c] = DOMAIN NoEdit
  BY Zenon DEF CommitInv, ClientRight, BatonsRight
<1>s. SameBatons(edit[c], edit[c])
  BY Zenon DEF SameBatons
<1>w. \A f : SameBatons(edit[c], f) =>
        \A p, url : /\ SameBatons(edit[c], WithRes(f, p, url))
                    /\ SameBatons(edit[c], CheckedOut(f, p))
                    /\ SameBatons(edit[c], AddTarget(f, p))
  BY <1>e, BatonsKept, Zenon
<1>m. \A p : SameBatons(edit[c], NewMember(c, p))
  BY <1>s, <1>w, Zenon DEF NewMember
<1>1. (\E op : Local(c, op) \/ DavCall(c, op)) => Calls(c, "drive")
  BY Zenon DEF Local, DavCall, Drives
<1>2. LocalOpenRoot(c) => AnyCall(c)
  BY <1>1, <1>s, Zenon DEF LocalOpenRoot, AnyCall
<1>3. LocalDelete(c) => AnyCall(c)
  BY <1>1, <1>s, Zenon DEF LocalDelete, AnyCall
<1>4. LocalAdd(c) => AnyCall(c)
  BY <1>1, <1>s, Zenon DEF LocalAdd, AnyCall
<1>5. LocalCopy(c) => AnyCall(c)
  BY <1>1, <1>s, Zenon DEF LocalCopy, AnyCall
<1>6. LocalOpenDirectory(c) => AnyCall(c)
  BY <1>1, <1>s, Zenon DEF LocalOpenDirectory, AnyCall
<1>7. LocalOpenFile(c) => AnyCall(c)
  BY <1>1, <1>s, Zenon DEF LocalOpenFile, AnyCall
<1>8. LocalDirProp(c) => AnyCall(c)
  BY <1>1, <1>s, Zenon DEF LocalDirProp, AnyCall
<1>9. LocalTextDelta(c) => AnyCall(c)
  BY <1>1, <1>s, Zenon DEF LocalTextDelta, AnyCall
<1>10. DavOpenRoot(c) => AnyCall(c)
  BY <1>1, <1>s, <1>w, Zenon DEF DavOpenRoot, AnyCall
<1>11. DavDelete(c) => AnyCall(c)
  BY <1>1, <1>s, <1>w, Zenon DEF DavDelete, AnyCall
<1>12. DavAddDirectory(c) => AnyCall(c)
  BY <1>1, <1>m, Zenon DEF DavAddDirectory, AnyCall
<1>13. DavAddFile(c) => AnyCall(c)
  BY <1>1, <1>m, Zenon DEF DavAddFile, AnyCall
<1>14. DavCopy(c) => AnyCall(c)
  BY <1>1, <1>m, Zenon DEF DavCopy, AnyCall
<1>15. DavOpenDirectory(c) => AnyCall(c)
  BY <1>1, <1>s, <1>w, Zenon DEF DavOpenDirectory, AnyCall
<1>16. DavDirProp(c) => AnyCall(c)
  BY <1>1, <1>s, <1>w, Zenon DEF DavDirProp, AnyCall
<1>17. DavOpenFile(c) => AnyCall(c)
  BY <1>1, <1>s, <1>w, Zenon DEF DavOpenFile, AnyCall
<1>18. DavTextDelta(c) => AnyCall(c)
  BY <1>1, <1>s, <1>w, Zenon DEF DavTextDelta, AnyCall
<1>19. AnyCall(c)
  BY <1>2, <1>3, <1>4, <1>5, <1>6, <1>7, <1>8, <1>9, <1>10, <1>11,
     <1>12, <1>13, <1>14, <1>15, <1>16, <1>17, <1>18, Zenon DEF EditorStep
<1> QED
  BY <1>19, DriveKeeps, Zenon

-----------------------------------------------------------------------------
(* The other steps that make neither a transaction nor a revision *)

LEMMA QuietTxns ==
  ASSUME CommitInv, NEW c, txns' = txns \/ DropTxn(c) \/ LeaveTxn(c),
         made' = made, commits' = commits, nextTxn' = nextTxn
  PROVE  Quiet
BY TxnsStay, Zenon DEF Quiet

LEMMA ReadYoungestKeeps ==
  ASSUME CommitInv, NEW c \in Clients, ReadYoungest(c)
  PROVE  CommitInv'
<1>1. PICK e : e = [edit[c] EXCEPT !.youngest = Youngest]
  OBVIOUS
<1>2. DOMAIN edit[c] = DOMAIN NoEdit
  BY Zenon DEF CommitInv, ClientRight, BatonsRight
<1>3. SameBatons(edit[c], e)
  <2>1. {"stage", "last", "txn", "youngest"} \subseteq DOMAIN edit[c]
    BY <1>2 DEF NoEdit
  <2> QED
    BY <1>1, <2>1 DEF SameBatons
<1>4. edit[c].stage \in Passing /\ edit[c].stage # "apply_log"
  BY DEF ReadYoungest, Calls, Passing
<1>5. Proceed(c, e) /\ Quiet
  BY <1>1, QuietTxns, Zenon DEF ReadYoungest
<1> QED
  BY <1>3, <1>4, <1>5, ProceedKeeps, Zenon

LEMMA ApplyLogKeeps ==
  ASSUME CommitInv, NEW c \in Clients, ApplyLog(c)
  PROVE  CommitInv'
<1>1. SameBatons(edit[c], edit[c])
  BY Zenon DEF SameBatons
<1>2. edit[c].stage = "apply_log"
  BY Zenon DEF ApplyLog, Calls
<1>3. edit[c].stage \in Passing /\ edit[c].stage \in Early \cup Open
  BY <1>2 DEF Passing, Early, Open
<1>4. made' = made /\ commits' = commits /\ nextTxn' = nextTxn
  BY Zenon DEF ApplyLog
<1>5. \/ edit[c].txn # NoTxn /\ Proceed(c, edit[c]) /\ txns' = [txns EXCEPT ![edit[c].txn].log = TRUE]
      \/ Fail(c) /\ LeaveTxn(c)
  BY Zenon DEF ApplyLog
<1>6. TxnsKept
  BY <1>5, TxnChanged, TxnsStay, Zenon
<1>7. Quiet
  BY <1>4, <1>6, Zenon DEF Quiet
<1> QED
  BY <1>1, <1>3, <1>5, <1>7, ProceedKeeps, FailKeeps, Zenon

LEMMA HooksKeep ==
  ASSUME CommitInv, NEW c \in Clients, PreCommit(c) \/ PostCommit(c) \/ MergeResponse(c)
  PROVE  CommitInv'
<1>1. SameBatons(edit[c], edit[c])
  BY Zenon DEF SameBatons
<1>2. edit[c].stage \in Passing /\ edit[c].stage # "apply_log"
  BY DEF PreCommit, PostCommit, MergeResponse, Calls, Passing
<1>3. /\ made' = made /\ commits' = commits /\ nextTxn' = nextTxn
      /\ txns' = txns \/ DropTxn(c)
  BY Zenon DEF PreCommit, PostCommit, MergeResponse
<1>4. Quiet
  BY <1>3, QuietTxns, Zenon
<1>5. CASE Proceed(c, edit[c])
  BY <1>1, <1>2, <1>4, <1>5, ProceedKeeps, Zenon
<1>6. CASE Calls(c, "pre_commit") /\ FailWith(c, "aborted") /\ DropTxn(c)
  <2>1. edit[c].stage \in Sent
    BY <1>6 DEF Calls, Sent
  <2> QED
    BY <1>4, <1>6, <2>1, AbortKeeps, Zenon
<1>7. CASE Calls(c, "post_commit") /\ FailWith(c, "late")
  <2>1. Ends(c, "late")
    BY <1>7, Zenon DEF FailWith, Ends
  <2>2. EndsAt(edit[c].stage, "late") /\ "late" # "aborted"
    BY <1>7 DEF EndsAt, Calls, Early, Open, Done
  <2> QED
    BY <1>4, <2>1, <2>2, EndKeeps, Zenon
<1> QED
  BY <1>5, <1>6, <1>7, Zenon DEF PreCommit, PostCommit, MergeResponse

LEMMA ProcessCommittedKeeps ==
  ASSUME CommitInv, NEW c \in Clients, ProcessCommitted(c)
  PROVE  CommitInv'
<1>1. /\ Calls(c, "process_committed")
      /\ edit' = [edit EXCEPT ![c] = NoEdit] /\ result' = [result EXCEPT ![c] = "ok"]
      /\ made' = made /\ commits' = commits /\ nextTxn' = nextTxn /\ txns' = txns
  BY Zenon DEF ProcessCommitted
<1>2. Ends(c, "ok")
  BY <1>1, Zenon DEF Ends
<1>3. EndsAt(edit[c].stage, "ok") /\ "ok" # "aborted"
  BY <1>1 DEF EndsAt, Calls, Early, Open, Done
<1>4. Quiet
  BY <1>1, QuietTxns, Zenon
<1> QED
  BY <1>2, <1>3, <1>4, EndKeeps, Zenon

\* Also when nothing happens to the commits.
LEMMA UpdateKeeps ==
  ASSUME CommitInv, UNCHANGED <<made, txns, nextTxn, edit, result, commits>>
  PROVE  CommitInv'
<1>1. \A c : Value(c)' = Value(c)
  BY Zenon DEF Value
<1>2. \A c : OwnTxns(c)' = OwnTxns(c) /\ NewRevs(c)' = NewRevs(c)
  BY <1>1, Zenon DEF OwnTxns, NewRevs
<1>3. \A c \in Clients : ClientRight(c)'
  BY <1>2, Zenon DEF CommitInv, ClientRight
<1>4. NamesRight'
  BY Zenon DEF CommitInv, NamesRight
<1> QED
  BY <1>3, <1>4, Zenon DEF CommitInv

LEMMA DieKeeps ==
  ASSUME CommitInv, NEW c \in Clients, Die(c)
  PROVE  CommitInv'
<1>1. /\ ~Idle(c) /\ result' = [result EXCEPT ![c] = "died"]
      /\ made' = made /\ commits' = commits /\ nextTxn' = nextTxn
  BY Zenon DEF Die
<1>2. CASE edit' = [edit EXCEPT ![c] = NoEdit] /\ LeaveTxn(c)
  <2>1. Quiet
    BY <1>1, <1>2, QuietTxns, Zenon
  <2>2. Ends(c, "died")
    BY <1>1, <1>2, Zenon DEF Ends
  <2>3. edit[c].stage \in {"idle"} \cup Early \cup Open \cup Done /\ edit[c].stage # "idle"
    BY <1>1, Zenon DEF Idle, CommitInv, ClientRight, BatonsRight
  <2>4. EndsAt(edit[c].stage, "died") /\ "died" # "aborted"
    BY <2>3 DEF EndsAt
  <2> QED
    BY <2>1, <2>2, <2>4, EndKeeps, Zenon
<1>3. CASE /\ Calls(c, "pre_commit") \/ Calls(c, "commit_txn")
           /\ edit' = [edit EXCEPT ![c].last = "commit_txn"]
           /\ txns' = txns
  <2>1. Quiet
    BY <1>1, <1>3, QuietTxns, Zenon
  <2>2. PICK e : e = [edit[c] EXCEPT !.last = "commit_txn"]
    OBVIOUS
  <2>3. edit' = [edit EXCEPT ![c] = e]
    BY <1>3, <2>2
  <2>4. OnlyItsOwn(c) /\ edit'[c] = e
    BY <1>1, <2>3, OwnStep, Zenon
  <2>5. result'[c] = "died"
    <3>1. DOMAIN result = Clients
      BY Zenon DEF CommitInv, NamesRight
    <3> QED
      BY <3>1, <1>1
  <2>6. BatonsRight(edit[c]) /\ CommitRight(edit[c], result[c], OwnTxns(c), NewRevs(c))
    BY Zenon DEF CommitInv, ClientRight
  <2>7. DOMAIN e = DOMAIN NoEdit /\ e.last = "commit_txn" /\ e.stage = edit[c].stage /\ e.txn = edit[c].txn
    <3>1. DOMAIN edit[c] = DOMAIN NoEdit
      BY <2>6, Zenon DEF BatonsRight
    <3>2. {"stage", "last", "txn"} \subseteq DOMAIN edit[c]
      BY <3>1 DEF NoEdit
    <3> QED
      BY <2>2, <3>1, <3>2
  <2>8. BatonsRight(e)
    <3>1. e.last \in {"commit_txn", "process_committed"}
      BY <2>7
    <3> QED
      BY <2>6, <2>7, <3>1, Zenon DEF BatonsRight
  <2>9. e.stage # "idle" /\ "died" \in {"none", "died"}
    BY <1>3, <2>7 DEF Calls
  <2>10. CommitRight(e, "died", OwnTxns(c), NewRevs(c))
    BY <2>6, <2>7, <2>9, Zenon DEF CommitRight
  <2> QED
    BY <2>1, <2>4, <2>5, <2>8, <2>10, QuietKeeps, Zenon
<1> QED
  BY <1>2, <1>3, Zenon DEF Die

-----------------------------------------------------------------------------
(* A commit is begun, gets its transaction and makes its revision *)

LEMMA ValuesDiffer ==
  ASSUME NEW c, NEW d, c # d
  PROVE  Value(c) # Value(d)
BY DEF Value

LEMMA ValueNumbered ==
  ASSUME CommitInv, NEW c \in Clients
  PROVE  Numbered(commits, Value(c))
<1>1. commits[c] \in Nat
  BY DEF CommitInv, NamesRight
<1>2. commits[c] \in 0..commits[c]
  BY <1>1
<1> QED
  BY <1>2, Zenon DEF Numbered, Value

\* The next number is that of no transaction and no revision.
LEMMA NextNumberFree ==
  ASSUME NEW n \in [Clients -> Nat], NEW c \in Clients
  PROVE  ~Numbered(n, <<c, n[c] + 1>>)
<1>1. SUFFICES ASSUME NEW d \in Clients, NEW i \in 0..n[d], <<c, n[c] + 1>> = <<d, i>>
               PROVE  FALSE
  BY DEF Numbered
<1>2. d = c /\ i = n[c] + 1
  BY <1>1
<1> QED
  BY <1>2

LEMMA NumberedStays ==
  ASSUME NEW n \in [Clients -> Nat], NEW c \in Clients, NEW x, Numbered(n, x)
  PROVE  Numbered([n EXCEPT ![c] = @ + 1], x)
<1>1. PICK d \in Clients : \E i \in 0..n[d] : x = <<d, i>>
  BY Zenon DEF Numbered
<1>2. PICK i \in 0..n[d] : x = <<d, i>>
  BY <1>1
<1>3. i \in 0..[n EXCEPT ![c] = @ + 1][d]
  OBVIOUS
<1> QED
  BY <1>2, <1>3, Zenon DEF Numbered

LEMMA StartCommitKeeps ==
  ASSUME CommitInv, NEW c \in Clients, StartCommit(c)
  PROVE  CommitInv'
<1>n. NamesRight
  BY Zenon DEF CommitInv
<1>t. commits \in [Clients -> Nat] /\ DOMAIN result = Clients
  BY <1>n, Zenon DEF NamesRight
<1>1. PICK i \in Changes(c) :
        edit' = [edit EXCEPT ![c] = [NoEdit EXCEPT !.items = i, !.stage = "youngest", !.calls = CommitCalls(i)]]
  BY Zenon DEF StartCommit
<1>2. PICK k : k = CommitCalls(i)
  OBVIOUS
<1>3. PICK e : e = [NoEdit EXCEPT !.items = i, !.stage = "youngest", !.calls = k]
  OBVIOUS
<1>4. edit' = [edit EXCEPT ![c] = e]
  BY <1>1, <1>2, <1>3, Zenon
<1>5. /\ commits' = [commits EXCEPT ![c] = @ + 1] /\ result' = [result EXCEPT ![c] = "none"]
      /\ made' = made /\ txns' = txns /\ nextTxn' = nextTxn
  BY Zenon DEF StartCommit
<1>6. OnlyItsOwn(c) /\ edit'[c] = e
  BY <1>4, <1>5, OwnStep, Zenon
<1>7. result'[c] = "none" /\ commits'[c] = commits[c] + 1 /\ commits' \in [Clients -> Nat]
      /\ \A d \in Clients \ {c} : commits'[d] = commits[d]
  BY <1>t, <1>5
<1>8. \A x : Numbered(commits, x) => Numbered(commits', x) /\ x # Value(c)'
  <2>1. Value(c)' = <<c, commits[c] + 1>>
    BY <1>7, Zenon DEF Value
  <2> QED
    BY <1>t, <1>5, <2>1, NextNumberFree, NumberedStays, Zenon
<1>9. NamesRight'
  <2>1. DOMAIN edit' = Clients /\ DOMAIN result' = Clients
    BY <1>6, Zenon DEF OnlyItsOwn
  <2>2. nextTxn \in Nat \ {0} /\ IsSeq(made)
    BY <1>n, Zenon DEF NamesRight
  <2>3. \A r \in DOMAIN made : made[r].by = <<>> \/ Numbered(commits', made[r].by)
    BY <1>n, <1>8, Zenon DEF NamesRight
  <2>4. \A t \in DOMAIN txns :
          /\ t \in Nat /\ t < nextTxn /\ DOMAIN txns[t] = {"tree", "base", "log", "owner"}
          /\ Numbered(commits', txns[t].owner)
          /\ \A r \in DOMAIN made : made[r].by # txns[t].owner
    BY <1>n, <1>8, Zenon DEF NamesRight
  <2> QED
    BY <1>5, <1>7, <2>1, <2>2, <2>3, <2>4, Zenon DEF NamesRight
<1>10. OwnTxns(c)' = {} /\ NewRevs(c)' = {}
  <2>1. \A t \in DOMAIN txns : txns[t].owner # Value(c)'
    BY <1>n, <1>8, Zenon DEF NamesRight
  <2>2. \A r \in DOMAIN made : made[r].by # Value(c)'
    <3>1. Value(c)' # <<>>
      BY DEF Value
    <3> QED
      BY <1>n, <1>8, <3>1, Zenon DEF NamesRight
  <2>3. \A t \in DOMAIN txns' : txns'[t].owner # Value(c)'
    BY <1>5, <2>1, Zenon
  <2>4. \A r \in DOMAIN made' : made'[r].by # Value(c)'
    BY <1>5, <2>2, Zenon
  <2> QED
    BY <2>3, <2>4, Zenon DEF OwnTxns, NewRevs
<1>11. OthersKept(c)
  <2>1. \A d \in Clients \ {c} : Value(d)' = Value(d)
    BY <1>7, Zenon DEF Value
  <2>2. \A d \in Clients \ {c} : OwnTxns(d)' = OwnTxns(d) /\ NewRevs(d)' = NewRevs(d)
    BY <1>5, <2>1, Zenon DEF OwnTxns, NewRevs
  <2> QED
    BY <1>5, <2>2, Zenon DEF OthersKept
<1>12. /\ DOMAIN e = DOMAIN NoEdit /\ e.stage = "youngest" /\ e.last = "process_committed"
       /\ e.txn = NoTxn
  BY <1>3 DEF NoEdit
<1>13. /\ e.stage \in {"idle"} \cup Early \cup Open \cup Done /\ e.stage # "idle"
       /\ e.stage \notin Sent /\ e.stage \notin Open /\ e.stage \notin Done
       /\ e.last \in {"commit_txn", "process_committed"} /\ e.last # "commit_txn"
       /\ "none" \in {"none", "died"}
  BY <1>12 DEF Early, Open, Sent, Done
<1>14. BatonsRight(e)
  BY <1>12, <1>13, Zenon DEF BatonsRight
<1>15. CommitRight(e, "none", OwnTxns(c)', NewRevs(c)')
  BY <1>10, <1>13, Zenon DEF CommitRight
<1>16. ClientRight(c)'
  BY <1>6, <1>7, <1>14, <1>15, Zenon DEF ClientRight
<1> QED
  BY <1>6, <1>9, <1>11, <1>16, StepKeeps, Zenon

LEMMA NewTxnKeeps ==
  ASSUME CommitInv, NEW c \in Clients, Calls(c, "begin_txn"), NewTxn(c),
         made' = made, commits' = commits,
         NEW e, SameBatons([edit[c] EXCEPT !.txn = e.txn], e),
         e.txn = nextTxn \/ (e.txn = NoTxn /\ c \in Dav), Proceed(c, e)
  PROVE  CommitInv'
<1>n. NamesRight
  BY Zenon DEF CommitInv
<1>r. BatonsRight(edit[c]) /\ CommitRight(edit[c], result[c], OwnTxns(c), NewRevs(c))
  BY Zenon DEF CommitInv, ClientRight
<1>t. nextTxn \in Nat \ {0}
  BY <1>n, Zenon DEF NamesRight
<1>s. edit[c].stage = "begin_txn" /\ edit[c].stage \in Early /\ edit[c].stage # "idle"
  BY DEF Calls, Early
<1>z. OwnTxns(c) = {} /\ NewRevs(c) = {}
  BY <1>r, <1>s, Zenon DEF CommitRight
<1>v. Value(c)' = Value(c) /\ \A d : Value(d)' = Value(d)
  BY Zenon DEF Value
<1>1. /\ nextTxn' = nextTxn + 1
      /\ DOMAIN txns' = DOMAIN txns \cup {nextTxn}
      /\ \A t \in DOMAIN txns : t # nextTxn => txns'[t] = txns[t]
      /\ txns'[nextTxn] = [tree |-> revs[edit[c].youngest], base |-> edit[c].youngest,
                           log |-> c \notin Dav, owner |-> Value(c)]
  <2>1. PICK new : new = [tree |-> revs[edit[c].youngest], base |-> edit[c].youngest,
                          log |-> c \notin Dav, owner |-> Value(c)]
    OBVIOUS
  <2>2. /\ nextTxn' = nextTxn + 1
        /\ txns' = [t \in DOMAIN txns \cup {nextTxn} |-> IF t # nextTxn THEN txns[t] ELSE new]
    BY <2>1, Zenon DEF NewTxn
  <2>3. /\ DOMAIN txns' = DOMAIN txns \cup {nextTxn}
        /\ \A t \in DOMAIN txns : t # nextTxn => txns'[t] = txns[t]
        /\ txns'[nextTxn] = new
    BY <2>2
  <2> QED
    BY <2>1, <2>2, <2>3, Zenon
<1>2. /\ DOMAIN txns'[nextTxn] = {"tree", "base", "log", "owner"}
      /\ txns'[nextTxn].owner = Value(c)
  BY <1>1
<1>3. \A t \in DOMAIN txns : t \in Nat /\ t < nextTxn /\ t # nextTxn
  <2>1. \A t \in DOMAIN txns : t \in Nat /\ t < nextTxn
    BY <1>n, Zenon DEF NamesRight
  <2> QED
    BY <1>t, <2>1
<1>4. edit' = [edit EXCEPT ![c] = Onward(c, e)] /\ result' = result
  BY Zenon DEF Proceed, Onward
<1>5. OnlyItsOwn(c) /\ edit'[c] = Onward(c, e)
  BY <1>4, OwnStep, Zenon
<1>6. NamesRight'
  <2>1. commits' \in [Clients -> Nat] /\ IsSeq(made')
        /\ \A r \in DOMAIN made' : made'[r].by = <<>> \/ Numbered(commits', made'[r].by)
    BY <1>n, Zenon DEF NamesRight
  <2>2. DOMAIN edit' = Clients /\ DOMAIN result' = Clients
    BY <1>5, Zenon DEF OnlyItsOwn
  <2>3. nextTxn' \in Nat \ {0} /\ nextTxn < nextTxn' /\ \A t \in Nat : t < nextTxn => t < nextTxn'
    BY <1>1, <1>t
  <2>4. ASSUME NEW t \in DOMAIN txns
        PROVE  /\ t \in Nat /\ t < nextTxn'
               /\ DOMAIN txns'[t] = {"tree", "base", "log", "owner"}
               /\ Numbered(commits', txns'[t].owner)
               /\ \A r \in DOMAIN made' : made'[r].by # txns'[t].owner
    <3>1. txns'[t] = txns[t]
      BY <1>1, <1>3, Zenon
    <3> QED
      BY <1>n, <1>3, <2>3, <3>1, Zenon DEF NamesRight
  <2>5. /\ nextTxn \in Nat /\ Numbered(commits', txns'[nextTxn].owner)
        /\ \A r \in DOMAIN made' : made'[r].by # txns'[nextTxn].owner
    <3>1. \A r \in DOMAIN made : made[r].by # Value(c)
      BY <1>z, Zenon DEF NewRevs
    <3>2. nextTxn \in Nat
      BY <1>t
    <3> QED
      BY <1>2, <3>1, <3>2, ValueNumbered, Zenon
  <2>6. \A t \in DOMAIN txns' :
          /\ t \in Nat /\ t < nextTxn' /\ DOMAIN txns'[t] = {"tree", "base", "log", "owner"}
          /\ Numbered(commits', txns'[t].owner)
          /\ \A r \in DOMAIN made' : made'[r].by # txns'[t].owner
    BY <1>1, <1>2, <2>3, <2>4, <2>5, Zenon
  <2> QED
    BY <2>1, <2>2, <2>3, <2>6, Zenon DEF NamesRight
<1>7. \A d : NewRevs(d)' = NewRevs(d)
  BY <1>v, Zenon DEF NewRevs
<1>8. ASSUME NEW d, NEW t \in OwnTxns(d)'
      PROVE  IF d = c THEN t = nextTxn ELSE t \in OwnTxns(d)
  <2>1. t \in DOMAIN txns' /\ txns'[t].owner = Value(d)
    BY <1>8, <1>v, Zenon DEF OwnTxns
  <2>2. t \in DOMAIN txns => t \in OwnTxns(d)
    <3>1. t \in DOMAIN txns => txns'[t] = txns[t]
      BY <1>1, <1>3, Zenon
    <3> QED
      BY <2>1, <3>1, Zenon DEF OwnTxns
  <2>3. t = nextTxn => d = c
    BY <1>2, <2>1, ValuesDiffer, Zenon
  <2> QED
    BY <1>1, <1>z, <2>1, <2>2, <2>3
<1>9. OthersKept(c)
  BY <1>7, <1>8, Zenon DEF OthersKept
<1>10. PICK g : g = Onward(c, e)
  OBVIOUS
<1>11. /\ DOMAIN g = DOMAIN NoEdit /\ g.last = edit[c].last /\ g.txn = e.txn
       /\ g.stage = IF c \in Dav THEN "latest" ELSE "drive"
  <2>1. DOMAIN edit[c] = DOMAIN NoEdit
    BY <1>r, Zenon DEF BatonsRight
  <2>2. {"stage", "last", "txn"} \subseteq DOMAIN edit[c]
    BY <2>1 DEF NoEdit
  <2>3. DOMAIN e = DOMAIN NoEdit /\ e.stage = "begin_txn" /\ e.last = edit[c].last
    BY <1>s, <2>1, <2>2 DEF SameBatons
  <2>4. e.last \in {"commit_txn", "process_committed"}
    BY <1>r, <2>3, Zenon DEF BatonsRight
  <2>5. e.stage # "drive" /\ e.stage # e.last
    BY <2>3, <2>4
  <2>6. PICK a : a = After(c, "begin_txn")
    OBVIOUS
  <2>7. g = [e EXCEPT !.stage = a]
    BY <1>10, <2>3, <2>5, <2>6, Zenon DEF Onward
  <2>8. a = IF c \in Dav THEN "latest" ELSE "drive"
    BY <2>6 DEF After
  <2>9. {"stage", "last", "txn"} \subseteq DOMAIN e
    BY <2>1, <2>2, <2>3, Zenon
  <2> QED
    BY <2>3, <2>7, <2>8, <2>9
<1>12. /\ g.stage \in {"idle"} \cup Early \cup Open \cup Done /\ g.stage # "idle"
       /\ g.stage \notin Early /\ g.stage \notin Done
       /\ g.stage \in Sent => e.txn = nextTxn
  BY <1>11 DEF Early, Open, Sent, Done
<1>13. nextTxn # NoTxn
  BY <1>t DEF NoTxn
<1>14. BatonsRight(g)
  <2>1. g.last \in {"commit_txn", "process_committed"}
    BY <1>r, <1>11, Zenon DEF BatonsRight
  <2> QED
    BY <1>11, <1>12, <1>13, <2>1, Zenon DEF BatonsRight
<1>15. CommitRight(g, result[c], OwnTxns(c)', NewRevs(c))
  <2>1. OwnTxns(c)' \subseteq {g.txn} \/ g.txn = NoTxn
    <3>1. OwnTxns(c)' \subseteq {nextTxn}
      BY <1>8
    <3> QED
      BY <1>11, <3>1, Zenon
  <2>2. CommitRight(edit[c], result[c], OwnTxns(c), NewRevs(c))
    <3>1. OwnTxns(c) \subseteq OwnTxns(c)
      OBVIOUS
    <3> QED
      BY <1>r, <3>1, CommitMonotone, Zenon
  <2> QED
    BY <1>s, <1>z, <1>11, <1>12, <2>1, <2>2, Zenon DEF CommitRight
<1>16. ClientRight(c)'
  BY <1>4, <1>5, <1>7, <1>10, <1>14, <1>15, Zenon DEF ClientRight
<1> QED
  BY <1>5, <1>6, <1>9, <1>16, StepKeeps, Zenon

LEMMA BeginTxnKeeps ==
  ASSUME CommitInv, NEW c \in Clients, BeginTxn(c)
  PROVE  CommitInv'
<1>1. Calls(c, "begin_txn") /\ made' = made /\ commits' = commits
  BY Zenon DEF BeginTxn
<1>2. edit[c].stage = "begin_txn" /\ edit[c].stage \in Early
  BY <1>1 DEF Calls, Early
<1>3. DOMAIN edit[c] = DOMAIN NoEdit /\ edit[c].txn = NoTxn
  BY <1>2, Zenon DEF CommitInv, ClientRight, BatonsRight
<1>4. {"stage", "last", "txn"} \subseteq DOMAIN edit[c]
  BY <1>3 DEF NoEdit
<1>5. CASE NewTxn(c) /\ Proceed(c, [edit[c] EXCEPT !.txn = nextTxn])
  <2>1. PICK e : e = [edit[c] EXCEPT !.txn = nextTxn]
    OBVIOUS
  <2>2. e.txn = nextTxn /\ SameBatons([edit[c] EXCEPT !.txn = e.txn], e)
    BY <1>4, <2>1 DEF SameBatons
  <2>3. NewTxn(c) /\ Proceed(c, e)
    BY <1>5, <2>1, Zenon
  <2> QED
    BY <1>1, <2>2, <2>3, NewTxnKeeps, Zenon
<1>6. CASE c \in Dav /\ NewTxn(c) /\ Proceed(c, edit[c]) /\ Fault
  <2>1. PICK e : e = edit[c]
    OBVIOUS
  <2>2. e.txn = NoTxn /\ SameBatons([edit[c] EXCEPT !.txn = e.txn], e)
    BY <1>3, <1>4, <2>1 DEF SameBatons
  <2>3. NewTxn(c) /\ Proceed(c, e)
    BY <1>6, <2>1, Zenon
  <2> QED
    BY <1>1, <1>6, <2>2, <2>3, NewTxnKeeps, Zenon
<1>7. CASE Fail(c) /\ Fault /\ UNCHANGED <<txns, nextTxn>>
  <2>1. Quiet
    BY <1>1, <1>7, QuietTxns, Zenon
  <2> QED
    BY <1>7, <2>1, <1>2, FailKeeps, Zenon
<1> QED
  BY <1>5, <1>6, <1>7, Zenon DEF BeginTxn

LEMMA RevisionAdded ==
  ASSUME NEW s, IsSeq(s), NEW x
  PROVE  /\ IsSeq(Append(s, x))
         /\ DOMAIN Append(s, x) = DOMAIN s \cup {Len(s) + 1}
         /\ Len(s) + 1 \notin DOMAIN s
         /\ Append(s, x)[Len(s) + 1] = x
         /\ \A r \in DOMAIN s : Append(s, x)[r] = s[r]
<1>1. PICK S : S = {s[i] : i \in DOMAIN s}
  OBVIOUS
<1>2. s \in Seq(S)
  BY <1>1, Zenon DEF IsSeq
<1>3. PICK a : a = Append(s, x)
  OBVIOUS
<1>4. PICK T : T = S \cup {x}
  OBVIOUS
<1>5. s \in Seq(T) /\ x \in T
  BY <1>2, <1>4
<1>6. /\ DOMAIN a = DOMAIN s \cup {Len(s) + 1} /\ Len(s) + 1 \notin DOMAIN s
      /\ a[Len(s) + 1] = x /\ \A r \in DOMAIN s : a[r] = s[r]
  BY <1>3, <1>5
<1>7. a \in Seq({a[i] : i \in DOMAIN a})
  <2>1. a \in Seq(T)
    BY <1>3, <1>5
  <2>2. PICK U : U = {a[i] : i \in DOMAIN a}
    OBVIOUS
  <2>3. \A i \in DOMAIN a : a[i] \in U
    BY <2>2
  <2>4. DOMAIN a = 1..Len(a) /\ Len(a) \in Nat /\ a = [i \in 1..Len(a) |-> a[i]]
    BY <2>1
  <2>5. a \in Seq(U)
    BY <2>3, <2>4, IsASeq
  <2> QED
    BY <2>2, <2>5, Zenon
<1> QED
  BY <1>3, <1>6, <1>7, Zenon DEF IsSeq

LEMMA CommitTxnKeeps ==
  ASSUME CommitInv, NEW c \in Clients, CommitTxn(c)
  PROVE  CommitInv'
<1>n. NamesRight
  BY Zenon DEF CommitInv
<1>r. BatonsRight(edit[c]) /\ CommitRight(edit[c], result[c], OwnTxns(c), NewRevs(c))
  BY Zenon DEF CommitInv, ClientRight
<1>1. DropTxn(c) /\ edit[c].stage = "commit_txn" /\ nextTxn' = nextTxn /\ commits' = commits
  BY Zenon DEF CommitTxn, Calls
<1>2. edit[c].stage \in Open /\ edit[c].stage \in Sent /\ edit[c].stage # "idle"
  BY <1>1 DEF Open, Sent
<1>3. CASE FailWith(c, "aborted") /\ made' = made
  <2>1. Quiet
    BY <1>1, <1>3, QuietTxns, Zenon
  <2> QED
    BY <1>1, <1>2, <1>3, <2>1, AbortKeeps, Zenon
<1>4. ASSUME NEW y, Proceed(c, [edit[c] EXCEPT !.rev = y]),
             NEW m, m.by = Value(c), made' = Append(made, m)
      PROVE  CommitInv'
  <2>1. PICK e : e = [edit[c] EXCEPT !.rev = y]
    OBVIOUS
  <2>2. edit' = [edit EXCEPT ![c] = Onward(c, e)] /\ result' = result
    BY <1>4, <2>1, Zenon DEF Proceed, Onward
  <2>3. OnlyItsOwn(c) /\ edit'[c] = Onward(c, e)
    BY <2>2, OwnStep, Zenon
  <2>4. IsSeq(made)
    BY <1>n, Zenon DEF NamesRight
  <2>5. PICK l : l = Len(made) + 1
    OBVIOUS
  <2>6. /\ IsSeq(made') /\ DOMAIN made' = DOMAIN made \cup {l} /\ l \notin DOMAIN made
        /\ made'[l] = m /\ \A r \in DOMAIN made : made'[r] = made[r]
    <3>1. PICK a : a = Append(made, m)
      OBVIOUS
    <3>2. /\ IsSeq(a) /\ DOMAIN a = DOMAIN made \cup {l} /\ l \notin DOMAIN made
          /\ a[l] = m /\ \A r \in DOMAIN made : a[r] = made[r]
      BY <2>4, <2>5, <3>1, RevisionAdded
    <3>3. made' = a
      BY <1>4, <3>1, Zenon
    <3> QED
      BY <3>2, <3>3, Zenon
  <2>7. TxnsKept
    BY <1>1, TxnsStay, Zenon
  <2>8. \A d : Value(d)' = Value(d)
    BY <1>1, Zenon DEF Value
  <2>9. OwnTxns(c) \subseteq {edit[c].txn} /\ NewRevs(c) = {}
    BY <1>2, <1>r, Zenon DEF CommitRight, BatonsRight
  <2>10. \A t \in DOMAIN txns' : txns[t].owner # Value(c)
    <3>1. PICK k : k = edit[c].txn
      OBVIOUS
    <3>2. txns' = [t \in DOMAIN txns \ {k} |-> txns[t]]
      BY <1>1, <3>1, Zenon DEF DropTxn
    <3>3. DOMAIN txns' = DOMAIN txns \ {k}
      BY <3>2
    <3> QED
      BY <2>9, <3>1, <3>3 DEF OwnTxns
  <2>11. NamesRight'
    <3>1. commits' \in [Clients -> Nat] /\ nextTxn' \in Nat \ {0}
      BY <1>1, <1>n, Zenon DEF NamesRight
    <3>2. DOMAIN edit' = Clients /\ DOMAIN result' = Clients
      BY <2>3, Zenon DEF OnlyItsOwn
    <3>3. \A r \in DOMAIN made' : made'[r].by = <<>> \/ Numbered(commits', made'[r].by)
      <4>1. Numbered(commits', m.by)
        BY <1>1, <1>4, ValueNumbered, Zenon
      <4>2. \A r \in DOMAIN made : made[r].by = <<>> \/ Numbered(commits', made[r].by)
        BY <1>1, <1>n, Zenon DEF NamesRight
      <4> QED
        BY <2>6, <4>1, <4>2, Zenon
    <3>4. ASSUME NEW t \in DOMAIN txns'
          PROVE  /\ t \in Nat /\ t < nextTxn'
                 /\ DOMAIN txns'[t] = {"tree", "base", "log", "owner"}
                 /\ Numbered(commits', txns'[t].owner)
                 /\ \A r \in DOMAIN made' : made'[r].by # txns'[t].owner
      <4>1. t \in DOMAIN txns /\ DOMAIN txns'[t] = DOMAIN txns[t] /\ txns'[t].owner = txns[t].owner
        BY <2>7, Zenon DEF TxnsKept
      <4>2. /\ t \in Nat /\ t < nextTxn /\ DOMAIN txns[t] = {"tree", "base", "log", "owner"}
            /\ Numbered(commits, txns[t].owner) /\ \A r \in DOMAIN made : made[r].by # txns[t].owner
        BY <1>n, <4>1, Zenon DEF NamesRight
      <4>3. m.by # txns[t].owner
        BY <1>4, <2>10, Zenon
      <4>4. \A r \in DOMAIN made' : made'[r].by # txns'[t].owner
        BY <2>6, <4>1, <4>2, <4>3, Zenon
      <4> QED
        BY <1>1, <4>1, <4>2, <4>4, Zenon
    <3> QED
      BY <2>6, <3>1, <3>2, <3>3, <3>4, Zenon DEF NamesRight
  <2>12. ASSUME NEW d
         PROVE  \A r : r \in NewRevs(d)' <=> r \in NewRevs(d) \/ (r = l /\ d = c)
    <3>1. \A r : r \in NewRevs(d)' <=> r \in DOMAIN made' /\ made'[r].by = Value(d)
      BY <2>8, Zenon DEF NewRevs
    <3>2. \A r : r \in NewRevs(d) <=> r \in DOMAIN made /\ made[r].by = Value(d)
      BY Zenon DEF NewRevs
    <3>3. made'[l].by = Value(d) <=> d = c
      BY <1>4, <2>6, ValuesDiffer, Zenon
    <3> QED
      BY <2>6, <3>1, <3>2, <3>3, Zenon
  <2>13. NewRevs(c)' = {l} /\ \A d \in Clients \ {c} : NewRevs(d)' = NewRevs(d)
    <3>1. \A r : r \in NewRevs(c)' <=> r = l
      BY <2>9, <2>12, Zenon
    <3>2. ASSUME NEW d \in Clients \ {c}
          PROVE  NewRevs(d)' = NewRevs(d)
      <4>1. \A r : r \in NewRevs(d)' <=> r \in NewRevs(d)
        BY <2>12, Zenon
      <4> QED
        BY <4>1, Zenon
    <3>3. NewRevs(c)' = {l}
      BY <3>1, Zenon
    <3> QED
      BY <3>2, <3>3, Zenon
  <2>14. OthersKept(c)
    <3>1. \A d : OwnTxns(d)' \subseteq OwnTxns(d)
      <4>1. ASSUME NEW d, NEW t \in OwnTxns(d)'
            PROVE  t \in OwnTxns(d)
        <5>1. t \in DOMAIN txns' /\ txns'[t].owner = Value(d)
          BY <4>1, <2>8, Zenon DEF OwnTxns
        <5>2. t \in DOMAIN txns /\ txns[t].owner = Value(d)
          BY <5>1, <2>7, Zenon DEF TxnsKept
        <5> QED
          BY <5>2, Zenon DEF OwnTxns
      <4> QED
        BY <4>1, Zenon
    <3> QED
      BY <1>1, <2>13, <3>1, Zenon DEF OthersKept
  <2>15. One(NewRevs(c)')
    BY <2>13, Zenon DEF One
  <2>16. DOMAIN edit[c] = DOMAIN NoEdit /\ edit[c].last \in {"commit_txn", "process_committed"}
    BY <1>r, Zenon DEF BatonsRight
  <2>17. {"stage", "last", "txn", "rev"} \subseteq DOMAIN edit[c]
    BY <2>16 DEF NoEdit
  <2>18. DOMAIN e = DOMAIN NoEdit /\ e.stage = "commit_txn" /\ e.last = edit[c].last
    BY <1>1, <2>1, <2>16, <2>17
  <2>19. PICK g : g = Onward(c, e)
    OBVIOUS
  <2>20. BatonsRight(g) /\ CommitRight(g, result[c], OwnTxns(c)', NewRevs(c)')
    <3>1. CASE e.last = "commit_txn"
      <4>1. g = NoEdit
        <5>1. e.stage # "drive" /\ e.stage = e.last
          BY <2>18, <3>1
        <5> QED
          BY <2>19, <5>1, Zenon DEF Onward
      <4>2. result[c] = "died"
        BY <1>r, <2>18, <3>1, Zenon DEF CommitRight
      <4>5. Ended(result[c], OwnTxns(c)', NewRevs(c)')
        BY <2>15, <4>2 DEF Ended
      <4>3. /\ NoEdit.stage = "idle" /\ NoEdit.last # "commit_txn"
            /\ NoEdit.stage \notin Early /\ NoEdit.stage \notin Open /\ NoEdit.stage \notin Done
        BY NoEditRight DEF Early, Open, Done
      <4>4. CommitRight(NoEdit, result[c], OwnTxns(c)', NewRevs(c)')
        BY <4>3, <4>5, Zenon DEF CommitRight
      <4> QED
        BY <4>1, <4>4, NoEditRight, Zenon
    <3>2. CASE e.last # "commit_txn"
      <4>1. g = [e EXCEPT !.stage = "post_commit"]
        <5>1. e.stage # "drive" /\ e.stage # e.last
          BY <2>18, <3>2
        <5>2. After(c, e.stage) = "post_commit"
          BY <2>18 DEF After
        <5> QED
          BY <2>19, <5>1, <5>2, Zenon DEF Onward
      <4>2. DOMAIN g = DOMAIN NoEdit /\ g.stage = "post_commit" /\ g.last = e.last
        <5>1. {"stage", "last"} \subseteq DOMAIN e
          BY <2>16, <2>17, <2>18, Zenon
        <5> QED
          BY <2>18, <4>1, <5>1
      <4>3. /\ g.stage \in {"idle"} \cup Early \cup Open \cup Done /\ g.stage # "idle"
            /\ g.stage \notin Early /\ g.stage \notin Open /\ g.stage \notin Sent
        BY <4>2 DEF Early, Open, Sent, Done
      <4>4. BatonsRight(g)
        <5>1. g.last \in {"commit_txn", "process_committed"}
          BY <2>16, <2>18, <4>2, Zenon
        <5> QED
          BY <4>2, <4>3, <5>1, Zenon DEF BatonsRight
      <4>5. result[c] \in {"none", "died"}
        BY <1>2, <1>r, Zenon DEF CommitRight
      <4>6. CommitRight(g, result[c], OwnTxns(c)', NewRevs(c)')
        BY <1>1, <2>15, <3>2, <4>2, <4>3, <4>5, Zenon DEF CommitRight
      <4> QED
        BY <4>4, <4>6, Zenon
    <3> QED
      BY <3>1, <3>2
  <2>21. ClientRight(c)'
    BY <2>2, <2>3, <2>19, <2>20, Zenon DEF ClientRight
  <2> QED
    BY <2>3, <2>11, <2>14, <2>21, StepKeeps, Zenon
<1>5. CASE ~(FailWith(c, "aborted") /\ made' = made)
  <2>1. PICK t : t = txns[edit[c].txn]
    OBVIOUS
  <2>2. PICK m : m = [by |-> Value(c), log |-> t.log, base |-> t.base,
                      items |-> edit[c].items, known |-> wc[c].text]
    OBVIOUS
  <2>3. Proceed(c, [edit[c] EXCEPT !.rev = Youngest + 1]) /\ made' = Append(made, m)
    BY <1>5, <2>1, <2>2, Zenon DEF CommitTxn
  <2>4. m.by = Value(c)
    BY <2>2
  <2> QED
    BY <1>4, <2>3, <2>4, Zenon
<1> QED
  BY <1>3, <1>5, Zenon

-----------------------------------------------------------------------------
(* The theorems *)

LEMMA InitCommitInv == Init => CommitInv
<1> SUFFICES ASSUME Init
             PROVE  CommitInv
  OBVIOUS
<1>1. /\ edit = [c \in Clients |-> NoEdit] /\ result = [c \in Clients |-> "none"]
      /\ commits = [c \in Clients |-> 0] /\ nextTxn = 1
  BY Zenon DEF Init
<1>2. DOMAIN txns = {}
  BY DEF Init
<1>3. DOMAIN made = {1} /\ made[1].by = <<>> /\ IsSeq(made)
  <2>1. PICK m : m = [by |-> <<>>, log |-> TRUE, base |-> 0,
                      items |-> <<>>, known |-> <<>>]
    OBVIOUS
  <2>2. made = <<m>>
    BY <2>1, Zenon DEF Init
  <2>3. DOMAIN made = {1} /\ made[1] = m
    BY <2>2
  <2>4. IsSeq(made)
    BY <2>2, <2>3 DEF IsSeq
  <2>5. m.by = <<>>
    BY <2>1
  <2> QED
    BY <2>3, <2>4, <2>5, Zenon
<1>4. NamesRight
  <2>1. /\ commits \in [Clients -> Nat] /\ nextTxn \in Nat \ {0}
        /\ DOMAIN edit = Clients /\ DOMAIN result = Clients
    BY <1>1
  <2>2. \A r \in DOMAIN made : made[r].by = <<>>
    BY <1>3
  <2>3. \A t : t \notin DOMAIN txns
    BY <1>2
  <2> QED
    BY <1>3, <2>1, <2>2, <2>3, Zenon DEF NamesRight
<1>5. ASSUME NEW c \in Clients
      PROVE  ClientRight(c)
  <2>1. edit[c] = NoEdit /\ result[c] = "none"
    BY <1>1
  <2>2. /\ NoEdit.stage = "idle" /\ NoEdit.last # "commit_txn"
        /\ NoEdit.stage \notin Early /\ NoEdit.stage \notin Open /\ NoEdit.stage \notin Done
    BY NoEditRight DEF Early, Open, Done
  <2>3. NewRevs(c) = {}
    <3>1. \A r \in DOMAIN made : made[r].by # Value(c)
      BY <1>3 DEF Value
    <3> QED
      BY <3>1, Zenon DEF NewRevs
  <2>4. Ended("none", OwnTxns(c), NewRevs(c))
    BY <2>3 DEF Ended
  <2>5. CommitRight(NoEdit, "none", OwnTxns(c), NewRevs(c))
    BY <2>2, <2>4, Zenon DEF CommitRight
  <2> QED
    BY <2>1, <2>5, NoEditRight, Zenon DEF ClientRight
<1> QED
  BY <1>4, <1>5, Zenon DEF CommitInv

LEMMA NextKeeps == CommitInv /\ [Next]_vars => CommitInv'
<1> SUFFICES ASSUME CommitInv, [Next]_vars
             PROVE  CommitInv'
  OBVIOUS
<1>1. ASSUME NEW c \in Clients,
             \/ StartCommit(c) \/ ReadYoungest(c) \/ BeginTxn(c) \/ ApplyLog(c)
             \/ EditorStep(c)
             \/ PreCommit(c) \/ CommitTxn(c) \/ PostCommit(c) \/ MergeResponse(c)
             \/ ProcessCommitted(c) \/ Update(c) \/ Die(c)
      PROVE  CommitInv'
  <2>1. CASE Update(c)
    <3>1. UNCHANGED <<made, txns, nextTxn, edit, result, commits>>
      BY <2>1, Zenon DEF Update
    <3> QED
      BY <3>1, UpdateKeeps, Zenon
  <2> QED
    BY <1>1, <2>1, StartCommitKeeps, ReadYoungestKeeps, BeginTxnKeeps, ApplyLogKeeps, EditorKeeps,
       HooksKeep, CommitTxnKeeps, ProcessCommittedKeeps, DieKeeps, Zenon
<1>2. CASE UNCHANGED vars
  <2>1. UNCHANGED <<made, txns, nextTxn, edit, result, commits>>
    BY <1>2, Zenon DEF vars
  <2> QED
    BY <2>1, UpdateKeeps, Zenon
<1> QED
  BY <1>1, <1>2, Zenon DEF Next

\* In every reachable state each commit under way has exactly what its stage
\* allows: no transaction before svn_repos_fs_begin_txn_for_commit, one at
\* most until svn_fs_commit_txn, a revision only after it.
THEOREM CommitInvariant == Spec => []CommitInv
<1>1. Init => CommitInv
  BY InitCommitInv
<1>2. CommitInv /\ [Next]_vars => CommitInv'
  BY NextKeeps
<1> QED
  BY <1>1, <1>2, PTL DEF Spec

\* A commit through ra_local or ra_dav happens or does not: whatever calls
\* interleave, hooks fail and clients die, one that is reported as successful or
\* as failed by its post-commit hook made exactly one revision; one that failed
\* in the edit, at a hook before it or at its end made none, and at its end left
\* no transaction; one whose client died made at most one; and no transaction of
\* a revision that was made is left.
THEOREM CommitsWhole == Spec => []AllOrNothing
<1>1. CommitInv => AllOrNothing
  BY CommitsAreAtomic
<1> QED
  BY <1>1, CommitInvariant, PTL

=============================================================================
