---------------------------- MODULE Reps_proofs -----------------------------
(***************************************************************************)
(* That revisions keep their contents, that readers get them, and that the *)
(* two tables stay sound, for any number of transactions and readers, and  *)
(* for keys, records and texts of any size.                                *)
(*                                                                         *)
(* The tables s are sound with the texts C (Sound(s, C)) if every          *)
(* representation k stands for the text C[k]: a full text's records make   *)
(* it up, and a delta's instructions play it on the text of its base.  A   *)
(* base is immutable and has a later key than the delta, so that a chain   *)
(* of deltas ends.  Then rep_read_range gives the part asked for of C[k]   *)
(* through however many deltas, by induction on how many keys are later.   *)
(* Every operation takes sound tables to sound ones, and the lemmas say    *)
(* which texts they have; for svn_fs__rep_deltify and _undeltify those are *)
(* the same.                                                               *)
(*                                                                         *)
(* The inductive invariant RepsInv says that there are texts C with which  *)
(* the tables are sound and which are the ones clients sent.  It needs     *)
(* more than that: who names which representation (a mutable one has one   *)
(* owner, an immutable one is named by a committed node revision), and in  *)
(* which order they were made: those of a predecessor before, those of the *)
(* youngest revision last, and an edit after its base's text.  That is why *)
(* a delta is always against a later key, and chains of deltas have no     *)
(* cycle.  Each action is one lemma below, ending in Step.                 *)
(*                                                                         *)
(* All this holds until svn_fs_deltify makes a committed representation a  *)
(* delta against one of an open transaction (tainted), which nothing in    *)
(* deltify.c prevents: the transaction may still change or delete it.      *)
(*                                                                         *)
(* Induction goes by least counterexamples (LeastNumber); svn_fs__next_key *)
(* is shown to add one to the number that a key stands for.                *)
(***************************************************************************)
EXTENDS Reps, FsIds_proofs

\* The keys of the two tables, and texts.
Key == Seq(0..(Base - 1)) \ {<<>>}
Text == Seq(Nat \ {0})

\* K was handed out before L, or is L.
KeyBefore(k, l) == k = l \/ KeyValue(k) < KeyValue(l)

RepType ==
  [kind : {"fulltext", "delta"}, mutable : BOOLEAN, string : Key,
   base : Seq(Nat), sview : Nat]

\* The tables hold records of the right shape.
TablesType(s) ==
  /\ s = [strings |-> s.strings, reps |-> s.reps,
          nextString |-> s.nextString, nextRep |-> s.nextRep]
  /\ s.nextString \in Key /\ s.nextRep \in Key
  /\ DOMAIN s.strings \subseteq Key /\ DOMAIN s.reps \subseteq Key
  /\ s.strings \in [DOMAIN s.strings -> Seq(Seq(Int)) \ {<<>>}]
  /\ s.reps \in [DOMAIN s.reps -> RepType]

\* StringsOwned and KeysBelowNext, of the tables s.
Owned(s) ==
  /\ \A k \in DOMAIN s.reps : s.reps[k].string \in DOMAIN s.strings
  /\ \A k, l \in DOMAIN s.reps : k # l => s.reps[k].string # s.reps[l].string
  /\ \A key \in DOMAIN s.strings :
       \/ \E k \in DOMAIN s.reps : s.reps[k].string = key
       \/ s.strings[key] = <<<<>>>>

Below(s) ==
  /\ \A k \in DOMAIN s.strings : KeyValue(k) < KeyValue(s.nextString)
  /\ \A k \in DOMAIN s.reps : KeyValue(k) < KeyValue(s.nextRep)

\* Played on the text SOURCE the instructions OPS give the text TARGET.
IsDelta(ops, source, target) ==
  /\ ops \in Seq(Int) /\ Len(ops) = Len(target)
  /\ \A i \in 1..Len(ops) :
       \/ ops[i] > 0 /\ ops[i] = target[i]
       \/ ops[i] < 0 /\ -ops[i] <= Len(source) /\ source[-ops[i]] = target[i]

\* The representation k of the tables s stands for the text C[k].  A delta
\* is against an immutable representation with a later key: there are no
\* cycles of deltas.
StandsFor(s, C, k) ==
  LET rep == s.reps[k]
      string == FlattenSeq(s.strings[rep.string])
  IN  \/ rep.kind = "fulltext" /\ string = C[k]
      \/ /\ rep.kind = "delta" /\ ~rep.mutable
         /\ rep.base \in DOMAIN s.reps /\ ~s.reps[rep.base].mutable
         /\ KeyValue(k) < KeyValue(rep.base)
         /\ rep.sview = Len(C[rep.base])
         /\ IsDelta(string, C[rep.base], C[k])

\* The tables are sound, and C gives the texts of the representations.
Sound(s, C) ==
  /\ TablesType(s) /\ Owned(s) /\ Below(s)
  /\ C \in [DOMAIN s.reps -> Text]
  /\ \A k \in DOMAIN s.reps : StandsFor(s, C, k)
-----------------------------------------------------------------------------
(* Numbers and sequences *)

\* The lesser of two numbers.
LEMMA MinOfTwo ==
  ASSUME NEW a \in Int, NEW b \in Int
  PROVE  Min({a, b}) = IF a <= b THEN a ELSE b
BY DEF Min

\* A part of a sequence.
LEMMA PartOf ==
  ASSUME NEW S, NEW s \in Seq(S), NEW a \in Nat, NEW k \in Nat, a + k <= Len(s)
  PROVE  /\ SubSeq(s, a + 1, a + k) \in Seq(S)
         /\ Len(SubSeq(s, a + 1, a + k)) = k
         /\ \A i \in 1..k : SubSeq(s, a + 1, a + k)[i] = s[a + i]
<1>1. Len(s) \in Nat /\ a + 1 \in Int /\ a + k \in Int /\ a + k - (a + 1) + 1 = k
  OBVIOUS
<1>2. SubSeq(s, a + 1, a + k) = [i \in 1..k |-> s[a + i]]
  OBVIOUS
<1>3. \A i \in 1..k : a + i \in 1..Len(s) /\ s[a + i] \in S
  BY <1>1
<1> QED
  BY <1>2, <1>3

\* A sequence after another.
LEMMA SecondOf ==
  ASSUME NEW S, NEW s \in Seq(S), NEW r \in Seq(S)
  PROVE  /\ s \o r \in Seq(S) /\ Len(s \o r) = Len(s) + Len(r)
         /\ \A i \in 1..Len(s) : (s \o r)[i] = s[i]
         /\ \A i \in 1..Len(r) : (s \o r)[Len(s) + i] = r[i]
OBVIOUS

\* Two adjacent parts make one.
LEMMA AdjacentParts ==
  ASSUME NEW S, NEW s \in Seq(S), NEW a \in Nat, NEW b \in Nat, NEW c \in Nat,
         a <= b, b <= c, c <= Len(s)
  PROVE  SubSeq(s, a + 1, b) \o SubSeq(s, b + 1, c) = SubSeq(s, a + 1, c)
<1>1. PICK x, y, z, k, l : /\ x = SubSeq(s, a + 1, b) /\ y = SubSeq(s, b + 1, c)
                           /\ z = SubSeq(s, a + 1, c) /\ k = b - a /\ l = c - b
  OBVIOUS
<1>2. k \in Nat /\ l \in Nat /\ a + k = b /\ b + l = c /\ a + (k + l) = c
  BY <1>1
<1>3. x \in Seq(S) /\ Len(x) = k /\ \A i \in 1..k : x[i] = s[a + i]
  BY <1>1, <1>2, PartOf
<1>4. y \in Seq(S) /\ Len(y) = l /\ \A i \in 1..l : y[i] = s[b + i]
  BY <1>1, <1>2, PartOf
<1>5. z \in Seq(S) /\ Len(z) = k + l /\ \A i \in 1..(k + l) : z[i] = s[a + i]
  BY <1>1, <1>2, PartOf
<1>6. x \o y \in Seq(S) /\ Len(x \o y) = k + l
  BY <1>3, <1>4, SecondOf
<1>7. ASSUME NEW i \in 1..(k + l)
      PROVE  (x \o y)[i] = z[i]
  <2>1. CASE i <= k
    <3>1. i \in 1..k
      BY <1>2, <2>1
    <3>2. (x \o y)[i] = x[i]
      BY <1>3, <1>4, <3>1, SecondOf
    <3> QED
      BY <1>3, <1>5, <3>1, <3>2
  <2>2. CASE i > k
    <3>1. i - k \in 1..l /\ k + (i - k) = i /\ b + (i - k) = a + i
      BY <1>2, <2>2
    <3>2. (x \o y)[Len(x) + (i - k)] = y[i - k]
      BY <1>3, <1>4, <3>1, SecondOf, SMTT(30)
    <3>3. (x \o y)[i] = y[i - k]
      BY <1>3, <3>1, <3>2
    <3>4. y[i - k] = s[a + i]
      BY <1>4, <3>1
    <3> QED
      BY <1>5, <3>3, <3>4
  <2>3. i <= k \/ i > k
    BY <1>2
  <2> QED
    BY <2>1, <2>2, <2>3
<1>8. x \o y = z
  BY <1>5, <1>6, <1>7, SeqEqual
<1> QED
  BY <1>1, <1>8

\* A part that ends before it begins.
LEMMA EmptyPart ==
  ASSUME NEW S, NEW s \in Seq(S), NEW a \in Nat, NEW b \in Int, b <= a
  PROVE  SubSeq(s, a + 1, b) = <<>>
OBVIOUS

\* A nonempty set of numbers up to n has a greatest element.
LEMMA GreatestNumber ==
  ASSUME NEW n \in Nat, NEW T, T # {}, \A m \in T : m \in 0..n
  PROVE  Max(T) \in T /\ \A m \in T : m <= Max(T)
<1> DEFINE U == {n - m : m \in T}
<1>1. U \subseteq Nat /\ U # {}
  <2>1. \A m \in T : n - m \in Nat
    OBVIOUS
  <2> QED
    BY <2>1
<1>2. PICK u \in U : \A v \in U : u <= v
  BY <1>1, LeastNumber
<1>3. PICK m \in T : u = n - m
  BY <1>2
<1>4. \A l \in T : m >= l
  <2> SUFFICES ASSUME NEW l \in T
               PROVE  m >= l
    OBVIOUS
  <2>1. n - l \in U
    OBVIOUS
  <2>2. n - m <= n - l
    BY <1>2, <1>3, <2>1
  <2>3. m \in 0..n /\ l \in 0..n
    OBVIOUS
  <2> QED
    BY <2>2, <2>3
<1>5. Max(T) \in T /\ \A l \in T : Max(T) >= l
  <2> HIDE DEF U
  <2> QED
    BY <1>3, <1>4, Zenon DEF Max
<1>6. \A l \in T : l \in Int
  OBVIOUS
<1> QED
  BY <1>5, <1>6

\* f is defined step by step, from v.
Steps(f, V, N, v, step) ==
  /\ f \in [0..N -> V]
  /\ f[0] = v
  /\ \A i \in 1..N : f[i] = step[<<i, f[i - 1]>>]

\* What is defined step by step exists.
LEMMA StepsExist ==
  ASSUME NEW V, NEW N \in Nat, NEW v \in V, NEW step,
         \A i \in 1..N, x \in V : step[<<i, x>>] \in V
  PROVE  \E f : Steps(f, V, N, v, step)
<1> DEFINE Good(n) == \E f \in [0..n -> V] :
                        f[0] = v /\ \A i \in 1..n : f[i] = step[<<i, f[i - 1]>>]
           T == {n \in 0..N : ~ Good(n)}
<1>1. SUFFICES T = {}
  <2>1. N \in 0..N
    OBVIOUS
  <2> QED
    BY <2>1 DEF Steps
<1>2. SUFFICES ASSUME T # {}
               PROVE  FALSE
  OBVIOUS
<1>3. PICK n \in T : \A m \in T : n <= m
  <2>1. T \in SUBSET Nat
    OBVIOUS
  <2> HIDE DEF T
  <2> QED
    BY <1>2, <2>1, LeastNumber
<1>4. Good(n)
  <2>1. CASE n = 0
    <3>1. [i \in 0..n |-> v] \in [0..n -> V]
      OBVIOUS
    <3>2. [i \in 0..n |-> v][0] = v /\ 1..n = {}
      BY <2>1
    <3> QED
      BY <3>1, <3>2
  <2>2. CASE n # 0
    <3>1. n - 1 \in 0..N /\ n - 1 \notin T
      BY <1>3, <2>2
    <3>2. PICK f \in [0..(n - 1) -> V] :
            f[0] = v /\ \A i \in 1..(n - 1) : f[i] = step[<<i, f[i - 1]>>]
      BY <3>1
    <3> DEFINE w == step[<<n, f[n - 1]>>]
               g == [i \in 0..n |-> IF i = n THEN w ELSE f[i]]
    <3>3. w \in V
      <4>1. n \in 1..N /\ f[n - 1] \in V
        BY <2>2, <3>1
      <4> QED
        BY <4>1
    <3>4. g \in [0..n -> V]
      <4> SUFFICES ASSUME NEW i \in 0..n, i # n
                   PROVE  f[i] \in V
        BY <3>3
      <4> QED
        OBVIOUS
    <3>5. g[0] = v
      BY <2>2, <3>2
    <3>6. ASSUME NEW i \in 1..n
          PROVE  g[i] = step[<<i, g[i - 1]>>]
      <4>1. i - 1 \in 0..n /\ i - 1 # n /\ g[i - 1] = f[i - 1]
        OBVIOUS
      <4>2. CASE i = n
        BY <4>1, <4>2
      <4>3. CASE i # n
        <5>1. i \in 1..(n - 1) /\ g[i] = f[i]
          BY <4>3
        <5> QED
          BY <3>2, <4>1, <5>1
      <4> QED
        BY <4>2, <4>3
    <3> HIDE DEF g
    <3> QED
      BY <3>4, <3>5, <3>6
  <2> QED
    BY <2>1, <2>2
<1> QED
  BY <1>3, <1>4

\* f[i] are the first i members of q, put together.
Flattening(f, q, S) ==
  /\ f \in [1..Len(q) -> Seq(S)]
  /\ f[1] = q[1]
  /\ \A i \in 2..Len(q) : f[i] = f[i - 1] \o q[i]

\* FlattenSeq puts them together one by one.
LEMMA FlattenSteps ==
  ASSUME NEW S, NEW q \in Seq(Seq(S)), q # <<>>
  PROVE  \E f : Flattening(f, q, S) /\ FlattenSeq(q) = f[Len(q)]
<1> DEFINE P(g) == g = [i \in 1..Len(q) |->
                          IF i = 1 THEN q[i] ELSE g[i - 1] \o q[i]]
           N == Len(q) - 1
           V == Seq(S)
<1>1. Len(q) \in Nat /\ Len(q) # 0 /\ N \in Nat /\ \A i \in 1..Len(q) : q[i] \in V
  BY EmptySeq
<1>2. \E f \in [1..Len(q) -> V] : P(f)
  <2>0. PICK step : step = [p \in (0..N) \X V |-> p[2] \o q[p[1] + 1]]
    OBVIOUS
  <2>1. \A i \in 1..N, x \in V : step[<<i, x>>] \in V
    <3> SUFFICES ASSUME NEW i \in 1..N, NEW x \in V
                 PROVE  x \o q[i + 1] \in V
      BY <1>1, <2>0
    <3>1. i + 1 \in 1..Len(q)
      BY <1>1
    <3> QED
      BY <1>1, <3>1
  <2>2. q[1] \in V
    BY <1>1
  <2>3. PICK h : /\ h \in [0..N -> V] /\ h[0] = q[1]
                 /\ \A i \in 1..N : h[i] = step[<<i, h[i - 1]>>]
    <3>1. N \in Nat
      BY <1>1
    <3>2. \E h : Steps(h, V, N, q[1], step)
      BY <2>1, <2>2, <3>1, StepsExist
    <3> QED
      BY <3>2, Zenon DEF Steps
  <2> DEFINE f == [i \in 1..Len(q) |-> h[i - 1]]
  <2>4. \A i \in 1..Len(q) : i - 1 \in 0..N
    BY <1>1
  <2>5. f \in [1..Len(q) -> V]
    BY <2>3, <2>4
  <2>6. ASSUME NEW i \in 1..Len(q), i # 1
        PROVE  f[i] = f[i - 1] \o q[i]
    <3>1. i - 1 \in 1..N /\ i - 1 \in 1..Len(q) /\ i - 1 - 1 \in 0..N /\ i - 1 \in 0..N
      BY <1>1, <2>6
    <3>2. h[i - 1] = step[<<i - 1, h[i - 1 - 1]>>] /\ h[i - 1 - 1] \in V
      BY <2>3, <3>1
    <3>3. step[<<i - 1, h[i - 1 - 1]>>] = h[i - 1 - 1] \o q[i - 1 + 1]
      BY <2>0, <3>1, <3>2
    <3>4. i - 1 + 1 = i /\ f[i] = h[i - 1] /\ f[i - 1] = h[i - 1 - 1]
      BY <3>1
    <3> QED
      BY <3>2, <3>3, <3>4
  <2>7. 1 \in 1..Len(q) /\ f[1] = q[1]
    BY <1>1, <2>3
  <2>8. P(f)
    <3> DEFINE r == [i \in 1..Len(q) |-> IF i = 1 THEN q[i] ELSE f[i - 1] \o q[i]]
    <3>1. \A i \in 1..Len(q) : f[i] = r[i]
      <4> HIDE DEF f
      <4> QED
        BY <2>6, <2>7
    <3>2. DOMAIN f = 1..Len(q) /\ DOMAIN r = 1..Len(q)
      OBVIOUS
    <3>3. f = [i \in 1..Len(q) |-> f[i]] /\ r = [i \in 1..Len(q) |-> r[i]]
      OBVIOUS
    <3> QED
      BY <3>1, <3>3
  <2> HIDE DEF f
  <2> QED
    BY <2>5, <2>8
<1>3. PICK g : P(g) /\ FlattenSeq(q) = g[Len(q)]
  <2>1. P(CHOOSE g : P(g))
    <3> HIDE DEF P
    <3> QED
      BY <1>2, Zenon
  <2>2. FlattenSeq(q) = (CHOOSE g : P(g))[Len(q)]
    BY <1>1 DEF FlattenSeq
  <2> HIDE DEF P
  <2> QED
    BY <2>1, <2>2, Zenon
<1>4. g[1] = q[1] /\ \A i \in 2..Len(q) : g[i] = g[i - 1] \o q[i]
  <2>1. 1 \in 1..Len(q) /\ \A i \in 2..Len(q) : i \in 1..Len(q) /\ i # 1
    BY <1>1
  <2>2. \A i \in 1..Len(q) : g[i] = IF i = 1 THEN q[i] ELSE g[i - 1] \o q[i]
    BY <1>3
  <2> QED
    BY <2>1, <2>2
<1>5. \A i \in 1..Len(q) : g[i] \in V
  <2> DEFINE T == {i \in 1..Len(q) : g[i] \notin V}
  <2> SUFFICES ASSUME T # {}
               PROVE  FALSE
    OBVIOUS
  <2>1. T \in SUBSET Nat
    OBVIOUS
  <2>2. PICK i \in T : \A j \in T : i <= j
    <3> HIDE DEF T
    <3> QED
      BY <2>1, LeastNumber
  <2>3. CASE i = 1
    BY <1>1, <1>4, <2>3
  <2>4. CASE i # 1
    <3>1. i - 1 \in 1..Len(q) /\ i - 1 \notin T /\ i \in 2..Len(q)
      BY <2>2, <2>4
    <3>2. g[i] = g[i - 1] \o q[i] /\ g[i - 1] \in V /\ q[i] \in V
      BY <1>1, <1>4, <3>1
    <3>3. g[i] \in V
      BY <3>2
    <3> QED
      BY <3>3
  <2> QED
    BY <2>3, <2>4
<1>6. g \in [1..Len(q) -> V]
  BY <1>3, <1>5
<1> QED
  BY <1>3, <1>4, <1>6 DEF Flattening

\* Of no members.
LEMMA FlattenEmpty == FlattenSeq(<<>>) = <<>>
BY DEF FlattenSeq

\* P begins with the members of q.
BeginsWith(p, q) == Len(q) <= Len(p) /\ \A i \in 1..Len(q) : p[i] = q[i]

\* Two ways of putting together the same members.
LEMMA FlatteningUnique ==
  ASSUME NEW S, NEW q \in Seq(Seq(S)), NEW p \in Seq(Seq(S)),
         NEW f, NEW g, BeginsWith(p, q), Flattening(f, q, S), Flattening(g, p, S)
  PROVE  \A i \in 1..Len(q) : f[i] = g[i]
<1>0. Len(q) <= Len(p) /\ \A i \in 1..Len(q) : p[i] = q[i]
  BY DEF BeginsWith
<1> DEFINE n == Len(q)
           T == {i \in 1..n : f[i] # g[i]}
<1>1. SUFFICES ASSUME T # {}
               PROVE  FALSE
  OBVIOUS
<1>2. T \in SUBSET Nat
  OBVIOUS
<1>3. PICK i \in T : \A j \in T : i <= j
  <2> HIDE DEF T
  <2> QED
    BY <1>1, <1>2, LeastNumber
<1>4. Len(p) \in Nat /\ Len(q) \in Nat
  OBVIOUS
<1>5. CASE i = 1
  BY <1>0, <1>3, <1>5 DEF Flattening
<1>6. CASE i # 1
  <2>1. i - 1 \in 1..n /\ i \in 2..Len(p) /\ i \in 2..Len(q) /\ i - 1 \notin T
    BY <1>0, <1>3, <1>4, <1>6
  <2>2. f[i] = f[i - 1] \o q[i] /\ g[i] = g[i - 1] \o p[i]
    BY <2>1 DEF Flattening
  <2>3. f[i - 1] = g[i - 1] /\ p[i] = q[i]
    BY <1>0, <1>3, <2>1
  <2>4. f[i] = g[i]
    BY <2>2, <2>3
  <2> QED
    BY <1>3, <2>4
<1> QED
  BY <1>5, <1>6

\* One more member.
LEMMA FlattenAppend ==
  ASSUME NEW S, NEW q \in Seq(Seq(S)), NEW r \in Seq(S)
  PROVE  /\ FlattenSeq(q) \in Seq(S)
         /\ FlattenSeq(Append(q, r)) = FlattenSeq(q) \o r
<1>0. PICK p : p = Append(q, r)
  OBVIOUS
<1>1. /\ p \in Seq(Seq(S)) /\ Len(p) = Len(q) + 1 /\ p # <<>>
      /\ \A i \in 1..Len(q) : p[i] = q[i]
      /\ p[Len(p)] = r /\ Len(q) \in Nat
  BY <1>0
<1>2. PICK g : Flattening(g, p, S) /\ FlattenSeq(p) = g[Len(p)]
  BY <1>1, FlattenSteps
<1>3. CASE q = <<>>
  <2>1. Len(p) = 1 /\ g[1] = r
    BY <1>1, <1>2, <1>3 DEF Flattening
  <2>2. FlattenSeq(q) = <<>> /\ <<>> \o r = r
    BY <1>3, FlattenEmpty
  <2> QED
    BY <1>0, <1>2, <2>1, <2>2
<1>4. CASE q # <<>>
  <2>1. PICK f : Flattening(f, q, S) /\ FlattenSeq(q) = f[Len(q)]
    BY <1>4, FlattenSteps
  <2>2. Len(q) \in 1..Len(q) /\ Len(p) \in 2..Len(p) /\ Len(p) - 1 = Len(q)
    BY <1>1, <1>4, EmptySeq
  <2>3. FlattenSeq(q) \in Seq(S)
    BY <2>1, <2>2 DEF Flattening
  <2>4. f[Len(q)] = g[Len(q)]
    <3>1. BeginsWith(p, q) /\ p \in Seq(Seq(S)) /\ q \in Seq(Seq(S))
      BY <1>1 DEF BeginsWith
    <3>2. \A i \in 1..Len(q) : f[i] = g[i]
      BY <1>2, <2>1, <3>1, FlatteningUnique
    <3> QED
      BY <2>2, <3>2
  <2>5. g[Len(p)] = g[Len(p) - 1] \o p[Len(p)]
    BY <1>2, <2>2 DEF Flattening
  <2>6. g[Len(p)] = f[Len(q)] \o r
    BY <1>1, <2>2, <2>4, <2>5
  <2> QED
    BY <1>0, <1>2, <2>1, <2>3, <2>6
<1> QED
  BY <1>3, <1>4

\* Of one member, and of two.
LEMMA FlattenOneTwo ==
  ASSUME NEW S, NEW a \in Seq(S), NEW b \in Seq(S)
  PROVE  FlattenSeq(<<a>>) = a /\ FlattenSeq(<<a, b>>) = a \o b
<1>1. <<>> \in Seq(Seq(S)) /\ <<a>> \in Seq(Seq(S))
  OBVIOUS
<1>2. <<a>> = Append(<<>>, a) /\ <<a, b>> = Append(<<a>>, b) /\ <<>> \o a = a
  OBVIOUS
<1>3. FlattenSeq(Append(<<>>, a)) = FlattenSeq(<<>>) \o a
  BY <1>1, FlattenAppend
<1>4. FlattenSeq(<<a>>) = a
  BY <1>2, <1>3, FlattenEmpty
<1>5. FlattenSeq(Append(<<a>>, b)) = FlattenSeq(<<a>>) \o b
  BY <1>1, FlattenAppend
<1> QED
  BY <1>2, <1>4, <1>5

\* The bytes of the first m records of a string.
FirstBytes(records, m) == FlattenSeq(SubSeq(records, 1, m))

\* They grow record by record.
LEMMA FirstBytesGrow ==
  ASSUME NEW S, NEW q \in Seq(Seq(S))
  PROVE  /\ FirstBytes(q, 0) = <<>> /\ FirstBytes(q, Len(q)) = FlattenSeq(q)
         /\ \A m \in 0..Len(q) : FirstBytes(q, m) \in Seq(S)
         /\ \A m \in 1..Len(q) : FirstBytes(q, m) = FirstBytes(q, m - 1) \o q[m]
<1>1. FirstBytes(q, 0) = <<>>
  <2>1. SubSeq(q, 1, 0) = <<>>
    OBVIOUS
  <2> QED
    BY <2>1, FlattenEmpty DEF FirstBytes
<1>2. FirstBytes(q, Len(q)) = FlattenSeq(q)
  <2>1. SubSeq(q, 1, Len(q)) = q
    OBVIOUS
  <2> QED
    BY <2>1 DEF FirstBytes
<1>3. \A m \in 0..Len(q) : FirstBytes(q, m) \in Seq(S)
  <2> SUFFICES ASSUME NEW m \in 0..Len(q)
               PROVE  FirstBytes(q, m) \in Seq(S)
    OBVIOUS
  <2>1. SubSeq(q, 1, m) \in Seq(Seq(S)) /\ <<>> \in Seq(S)
    OBVIOUS
  <2> QED
    BY <2>1, FlattenAppend DEF FirstBytes
<1>4. ASSUME NEW m \in 1..Len(q)
      PROVE  FirstBytes(q, m) = FirstBytes(q, m - 1) \o q[m]
  <2>1. PICK p : p = SubSeq(q, 1, m - 1)
    OBVIOUS
  <2>2. p \in Seq(Seq(S)) /\ q[m] \in Seq(S) /\ Append(p, q[m]) = SubSeq(q, 1, m)
    <3>1. /\ p \in Seq(Seq(S)) /\ q[m] \in Seq(S)
          /\ SubSeq(q, 1, m) \in Seq(Seq(S)) /\ Len(SubSeq(q, 1, m)) = m
          /\ Append(p, q[m]) \in Seq(Seq(S)) /\ Len(p) = m - 1
      BY <2>1
    <3>2. Len(Append(p, q[m])) = m
      BY <3>1
    <3>3. \A i \in 1..m : Append(p, q[m])[i] = SubSeq(q, 1, m)[i]
      BY <2>1, <3>1
    <3> QED
      BY <3>1, <3>2, <3>3, SeqEqual
  <2>3. FlattenSeq(Append(p, q[m])) = FlattenSeq(p) \o q[m]
    BY <2>2, FlattenAppend
  <2> QED
    BY <2>1, <2>2, <2>3 DEF FirstBytes
<1> QED
  BY <1>1, <1>2, <1>3, <1>4

\* Those of fewer records begin those of more.
LEMMA FirstBytesBegin ==
  ASSUME NEW S, NEW q \in Seq(Seq(S)), NEW m \in 0..Len(q), NEW n \in m..Len(q)
  PROVE  /\ Len(FirstBytes(q, m)) <= Len(FirstBytes(q, n))
         /\ \A i \in 1..Len(FirstBytes(q, m)) :
              FirstBytes(q, m)[i] = FirstBytes(q, n)[i]
<1> DEFINE Good(l) == /\ Len(FirstBytes(q, m)) <= Len(FirstBytes(q, l))
                      /\ \A i \in 1..Len(FirstBytes(q, m)) :
                           FirstBytes(q, m)[i] = FirstBytes(q, l)[i]
           T == {l \in m..Len(q) : ~ Good(l)}
<1>1. SUFFICES ASSUME T # {}
               PROVE  FALSE
  OBVIOUS
<1>2. T \in SUBSET Nat
  OBVIOUS
<1>3. PICK l \in T : \A j \in T : l <= j
  <2> HIDE DEF T
  <2> QED
    BY <1>1, <1>2, LeastNumber
<1>4. CASE l = m
  <2>1. FirstBytes(q, m) \in Seq(S)
    BY FirstBytesGrow
  <2> QED
    BY <1>3, <1>4, <2>1
<1>5. CASE l # m
  <2>1. l - 1 \in m..Len(q) /\ l - 1 \notin T /\ l \in 1..Len(q)
        /\ l - 1 \in 0..Len(q) /\ l \in 0..Len(q)
    BY <1>3, <1>5
  <2>2. Good(l - 1)
    BY <2>1
  <2>3. PICK a, b, c : /\ a = FirstBytes(q, m) /\ b = FirstBytes(q, l - 1)
                       /\ c = FirstBytes(q, l)
    OBVIOUS
  <2>4. a \in Seq(S) /\ b \in Seq(S) /\ q[l] \in Seq(S) /\ c = b \o q[l]
    <3>1. /\ FirstBytes(q, m) \in Seq(S) /\ FirstBytes(q, l - 1) \in Seq(S)
          /\ FirstBytes(q, l) = FirstBytes(q, l - 1) \o q[l]
      BY <2>1, FirstBytesGrow, Zenon
    <3>2. q[l] \in Seq(S)
      BY <2>1
    <3> QED
      BY <2>3, <3>1, <3>2
  <2>5. Len(a) <= Len(b) /\ \A i \in 1..Len(a) : a[i] = b[i]
    BY <2>2, <2>3
  <2>6. Len(a) <= Len(c) /\ \A i \in 1..Len(a) : a[i] = c[i]
    BY <2>4, <2>5
  <2>7. Good(l)
    BY <2>3, <2>6
  <2> QED
    BY <1>3, <2>7
<1> QED
  BY <1>4, <1>5

-----------------------------------------------------------------------------
(* Reading strings *)

\* string_read: nothing at the end of the string, else some bytes of it, from
\* the offset on, and not more than asked for.
LEMMA ReadRecordExact ==
  ASSUME NEW S, NEW q \in Seq(Seq(S)), NEW offset \in Nat, NEW len \in Int
  PROVE  LET all == FlattenSeq(q)
             p == ReadRecord(q, offset, len)
         IN  /\ len <= 0 \/ offset >= Len(all) => p = <<>>
             /\ len > 0 /\ offset < Len(all) =>
                  /\ Len(p) \in 1..len /\ offset + Len(p) <= Len(all)
                  /\ p = SubSeq(all, offset + 1, offset + Len(p))
<1> DEFINE P(g) == g = [m \in 0..Len(q) |->
                          IF m = 0 THEN 0 ELSE g[m - 1] + Len(q[m])]
           L(m) == Len(FirstBytes(q, m))
<1>1. Len(q) \in Nat /\ \A m \in 1..Len(q) : q[m] \in Seq(S) /\ Len(q[m]) \in Nat
  OBVIOUS
<1>2. /\ FirstBytes(q, 0) = <<>> /\ FirstBytes(q, Len(q)) = FlattenSeq(q)
      /\ \A m \in 0..Len(q) : FirstBytes(q, m) \in Seq(S)
      /\ \A m \in 1..Len(q) : FirstBytes(q, m) = FirstBytes(q, m - 1) \o q[m]
  BY FirstBytesGrow
<1>3. L(0) = 0 /\ \A m \in 0..Len(q) : L(m) \in Nat
  BY <1>2
<1>4. \A m \in 1..Len(q) : L(m) = L(m - 1) + Len(q[m])
  <2> SUFFICES ASSUME NEW m \in 1..Len(q)
               PROVE  L(m) = L(m - 1) + Len(q[m])
    OBVIOUS
  <2>1. m - 1 \in 0..Len(q)
    OBVIOUS
  <2>2. FirstBytes(q, m - 1) \in Seq(S) /\ q[m] \in Seq(S)
    BY <1>1, <1>2, <2>1
  <2>3. FirstBytes(q, m) = FirstBytes(q, m - 1) \o q[m]
    BY <1>2
  <2> QED
    BY <2>2, <2>3
<1> HIDE DEF L
<1>5. P([m \in 0..Len(q) |-> L(m)])
  BY <1>1, <1>3, <1>4
<1>6. PICK e : e = CHOOSE g : P(g)
  OBVIOUS
<1>7. P(e)
  <2> HIDE DEF P
  <2> QED
    BY <1>5, <1>6, Zenon
<1>8. \A m \in 0..Len(q) : e[m] = L(m)
  <2> DEFINE T == {m \in 0..Len(q) : e[m] # L(m)}
  <2> SUFFICES ASSUME T # {}
               PROVE  FALSE
    OBVIOUS
  <2>1. T \in SUBSET Nat
    OBVIOUS
  <2>2. PICK m \in T : \A j \in T : m <= j
    <3> HIDE DEF T
    <3> QED
      BY <2>1, LeastNumber
  <2>3. e[m] = IF m = 0 THEN 0 ELSE e[m - 1] + Len(q[m])
    BY <1>7
  <2>4. CASE m = 0
    BY <1>3, <2>3, <2>4
  <2>5. CASE m # 0
    <3>1. m - 1 \in 0..Len(q) /\ m - 1 \notin T /\ m \in 1..Len(q)
      BY <2>2, <2>5
    <3>2. e[m - 1] = L(m - 1)
      BY <3>1
    <3> QED
      BY <1>4, <2>3, <2>5, <3>1, <3>2
  <2> QED
    BY <2>4, <2>5
<1>9. PICK B : B = {m \in 1..Len(q) : offset < e[m]}
  OBVIOUS
<1>10. PICK n : n = Min(B)
  OBVIOUS
<1>11. PICK start : start = offset - e[n - 1]
  OBVIOUS
<1>12. ReadRecord(q, offset, len) =
         IF B = {} THEN <<>>
         ELSE SubSeq(q[n], start + 1, Min({start + len, Len(q[n])}))
  BY <1>6, <1>9, <1>10, <1>11 DEF ReadRecord
<1>13. PICK all : all = FlattenSeq(q)
  OBVIOUS
<1>14. all \in Seq(S) /\ all = FirstBytes(q, Len(q)) /\ Len(all) = L(Len(q))
  BY <1>1, <1>2, <1>13 DEF L
<1>15. CASE offset >= Len(all)
  <2>1. \A m \in 1..Len(q) : L(m) <= Len(all)
    BY <1>1, <1>14, FirstBytesBegin DEF L
  <2>2. B = {}
    BY <1>3, <1>8, <1>9, <1>14, <1>15, <2>1
  <2> QED
    BY <1>12, <1>13, <1>15, <2>2
<1>16. CASE offset < Len(all)
  <2>1. Len(q) \in B
    <3>1. Len(q) # 0
      BY <1>3, <1>14, <1>16
    <3>2. Len(q) \in 1..Len(q) /\ Len(q) \in 0..Len(q)
      BY <1>1, <3>1
    <3>3. offset < e[Len(q)]
      BY <1>8, <1>14, <1>16, <3>2
    <3> QED
      BY <1>9, <3>2, <3>3
  <2>2. n \in B /\ \A m \in B : n <= m
    <3>1. B \in SUBSET Nat /\ B # {}
      BY <1>9, <2>1
    <3>2. \E b \in B : \A c \in B : b =< c
      BY <3>1, LeastNumber
    <3> QED
      BY <1>10, <3>2, Zenon DEF Min
  <2>3. n \in 1..Len(q) /\ offset < L(n) /\ n - 1 \in 0..Len(q)
    BY <1>8, <1>9, <2>2
  <2>4. L(n - 1) <= offset
    <3>1. CASE n = 1
      BY <1>3, <3>1
    <3>2. CASE n # 1
      <4>1. n - 1 \in 1..Len(q) /\ n - 1 \notin B
        BY <2>2, <2>3, <3>2
      <4>2. e[n - 1] = L(n - 1) /\ L(n - 1) \in Nat
        BY <1>3, <1>8, <2>3
      <4>3. ~ (offset < e[n - 1])
        BY <1>9, <4>1
      <4> QED
        BY <4>2, <4>3
    <3> QED
      BY <3>1, <3>2
  <2>5. PICK a, w, rec : a = L(n - 1) /\ rec = q[n] /\ w = Len(rec)
    OBVIOUS
  <2>6. /\ a \in Nat /\ w \in Nat /\ rec \in Seq(S) /\ start = offset - a
        /\ L(n) = a + w /\ a <= offset /\ offset < a + w
    BY <1>1, <1>3, <1>4, <1>8, <1>11, <2>3, <2>4, <2>5
  <2>61. start \in Nat /\ start < w
    BY <2>6
  <2>62. PICK p : p = ReadRecord(q, offset, len)
    OBVIOUS
  <2>7. p = SubSeq(rec, start + 1, IF start + len <= w THEN start + len ELSE w)
    <3>1. start + len \in Int /\ w \in Int
      BY <2>6
    <3>2. p = SubSeq(rec, start + 1, Min({start + len, w}))
      BY <1>12, <2>1, <2>5, <2>62
    <3> QED
      BY <3>1, <3>2, MinOfTwo
  <2>8. CASE len <= 0
    <3>1. p = SubSeq(rec, start + 1, start + len) /\ start + len < start + 1
      BY <2>61, <2>6, <2>7, <2>8
    <3>2. p = <<>>
      BY <2>6, <2>61, <2>8, <3>1
    <3> QED
      BY <1>13, <1>16, <2>62, <2>8, <3>2
  <2>9. CASE len > 0
    <3>1. PICK k : k = IF start + len <= w THEN len ELSE w - start
      OBVIOUS
    <3>2. k \in 1..len /\ start + k <= w
      BY <2>6, <2>61, <2>9, <3>1
    <3>3. p = SubSeq(rec, start + 1, start + k)
      <4>1. start + k = IF start + len <= w THEN start + len ELSE w
        BY <2>6, <2>61, <3>1
      <4> QED
        BY <2>7, <4>1
    <3>4. p \in Seq(S) /\ Len(p) = k /\ \A i \in 1..k : p[i] = rec[start + i]
      <4>1. rec \in Seq(S) /\ start \in Nat /\ k \in Nat /\ start + k <= Len(rec)
        BY <2>5, <2>6, <2>61, <3>2
      <4>2. /\ SubSeq(rec, start + 1, start + k) \in Seq(S)
            /\ Len(SubSeq(rec, start + 1, start + k)) = k
            /\ \A i \in 1..k : SubSeq(rec, start + 1, start + k)[i] = rec[start + i]
        BY <4>1, PartOf, SMTT(30)
      <4> QED
        BY <3>3, <4>2
    <3>5. L(n) <= Len(all) /\ \A i \in 1..L(n) : FirstBytes(q, n)[i] = all[i]
      <4>1. n \in 0..Len(q) /\ Len(q) \in n..Len(q)
        BY <1>1, <2>3
      <4> QED
        BY <1>14, <4>1, FirstBytesBegin DEF L
    <3>6. offset + k <= L(n) /\ offset + k <= Len(all) /\ Len(all) \in Nat
      BY <1>14, <2>6, <3>2, <3>5
    <3>7. \A i \in 1..k : p[i] = all[offset + i]
      <4> SUFFICES ASSUME NEW i \in 1..k
                   PROVE  p[i] = all[offset + i]
        OBVIOUS
      <4>1. offset + i \in 1..L(n)
        BY <2>6, <3>2, <3>6
      <4>2. FirstBytes(q, n)[offset + i] = all[offset + i]
        BY <3>5, <4>1
      <4>3. FirstBytes(q, n) = FirstBytes(q, n - 1) \o q[n] /\ FirstBytes(q, n - 1) \in Seq(S)
        BY <1>2, <2>3
      <4>4. start + i \in 1..w /\ offset + i = a + (start + i)
        BY <2>6, <2>61, <3>2
      <4>5. PICK f : f = FirstBytes(q, n - 1)
        OBVIOUS
      <4>6. f \in Seq(S) /\ Len(f) = a /\ FirstBytes(q, n) = f \o rec
        BY <2>5, <4>3, <4>5 DEF L
      <4>7. FirstBytes(q, n)[offset + i] = rec[start + i]
        <5>1. f \in Seq(S) /\ rec \in Seq(S) /\ start + i \in 1..Len(rec)
          BY <2>5, <2>6, <4>4, <4>6
        <5>2. (f \o rec)[Len(f) + (start + i)] = rec[start + i]
          BY <5>1, SecondOf
        <5> QED
          BY <4>4, <4>6, <5>2
      <4> QED
        BY <3>4, <4>2, <4>7
    <3>8. p = SubSeq(all, offset + 1, offset + k)
      <4>1. PICK r : r = SubSeq(all, offset + 1, offset + k)
        OBVIOUS
      <4>2. r \in Seq(S) /\ Len(r) = k /\ \A i \in 1..k : r[i] = all[offset + i]
        BY <1>14, <3>2, <3>6, <4>1
      <4>3. \A i \in 1..k : p[i] = r[i]
        BY <3>7, <4>2
      <4> QED
        BY <3>4, <4>1, <4>2, <4>3, SeqEqual
    <3>9. Len(p) \in 1..len /\ offset + Len(p) <= Len(all)
          /\ p = SubSeq(all, offset + 1, offset + Len(p))
      BY <3>2, <3>4, <3>6, <3>8
    <3> QED
      BY <1>13, <1>16, <2>62, <2>9, <3>9
  <2> QED
    BY <2>8, <2>9
<1>17. Len(all) \in Nat
  BY <1>14
<1> QED
  BY <1>15, <1>16, <1>17

\* svn_fs__string_read gives the bytes asked for, as many as there are.
LEMMA StringReadPart ==
  ASSUME NEW S, NEW q \in Seq(Seq(S)), NEW offset \in Nat, NEW len \in Nat
  PROVE  StringRead(q, offset, len) =
           SubSeq(FlattenSeq(q), offset + 1,
                  Min({offset + len, Len(FlattenSeq(q))}))
<1>1. PICK all : all = FlattenSeq(q)
  OBVIOUS
<1>2. all \in Seq(S) /\ Len(all) \in Nat
  <2>1. <<>> \in Seq(S)
    OBVIOUS
  <2> QED
    BY <1>1, <2>1, FlattenAppend
<1>3. PICK z : z = Min({offset + len, Len(all)})
  OBVIOUS
<1>4. /\ z \in Nat /\ z <= offset + len /\ z <= Len(all)
      /\ z = offset + len \/ z = Len(all)
  BY <1>2, <1>3, MinOfTwo
<1> DEFINE W(amt) == ReadRecord(q, offset + amt, len - amt)
           Rest(amt) == SubSeq(all, (offset + amt) + 1, z)
           P(g) == g = [amt \in Nat |->
                          IF W(amt) = <<>> \/ amt + Len(W(amt)) = len THEN W(amt)
                          ELSE W(amt) \o g[amt + Len(W(amt))]]
<1>5. ASSUME NEW amt \in Nat, offset + amt >= z
      PROVE  W(amt) = <<>> /\ Rest(amt) = <<>>
  <2>1. offset + amt \in Nat /\ len - amt \in Int
    OBVIOUS
  <2>2. len - amt <= 0 \/ offset + amt >= Len(all)
    BY <1>4, <1>5
  <2>3. W(amt) = <<>>
    BY <1>1, <2>1, <2>2, ReadRecordExact
  <2>4. Rest(amt) = <<>>
    BY <1>2, <1>4, <1>5, <2>1, EmptyPart
  <2> QED
    BY <2>3, <2>4
<1>6. ASSUME NEW amt \in Nat, offset + amt < z
      PROVE  /\ Len(W(amt)) \in 1..(len - amt) /\ W(amt) # <<>>
             /\ Rest(amt) = W(amt) \o Rest(amt + Len(W(amt)))
             /\ amt + Len(W(amt)) = len => Rest(amt) = W(amt)
  <2>1. offset + amt \in Nat /\ len - amt \in Int /\ len - amt > 0
        /\ offset + amt < Len(all)
    BY <1>2, <1>4, <1>6
  <2>2. PICK p, k : p = W(amt) /\ k = Len(p)
    OBVIOUS
  <2>3. /\ Len(W(amt)) \in 1..(len - amt) /\ offset + amt + Len(W(amt)) <= Len(all)
        /\ W(amt) = SubSeq(all, offset + amt + 1, offset + amt + Len(W(amt)))
    BY <1>1, <2>1, ReadRecordExact
  <2>4. k \in 1..(len - amt) /\ p = SubSeq(all, offset + amt + 1, offset + amt + k)
        /\ offset + amt + k <= Len(all)
    BY <2>2, <2>3
  <2>5. offset + amt + k <= z /\ offset + amt + k \in Nat /\ k \in Nat
    BY <1>2, <1>4, <2>1, <2>4
  <2>6. p \o SubSeq(all, offset + amt + k + 1, z) = SubSeq(all, offset + amt + 1, z)
    <3>1. offset + amt <= offset + amt + k
      BY <2>5
    <3> QED
      BY <1>2, <1>4, <2>1, <2>4, <2>5, <3>1, AdjacentParts
  <2>7. Rest(amt) = p \o Rest(amt + k)
    <3>1. offset + (amt + k) = offset + amt + k
      BY <2>5
    <3> QED
      BY <2>6, <3>1
  <2>8. ASSUME amt + k = len
        PROVE  Rest(amt) = p
    <3>1. offset + amt + k = z
      BY <1>4, <2>5, <2>8
    <3> QED
      BY <2>4, <3>1
  <2>9. p # <<>>
    BY <2>2, <2>4
  <2> QED
    BY <2>2, <2>4, <2>7, <2>8, <2>9
<1> HIDE DEF W, Rest
<1>7. P([amt \in Nat |-> Rest(amt)])
  <2> DEFINE g == [amt \in Nat |-> Rest(amt)]
  <2> SUFFICES ASSUME NEW amt \in Nat
               PROVE  Rest(amt) =
                        IF W(amt) = <<>> \/ amt + Len(W(amt)) = len THEN W(amt)
                        ELSE W(amt) \o g[amt + Len(W(amt))]
    OBVIOUS
  <2>1. CASE offset + amt >= z
    BY <1>5, <2>1
  <2>2. CASE offset + amt < z
    <3>1. amt + Len(W(amt)) \in Nat
      BY <1>6, <2>2
    <3>2. g[amt + Len(W(amt))] = Rest(amt + Len(W(amt)))
      BY <3>1
    <3> HIDE DEF g
    <3> QED
      BY <1>6, <2>2, <3>2
  <2>3. offset + amt >= z \/ offset + amt < z
    BY <1>4
  <2> QED
    BY <2>1, <2>2, <2>3
<1>8. PICK e : e = CHOOSE g : P(g)
  OBVIOUS
<1>9. P(e)
  <2> HIDE DEF P
  <2> QED
    BY <1>7, <1>8, Zenon
<1>10. \A amt \in Nat :
         e[amt] = IF W(amt) = <<>> \/ amt + Len(W(amt)) = len THEN W(amt)
                  ELSE W(amt) \o e[amt + Len(W(amt))]
  BY <1>9
<1>11. e[0] = Rest(0)
  <2> DEFINE T == {d \in 0..len : e[len - d] # Rest(len - d)}
  <2>1. T = {}
    <3> SUFFICES ASSUME T # {}
                 PROVE  FALSE
      OBVIOUS
    <3>1. T \in SUBSET Nat
      OBVIOUS
    <3>2. PICK d \in T : \A c \in T : d <= c
      <4> HIDE DEF T
      <4> QED
        BY <3>1, LeastNumber
    <3>3. PICK amt : amt = len - d
      OBVIOUS
    <3>4. amt \in Nat /\ d \in 0..len /\ e[amt] # Rest(amt)
      BY <3>2, <3>3
    <3>5. CASE offset + amt >= z
      BY <1>5, <1>10, <3>4, <3>5
    <3>6. CASE offset + amt < z
      <4>1. PICK k : k = Len(W(amt))
        OBVIOUS
      <4>2. /\ k \in 1..d /\ W(amt) # <<>>
            /\ Rest(amt) = W(amt) \o Rest(amt + k)
            /\ amt + k = len => Rest(amt) = W(amt)
        <5>1. len - amt = d
          BY <3>3, <3>4
        <5> QED
          BY <1>6, <3>4, <3>6, <4>1, <5>1
      <4>3. e[amt] = IF amt + k = len THEN W(amt) ELSE W(amt) \o e[amt + k]
        BY <1>10, <3>4, <4>1, <4>2
      <4>4. CASE amt + k = len
        BY <3>4, <4>2, <4>3, <4>4
      <4>5. CASE amt + k # len
        <5>1. d - k \in 0..len /\ ~ (d <= d - k) /\ len - (d - k) = amt + k
          BY <3>3, <3>4, <4>2
        <5>2. d - k \notin T
          BY <3>2, <5>1
        <5>3. e[amt + k] = Rest(amt + k)
          BY <5>1, <5>2
        <5> QED
          BY <3>4, <4>2, <4>3, <4>5, <5>3
      <4> QED
        BY <4>4, <4>5
    <3>7. offset + amt >= z \/ offset + amt < z
      BY <1>4, <3>4
    <3> QED
      BY <3>5, <3>6, <3>7
  <2>2. len \in 0..len /\ len - len = 0
    OBVIOUS
  <2> QED
    BY <2>1, <2>2
<1>12. StringRead(q, offset, len) = e[0]
  BY <1>8 DEF StringRead, W
<1>13. Rest(0) = SubSeq(all, offset + 1, z)
  <2>1. offset + 0 = offset
    OBVIOUS
  <2> QED
    BY <2>1 DEF Rest
<1> QED
  BY <1>1, <1>3, <1>11, <1>12, <1>13

-----------------------------------------------------------------------------
(* Keys *)

\* v[n] is the number that the first n digits of a key stand for.
Values(v, key) ==
  /\ v \in [0..Len(key) -> Nat]
  /\ v[0] = 0
  /\ \A n \in 1..Len(key) : v[n] = Base * v[n - 1] + key[n]

\* What two such sequences begin with is the same.
LEMMA ValuesUnique ==
  ASSUME NEW key \in Seq(Nat), NEW v, NEW w, Values(v, key), Values(w, key)
  PROVE  v[Len(key)] = w[Len(key)]
<1> DEFINE T == {n \in 0..Len(key) : v[n] # w[n]}
<1>0. Len(key) \in Nat
  OBVIOUS
<1>1. SUFFICES ASSUME T # {}
               PROVE  FALSE
  <2>1. Len(key) \in 0..Len(key)
    BY <1>0
  <2> QED
    BY <2>1
<1>2. T \in SUBSET Nat
  OBVIOUS
<1>3. PICK n \in T : \A m \in T : n <= m
  <2> HIDE DEF T
  <2> QED
    BY <1>1, <1>2, LeastNumber
<1>4. CASE n = 0
  BY <1>3, <1>4 DEF Values
<1>5. CASE n # 0
  <2>1. n \in 1..Len(key) /\ n - 1 \in 0..Len(key) /\ n - 1 \notin T
    BY <1>3, <1>5
  <2>2. v[n] = Base * v[n - 1] + key[n] /\ w[n] = Base * w[n - 1] + key[n]
    BY <2>1 DEF Values
  <2>3. v[n - 1] = w[n - 1]
    BY <2>1
  <2>4. v[n] = w[n]
    BY <2>2, <2>3
  <2> QED
    BY <1>3, <2>4
<1> QED
  BY <1>4, <1>5

\* KeyValue reads the digits from the left.
LEMMA KeyValues ==
  ASSUME NEW key \in Seq(Nat)
  PROVE  \E v : Values(v, key) /\ KeyValue(key) = v[Len(key)]
<1> DEFINE P(g) == g = [n \in 0..Len(key) |->
                          IF n = 0 THEN 0 ELSE Base * g[n - 1] + key[n]]
<1>1. Base \in Nat /\ Len(key) \in Nat /\ \A n \in 1..Len(key) : key[n] \in Nat
  BY RepsAssumption
<1>2. \E g : P(g)
  <2>1. PICK step : step = [p \in (1..Len(key)) \X Nat |-> Base * p[2] + key[p[1]]]
    OBVIOUS
  <2>2. \A i \in 1..Len(key), x \in Nat :
          step[<<i, x>>] = Base * x + key[i] /\ step[<<i, x>>] \in Nat
    BY <1>1, <2>1, SMTT(30)
  <2>3. PICK f : Steps(f, Nat, Len(key), 0, step)
    BY <1>1, <2>2, StepsExist
  <2>4. f \in [0..Len(key) -> Nat] /\ f[0] = 0
    BY <2>3 DEF Steps
  <2>5. \A n \in 1..Len(key) : f[n] = Base * f[n - 1] + key[n]
    <3> SUFFICES ASSUME NEW n \in 1..Len(key)
                 PROVE  f[n] = Base * f[n - 1] + key[n]
      OBVIOUS
    <3>1. f[n] = step[<<n, f[n - 1]>>] /\ n - 1 \in 0..Len(key)
      BY <1>1, <2>3 DEF Steps
    <3>2. f[n - 1] \in Nat
      BY <2>4, <3>1
    <3> QED
      BY <2>2, <3>1, <3>2
  <2>6. \A n \in 0..Len(key) : n # 0 => n \in 1..Len(key)
    BY <1>1
  <2>7. \A n \in 0..Len(key) :
          f[n] = IF n = 0 THEN 0 ELSE Base * f[n - 1] + key[n]
    BY <2>4, <2>5, <2>6
  <2>8. P(f)
    <3>1. f = [n \in 0..Len(key) |-> f[n]]
      BY <2>4
    <3> QED
      BY <2>7, <3>1
  <2> QED
    BY <2>8
<1>3. PICK v : v = CHOOSE g : P(g)
  OBVIOUS
<1>4. P(v)
  <2> HIDE DEF P
  <2> QED
    BY <1>2, <1>3, Zenon
<1>5. KeyValue(key) = v[Len(key)]
  BY <1>3 DEF KeyValue
<1>6. v[0] = 0 /\ \A n \in 1..Len(key) : v[n] = Base * v[n - 1] + key[n]
  <2>1. 0 \in 0..Len(key) /\ \A n \in 1..Len(key) : n \in 0..Len(key) /\ n # 0
    BY <1>1
  <2>2. \A n \in 0..Len(key) : v[n] = IF n = 0 THEN 0 ELSE Base * v[n - 1] + key[n]
    BY <1>4
  <2> QED
    BY <2>1, <2>2
<1>7. \A n \in 0..Len(key) : v[n] \in Nat
  <2> DEFINE T == {n \in 0..Len(key) : v[n] \notin Nat}
  <2> SUFFICES ASSUME T # {}
               PROVE  FALSE
    OBVIOUS
  <2>1. T \in SUBSET Nat
    OBVIOUS
  <2>2. PICK n \in T : \A m \in T : n <= m
    <3> HIDE DEF T
    <3> QED
      BY <2>1, LeastNumber
  <2>3. CASE n = 0
    BY <1>6, <2>2, <2>3
  <2>4. CASE n # 0
    <3>1. n \in 1..Len(key) /\ n - 1 \in 0..Len(key) /\ n - 1 \notin T
      BY <2>2, <2>4
    <3>2. v[n - 1] \in Nat /\ v[n] = Base * v[n - 1] + key[n]
      BY <1>6, <3>1
    <3>3. Base * v[n - 1] \in Nat /\ key[n] \in Nat
      BY <1>1, <3>1, <3>2, SMTT(30)
    <3>4. v[n] \in Nat
      BY <3>2, <3>3
    <3> QED
      BY <2>2, <3>4
  <2> QED
    BY <2>3, <2>4
<1>8. v \in [0..Len(key) -> Nat]
  BY <1>4, <1>7
<1> QED
  BY <1>5, <1>6, <1>8 DEF Values

\* svn_fs__next_key counts: the next key stands for the next number.
LEMMA NextKeyCounts ==
  ASSUME NEW key \in Key
  PROVE  /\ NextKey(key) \in Key
         /\ KeyValue(key) \in Nat
         /\ KeyValue(NextKey(key)) = KeyValue(key) + 1
<1>1. PICK B, n : B = Base /\ n = Len(key)
  OBVIOUS
<1>2. /\ B \in Nat /\ B >= 2 /\ key \in Seq(0..(B - 1)) /\ key \in Seq(Nat)
      /\ n \in Nat /\ n >= 1 /\ \A j \in 1..n : key[j] \in 0..(B - 1)
  <2>1. B \in Nat /\ B >= 2
    BY <1>1, RepsAssumption
  <2>2. key \in Seq(0..(B - 1)) /\ key # <<>>
    BY <1>1 DEF Key
  <2>3. n \in Nat /\ n >= 1 /\ \A j \in 1..n : key[j] \in 0..(B - 1)
    <3>1. Len(key) \in Nat /\ \A j \in 1..Len(key) : key[j] \in 0..(B - 1)
      <4>1. PICK D : D = 0..(B - 1)
        OBVIOUS
      <4>2. key \in Seq(D)
        BY <2>2, <4>1
      <4>3. Len(key) \in Nat /\ \A j \in 1..Len(key) : key[j] \in D
        BY <4>2
      <4> QED
        BY <4>1, <4>3
    <3>2. Len(key) # 0
      BY <2>2, EmptySeq
    <3> QED
      BY <1>1, <3>1, <3>2
  <2>4. \A j \in 1..n : key[j] \in Nat
    BY <2>1, <2>3
  <2>5. key \in Seq(Nat)
    BY <1>1, <2>2, <2>3, <2>4
  <2> QED
    BY <2>1, <2>2, <2>3, <2>5
<1>3. PICK T : T = {0} \cup {j \in 1..n : key[j] # B - 1}
  OBVIOUS
<1>4. PICK i : i = Max(T)
  OBVIOUS
<1>5. i \in T /\ \A j \in T : j <= i
  <2>1. \A j \in T : j \in 0..n
    BY <1>2, <1>3
  <2>2. T # {}
    BY <1>3
  <2> QED
    BY <1>2, <1>4, <2>1, <2>2, GreatestNumber
<1>6. /\ i \in 0..n
      /\ i # 0 => key[i] # B - 1
      /\ \A j \in (i + 1)..n : key[j] = B - 1
  <2>1. i \in 0..n /\ (i # 0 => key[i] # B - 1)
    BY <1>2, <1>3, <1>5
  <2>2. ASSUME NEW j \in (i + 1)..n, key[j] # B - 1
        PROVE  FALSE
    <3>1. j \in T /\ ~ (j <= i)
      BY <1>2, <1>3, <2>1, <2>2
    <3> QED
      BY <1>5, <3>1
  <2> QED
    BY <2>1, <2>2
<1>7. PICK digits : digits = [j \in 1..n |->
                                IF j < i THEN key[j] ELSE IF j = i THEN key[j] + 1 ELSE 0]
  OBVIOUS
<1>8. NextKey(key) = IF i = 0 THEN <<1>> \o digits ELSE digits
  BY <1>1, <1>3, <1>4, <1>7 DEF NextKey
<1>9. digits \in Seq(0..(B - 1)) /\ Len(digits) = n
  <2>1. ASSUME NEW j \in 1..n
        PROVE  digits[j] \in 0..(B - 1)
    <3>1. key[j] \in 0..(B - 1)
      BY <1>2
    <3>2. j = i => key[j] # B - 1
      BY <1>6
    <3> QED
      BY <1>2, <1>7, <3>1, <3>2
  <2>2. digits \in [1..n -> 0..(B - 1)]
    BY <1>7, <2>1
  <2> QED
    BY <1>2, <2>2
<1>10. PICK v : Values(v, key) /\ KeyValue(key) = v[n]
  BY <1>1, <1>2, KeyValues
<1>11. /\ v[0] = 0 /\ \A j \in 0..n : v[j] \in Nat
       /\ \A j \in 1..n : v[j] = B * v[j - 1] + key[j]
  BY <1>1, <1>10 DEF Values
<1>12. KeyValue(key) \in Nat
  BY <1>2, <1>10, <1>11
<1>13. \A j \in 1..n : j - 1 \in 0..n /\ v[j - 1] \in Nat
  <2>1. \A j \in 1..n : j - 1 \in 0..n
    BY <1>2
  <2> QED
    BY <1>11, <2>1
<1>14. ASSUME NEW x \in Nat
       PROVE  B * (x + 1) = B * x + B /\ B * x \in Nat
  BY <1>2
<1>15. CASE i # 0
  <2>1. digits \in Key /\ digits \in Seq(Nat)
    <3>1. digits # <<>>
      BY <1>2, <1>9
    <3>2. \A j \in 1..n : digits[j] \in Nat
      BY <1>2, <1>9
    <3>3. digits \in Seq(Nat)
      BY <1>2, <1>9, <3>2
    <3> QED
      BY <1>1, <1>9, <3>1, <3>3 DEF Key
  <2>2. PICK w : w = [j \in 0..n |-> IF j < i THEN v[j] ELSE v[j] + 1]
    OBVIOUS
  <2>3. ASSUME NEW j \in 1..n
        PROVE  w[j] = B * w[j - 1] + digits[j]
    <3>0. /\ j - 1 \in 0..n /\ v[j - 1] \in Nat /\ v[j] = B * v[j - 1] + key[j]
          /\ key[j] \in Nat /\ j \in 0..n /\ i \in Int
      BY <1>2, <1>6, <1>11, <1>13
    <3>1. CASE j < i
      <4>1. w[j] = v[j] /\ w[j - 1] = v[j - 1] /\ digits[j] = key[j]
        BY <1>7, <2>2, <3>0, <3>1
      <4> QED
        BY <3>0, <4>1
    <3>2. CASE j = i
      <4>1. w[j] = v[j] + 1 /\ w[j - 1] = v[j - 1] /\ digits[j] = key[j] + 1
        BY <1>7, <2>2, <3>0, <3>2
      <4>2. B * v[j - 1] \in Nat
        BY <1>14, <3>0
      <4> QED
        BY <3>0, <4>1, <4>2
    <3>3. CASE j > i
      <4>1. w[j] = v[j] + 1 /\ w[j - 1] = v[j - 1] + 1 /\ digits[j] = 0
        BY <1>7, <2>2, <3>0, <3>3
      <4>2. key[j] = B - 1
        <5>1. j \in (i + 1)..n
          BY <1>6, <3>3
        <5> QED
          BY <1>6, <5>1
      <4>3. B * (v[j - 1] + 1) = B * v[j - 1] + B /\ B * v[j - 1] \in Nat
        BY <1>14, <3>0
      <4>4. v[j] + 1 = B * v[j - 1] + B
        <5>1. PICK x : x = B * v[j - 1]
          OBVIOUS
        <5>2. x \in Nat /\ v[j] = x + (B - 1)
          BY <3>0, <4>2, <4>3, <5>1
        <5>3. v[j] + 1 = x + B
          BY <1>2, <5>2
        <5> QED
          BY <5>1, <5>3
      <4>5. B * w[j - 1] + digits[j] = B * v[j - 1] + B
        BY <1>2, <4>1, <4>3
      <4> QED
        BY <4>1, <4>4, <4>5
    <3>4. j < i \/ j = i \/ j > i
      BY <3>0
    <3> QED
      BY <3>1, <3>2, <3>3, <3>4
  <2>4. Values(w, digits)
    <3>1. w \in [0..n -> Nat] /\ w[0] = 0
      <4>1. 0 \in 0..n /\ 0 < i
        BY <1>2, <1>6, <1>15
      <4>2. \A j \in 0..n : v[j] \in Nat /\ v[j] + 1 \in Nat
        BY <1>11
      <4> QED
        BY <1>11, <2>2, <4>1, <4>2
    <3> QED
      BY <1>1, <1>9, <2>3, <3>1 DEF Values
  <2>5. PICK u : Values(u, digits) /\ KeyValue(digits) = u[Len(digits)]
    BY <2>1, KeyValues
  <2>6. u[Len(digits)] = w[Len(digits)]
    BY <2>1, <2>4, <2>5, ValuesUnique
  <2>7. w[n] = v[n] + 1
    BY <1>2, <1>6, <2>2
  <2> QED
    BY <1>8, <1>9, <1>10, <1>12, <1>15, <2>1, <2>5, <2>6, <2>7
<1>16. CASE i = 0
  <2>0. PICK nk : nk = <<1>> \o digits
    OBVIOUS
  <2>1. /\ nk \in Seq(0..(B - 1)) /\ Len(nk) = n + 1 /\ nk[1] = 1
        /\ \A j \in 1..n : nk[1 + j] = digits[j]
    <3>1. <<1>> \in Seq(0..(B - 1)) /\ Len(<<1>>) = 1 /\ <<1>>[1] = 1 /\ 1 \in 1..1
      BY <1>2
    <3>2. /\ <<1>> \o digits \in Seq(0..(B - 1))
          /\ Len(<<1>> \o digits) = Len(<<1>>) + Len(digits)
          /\ \A j \in 1..Len(<<1>>) : (<<1>> \o digits)[j] = <<1>>[j]
          /\ \A j \in 1..Len(digits) : (<<1>> \o digits)[Len(<<1>>) + j] = digits[j]
      BY <1>9, <3>1, SecondOf
    <3> QED
      BY <1>2, <1>9, <2>0, <3>1, <3>2
  <2>2. nk \in Key /\ nk \in Seq(Nat)
    <3>1. nk # <<>>
      BY <1>2, <2>1
    <3>2. \A j \in 1..(n + 1) : nk[j] \in Nat
      BY <1>2, <2>1
    <3>3. nk \in Seq(Nat)
      BY <1>2, <2>1, <3>2
    <3> QED
      BY <1>1, <2>1, <3>1, <3>3 DEF Key
  <2>3. \A j \in 1..n : digits[j] = 0 /\ key[j] = B - 1
    BY <1>2, <1>6, <1>7, <1>16
  <2>4. PICK w : w = [j \in 0..(n + 1) |-> IF j = 0 THEN 0 ELSE v[j - 1] + 1]
    OBVIOUS
  <2>5. ASSUME NEW j \in 1..(n + 1)
        PROVE  w[j] = B * w[j - 1] + nk[j]
    <3>1. CASE j = 1
      BY <1>2, <1>11, <2>1, <2>4, <3>1
    <3>2. CASE j # 1
      <4>1. PICK l : l = j - 1
        OBVIOUS
      <4>2. /\ l \in 1..n /\ j = l + 1 /\ j = 1 + l /\ j - 1 = l
            /\ l \in 0..(n + 1) /\ l # 0 /\ j \in 0..(n + 1)
        BY <1>2, <3>2, <4>1
      <4>3. w[j] = v[l] + 1 /\ w[l] = v[l - 1] + 1 /\ nk[j] = 0
        BY <2>1, <2>3, <2>4, <4>2
      <4>4. v[l] = B * v[l - 1] + (B - 1) /\ v[l - 1] \in Nat
        BY <1>11, <1>13, <2>3, <4>2
      <4>5. B * (v[l - 1] + 1) = B * v[l - 1] + B /\ B * v[l - 1] \in Nat
        BY <1>14, <4>4
      <4>6. v[l] + 1 = B * v[l - 1] + B
        <5>1. PICK x : x = B * v[l - 1]
          OBVIOUS
        <5>2. x \in Nat /\ v[l] = x + (B - 1)
          BY <4>4, <4>5, <5>1
        <5>3. v[l] + 1 = x + B
          BY <1>2, <5>2
        <5> QED
          BY <5>1, <5>3
      <4>7. B * w[l] + nk[j] = B * v[l - 1] + B
        BY <1>2, <4>3, <4>5
      <4> QED
        BY <4>2, <4>3, <4>6, <4>7
    <3> QED
      BY <3>1, <3>2
  <2>6. Values(w, nk)
    <3>1. \A j \in 0..(n + 1) : j # 0 => v[j - 1] \in Nat
      <4>1. \A j \in 0..(n + 1) : j # 0 => j - 1 \in 0..n
        BY <1>2
      <4> QED
        BY <1>11, <4>1
    <3>2. w \in [0..(n + 1) -> Nat] /\ w[0] = 0
      BY <1>2, <2>4, <3>1
    <3> QED
      BY <1>1, <2>1, <2>5, <3>2 DEF Values
  <2>7. PICK u : Values(u, nk) /\ KeyValue(nk) = u[Len(nk)]
    BY <2>2, KeyValues
  <2>8. u[Len(nk)] = w[Len(nk)]
    BY <2>2, <2>6, <2>7, ValuesUnique
  <2>9. w[n + 1] = v[n] + 1
    BY <1>2, <2>4
  <2> QED
    BY <1>8, <1>10, <1>12, <1>16, <2>0, <2>1, <2>2, <2>7, <2>8, <2>9
<1> QED
  BY <1>15, <1>16

-----------------------------------------------------------------------------
(* Reading representations *)

\* A key is a sequence of numbers.
LEMMA KeyIsSeq ==
  ASSUME NEW key \in Key
  PROVE  key \in Seq(Nat)
<1>1. PICK D : D = 0..(Base - 1)
  OBVIOUS
<1>2. key \in Seq(D) /\ \A d \in D : d \in Nat
  BY <1>1, RepsAssumption DEF Key
<1> QED
  BY <1>2

\* The part of a text that a read of a representation is to give.
TextPart(text1, offset, len) ==
  SubSeq(text1, offset + 1, Min({offset + len, Len(text1)}))

\* window_handler: playing the instructions that were made for it gives the
\* part asked for of the text.
LEMMA PlayWindowExact ==
  ASSUME NEW source \in Text, NEW target \in Text, NEW ops,
         IsDelta(ops, source, target), NEW offset \in Nat, NEW len \in Nat
  PROVE  PlayWindow(ops, offset, len, source) = TextPart(target, offset, len)
<1>1. PICK L : L = Len(ops)
  OBVIOUS
<1>2. L \in Nat /\ L = Len(target) /\ ops \in Seq(Int)
  BY <1>1 DEF IsDelta
<1>3. PICK n : n = Min({offset + len + 1, L})
  OBVIOUS
<1>4. PICK z : z = Min({offset + len, L})
  OBVIOUS
<1>5. /\ n \in Nat /\ n <= L /\ z \in Nat /\ z <= n /\ z <= L
      /\ z = IF offset + len <= n THEN offset + len ELSE n
  BY <1>2, <1>3, <1>4, MinOfTwo, SMTT(30)
<1>6. PICK played : played = SubSeq(ops, 1, n)
  OBVIOUS
<1>7. /\ played \in Seq(Int) /\ DOMAIN played = 1..n
      /\ \A i \in 1..n : played[i] = ops[i] /\ i \in 1..L
  <2>1. /\ SubSeq(ops, 0 + 1, 0 + n) \in Seq(Int)
        /\ Len(SubSeq(ops, 0 + 1, 0 + n)) = n
        /\ \A i \in 1..n : SubSeq(ops, 0 + 1, 0 + n)[i] = ops[0 + i]
    <3>1. 0 \in Nat /\ 0 + n <= Len(ops)
      BY <1>1, <1>5
    <3> QED
      BY <1>2, <1>5, <3>1, PartOf
  <2>2. 0 + 1 = 1 /\ 0 + n = n /\ \A i \in 1..n : 0 + i = i
    BY <1>5
  <2>3. played \in Seq(Int) /\ Len(played) = n /\ \A i \in 1..n : played[i] = ops[i]
    BY <1>6, <2>1, <2>2
  <2>4. \A i \in 1..n : i \in 1..L
    BY <1>2, <1>5
  <2> QED
    BY <2>3, <2>4
<1>8. PICK sbuf : sbuf = IF \E i \in DOMAIN played : played[i] < 0 THEN source ELSE <<>>
  OBVIOUS
<1>9. source # ReadError /\ sbuf # ReadError
  <2>1. \A i \in 1..Len(source) : source[i] \in Nat
    BY DEF Text
  <2>2. Len(ReadError) = 1 /\ ReadError[1] = -1
    BY DEF ReadError
  <2>3. source # ReadError
    BY <2>1, <2>2
  <2> QED
    BY <1>8, <2>2, <2>3
<1>10. PICK tbuf : tbuf = [i \in DOMAIN played |->
                             IF played[i] > 0 THEN played[i]
                             ELSE IF -played[i] <= Len(sbuf) THEN sbuf[-played[i]]
                             ELSE Uninitialized]
  OBVIOUS
<1>11. PlayWindow(ops, offset, len, source) =
         SubSeq(tbuf, offset + 1, Min({offset + len, Len(tbuf)}))
  BY <1>1, <1>3, <1>6, <1>8, <1>9, <1>10 DEF PlayWindow
<1>12. ASSUME NEW i \in 1..n
       PROVE  tbuf[i] = target[i] /\ target[i] \in Nat \ {0}
  <2>1. i \in 1..Len(ops) /\ i \in 1..Len(target) /\ played[i] = ops[i] /\ ops[i] \in Int
    <3>1. i \in 1..Len(ops) /\ i \in 1..Len(target) /\ played[i] = ops[i]
      BY <1>1, <1>2, <1>7
    <3>2. ops[i] \in Int
      BY <1>2, <3>1
    <3> QED
      BY <3>1, <3>2
  <2>2. target[i] \in Nat \ {0}
    BY <2>1 DEF Text
  <2>3. \/ ops[i] > 0 /\ ops[i] = target[i]
        \/ ops[i] < 0 /\ -ops[i] <= Len(source) /\ source[-ops[i]] = target[i]
    BY <2>1 DEF IsDelta
  <2>4. CASE ops[i] > 0 /\ ops[i] = target[i]
    BY <1>7, <1>10, <2>1, <2>2, <2>4
  <2>5. CASE ops[i] < 0 /\ -ops[i] <= Len(source) /\ source[-ops[i]] = target[i]
    <3>1. sbuf = source
      BY <1>7, <1>8, <2>1, <2>5
    <3>2. ~ (ops[i] > 0)
      BY <2>1, <2>5
    <3> QED
      BY <1>7, <1>10, <2>1, <2>2, <2>5, <3>1, <3>2
  <2> QED
    BY <2>3, <2>4, <2>5
<1>13. tbuf \in Text /\ Len(tbuf) = n
  <2>1. DOMAIN tbuf = 1..n /\ tbuf = [i \in 1..n |-> tbuf[i]]
    BY <1>7, <1>10
  <2>2. tbuf \in [1..n -> Nat \ {0}]
    BY <1>12, <2>1
  <2> QED
    BY <1>5, <2>2 DEF Text
<1>14. Min({offset + len, Len(tbuf)}) = z
  BY <1>5, <1>13, MinOfTwo
<1>15. SubSeq(tbuf, offset + 1, z) = SubSeq(target, offset + 1, z)
  <2>1. CASE z <= offset
    <3>1. z \in Int
      BY <1>5
    <3> QED
      BY <1>13, <2>1, <3>1, EmptyPart DEF Text
  <2>2. CASE z > offset
    <3>1. PICK k : k = z - offset
      OBVIOUS
    <3>2. /\ k \in Nat /\ offset + k = z /\ offset + k <= Len(tbuf)
          /\ offset + k <= Len(target)
      BY <1>2, <1>5, <1>13, <2>2, <3>1
    <3>3. PICK x, y : x = SubSeq(tbuf, offset + 1, offset + k)
                      /\ y = SubSeq(target, offset + 1, offset + k)
      OBVIOUS
    <3>4. x \in Text /\ Len(x) = k /\ \A i \in 1..k : x[i] = tbuf[offset + i]
      BY <1>13, <3>2, <3>3, PartOf DEF Text
    <3>5. y \in Text /\ Len(y) = k /\ \A i \in 1..k : y[i] = target[offset + i]
      BY <3>2, <3>3, PartOf DEF Text
    <3>6. \A i \in 1..k : offset + i \in 1..n
      BY <1>5, <3>2
    <3>7. \A i \in 1..k : x[i] = y[i]
      BY <1>12, <3>4, <3>5, <3>6
    <3>8. x = y
      BY <3>4, <3>5, <3>7, SeqEqual DEF Text
    <3> QED
      BY <3>2, <3>3, <3>8
  <2>3. z <= offset \/ z > offset
    BY <1>5
  <2> QED
    BY <2>1, <2>2, <2>3
<1>16. TextPart(target, offset, len) = SubSeq(target, offset + 1, z)
  BY <1>2, <1>4 DEF TextPart
<1> QED
  BY <1>11, <1>14, <1>15, <1>16

\* What a read gives when reading its base gives g.
ReadStep(s, g, k, offset, len) ==
  LET rep == s.reps[k]
      ops == FlattenSeq(s.strings[rep.string])
  IN  IF k \notin DOMAIN s.reps THEN ReadError
      ELSE IF rep.kind = "fulltext"
           THEN StringRead(s.strings[rep.string], offset, len)
      ELSE IF Len(ops) - 1 < offset THEN <<>>
      ELSE PlayWindow(ops, offset, len, g[<<rep.base, 0, rep.sview>>])

\* The facts about a representation of sound tables, and the string it has.
LEMMA RepFacts ==
  ASSUME NEW s, NEW C, Sound(s, C), NEW k \in DOMAIN s.reps
  PROVE  /\ k \in Key /\ C[k] \in Text
         /\ s.reps[k] \in RepType
         /\ s.reps[k].string \in DOMAIN s.strings /\ s.reps[k].string \in Key
         /\ s.strings[s.reps[k].string] \in Seq(Seq(Int))
         /\ StandsFor(s, C, k)
<1>1. TablesType(s) /\ Owned(s) /\ C \in [DOMAIN s.reps -> Text] /\ StandsFor(s, C, k)
  BY DEF Sound
<1>2. k \in Key /\ s.reps[k] \in RepType /\ C[k] \in Text
  BY <1>1 DEF TablesType
<1>3. s.reps[k].string \in DOMAIN s.strings
  BY <1>1 DEF Owned
<1>4. s.strings[s.reps[k].string] \in Seq(Seq(Int))
  BY <1>1, <1>3 DEF TablesType
<1>5. s.reps[k].string \in Key
  BY <1>2 DEF RepType
<1> QED
  BY <1>1, <1>2, <1>3, <1>4, <1>5

\* One step of rep_read_range is right if the base is read right.
LEMMA ReadStepExact ==
  ASSUME NEW s, NEW C, Sound(s, C), NEW k \in DOMAIN s.reps, NEW g,
         NEW offset \in Nat, NEW len \in Nat,
         s.reps[k].kind = "delta" =>
           g[<<s.reps[k].base, 0, s.reps[k].sview>>]
             = TextPart(C[s.reps[k].base], 0, s.reps[k].sview)
  PROVE  ReadStep(s, g, k, offset, len) = TextPart(C[k], offset, len)
<1>1. PICK rep, records, ops : /\ rep = s.reps[k] /\ records = s.strings[rep.string]
                               /\ ops = FlattenSeq(records)
  OBVIOUS
<1>2. /\ C[k] \in Text /\ rep \in RepType /\ records \in Seq(Seq(Int))
      /\ StandsFor(s, C, k)
  BY <1>1, RepFacts
<1>3. ReadStep(s, g, k, offset, len) =
        IF rep.kind = "fulltext" THEN StringRead(records, offset, len)
        ELSE IF Len(ops) - 1 < offset THEN <<>>
        ELSE PlayWindow(ops, offset, len, g[<<rep.base, 0, rep.sview>>])
  BY <1>1 DEF ReadStep
<1>4. CASE rep.kind = "fulltext"
  <2>1. ops = C[k]
    BY <1>1, <1>2, <1>4 DEF StandsFor
  <2>2. StringRead(records, offset, len) =
          SubSeq(FlattenSeq(records), offset + 1,
                 Min({offset + len, Len(FlattenSeq(records))}))
    BY <1>2, StringReadPart
  <2> QED
    BY <1>1, <1>3, <1>4, <2>1, <2>2 DEF TextPart
<1>5. CASE rep.kind # "fulltext"
  <2>1. /\ rep.kind = "delta" /\ rep.base \in DOMAIN s.reps
        /\ rep.sview = Len(C[rep.base]) /\ IsDelta(ops, C[rep.base], C[k])
    BY <1>1, <1>2, <1>5 DEF StandsFor
  <2>2. PICK source : source = C[rep.base]
    OBVIOUS
  <2>3. source \in Text /\ Len(source) \in Nat
    <3>1. source \in Text
      BY <2>1, <2>2, RepFacts
    <3> QED
      BY <3>1 DEF Text
  <2>4. TextPart(source, 0, rep.sview) = source
    <3>1. 0 + Len(source) = Len(source) /\ 0 + 1 = 1
      BY <2>3
    <3>2. Min({0 + Len(source), Len(source)}) = Len(source)
      BY <2>3, <3>1, MinOfTwo
    <3>3. SubSeq(source, 1, Len(source)) = source
      BY <2>3 DEF Text
    <3> QED
      BY <2>1, <2>2, <3>1, <3>2, <3>3 DEF TextPart
  <2>5. g[<<rep.base, 0, rep.sview>>] = source
    BY <1>1, <2>1, <2>2, <2>4
  <2>6. PlayWindow(ops, offset, len, source) = TextPart(C[k], offset, len)
    BY <1>2, <2>1, <2>2, <2>3, PlayWindowExact
  <2>7. Len(ops) = Len(C[k]) /\ Len(C[k]) \in Nat
    BY <1>2, <2>1 DEF IsDelta, Text
  <2>8. CASE Len(ops) - 1 < offset
    <3>1. Min({offset + len, Len(C[k])}) <= offset
          /\ Min({offset + len, Len(C[k])}) \in Int
      BY <2>7, <2>8, MinOfTwo
    <3>2. TextPart(C[k], offset, len) = <<>>
      BY <1>2, <3>1, EmptyPart DEF TextPart, Text
    <3> QED
      BY <1>3, <1>5, <2>8, <3>2
  <2> QED
    BY <1>3, <1>5, <2>5, <2>6, <2>8
<1> QED
  BY <1>4, <1>5

\* rep_read_range gives the part asked for of the text that the
\* representation stands for, through however many deltas.
LEMMA ReadRangeExact ==
  ASSUME NEW s, NEW C, Sound(s, C), NEW key \in DOMAIN s.reps,
         NEW off \in Nat, NEW n \in Nat
  PROVE  RepReadRange(s, key, off, n) = TextPart(C[key], off, n)
<1> DEFINE D == Seq(Nat) \X Nat \X Nat
           P(g) == g = [q \in D |-> ReadStep(s, g, q[1], q[2], q[3])]
<1>0. PICK c : c = [q \in D |-> IF q[1] \in DOMAIN s.reps
                               THEN TextPart(C[q[1]], q[2], q[3]) ELSE ReadError]
  OBVIOUS
<1>1. ASSUME NEW k \in DOMAIN s.reps, s.reps[k].kind = "delta"
      PROVE  /\ s.reps[k].base \in DOMAIN s.reps /\ s.reps[k].sview \in Nat
             /\ s.reps[k].base \in Seq(Nat)
             /\ KeyValue(k) < KeyValue(s.reps[k].base)
  <2>1. StandsFor(s, C, k) /\ s.reps[k] \in RepType
    BY RepFacts
  <2> QED
    BY <1>1, <2>1 DEF StandsFor, RepType
<1>2. \A k \in DOMAIN s.reps : k \in Seq(Nat)
  BY RepFacts, KeyIsSeq
<1>3. P(c)
  <2>1. ASSUME NEW k \in DOMAIN s.reps, s.reps[k].kind = "delta"
        PROVE  c[<<s.reps[k].base, 0, s.reps[k].sview>>]
                 = TextPart(C[s.reps[k].base], 0, s.reps[k].sview)
    <3>1. PICK b, v : b = s.reps[k].base /\ v = s.reps[k].sview
      OBVIOUS
    <3>2. b \in DOMAIN s.reps /\ <<b, 0, v>> \in D
      BY <1>1, <2>1, <3>1
    <3>3. c[<<b, 0, v>>] = TextPart(C[b], 0, v)
      BY <1>0, <3>2
    <3> QED
      BY <3>1, <3>3
  <2>2. ASSUME NEW k \in DOMAIN s.reps, NEW o \in Nat, NEW l \in Nat
        PROVE  ReadStep(s, c, k, o, l) = TextPart(C[k], o, l)
    <3>1. s.reps[k].kind = "delta" =>
            c[<<s.reps[k].base, 0, s.reps[k].sview>>]
              = TextPart(C[s.reps[k].base], 0, s.reps[k].sview)
      BY <2>1
    <3> QED
      BY <3>1, ReadStepExact
  <2>3. ASSUME NEW q \in D
        PROVE  c[q] = ReadStep(s, c, q[1], q[2], q[3])
    <3>1. q[1] \in Seq(Nat) /\ q[2] \in Nat /\ q[3] \in Nat
      OBVIOUS
    <3>2. CASE q[1] \notin DOMAIN s.reps
      BY <1>0, <3>2 DEF ReadStep
    <3>3. CASE q[1] \in DOMAIN s.reps
      <4>1. ReadStep(s, c, q[1], q[2], q[3]) = TextPart(C[q[1]], q[2], q[3])
        BY <2>2, <3>1, <3>3
      <4> QED
        BY <1>0, <3>3, <4>1
    <3> QED
      BY <3>2, <3>3
  <2>4. c = [q \in D |-> c[q]]
    BY <1>0
  <2> QED
    BY <2>3, <2>4
<1>4. PICK e : e = CHOOSE g : P(g)
  OBVIOUS
<1>5. P(e)
  <2> HIDE DEF P
  <2> QED
    BY <1>3, <1>4, Zenon
<1>6. ASSUME NEW k \in DOMAIN s.reps, NEW o \in Nat, NEW l \in Nat
      PROVE  e[<<k, o, l>>] = ReadStep(s, e, k, o, l)
  <2>1. <<k, o, l>> \in D
    BY <1>2
  <2>2. e[<<k, o, l>>] = ReadStep(s, e, <<k, o, l>>[1], <<k, o, l>>[2], <<k, o, l>>[3])
    <3>1. \A q \in D : e[q] = ReadStep(s, e, q[1], q[2], q[3])
      BY <1>5
    <3> QED
      BY <2>1, <3>1
  <2> QED
    BY <2>2
<1>7. ASSUME NEW k \in DOMAIN s.reps
      PROVE  KeyValue(s.nextRep) - KeyValue(k) \in Nat
  <2>1. TablesType(s) /\ Below(s)
    BY DEF Sound
  <2>2. KeyValue(k) < KeyValue(s.nextRep)
    BY <2>1 DEF Below
  <2>3. KeyValue(k) \in Nat /\ KeyValue(s.nextRep) \in Nat
    BY <2>1, NextKeyCounts DEF TablesType
  <2> QED
    BY <2>2, <2>3
<1> DEFINE Bad(k) == \E o \in Nat, l \in Nat : e[<<k, o, l>>] # TextPart(C[k], o, l)
           T == {KeyValue(s.nextRep) - KeyValue(k) : k \in {j \in DOMAIN s.reps : Bad(j)}}
<1>8. \A k \in DOMAIN s.reps : ~ Bad(k)
  <2> SUFFICES ASSUME NEW k0 \in DOMAIN s.reps, Bad(k0)
               PROVE  FALSE
    OBVIOUS
  <2>1. T \in SUBSET Nat /\ T # {}
    BY <1>7
  <2>2. PICK d \in T : \A j \in T : d <= j
    <3> HIDE DEF T
    <3> QED
      BY <2>1, LeastNumber
  <2>3. PICK k \in DOMAIN s.reps : Bad(k) /\ d = KeyValue(s.nextRep) - KeyValue(k)
    BY <2>2
  <2>4. PICK o \in Nat, l \in Nat : e[<<k, o, l>>] # TextPart(C[k], o, l)
    BY <2>3
  <2>5. ASSUME s.reps[k].kind = "delta"
        PROVE  e[<<s.reps[k].base, 0, s.reps[k].sview>>]
                 = TextPart(C[s.reps[k].base], 0, s.reps[k].sview)
    <3>1. PICK b, v : b = s.reps[k].base /\ v = s.reps[k].sview
      OBVIOUS
    <3>2. b \in DOMAIN s.reps /\ v \in Nat /\ KeyValue(k) < KeyValue(b)
      BY <1>1, <2>5, <3>1
    <3>3. ~ Bad(b)
      <4> SUFFICES ASSUME Bad(b)
                   PROVE  FALSE
        OBVIOUS
      <4>1. KeyValue(s.nextRep) - KeyValue(b) \in T
        BY <3>2
      <4>2. d <= KeyValue(s.nextRep) - KeyValue(b)
        BY <2>2, <4>1
      <4>3. KeyValue(b) \in Nat /\ KeyValue(k) \in Nat /\ KeyValue(s.nextRep) \in Nat
        <5>1. b \in Key /\ k \in Key /\ s.nextRep \in Key
          BY <3>2, RepFacts DEF Sound, TablesType
        <5> QED
          BY <5>1, NextKeyCounts
      <4> QED
        BY <2>3, <3>2, <4>2, <4>3
    <3>4. e[<<b, 0, v>>] = TextPart(C[b], 0, v)
      BY <3>2, <3>3
    <3> QED
      BY <3>1, <3>4
  <2>6. ReadStep(s, e, k, o, l) = TextPart(C[k], o, l)
    BY <2>5, ReadStepExact
  <2> QED
    BY <1>6, <2>4, <2>6
<1>9. RepReadRange(s, key, off, n) = e[<<key, off, n>>]
  BY <1>4 DEF RepReadRange, ReadStep
<1> QED
  BY <1>8, <1>9

\* A text is all of it.
LEMMA WholeText ==
  ASSUME NEW t \in Text
  PROVE  TextPart(t, 0, Len(t)) = t
<1>1. Len(t) \in Nat
  BY DEF Text
<1>2. 0 + Len(t) = Len(t) /\ 0 + 1 = 1 /\ Min({Len(t), Len(t)}) = Len(t)
  BY <1>1, MinOfTwo
<1>3. SubSeq(t, 1, Len(t)) = t
  BY DEF Text
<1> QED
  BY <1>2, <1>3 DEF TextPart

\* The string of a representation is as long as its text.
LEMMA SizeExact ==
  ASSUME NEW s, NEW C, Sound(s, C), NEW key \in DOMAIN s.reps
  PROVE  RepContentsSize(s, key) = Len(C[key])
<1>1. StandsFor(s, C, key)
  BY RepFacts
<1> QED
  BY <1>1 DEF StandsFor, IsDelta, RepContentsSize

\* svn_fs__rep_contents gives the text that the representation stands for.
LEMMA ContentsExact ==
  ASSUME NEW s, NEW C, Sound(s, C), NEW key \in DOMAIN s.reps
  PROVE  RepContents(s, key) = C[key]
<1>1. key # NoKey /\ C[key] \in Text
  BY RepFacts DEF Key, NoKey
<1>2. RepContentsSize(s, key) = Len(C[key]) /\ Len(C[key]) \in Nat
  BY <1>1, SizeExact DEF Text
<1>3. RepReadRange(s, key, 0, Len(C[key])) = TextPart(C[key], 0, Len(C[key]))
  BY <1>2, ReadRangeExact
<1> QED
  BY <1>1, <1>2, <1>3, WholeText DEF RepContents

-----------------------------------------------------------------------------
(* What the operations on the tables do to the texts *)

\* The next keys are not in use.
LEMMA NextKeysFree ==
  ASSUME NEW s, NEW C, Sound(s, C)
  PROVE  /\ s.nextString \in Key /\ s.nextString \notin DOMAIN s.strings
         /\ s.nextRep \in Key /\ s.nextRep \notin DOMAIN s.reps
         /\ \A k \in DOMAIN s.strings :
              KeyValue(k) < KeyValue(NextKey(s.nextString))
         /\ KeyValue(s.nextString) < KeyValue(NextKey(s.nextString))
         /\ \A k \in DOMAIN s.reps :
              KeyValue(k) < KeyValue(NextKey(s.nextRep))
         /\ KeyValue(s.nextRep) < KeyValue(NextKey(s.nextRep))
         /\ NextKey(s.nextString) \in Key /\ NextKey(s.nextRep) \in Key
<1>1. TablesType(s) /\ Below(s)
  BY DEF Sound
<1>2. s.nextString \in Key /\ s.nextRep \in Key
  BY <1>1 DEF TablesType
<1>3. PICK a, b : a = KeyValue(s.nextString) /\ b = KeyValue(s.nextRep)
  OBVIOUS
<1>4. /\ a \in Nat /\ KeyValue(NextKey(s.nextString)) = a + 1
      /\ b \in Nat /\ KeyValue(NextKey(s.nextRep)) = b + 1
      /\ NextKey(s.nextString) \in Key /\ NextKey(s.nextRep) \in Key
  BY <1>2, <1>3, NextKeyCounts
<1>5. \A k \in DOMAIN s.strings : KeyValue(k) \in Nat /\ KeyValue(k) < a
  BY <1>1, <1>3, NextKeyCounts DEF Below, TablesType
<1>6. \A k \in DOMAIN s.reps : KeyValue(k) \in Nat /\ KeyValue(k) < b
  BY <1>1, <1>3, NextKeyCounts DEF Below, TablesType
<1>7. s.nextString \notin DOMAIN s.strings /\ s.nextRep \notin DOMAIN s.reps
  BY <1>3, <1>4, <1>5, <1>6
<1> QED
  BY <1>2, <1>3, <1>4, <1>5, <1>6, <1>7

\* Immutable representations are still there, and stand for the same texts.
Kept(s, C, u, D) ==
  \A b \in DOMAIN s.reps :
    ~s.reps[b].mutable => b \in DOMAIN u.reps /\ ~u.reps[b].mutable /\ D[b] = C[b]

\* A representation whose record, string and text are as they were.
LEMMA StillStandsFor ==
  ASSUME NEW s, NEW C, Sound(s, C), NEW u, NEW D, Kept(s, C, u, D),
         NEW k \in DOMAIN s.reps, u.reps[k] = s.reps[k], D[k] = C[k],
         u.strings[s.reps[k].string] = s.strings[s.reps[k].string]
  PROVE  StandsFor(u, D, k)
<1>1. StandsFor(s, C, k)
  BY RepFacts
<1>2. CASE s.reps[k].kind = "fulltext"
  BY <1>1, <1>2 DEF StandsFor
<1>3. CASE s.reps[k].kind # "fulltext"
  <2>1. PICK b : b = s.reps[k].base
    OBVIOUS
  <2>2. b \in DOMAIN s.reps /\ ~s.reps[b].mutable
    BY <1>1, <1>3, <2>1 DEF StandsFor
  <2>3. b \in DOMAIN u.reps /\ ~u.reps[b].mutable /\ D[b] = C[b]
    BY <2>2 DEF Kept
  <2> QED
    BY <1>1, <1>3, <2>1, <2>3 DEF StandsFor
<1> QED
  BY <1>2, <1>3

\* The fields of a full text.
LEMMA FulltextFields ==
  ASSUME NEW string \in Key, NEW m \in BOOLEAN
  PROVE  /\ Fulltext(string, m) \in RepType /\ Fulltext(string, m).string = string
         /\ Fulltext(string, m).kind = "fulltext" /\ Fulltext(string, m).mutable = m
<1>1. <<>> \in Seq(Nat)
  OBVIOUS
<1> QED
  BY <1>1 DEF Fulltext, RepType, NoKey

\* The tables u have a mutable representation k with the text t, made from
\* the tables s: it is the mutable one that KEY names, or a new one.
\* The others are as they were.
Writable(s, C, u, D, key, k, t) ==
  /\ Sound(u, D) /\ k \in DOMAIN u.reps /\ u.reps[k].mutable /\ D[k] = t
  /\ DOMAIN u.reps = DOMAIN s.reps \cup {k}
  /\ \A x \in DOMAIN s.reps : x # k => u.reps[x] = s.reps[x] /\ D[x] = C[x]
  /\ \A x \in DOMAIN s.reps : u.reps[x].mutable = s.reps[x].mutable
  /\ \/ k = key /\ key \in DOMAIN s.reps /\ s.reps[key].mutable
     \/ /\ k \notin DOMAIN s.reps /\ \A x \in DOMAIN s.reps : KeyBefore(x, k)
        /\ key = NoKey \/ ~s.reps[key].mutable

\* A new mutable full text.
AddFulltext(s, records) ==
  WriteNewRep(NewString(s, records), Fulltext(s.nextString, TRUE))

\* It stands for the text its records make up.
LEMMA AddFulltextSound ==
  ASSUME NEW s, NEW C, Sound(s, C),
         NEW records \in Seq(Seq(Int)), records # <<>>, FlattenSeq(records) \in Text,
         NEW u, u = AddFulltext(s, records), NEW D,
         D = Put(C, s.nextRep, FlattenSeq(records)),
         NEW key, key = NoKey \/ ~s.reps[key].mutable
  PROVE  Writable(s, C, u, D, key, s.nextRep, FlattenSeq(records))
<1>1. TablesType(s) /\ Owned(s) /\ Below(s) /\ C \in [DOMAIN s.reps -> Text]
  BY DEF Sound
<1>2. PICK ns, nr, rep : ns = s.nextString /\ nr = s.nextRep /\ rep = Fulltext(ns, TRUE)
  OBVIOUS
<1>3. /\ ns \in Key /\ ns \notin DOMAIN s.strings
      /\ nr \in Key /\ nr \notin DOMAIN s.reps
      /\ \A k \in DOMAIN s.strings : KeyValue(k) < KeyValue(NextKey(ns))
      /\ KeyValue(ns) < KeyValue(NextKey(ns))
      /\ \A k \in DOMAIN s.reps : KeyValue(k) < KeyValue(NextKey(nr))
      /\ KeyValue(nr) < KeyValue(NextKey(nr))
      /\ NextKey(ns) \in Key /\ NextKey(nr) \in Key
  BY <1>2, NextKeysFree
<1>4. u = [strings |-> Put(s.strings, ns, records), reps |-> Put(s.reps, nr, rep),
           nextString |-> NextKey(ns), nextRep |-> NextKey(nr)]
  BY <1>1, <1>2 DEF AddFulltext, WriteNewRep, NewString, TablesType
<1>5. /\ u.strings = Put(s.strings, ns, records) /\ u.reps = Put(s.reps, nr, rep)
      /\ u.nextString = NextKey(ns) /\ u.nextRep = NextKey(nr)
  BY <1>4
<1>6. /\ DOMAIN u.strings = DOMAIN s.strings \cup {ns}
      /\ u.strings[ns] = records
      /\ \A k \in DOMAIN s.strings : u.strings[k] = s.strings[k]
  BY <1>3, <1>5 DEF Put
<1>7. /\ DOMAIN u.reps = DOMAIN s.reps \cup {nr}
      /\ u.reps[nr] = rep
      /\ \A k \in DOMAIN s.reps : u.reps[k] = s.reps[k]
  BY <1>3, <1>5 DEF Put
<1>8. /\ DOMAIN D = DOMAIN s.reps \cup {nr} /\ D[nr] = FlattenSeq(records)
      /\ \A k \in DOMAIN s.reps : D[k] = C[k]
  BY <1>1, <1>2, <1>3 DEF Put
<1>9. rep \in RepType /\ rep.string = ns /\ rep.kind = "fulltext" /\ rep.mutable = TRUE
  BY <1>2, <1>3, FulltextFields
<1>10. FlattenSeq(records) \in Text /\ records \in Seq(Seq(Int)) \ {<<>>}
  OBVIOUS
<1>11. TablesType(u)
  <2>1. DOMAIN u.strings \subseteq Key /\ DOMAIN u.reps \subseteq Key
    BY <1>1, <1>3, <1>6, <1>7 DEF TablesType
  <2>2. u.strings \in [DOMAIN u.strings -> Seq(Seq(Int)) \ {<<>>}]
    <3>1. u.strings = [k \in DOMAIN u.strings |-> u.strings[k]]
      BY <1>5 DEF Put
    <3>2. \A k \in DOMAIN u.strings : u.strings[k] \in Seq(Seq(Int)) \ {<<>>}
      BY <1>1, <1>6, <1>10 DEF TablesType
    <3> QED
      BY <3>1, <3>2
  <2>3. u.reps \in [DOMAIN u.reps -> RepType]
    <3>1. u.reps = [k \in DOMAIN u.reps |-> u.reps[k]]
      BY <1>5 DEF Put
    <3>2. \A k \in DOMAIN u.reps : u.reps[k] \in RepType
      BY <1>1, <1>7, <1>9 DEF TablesType
    <3> QED
      BY <3>1, <3>2
  <2>4. u.nextString \in Key /\ u.nextRep \in Key
    BY <1>3, <1>5
  <2> QED
    BY <1>4, <1>5, <2>1, <2>2, <2>3, <2>4 DEF TablesType
<1>12. Owned(u)
  <2>1. \A k \in DOMAIN s.reps : u.reps[k].string \in DOMAIN s.strings
    BY <1>1, <1>7 DEF Owned
  <2>2. \A k \in DOMAIN u.reps : u.reps[k].string \in DOMAIN u.strings
    BY <1>6, <1>7, <1>9, <2>1
  <2>3. \A k, l \in DOMAIN u.reps : k # l => u.reps[k].string # u.reps[l].string
    BY <1>1, <1>3, <1>7, <1>9, <2>1 DEF Owned
  <2>4. ASSUME NEW str \in DOMAIN u.strings
        PROVE  \/ \E k \in DOMAIN u.reps : u.reps[k].string = str
               \/ u.strings[str] = <<<<>>>>
    <3>1. CASE str = ns
      BY <1>7, <1>9, <3>1
    <3>2. CASE str # ns
      <4>1. str \in DOMAIN s.strings /\ u.strings[str] = s.strings[str]
        BY <1>6, <3>2
      <4>2. CASE s.strings[str] = <<<<>>>>
        BY <4>1, <4>2
      <4>3. CASE \E k \in DOMAIN s.reps : s.reps[k].string = str
        BY <1>7, <4>3
      <4> QED
        BY <1>1, <4>1, <4>2, <4>3 DEF Owned
    <3> QED
      BY <3>1, <3>2
  <2> QED
    BY <2>2, <2>3, <2>4 DEF Owned
<1>13. Below(u)
  BY <1>3, <1>5, <1>6, <1>7 DEF Below
<1>14. D \in [DOMAIN u.reps -> Text]
  <2>1. D = [k \in DOMAIN D |-> D[k]]
    BY DEF Put
  <2>2. \A k \in DOMAIN D : D[k] \in Text
    BY <1>1, <1>8, <1>10
  <2> QED
    BY <1>7, <1>8, <2>1, <2>2
<1>15. Kept(s, C, u, D)
  BY <1>7, <1>8 DEF Kept
<1>16. \A k \in DOMAIN u.reps : StandsFor(u, D, k)
  <2>1. ASSUME NEW k \in DOMAIN s.reps
        PROVE  StandsFor(u, D, k)
    <3>1. s.reps[k].string \in DOMAIN s.strings
      BY RepFacts
    <3>2. u.strings[s.reps[k].string] = s.strings[s.reps[k].string]
      BY <1>6, <3>1
    <3>3. u.reps[k] = s.reps[k] /\ D[k] = C[k]
      BY <1>7, <1>8
    <3> QED
      BY <1>15, <3>2, <3>3, StillStandsFor
  <2>2. StandsFor(u, D, nr)
    BY <1>6, <1>7, <1>8, <1>9 DEF StandsFor
  <2> QED
    BY <1>7, <2>1, <2>2
<1>17. Sound(u, D)
  BY <1>11, <1>12, <1>13, <1>14, <1>16 DEF Sound
<1>18. \A k \in DOMAIN s.reps : KeyBefore(k, nr)
  BY <1>1, <1>2 DEF Below, KeyBefore
<1> QED
  BY <1>2, <1>3, <1>7, <1>8, <1>9, <1>17, <1>18 DEF Writable

\* The tables s with other records in the string of the representation m.
SetRecords(s, m, records) == [s EXCEPT !.strings[s.reps[m].string] = records]

\* The records of a mutable representation's string are replaced.
LEMMA SetRecordsSound ==
  ASSUME NEW s, NEW C, Sound(s, C), NEW m \in DOMAIN s.reps, s.reps[m].mutable,
         NEW records \in Seq(Seq(Int)), records # <<>>, FlattenSeq(records) \in Text,
         NEW u, u = SetRecords(s, m, records),
         NEW D, D = Put(C, m, FlattenSeq(records))
  PROVE  /\ Sound(u, D) /\ u.reps = s.reps
         /\ u.strings[s.reps[m].string] = records
<1>1. TablesType(s) /\ Owned(s) /\ Below(s) /\ C \in [DOMAIN s.reps -> Text]
  BY DEF Sound
<1>2. PICK str : str = s.reps[m].string
  OBVIOUS
<1>3. str \in DOMAIN s.strings /\ s.reps[m].kind = "fulltext"
  BY <1>2, RepFacts DEF StandsFor
<1>4. u = [strings |-> [s.strings EXCEPT ![str] = records], reps |-> s.reps,
           nextString |-> s.nextString, nextRep |-> s.nextRep]
  BY <1>1, <1>2 DEF TablesType, SetRecords
<1>5. /\ u.reps = s.reps /\ u.nextString = s.nextString /\ u.nextRep = s.nextRep
      /\ DOMAIN u.strings = DOMAIN s.strings /\ u.strings[str] = records
      /\ \A k \in DOMAIN s.strings : k # str => u.strings[k] = s.strings[k]
  BY <1>3, <1>4
<1>6. /\ D \in [DOMAIN s.reps -> Text] /\ D[m] = FlattenSeq(records)
      /\ \A k \in DOMAIN s.reps : k # m => D[k] = C[k]
  <2>1. DOMAIN D = DOMAIN s.reps /\ D = [k \in DOMAIN D |-> D[k]]
    BY <1>1 DEF Put
  <2>2. D[m] = FlattenSeq(records) /\ \A k \in DOMAIN s.reps : k # m => D[k] = C[k]
    BY <1>1 DEF Put
  <2>3. \A k \in DOMAIN s.reps : D[k] \in Text
    BY <1>1, <2>2
  <2> QED
    BY <2>1, <2>2, <2>3
<1>7. TablesType(u)
  <2>1. PICK R : R = Seq(Seq(Int)) \ {<<>>}
    OBVIOUS
  <2>2. records \in R /\ s.strings \in [DOMAIN s.strings -> R]
    BY <1>1, <2>1 DEF TablesType
  <2>3. PICK f : f = [s.strings EXCEPT ![str] = records]
    OBVIOUS
  <2>4. f \in [DOMAIN s.strings -> R]
    BY <1>3, <2>2, <2>3
  <2>5. u.strings = f
    BY <1>4, <2>3
  <2>6. u.strings \in [DOMAIN u.strings -> R]
    BY <1>5, <2>4, <2>5
  <2> QED
    BY <1>1, <1>4, <1>5, <2>1, <2>6 DEF TablesType
<1>8. Owned(u)
  BY <1>1, <1>2, <1>5 DEF Owned
<1>9. Below(u)
  BY <1>1, <1>5 DEF Below
<1>10. Kept(s, C, u, D)
  BY <1>5, <1>6 DEF Kept
<1>11. \A k \in DOMAIN s.reps : StandsFor(u, D, k)
  <2>1. ASSUME NEW k \in DOMAIN s.reps, k # m
        PROVE  StandsFor(u, D, k)
    <3>1. s.reps[k].string \in DOMAIN s.strings /\ s.reps[k].string # str
      BY <1>1, <1>2, <2>1 DEF Owned
    <3>2. u.strings[s.reps[k].string] = s.strings[s.reps[k].string]
      BY <1>5, <3>1
    <3>3. u.reps[k] = s.reps[k] /\ D[k] = C[k]
      BY <1>5, <1>6, <2>1
    <3> QED
      BY <1>10, <3>2, <3>3, StillStandsFor
  <2>2. StandsFor(u, D, m)
    BY <1>2, <1>3, <1>5, <1>6 DEF StandsFor
  <2> QED
    BY <2>1, <2>2
<1>12. Sound(u, D)
  BY <1>5, <1>6, <1>7, <1>8, <1>9, <1>11 DEF Sound
<1> QED
  BY <1>2, <1>5, <1>12

\* The representation m has become immutable, and the rest is as it was.
MadeImmutable(s, u, m) ==
  /\ DOMAIN u.reps = DOMAIN s.reps /\ u.reps[m].mutable = FALSE
  /\ \A k \in DOMAIN s.reps : k # m => u.reps[k] = s.reps[k]

\* svn_fs__make_rep_immutable
LEMMA MakeImmutableSound ==
  ASSUME NEW s, NEW C, Sound(s, C), NEW m \in DOMAIN s.reps,
         NEW u, u = MakeRepImmutable(s, m)
  PROVE  Sound(u, C) /\ MadeImmutable(s, u, m)
<1>1. TablesType(s) /\ Owned(s) /\ Below(s) /\ C \in [DOMAIN s.reps -> Text]
  BY DEF Sound
<1>2. m \in Key /\ m # NoKey /\ s.reps[m] \in RepType
  BY RepFacts DEF Key, NoKey
<1>3. PICK rep : rep = [s.reps[m] EXCEPT !.mutable = FALSE]
  OBVIOUS
<1>4. /\ rep \in RepType /\ rep.mutable = FALSE /\ rep.kind = s.reps[m].kind
      /\ rep.string = s.reps[m].string /\ rep.base = s.reps[m].base
      /\ rep.sview = s.reps[m].sview
  BY <1>2, <1>3 DEF RepType
<1>5. u = [strings |-> s.strings, reps |-> [s.reps EXCEPT ![m] = rep],
           nextString |-> s.nextString, nextRep |-> s.nextRep]
  BY <1>1, <1>2, <1>3 DEF TablesType, MakeRepImmutable
<1>6. /\ u.strings = s.strings /\ u.nextString = s.nextString /\ u.nextRep = s.nextRep
      /\ DOMAIN u.reps = DOMAIN s.reps /\ u.reps[m] = rep
      /\ \A k \in DOMAIN s.reps : k # m => u.reps[k] = s.reps[k]
  BY <1>5
<1>7. TablesType(u)
  <2>1. u.reps \in [DOMAIN s.reps -> RepType]
    BY <1>1, <1>4, <1>5 DEF TablesType
  <2> QED
    BY <1>1, <1>5, <1>6, <2>1 DEF TablesType
<1>8. Owned(u)
  <2>1. \A k \in DOMAIN s.reps : u.reps[k].string = s.reps[k].string
    BY <1>4, <1>6
  <2> QED
    BY <1>1, <1>6, <2>1 DEF Owned
<1>9. Below(u)
  BY <1>1, <1>6 DEF Below
<1>10. Kept(s, C, u, C)
  BY <1>4, <1>6 DEF Kept
<1>11. \A k \in DOMAIN s.reps : StandsFor(u, C, k)
  <2>1. ASSUME NEW k \in DOMAIN s.reps, k # m
        PROVE  StandsFor(u, C, k)
    <3>1. u.strings[s.reps[k].string] = s.strings[s.reps[k].string]
          /\ u.reps[k] = s.reps[k]
      BY <1>6, <2>1
    <3> QED
      BY <1>10, <3>1, StillStandsFor
  <2>2. StandsFor(u, C, m)
    <3>1. StandsFor(s, C, m)
      BY RepFacts
    <3>2. CASE rep.kind = "fulltext"
      BY <1>4, <1>6, <3>1, <3>2 DEF StandsFor
    <3>3. CASE rep.kind # "fulltext"
      <4>1. PICK b : b = rep.base
        OBVIOUS
      <4>2. b \in DOMAIN s.reps /\ ~s.reps[b].mutable
        BY <1>4, <3>1, <3>3, <4>1 DEF StandsFor
      <4>3. b \in DOMAIN u.reps /\ ~u.reps[b].mutable
        BY <1>10, <4>2 DEF Kept
      <4> QED
        BY <1>4, <1>6, <3>1, <3>3, <4>1, <4>3 DEF StandsFor
    <3> QED
      BY <3>2, <3>3
  <2> QED
    BY <2>1, <2>2
<1>12. Sound(u, C)
  BY <1>1, <1>6, <1>7, <1>8, <1>9, <1>11 DEF Sound
<1> QED
  BY <1>4, <1>6, <1>12 DEF MadeImmutable

\* svn_fs__delete_rep_if_mutable, of a mutable one.
LEMMA DeleteSound ==
  ASSUME NEW s, NEW C, Sound(s, C), NEW m \in DOMAIN s.reps, s.reps[m].mutable,
         NEW u, u = DeleteRepIfMutable(s, m),
         NEW D, D = [k \in DOMAIN s.reps \ {m} |-> C[k]]
  PROVE  /\ Sound(u, D) /\ DOMAIN u.reps = DOMAIN s.reps \ {m}
         /\ \A k \in DOMAIN s.reps \ {m} : u.reps[k] = s.reps[k] /\ D[k] = C[k]
<1>1. TablesType(s) /\ Owned(s) /\ Below(s) /\ C \in [DOMAIN s.reps -> Text]
  BY DEF Sound
<1>2. PICK str : str = s.reps[m].string
  OBVIOUS
<1>3. m # NoKey /\ str \in DOMAIN s.strings
  BY <1>2, RepFacts DEF Key, NoKey
<1>4. u = [strings |-> [k \in DOMAIN s.strings \ {str} |-> s.strings[k]],
           reps |-> [k \in DOMAIN s.reps \ {m} |-> s.reps[k]],
           nextString |-> s.nextString, nextRep |-> s.nextRep]
  BY <1>1, <1>2, <1>3 DEF TablesType, DeleteRepIfMutable, StringDelete
<1>5. /\ u.nextString = s.nextString /\ u.nextRep = s.nextRep
      /\ DOMAIN u.strings = DOMAIN s.strings \ {str}
      /\ \A k \in DOMAIN s.strings \ {str} : u.strings[k] = s.strings[k]
      /\ DOMAIN u.reps = DOMAIN s.reps \ {m}
      /\ \A k \in DOMAIN s.reps \ {m} : u.reps[k] = s.reps[k] /\ D[k] = C[k]
  BY <1>4
<1>6. TablesType(u)
  <2>1. /\ u.strings \in [DOMAIN u.strings -> Seq(Seq(Int)) \ {<<>>}]
        /\ u.reps \in [DOMAIN u.reps -> RepType]
    BY <1>1, <1>4, <1>5 DEF TablesType
  <2> QED
    BY <1>1, <1>4, <1>5, <2>1 DEF TablesType
<1>7. Owned(u)
  <2>0. /\ \A k \in DOMAIN u.reps : k \in DOMAIN s.reps /\ k # m /\ u.reps[k] = s.reps[k]
        /\ \A k \in DOMAIN s.reps : s.reps[k].string \in DOMAIN s.strings
        /\ \A k, l \in DOMAIN s.reps : k # l => s.reps[k].string # s.reps[l].string
    BY <1>1, <1>5 DEF Owned
  <2>1. ASSUME NEW k \in DOMAIN u.reps
        PROVE  u.reps[k].string \in DOMAIN u.strings
    <3>1. k \in DOMAIN s.reps /\ k # m /\ u.reps[k] = s.reps[k]
      BY <2>0
    <3>2. s.reps[k].string \in DOMAIN s.strings /\ s.reps[k].string # str
      BY <1>2, <2>0, <3>1
    <3> QED
      BY <1>5, <3>1, <3>2
  <2>2. \A k, l \in DOMAIN u.reps : k # l => u.reps[k].string # u.reps[l].string
    BY <2>0
  <2>3. ASSUME NEW key \in DOMAIN u.strings
        PROVE  \/ \E k \in DOMAIN u.reps : u.reps[k].string = key
               \/ u.strings[key] = <<<<>>>>
    <3>1. key \in DOMAIN s.strings /\ key # str /\ u.strings[key] = s.strings[key]
      BY <1>5
    <3>2. CASE s.strings[key] = <<<<>>>>
      BY <3>1, <3>2
    <3>3. CASE \E k \in DOMAIN s.reps : s.reps[k].string = key
      <4>1. PICK k \in DOMAIN s.reps : s.reps[k].string = key
        BY <3>3
      <4>2. k # m
        BY <1>2, <3>1, <4>1
      <4>3. k \in DOMAIN u.reps /\ u.reps[k] = s.reps[k]
        BY <1>5, <4>2
      <4> QED
        BY <4>1, <4>3
    <3> QED
      BY <1>1, <3>1, <3>2, <3>3 DEF Owned
  <2> QED
    BY <2>1, <2>2, <2>3 DEF Owned
<1>8. Below(u)
  BY <1>1, <1>5 DEF Below
<1>9. Kept(s, C, u, D)
  BY <1>5 DEF Kept
<1>10. \A k \in DOMAIN u.reps : StandsFor(u, D, k)
  <2> SUFFICES ASSUME NEW k \in DOMAIN s.reps, k # m
               PROVE  StandsFor(u, D, k)
    BY <1>5
  <2>1. s.reps[k].string \in DOMAIN s.strings /\ s.reps[k].string # str
    BY <1>1, <1>2 DEF Owned
  <2>2. u.strings[s.reps[k].string] = s.strings[s.reps[k].string]
    BY <1>5, <2>1
  <2>3. u.reps[k] = s.reps[k] /\ D[k] = C[k]
    BY <1>5
  <2> QED
    BY <1>9, <2>2, <2>3, StillStandsFor
<1>11. D \in [DOMAIN u.reps -> Text]
  BY <1>1, <1>5
<1>12. Sound(u, D)
  BY <1>6, <1>7, <1>8, <1>10, <1>11 DEF Sound
<1> QED
  BY <1>5, <1>12

\* The tables after svn_fs__string_append to a new key.
LEMMA NewStringRecord ==
  ASSUME NEW s, TablesType(s), NEW w
  PROVE  NewString(s, w)
           = [strings |-> Put(s.strings, s.nextString, w), reps |-> s.reps,
              nextString |-> NextKey(s.nextString), nextRep |-> s.nextRep]
<1>1. s = [strings |-> s.strings, reps |-> s.reps,
           nextString |-> s.nextString, nextRep |-> s.nextRep]
  BY DEF TablesType
<1>2. PICK v : v = NewString(s, w)
  OBVIOUS
<1>3. v = [strings |-> Put(s.strings, s.nextString, w), reps |-> s.reps,
           nextString |-> NextKey(s.nextString), nextRep |-> s.nextRep]
  BY <1>1, <1>2 DEF NewString
<1> QED
  BY <1>2, <1>3

\* The same representations, the same ones of them mutable.
SameReps(s, u) ==
  /\ DOMAIN u.reps = DOMAIN s.reps
  /\ \A k \in DOMAIN s.reps : u.reps[k].mutable = s.reps[k].mutable

\* An empty string is added; or the next key is skipped.
LEMMA NewStringSound ==
  ASSUME NEW s, NEW C, Sound(s, C), NEW w, NEW u,
         \/ u = NewString(s, <<<<>>>>)
         \/ u = StringDelete(NewString(s, w), s.nextString)
  PROVE  Sound(u, C) /\ SameReps(s, u)
<1>1. TablesType(s) /\ Owned(s) /\ Below(s) /\ C \in [DOMAIN s.reps -> Text]
  BY DEF Sound
<1>2. PICK ns : ns = s.nextString
  OBVIOUS
<1>3. /\ ns \in Key /\ ns \notin DOMAIN s.strings
      /\ \A k \in DOMAIN s.strings : KeyValue(k) < KeyValue(NextKey(ns))
      /\ KeyValue(ns) < KeyValue(NextKey(ns)) /\ NextKey(ns) \in Key
  BY <1>2, NextKeysFree
<1>4. PICK strings : /\ \/ strings = Put(s.strings, ns, <<<<>>>>)
                        \/ strings = [k \in (DOMAIN s.strings \cup {ns}) \ {ns} |->
                                        Put(s.strings, ns, w)[k]]
                     /\ u = [strings |-> strings, reps |-> s.reps,
                             nextString |-> NextKey(ns), nextRep |-> s.nextRep]
  <2>1. CASE u = NewString(s, <<<<>>>>)
    BY <1>1, <1>2, <2>1, NewStringRecord
  <2>2. CASE u = StringDelete(NewString(s, w), ns)
    <3>1. PICK v : v = NewString(s, w)
      OBVIOUS
    <3>2. v = [strings |-> Put(s.strings, ns, w), reps |-> s.reps,
               nextString |-> NextKey(ns), nextRep |-> s.nextRep]
      BY <1>1, <1>2, <3>1, NewStringRecord
    <3>3. DOMAIN Put(s.strings, ns, w) = DOMAIN s.strings \cup {ns}
      BY DEF Put
    <3>4. StringDelete(v, ns)
            = [strings |-> [k \in DOMAIN v.strings \ {ns} |-> v.strings[k]],
               reps |-> v.reps, nextString |-> v.nextString, nextRep |-> v.nextRep]
      BY <3>2 DEF StringDelete
    <3>5. /\ v.strings = Put(s.strings, ns, w) /\ v.reps = s.reps
          /\ v.nextString = NextKey(ns) /\ v.nextRep = s.nextRep
      BY <3>2
    <3> QED
      BY <2>2, <3>1, <3>3, <3>4, <3>5
  <2> QED
    BY <1>2, <2>1, <2>2
<1>5. /\ \A k \in DOMAIN s.strings : k \in DOMAIN strings /\ strings[k] = s.strings[k]
      /\ \A k \in DOMAIN strings : k \in DOMAIN s.strings \/ (k = ns /\ strings[k] = <<<<>>>>)
      /\ strings = [k \in DOMAIN strings |-> strings[k]]
  <2>1. CASE strings = Put(s.strings, ns, <<<<>>>>)
    <3>1. DOMAIN strings = DOMAIN s.strings \cup {ns} /\ strings[ns] = <<<<>>>>
      BY <2>1 DEF Put
    <3>2. \A k \in DOMAIN s.strings : strings[k] = s.strings[k]
      BY <1>3, <2>1 DEF Put
    <3>3. strings = [k \in DOMAIN strings |-> strings[k]]
      BY <2>1 DEF Put
    <3> QED
      <4>1. \A k \in DOMAIN s.strings : k \in DOMAIN strings /\ strings[k] = s.strings[k]
        BY <3>1, <3>2
      <4>2. \A k \in DOMAIN strings : k \in DOMAIN s.strings \/ (k = ns /\ strings[k] = <<<<>>>>)
        BY <3>1
      <4> QED
        BY <3>3, <4>1, <4>2
  <2>2. CASE strings = [k \in (DOMAIN s.strings \cup {ns}) \ {ns} |->
                          Put(s.strings, ns, w)[k]]
    <3>1. \A k \in DOMAIN s.strings : k # ns /\ Put(s.strings, ns, w)[k] = s.strings[k]
      BY <1>3 DEF Put
    <3>2. (DOMAIN s.strings \cup {ns}) \ {ns} = DOMAIN s.strings
      BY <1>3
    <3>3. strings = [k \in DOMAIN s.strings |-> Put(s.strings, ns, w)[k]]
      BY <2>2, <3>2
    <3>4. DOMAIN strings = DOMAIN s.strings
      BY <3>3
    <3>5. \A k \in DOMAIN s.strings : strings[k] = s.strings[k]
      BY <3>1, <3>3
    <3>6. strings = [k \in DOMAIN strings |-> strings[k]]
      BY <3>3
    <3> QED
      <4>1. \A k \in DOMAIN s.strings : k \in DOMAIN strings /\ strings[k] = s.strings[k]
        BY <3>4, <3>5
      <4>2. \A k \in DOMAIN strings : k \in DOMAIN s.strings \/ (k = ns /\ strings[k] = <<<<>>>>)
        BY <3>4
      <4> QED
        BY <3>6, <4>1, <4>2
  <2> QED
    BY <1>4, <2>1, <2>2
<1>6. /\ u.strings = strings /\ u.reps = s.reps /\ u.nextString = NextKey(ns)
      /\ u.nextRep = s.nextRep
  BY <1>4
<1>7. TablesType(u)
  <2>1. <<<<>>>> \in Seq(Seq(Int)) \ {<<>>}
    OBVIOUS
  <2>2. \A k \in DOMAIN strings : strings[k] \in Seq(Seq(Int)) \ {<<>>} /\ k \in Key
    BY <1>1, <1>3, <1>5, <2>1 DEF TablesType
  <2>3. strings \in [DOMAIN strings -> Seq(Seq(Int)) \ {<<>>}]
    BY <1>5, <2>2
  <2> QED
    BY <1>1, <1>3, <1>4, <1>6, <2>2, <2>3 DEF TablesType
<1>8. Owned(u)
  BY <1>1, <1>5, <1>6 DEF Owned
<1>9. Below(u)
  BY <1>1, <1>3, <1>5, <1>6 DEF Below
<1>10. Kept(s, C, u, C)
  BY <1>6 DEF Kept
<1>11. \A k \in DOMAIN s.reps : StandsFor(u, C, k)
  <2> SUFFICES ASSUME NEW k \in DOMAIN s.reps
               PROVE  StandsFor(u, C, k)
    OBVIOUS
  <2>1. s.reps[k].string \in DOMAIN s.strings
    BY RepFacts
  <2>2. u.strings[s.reps[k].string] = s.strings[s.reps[k].string] /\ u.reps[k] = s.reps[k]
    BY <1>5, <1>6, <2>1
  <2> QED
    BY <1>10, <2>2, StillStandsFor
<1>12. Sound(u, C)
  BY <1>1, <1>6, <1>7, <1>8, <1>9, <1>11 DEF Sound
<1> QED
  BY <1>6, <1>12 DEF SameReps

\* An immutable representation is replaced by another one for the same text,
\* with a string of its own, and its old string is deleted.
LEMMA ReplaceSound ==
  ASSUME NEW s, NEW C, Sound(s, C), NEW m \in DOMAIN s.reps, ~s.reps[m].mutable,
         NEW rep \in RepType, rep.string = s.nextString, ~rep.mutable,
         NEW records \in Seq(Seq(Int)), records # <<>>,
         \/ rep.kind = "fulltext" /\ FlattenSeq(records) = C[m]
         \/ /\ rep.kind = "delta" /\ rep.base \in DOMAIN s.reps
            /\ ~s.reps[rep.base].mutable /\ KeyValue(m) < KeyValue(rep.base)
            /\ rep.sview = Len(C[rep.base])
            /\ IsDelta(FlattenSeq(records), C[rep.base], C[m]),
         NEW u, u = StringDelete([NewString(s, records) EXCEPT !.reps[m] = rep],
                                 s.reps[m].string)
  PROVE  Sound(u, C) /\ SameReps(s, u)
<1>1. TablesType(s) /\ Owned(s) /\ Below(s) /\ C \in [DOMAIN s.reps -> Text]
  BY DEF Sound
<1>2. PICK ns, str : ns = s.nextString /\ str = s.reps[m].string
  OBVIOUS
<1>3. /\ ns \in Key /\ ns \notin DOMAIN s.strings /\ NextKey(ns) \in Key
      /\ \A k \in DOMAIN s.strings : KeyValue(k) < KeyValue(NextKey(ns))
      /\ KeyValue(ns) < KeyValue(NextKey(ns))
  BY <1>2, NextKeysFree
<1>4. /\ str \in DOMAIN s.strings /\ str # ns
      /\ \A k \in DOMAIN s.reps : s.reps[k].string \in DOMAIN s.strings
      /\ \A k, l \in DOMAIN s.reps : k # l => s.reps[k].string # s.reps[l].string
      /\ \A k \in DOMAIN s.reps : k # m => s.reps[k].string # str
  BY <1>1, <1>2, <1>3 DEF Owned
<1>5. PICK v : v = NewString(s, records)
  OBVIOUS
<1>6. PICK p, f : p = Put(s.strings, ns, records) /\ f = [s.reps EXCEPT ![m] = rep]
  OBVIOUS
<1>7. v = [strings |-> p, reps |-> s.reps, nextString |-> NextKey(ns), nextRep |-> s.nextRep]
  BY <1>1, <1>2, <1>5, <1>6, NewStringRecord
<1>8. PICK w : w = [v EXCEPT !.reps[m] = rep]
  OBVIOUS
<1>9. w = [strings |-> p, reps |-> f, nextString |-> NextKey(ns), nextRep |-> s.nextRep]
  BY <1>6, <1>7, <1>8
<1>10. PICK q : q = [k \in DOMAIN p \ {str} |-> p[k]]
  OBVIOUS
<1>11. u = [strings |-> q, reps |-> f, nextString |-> NextKey(ns), nextRep |-> s.nextRep]
  <2>1. u = StringDelete(w, str)
    BY <1>2, <1>5, <1>8
  <2>2. w.strings = p
    BY <1>9
  <2>3. u = [w EXCEPT !.strings = q]
    BY <1>10, <2>1, <2>2 DEF StringDelete
  <2> QED
    BY <1>9, <2>3
<1>12. /\ DOMAIN u.strings = (DOMAIN s.strings \cup {ns}) \ {str}
       /\ u.strings = [k \in DOMAIN u.strings |-> p[k]]
  <2>1. DOMAIN p = DOMAIN s.strings \cup {ns}
    BY <1>6 DEF Put
  <2>2. u.strings = q
    BY <1>11
  <2> QED
    BY <1>10, <2>1, <2>2
<1>13. /\ u.strings[ns] = records /\ ns \in DOMAIN u.strings
       /\ \A k \in DOMAIN s.strings :
            k # str => k \in DOMAIN u.strings /\ u.strings[k] = s.strings[k]
       /\ \A k \in DOMAIN u.strings : k # ns => k \in DOMAIN s.strings /\ k # str
  <2>1. p[ns] = records /\ \A k \in DOMAIN s.strings : p[k] = s.strings[k]
    BY <1>3, <1>6 DEF Put
  <2>2. ns \in DOMAIN u.strings
    BY <1>4, <1>12
  <2>3. u.strings[ns] = records
    BY <1>12, <2>1, <2>2
  <2>4. ASSUME NEW k \in DOMAIN s.strings, k # str
        PROVE  k \in DOMAIN u.strings /\ u.strings[k] = s.strings[k]
    <3>1. k \in DOMAIN u.strings
      BY <1>12, <2>4
    <3> QED
      BY <1>12, <2>1, <3>1
  <2> QED
    BY <1>12, <2>2, <2>3, <2>4
<1>14. /\ u.nextString = NextKey(ns) /\ u.nextRep = s.nextRep
       /\ DOMAIN u.reps = DOMAIN s.reps /\ u.reps[m] = rep
       /\ \A k \in DOMAIN s.reps : k # m => u.reps[k] = s.reps[k]
       /\ u.reps \in [DOMAIN s.reps -> RepType]
  <2>1. u.reps = f /\ u.nextString = NextKey(ns) /\ u.nextRep = s.nextRep
    BY <1>11
  <2>2. s.reps \in [DOMAIN s.reps -> RepType]
    BY <1>1 DEF TablesType
  <2>3. /\ f \in [DOMAIN s.reps -> RepType] /\ f[m] = rep
        /\ \A k \in DOMAIN s.reps : k # m => f[k] = s.reps[k]
    BY <1>6, <2>2
  <2> QED
    BY <2>1, <2>3
<1>15. TablesType(u)
  <2>1. PICK R : R = Seq(Seq(Int)) \ {<<>>}
    OBVIOUS
  <2>2. records \in R /\ s.strings \in [DOMAIN s.strings -> R]
    BY <1>1, <2>1 DEF TablesType
  <2>3. \A k \in DOMAIN u.strings : u.strings[k] \in R
    BY <1>13, <2>2
  <2>4. u.strings \in [DOMAIN u.strings -> R]
    BY <1>12, <2>3
  <2>5. DOMAIN u.strings \subseteq Key /\ DOMAIN u.reps \subseteq Key /\ s.nextRep \in Key
    BY <1>1, <1>3, <1>12, <1>14 DEF TablesType
  <2>6. u = [strings |-> u.strings, reps |-> u.reps,
             nextString |-> u.nextString, nextRep |-> u.nextRep]
    BY <1>11
  <2> QED
    BY <1>3, <1>14, <2>1, <2>4, <2>5, <2>6 DEF TablesType
<1>16. Owned(u)
  <2>1. ASSUME NEW k \in DOMAIN u.reps
        PROVE  u.reps[k].string \in DOMAIN u.strings
    <3>1. CASE k = m
      BY <1>2, <1>13, <1>14, <3>1
    <3>2. CASE k # m
      <4>1. u.reps[k] = s.reps[k] /\ s.reps[k].string \in DOMAIN s.strings
        BY <1>4, <1>14, <3>2
      <4>2. s.reps[k].string # str
        BY <1>4, <1>14, <3>2
      <4> QED
        BY <1>13, <4>1, <4>2
    <3> QED
      BY <3>1, <3>2
  <2>2. ASSUME NEW k \in DOMAIN u.reps, NEW l \in DOMAIN u.reps, k # l
        PROVE  u.reps[k].string # u.reps[l].string
    BY <1>2, <1>3, <1>4, <1>14, <2>2
  <2>3. ASSUME NEW key \in DOMAIN u.strings
        PROVE  \/ \E k \in DOMAIN u.reps : u.reps[k].string = key
               \/ u.strings[key] = <<<<>>>>
    <3>1. CASE key = ns
      BY <1>2, <1>14, <3>1
    <3>2. CASE key # ns
      <4>1. key \in DOMAIN s.strings /\ key # str /\ u.strings[key] = s.strings[key]
        BY <1>13, <3>2
      <4>2. CASE s.strings[key] = <<<<>>>>
        BY <4>1, <4>2
      <4>3. CASE \E k \in DOMAIN s.reps : s.reps[k].string = key
        <5>1. PICK k \in DOMAIN s.reps : s.reps[k].string = key
          BY <4>3
        <5>2. k # m
          BY <1>2, <4>1, <5>1
        <5> QED
          BY <1>14, <5>1, <5>2
      <4> QED
        BY <1>1, <4>1, <4>2, <4>3 DEF Owned
    <3> QED
      BY <3>1, <3>2
  <2> QED
    BY <2>1, <2>2, <2>3 DEF Owned
<1>17. Below(u)
  BY <1>1, <1>3, <1>13, <1>14 DEF Below
<1>18. SameReps(s, u)
  <2>1. rep.mutable \in BOOLEAN /\ s.reps[m].mutable \in BOOLEAN
    BY RepFacts DEF RepType
  <2>2. u.reps[m].mutable = s.reps[m].mutable
    BY <1>14, <2>1
  <2> QED
    BY <1>14, <2>2 DEF SameReps
<1>19. Kept(s, C, u, C)
  BY <1>18 DEF Kept, SameReps
<1>20. \A k \in DOMAIN s.reps : StandsFor(u, C, k)
  <2>1. ASSUME NEW k \in DOMAIN s.reps, k # m
        PROVE  StandsFor(u, C, k)
    <3>1. u.strings[s.reps[k].string] = s.strings[s.reps[k].string] /\ u.reps[k] = s.reps[k]
      BY <1>4, <1>13, <1>14, <2>1
    <3> QED
      BY <1>19, <3>1, StillStandsFor
  <2>2. StandsFor(u, C, m)
    <3>1. u.reps[m] = rep /\ FlattenSeq(u.strings[rep.string]) = FlattenSeq(records)
      BY <1>2, <1>13, <1>14, Zenon
    <3>2. CASE rep.kind = "fulltext" /\ FlattenSeq(records) = C[m]
      BY <3>1, <3>2, Zenon DEF StandsFor
    <3>3. CASE ~(rep.kind = "fulltext" /\ FlattenSeq(records) = C[m])
      <4>1. /\ rep.kind = "delta" /\ rep.base \in DOMAIN s.reps /\ ~s.reps[rep.base].mutable
            /\ KeyValue(m) < KeyValue(rep.base) /\ rep.sview = Len(C[rep.base])
            /\ IsDelta(FlattenSeq(records), C[rep.base], C[m])
        BY <3>3, Zenon
      <4>2. rep.base \in DOMAIN u.reps /\ ~u.reps[rep.base].mutable
        BY <1>19, <4>1, Zenon DEF Kept
      <4> QED
        BY <3>1, <4>1, <4>2, Zenon DEF StandsFor
    <3> QED
      BY <3>2, <3>3, Zenon
  <2> QED
    BY <2>1, <2>2
<1>21. Sound(u, C)
  BY <1>1, <1>14, <1>15, <1>16, <1>17, <1>20 DEF Sound
<1> QED
  BY <1>18, <1>21

\* The instructions svn_txdelta finds give the target.
LEMMA WindowIsDelta ==
  ASSUME NEW source \in Text, NEW target \in Text
  PROVE  IsDelta(Window(source, target), source, target)
<1>1. PICK w : w = Window(source, target)
  OBVIOUS
<1>2. PICK n : n = Len(target)
  OBVIOUS
<1>3. n \in Nat /\ target \in Seq(Nat \ {0}) /\ source \in Seq(Nat \ {0})
  BY <1>2 DEF Text
<1>4. ASSUME NEW i \in 1..n
      PROVE  /\ w[i] \in Int
             /\ \/ w[i] > 0 /\ w[i] = target[i]
                \/ w[i] < 0 /\ -w[i] <= Len(source) /\ source[-w[i]] = target[i]
  <2>1. target[i] \in Nat \ {0}
    BY <1>2, <1>3
  <2>2. CASE \E j \in 1..Len(source) : source[j] = target[i]
    <3>1. PICK j : j = CHOOSE l \in 1..Len(source) : source[l] = target[i]
      OBVIOUS
    <3>2. j \in 1..Len(source) /\ source[j] = target[i]
      BY <2>2, <3>1
    <3>3. w[i] = -j
      BY <1>1, <1>2, <2>2, <3>1 DEF Window
    <3>4. j \in Nat /\ j >= 1 /\ j <= Len(source) /\ Len(source) \in Nat
      BY <1>3, <3>2
    <3>5. -w[i] = j /\ w[i] \in Int /\ w[i] < 0
      BY <3>3, <3>4
    <3> QED
      BY <3>2, <3>4, <3>5
  <2>3. CASE ~ \E j \in 1..Len(source) : source[j] = target[i]
    <3>1. w[i] = target[i]
      BY <1>1, <1>2, <2>3 DEF Window
    <3> QED
      BY <2>1, <3>1
  <2> QED
    BY <2>2, <2>3
<1>5. DOMAIN w = 1..n /\ w = [i \in 1..n |-> w[i]]
  BY <1>1, <1>2 DEF Window
<1>6. w \in Seq(Int) /\ Len(w) = n
  <2>1. \A i \in 1..n : w[i] \in Int
    BY <1>4
  <2>2. w \in [1..n -> Int]
    BY <1>5, <2>1
  <2> QED
    BY <1>3, <2>2
<1> QED
  BY <1>1, <1>2, <1>4, <1>6 DEF IsDelta

\* svn_fs__rep_deltify keeps the texts when the source's key is a later one.
LEMMA RepDeltifySound ==
  ASSUME NEW s, NEW C, Sound(s, C), NEW target \in DOMAIN s.reps,
         NEW source \in DOMAIN s.reps, ~s.reps[target].mutable,
         ~s.reps[source].mutable, KeyValue(target) < KeyValue(source),
         NEW saves, NEW u, u = RepDeltify(s, target, source, saves)
  PROVE  Sound(u, C) /\ SameReps(s, u)
<1>1. PICK to, from, w : /\ to = C[target] /\ from = C[source]
                         /\ w = Window(from, to)
  OBVIOUS
<1>2. to \in Text /\ from \in Text /\ source \in Key
  BY <1>1, RepFacts
<1>3. RepContents(s, target) = to /\ RepContents(s, source) = from
  BY <1>1, ContentsExact
<1>4. u = IF Len(to) > WindowSize THEN s
          ELSE IF to = <<>> THEN NewString(s, <<<<>>>>)
          ELSE IF saves
          THEN StringDelete([NewString(s, <<w>>) EXCEPT !.reps[target] =
                               Delta(s.nextString, source, Len(from))],
                            s.reps[target].string)
          ELSE StringDelete(NewString(s, <<w>>), s.nextString)
  BY <1>1, <1>3 DEF RepDeltify
<1>5. CASE u = s
  BY <1>5 DEF SameReps
<1>6. CASE u = NewString(s, <<<<>>>>)
  BY <1>6, NewStringSound
<1>7. CASE u = StringDelete(NewString(s, <<w>>), s.nextString)
  <2>1. PICK q : q = <<w>>
    OBVIOUS
  <2>2. u = StringDelete(NewString(s, q), s.nextString)
    BY <1>7, <2>1
  <2> QED
    BY <2>2, NewStringSound
<1>8. CASE u = StringDelete([NewString(s, <<w>>) EXCEPT !.reps[target] =
                               Delta(s.nextString, source, Len(from))],
                            s.reps[target].string)
  <2>1. PICK q, rep, n : /\ q = <<w>> /\ n = Len(from)
                         /\ rep = Delta(s.nextString, source, n)
    OBVIOUS
  <2>2. n \in Nat /\ source \in Seq(Nat) /\ s.nextString \in Key
    BY <1>2, <2>1, KeyIsSeq, NextKeysFree DEF Text
  <2>3. /\ rep \in RepType /\ rep.string = s.nextString /\ rep.mutable = FALSE
        /\ rep.kind = "delta" /\ rep.base = source /\ rep.sview = n
    BY <2>1, <2>2 DEF Delta, RepType
  <2>4. IsDelta(w, from, to)
    BY <1>1, <1>2, WindowIsDelta
  <2>5. w \in Seq(Int)
    BY <2>4 DEF IsDelta
  <2>6. q \in Seq(Seq(Int)) /\ q # <<>>
    BY <2>1, <2>5
  <2>7. FlattenSeq(q) = w
    BY <2>1, <2>5, FlattenOneTwo
  <2>8. u = StringDelete([NewString(s, q) EXCEPT !.reps[target] = rep],
                         s.reps[target].string)
    BY <1>8, <2>1
  <2>9. /\ rep.kind = "delta" /\ rep.base \in DOMAIN s.reps
        /\ ~s.reps[rep.base].mutable /\ KeyValue(target) < KeyValue(rep.base)
        /\ rep.sview = Len(C[rep.base])
        /\ IsDelta(FlattenSeq(q), C[rep.base], C[target])
    BY <1>1, <2>1, <2>3, <2>4, <2>7
  <2> QED
    BY <2>3, <2>6, <2>8, <2>9, ReplaceSound
<1> QED
  BY <1>4, <1>5, <1>6, <1>7, <1>8

\* svn_fs__rep_undeltify keeps the texts.
LEMMA RepUndeltifySound ==
  ASSUME NEW s, NEW C, Sound(s, C), NEW key \in DOMAIN s.reps,
         NEW u, u = RepUndeltify(s, key)
  PROVE  Sound(u, C) /\ SameReps(s, u)
<1>1. PICK t : t = C[key]
  OBVIOUS
<1>2. t \in Text /\ key # NoKey /\ RepContents(s, key) = t /\ StandsFor(s, C, key)
  BY <1>1, RepFacts, ContentsExact DEF Key, NoKey
<1>3. CASE s.reps[key].kind = "fulltext"
  <2>1. u = s
    BY <1>3 DEF RepUndeltify
  <2> QED
    BY <2>1 DEF SameReps
<1>4. CASE s.reps[key].kind # "fulltext"
  <2>1. PICK q, rep : q = <<t, <<>>>> /\ rep = Fulltext(s.nextString, FALSE)
    OBVIOUS
  <2>2. u = StringDelete([NewString(s, q) EXCEPT !.reps[key] = rep], s.reps[key].string)
    BY <1>2, <1>4, <2>1 DEF RepUndeltify
  <2>3. ~s.reps[key].mutable
    BY <1>2, <1>4 DEF StandsFor
  <2>4. /\ rep \in RepType /\ rep.string = s.nextString /\ rep.mutable = FALSE
        /\ rep.kind = "fulltext"
    <3>1. FALSE \in BOOLEAN /\ s.nextString \in Key
      BY NextKeysFree
    <3> QED
      BY <2>1, <3>1, FulltextFields
  <2>5. t \in Seq(Int) /\ <<>> \in Seq(Int) /\ t \o <<>> = t
    BY <1>2 DEF Text
  <2>6. q \in Seq(Seq(Int)) /\ q # <<>>
    BY <2>1, <2>5
  <2>7. FlattenSeq(q) = t
    <3>1. FlattenSeq(<<t, <<>>>>) = t \o <<>>
      BY <2>5, FlattenOneTwo
    <3> QED
      BY <2>1, <2>5, <3>1
  <2> QED
    BY <1>1, <2>2, <2>3, <2>4, <2>6, <2>7, ReplaceSound
<1> QED
  BY <1>3, <1>4

\* deltify keeps the texts when the source's representations are the later
\* ones, or shared.
LEMMA DeltifySound ==
  ASSUME NEW s, NEW C, Sound(s, C), NEW a, NEW b,
         a.prop \in DOMAIN s.reps, a.data \in DOMAIN s.reps,
         b.prop \in DOMAIN s.reps, b.data \in DOMAIN s.reps,
         ~s.reps[a.prop].mutable, ~s.reps[a.data].mutable,
         ~s.reps[b.prop].mutable, ~s.reps[b.data].mutable,
         KeyBefore(a.prop, b.prop), KeyBefore(a.data, b.data),
         NEW saves, NEW u, u = Deltify(s, a, b, saves)
  PROVE  Sound(u, C) /\ SameReps(s, u)
<1>1. PICK v : v = IF a.prop # NoKey /\ b.prop # NoKey /\ a.prop # b.prop
                   THEN RepDeltify(s, a.prop, b.prop, saves.prop) ELSE s
  OBVIOUS
<1>2. u = IF a.data # NoKey /\ b.data # NoKey /\ a.data # b.data
          THEN RepDeltify(v, a.data, b.data, saves.data) ELSE v
  BY <1>1 DEF Deltify
<1>3. Sound(v, C) /\ SameReps(s, v)
  <2>1. CASE v = s
    BY <2>1 DEF SameReps
  <2>2. CASE a.prop # b.prop /\ v = RepDeltify(s, a.prop, b.prop, saves.prop)
    <3>1. PICK x, y, z : x = a.prop /\ y = b.prop /\ z = saves.prop
      OBVIOUS
    <3>2. KeyValue(x) < KeyValue(y)
      BY <2>2, <3>1 DEF KeyBefore
    <3>3. v = RepDeltify(s, x, y, z)
      BY <2>2, <3>1
    <3>4. x \in DOMAIN s.reps /\ y \in DOMAIN s.reps
          /\ ~s.reps[x].mutable /\ ~s.reps[y].mutable
      BY <3>1
    <3> QED
      BY <3>2, <3>3, <3>4, RepDeltifySound
  <2> QED
    BY <1>1, <2>1, <2>2
<1>4. Sound(u, C) /\ SameReps(v, u)
  <2>1. CASE u = v
    BY <1>3, <2>1 DEF SameReps
  <2>2. CASE a.data # b.data /\ u = RepDeltify(v, a.data, b.data, saves.data)
    <3>1. PICK x, y, z : x = a.data /\ y = b.data /\ z = saves.data
      OBVIOUS
    <3>2. KeyValue(x) < KeyValue(y)
      BY <2>2, <3>1 DEF KeyBefore
    <3>3. u = RepDeltify(v, x, y, z)
      BY <2>2, <3>1
    <3>4. x \in DOMAIN v.reps /\ y \in DOMAIN v.reps
          /\ ~v.reps[x].mutable /\ ~v.reps[y].mutable
      BY <1>3, <3>1 DEF SameReps
    <3> QED
      BY <1>3, <3>2, <3>3, <3>4, RepDeltifySound
  <2> QED
    BY <1>2, <2>1, <2>2
<1> QED
  BY <1>3, <1>4 DEF SameReps

\* rep_write and svn_fs__rep_contents_clear, of a mutable representation.
LEMMA RepWriteSound ==
  ASSUME NEW s, NEW C, Sound(s, C), NEW k \in DOMAIN s.reps, s.reps[k].mutable,
         NEW buf \in Text
  PROVE  /\ Sound(RepWrite(s, k, buf), Put(C, k, C[k] \o buf))
         /\ RepWrite(s, k, buf).reps = s.reps
         /\ Sound(RepContentsClear(s, k), Put(C, k, <<>>))
         /\ RepContentsClear(s, k).reps = s.reps
<1>1. PICK str, q : str = s.reps[k].string /\ q = s.strings[str]
  OBVIOUS
<1>2. q \in Seq(Seq(Int)) /\ C[k] \in Text /\ str \in DOMAIN s.strings
  BY <1>1, RepFacts
<1>3. FlattenSeq(q) = C[k]
  BY <1>1, RepFacts DEF StandsFor
<1>4. PICK r : r = Append(q, buf)
  OBVIOUS
<1>5. buf \in Seq(Int) /\ C[k] \o buf \in Text
  BY <1>2 DEF Text
<1>6. r \in Seq(Seq(Int)) /\ r # <<>>
  BY <1>2, <1>4, <1>5
<1>7. FlattenSeq(r) = C[k] \o buf
  BY <1>2, <1>3, <1>4, <1>5, FlattenAppend
<1>8. RepWrite(s, k, buf) = SetRecords(s, k, r)
  BY <1>1, <1>4 DEF RepWrite, StringAppend, SetRecords
<1>9. /\ Sound(RepWrite(s, k, buf), Put(C, k, C[k] \o buf))
      /\ RepWrite(s, k, buf).reps = s.reps
  <2>1. PICK u, D : u = RepWrite(s, k, buf) /\ D = Put(C, k, C[k] \o buf)
    OBVIOUS
  <2>2. /\ u = SetRecords(s, k, r)
        /\ D = Put(C, k, FlattenSeq(r)) /\ FlattenSeq(r) \in Text
    BY <1>1, <1>5, <1>7, <1>8, <2>1
  <2>3. Sound(u, D) /\ u.reps = s.reps
    BY <1>6, <2>2, SetRecordsSound
  <2> QED
    BY <2>1, <2>3
<1>10. /\ Sound(RepContentsClear(s, k), Put(C, k, <<>>))
       /\ RepContentsClear(s, k).reps = s.reps
  <2>1. PICK u, D, e : /\ u = RepContentsClear(s, k) /\ D = Put(C, k, <<>>)
                       /\ e = <<<<>>>>
    OBVIOUS
  <2>2. <<>> \in Seq(Int) /\ <<>> \in Text
    BY DEF Text
  <2>3. e \in Seq(Seq(Int)) /\ e # <<>>
    BY <2>1, <2>2
  <2>4. FlattenSeq(e) = <<>>
    BY <2>1, <2>2, FlattenOneTwo
  <2>5. /\ u = SetRecords(s, k, e)
        /\ D = Put(C, k, FlattenSeq(e)) /\ FlattenSeq(e) \in Text
    BY <2>1, <2>2, <2>4 DEF RepContentsClear, StringClear, SetRecords
  <2>6. Sound(u, D) /\ u.reps = s.reps
    BY <2>3, <2>5, SetRecordsSound
  <2> QED
    BY <2>1, <2>6
<1> QED
  BY <1>9, <1>10

\* svn_fs__get_mutable_rep
LEMMA GetMutableSound ==
  ASSUME NEW s, NEW C, Sound(s, C), NEW key \in DOMAIN s.reps \cup {NoKey},
         NEW m, m = GetMutableRep(s, key),
         NEW t, t = (IF key = NoKey THEN <<>> ELSE C[key])
  PROVE  \E D : Writable(s, C, m.db, D, key, m.key, t)
<1>1. \A k \in DOMAIN s.reps : k # NoKey
  BY RepFacts DEF Key, NoKey
<1>2. CASE key # NoKey /\ s.reps[key].mutable
  <2>1. m.db = s /\ m.key = key
    BY <1>2 DEF GetMutableRep
  <2> QED
    BY <1>2, <2>1 DEF Writable
<1>3. CASE ~(key # NoKey /\ s.reps[key].mutable)
  <2>1. PICK q : q = IF key = NoKey THEN <<<<>>>>
                     ELSE IF s.reps[key].kind = "fulltext"
                          THEN s.strings[s.reps[key].string]
                     ELSE <<RepContents(s, key)>>
    OBVIOUS
  <2>2. m.db = AddFulltext(s, q) /\ m.key = s.nextRep
    BY <1>3, <2>1 DEF GetMutableRep, AddFulltext, StringCopy
  <2>3. q \in Seq(Seq(Int)) /\ q # <<>> /\ FlattenSeq(q) = t /\ t \in Text
    <3>0. <<>> \in Seq(Int) /\ <<>> \in Text
      BY DEF Text
    <3>1. CASE key = NoKey
      <4>1. FlattenSeq(<<<<>>>>) = <<>>
        BY <3>0, FlattenOneTwo
      <4> QED
        BY <2>1, <3>0, <3>1, <4>1
    <3>2. CASE key # NoKey /\ s.reps[key].kind = "fulltext"
      <4>1. q = s.strings[s.reps[key].string] /\ t = C[key] /\ key \in DOMAIN s.reps
        BY <2>1, <3>2
      <4>2. q \in Seq(Seq(Int)) /\ t \in Text /\ FlattenSeq(q) = t
        BY <3>2, <4>1, RepFacts DEF StandsFor
      <4>3. s.reps[key].string \in DOMAIN s.strings
        BY <4>1, RepFacts
      <4>4. q # <<>>
        BY <4>1, <4>3 DEF Sound, TablesType
      <4> QED
        BY <4>2, <4>4
    <3>3. CASE key # NoKey /\ s.reps[key].kind # "fulltext"
      <4>1. key \in DOMAIN s.reps /\ t = C[key]
        BY <3>3
      <4>2. RepContents(s, key) = t /\ t \in Text
        BY <4>1, ContentsExact, RepFacts
      <4>3. q = <<t>> /\ t \in Seq(Int)
        BY <2>1, <3>3, <4>2 DEF Text
      <4>4. FlattenSeq(q) = t
        BY <4>3, FlattenOneTwo
      <4> QED
        BY <4>2, <4>3, <4>4
    <3> QED
      BY <3>1, <3>2, <3>3
  <2>4. PICK u, nr, D : u = m.db /\ nr = s.nextRep /\ D = Put(C, nr, FlattenSeq(q))
    OBVIOUS
  <2>5. u = AddFulltext(s, q) /\ D = Put(C, s.nextRep, FlattenSeq(q)) /\ FlattenSeq(q) \in Text
    BY <2>2, <2>3, <2>4
  <2>6. Writable(s, C, u, D, key, s.nextRep, FlattenSeq(q))
    <3>1. key = NoKey \/ ~s.reps[key].mutable
      BY <1>3
    <3> QED
      BY <2>3, <2>5, <3>1, AddFulltextSound
  <2> QED
    BY <2>2, <2>3, <2>4, <2>6
<1> QED
  BY <1>2, <1>3

\* svn_fs__dag_set_proplist: a mutable version, cleared and written.
LEMMA ProplistSound ==
  ASSUME NEW s, NEW C, Sound(s, C), NEW key \in DOMAIN s.reps,
         NEW m, m = GetMutableRep(s, key), NEW list \in Text,
         NEW u, u = RepWrite(RepContentsClear(m.db, m.key), m.key, list)
  PROVE  \E D : Writable(s, C, u, D, key, m.key, list)
<1>1. PICK t : t = IF key = NoKey THEN <<>> ELSE C[key]
  OBVIOUS
<1>2. \E D : Writable(s, C, m.db, D, key, m.key, t)
  BY <1>1, GetMutableSound
<1>3. PICK D : Writable(s, C, m.db, D, key, m.key, t)
  BY <1>2
<1>4. PICK k, v, w : k = m.key /\ v = m.db /\ w = RepContentsClear(v, k)
  OBVIOUS
<1>5. /\ Sound(v, D) /\ k \in DOMAIN v.reps /\ v.reps[k].mutable
      /\ D \in [DOMAIN v.reps -> Text]
  BY <1>3, <1>4 DEF Writable, Sound
<1>6. PICK E : E = Put(D, k, <<>>)
  OBVIOUS
<1>7. Sound(w, E) /\ w.reps = v.reps
  <2>1. Sound(RepContentsClear(v, k), Put(D, k, <<>>)) /\ RepContentsClear(v, k).reps = v.reps
    BY <1>5, RepWriteSound
  <2> QED
    BY <1>4, <1>6, <2>1
<1>8. k \in DOMAIN w.reps /\ w.reps[k].mutable
  BY <1>5, <1>7
<1>9. PICK F : F = Put(E, k, E[k] \o list)
  OBVIOUS
<1>10. Sound(u, F) /\ u.reps = w.reps
  <2>1. u = RepWrite(w, k, list)
    BY <1>4
  <2>2. Sound(RepWrite(w, k, list), Put(E, k, E[k] \o list)) /\ RepWrite(w, k, list).reps = w.reps
    BY <1>7, <1>8, RepWriteSound
  <2> QED
    BY <1>9, <2>1, <2>2
<1>11. /\ F[k] = list
       /\ \A x \in DOMAIN v.reps : x # k => F[x] = D[x]
  <2>1. E \in [DOMAIN v.reps -> Text] /\ E[k] = <<>>
        /\ \A x \in DOMAIN v.reps : x # k => E[x] = D[x]
    <3>1. <<>> \in Text
      BY DEF Text
    <3> QED
      BY <1>5, <1>6, <3>1 DEF Put
  <2>2. <<>> \o list = list
    BY DEF Text
  <2> QED
    BY <1>5, <1>9, <2>1, <2>2 DEF Put
<1>12. \A x \in DOMAIN s.reps : x \in DOMAIN v.reps
  BY <1>3, <1>4 DEF Writable
<1>13. Writable(s, C, u, F, key, k, list)
  BY <1>3, <1>4, <1>7, <1>10, <1>11, <1>12 DEF Writable
<1> QED
  BY <1>4, <1>13

\* svn_fs__string_read gives the bytes asked for, of every string.
LEMMA StringsReadExact ==
  ASSUME NEW s, NEW C, Sound(s, C), NEW k \in DOMAIN s.strings,
         NEW offset \in Nat, NEW len \in Nat
  PROVE  StringRead(s.strings[k], offset, len)
           = SubSeq(FlattenSeq(s.strings[k]), offset + 1,
                    Min({offset + len, Len(FlattenSeq(s.strings[k]))}))
<1>1. PICK q : q = s.strings[k]
  OBVIOUS
<1>2. q \in Seq(Seq(Int))
  BY <1>1 DEF Sound, TablesType
<1> QED
  BY <1>1, <1>2, StringReadPart

-----------------------------------------------------------------------------
(* The inductive invariant *)

NodeType == [prop : Key, data : Key, edit : Key \cup {NoKey}, mutable : BOOLEAN]

TxnType ==
  [state : {"none", "open", "done"}, base : Seq(Nat), node : Seq(Nat),
   stream : {"none", "edit", "finish"}, buf : Text, sent : Text]

ReaderType == [node : Seq(Nat), got : Text]

\* The node revisions of N that are committed.
Fixed(N) == {id \in DOMAIN N : ~N[id].mutable}

\* The node revisions N, what clients sent for them, and ID's such that new
\* ones are free.
NodesShape(N, T, P) ==
  /\ IdsSound(DOMAIN N, Fixed(N))
  /\ \A id \in DOMAIN N : id[Len(id)] > 0
  /\ N \in [DOMAIN N -> NodeType]
  /\ T \in [DOMAIN N -> Text] /\ P \in [DOMAIN N -> Text]

\* The representations of one node revision are different ones; an edit is
\* mutable, and what a committed one names is not.
NodeRight(s, node) ==
  /\ KeysOf(node) \subseteq DOMAIN s.reps
  /\ node.prop # node.data
  /\ node.edit # NoKey =>
       /\ node.edit # node.prop /\ node.edit # node.data
       /\ s.reps[node.edit].mutable
  /\ ~node.mutable => \A k \in KeysOf(node) : ~s.reps[k].mutable

\* RepsOwned, of the tables s and the node revisions N; an immutable
\* representation is a committed node revision's.
NamesRight(s, N) ==
  /\ \A id \in DOMAIN N : NodeRight(s, N[id])
  /\ \A k \in DOMAIN s.reps :
       \E id \in DOMAIN N : k \in KeysOf(N[id]) /\ (s.reps[k].mutable \/ ~N[id].mutable)
  /\ \A id1, id2 \in DOMAIN N :
       id1 # id2 => \A k \in KeysOf(N[id1]) \cap KeysOf(N[id2]) : ~s.reps[k].mutable

\* The representations of node revision a were made before those of b.
MadeBefore(a, b) == KeyBefore(a.prop, b.prop) /\ KeyBefore(a.data, b.data)

\* The youngest revision's were made last, and a predecessor's before.
OrderRight(N, h) ==
  /\ h \in Fixed(N)
  /\ \A id \in Fixed(N) :
       /\ MadeBefore(N[id], N[h])
       /\ \/ IdPredecessor(id) = NoId
          \/ IdPredecessor(id) \in Fixed(N) /\ MadeBefore(N[IdPredecessor(id)], N[id])

\* A transaction that has changes has a mutable node revision.
TxnRight(x, N) ==
  /\ x.state = "open" => x.base \in Fixed(N)
  /\ x.state # "open" => x.node = NoId
  /\ x.node = NoId => x.stream = "none"
  /\ x.node # NoId =>
       /\ x.node \in DOMAIN N /\ N[x.node].mutable
       /\ IdPredecessor(x.node) \in Fixed(N)
       /\ MadeBefore(N[x.base], N[x.node])
       /\ N[x.node].edit # NoKey => KeyBefore(N[x.base].data, N[x.node].edit)
       /\ x.stream = "none" <=> N[x.node].edit = NoKey

\* It is its own, and all mutable node revisions are transactions'.
TxnsRight(X, N) ==
  /\ X \in [Txns -> TxnType]
  /\ \A t \in Txns : TxnRight(X[t], N)
  /\ \A t, u \in Txns : t # u /\ X[t].node # NoId => X[u].node # X[t].node
  /\ \A id \in DOMAIN N : N[id].mutable => \E t \in Txns : X[t].node = id

\* The texts C of the representations are what clients sent, as far as it has
\* been written,
SentRight(C, x, N) ==
  /\ x.stream # "none" => C[N[x.node].edit] \o x.buf = x.sent
  /\ x.stream = "finish" => x.buf = <<>>

\* and readers got them.
GotRight(R, N, T) ==
  /\ R \in [Readers -> ReaderType]
  /\ \A r \in Readers :
       /\ R[r].node = NoId => R[r].got = <<>>
       /\ R[r].node # NoId =>
            R[r].node \in Fixed(N) /\ IsPrefix(R[r].got, T[R[r].node])

TextsRight(C, N, X, T, P) ==
  /\ \A id \in DOMAIN N : C[N[id].data] = T[id] /\ C[N[id].prop] = P[id]
  /\ \A t \in Txns : SentRight(C, X[t], N)

\* Everything but the texts.
NodesInv ==
  /\ NodesShape(nodes, text, props) /\ NamesRight(db, nodes)
  /\ OrderRight(nodes, head) /\ TxnsRight(txn, nodes)
  /\ GotRight(reader, nodes, text)

\* The inductive invariant, until svnadmin deltifies against an open
\* transaction.
RepsInv ==
  NodesInv /\ \E C : Sound(db, C) /\ TextsRight(C, nodes, txn, text, props)

-----------------------------------------------------------------------------
(* The initial state *)

\* The first node revision's ID.
LEMMA FirstIdSound ==
  /\ IdsSound({FirstId}, {FirstId}) /\ FirstId[Len(FirstId)] > 0
  /\ FirstId # NoId /\ IdPredecessor(FirstId) = NoId
<1>1. FirstId = <<1, 1>> /\ 1 \in Nat
  BY DEF FirstId
<1>2. IsId(FirstId) /\ Len(FirstId) = 2 /\ FirstId[1] = 1 /\ FirstId[2] = 1
  BY <1>1, NodeIdIsId
<1>3. PartsPositive(FirstId)
  BY <1>2 DEF PartsPositive
<1>4. IsFiniteSet({FirstId})
  BY FS_Singleton
<1>5. \A m \in 2..(Len(FirstId) - 1) : FALSE
  BY <1>2
<1>6. IdsSound({FirstId}, {FirstId})
  BY <1>2, <1>3, <1>4, <1>5 DEF IdsSound
<1>7. IdPredecessor(FirstId) = NoId
  BY <1>2 DEF IdPredecessor
<1> QED
  BY <1>1, <1>2, <1>6, <1>7 DEF NoId

\* The tables of the first revision.
LEMMA InitTables ==
  ASSUME Init
  PROVE  \E C : /\ Sound(db, C) /\ TextsRight(C, nodes, txn, text, props)
                /\ NamesRight(db, nodes)
                /\ \A id \in DOMAIN nodes : nodes[id] \in NodeType
<1>1. PICK a, b, c : a = <<0>> /\ b = NextKey(a) /\ c = NextKey(b)
  OBVIOUS
<1>2. a \in Key /\ b \in Key /\ c \in Key
  <2>1. a \in Key
    <3>1. PICK D : D = 0..(Base - 1)
      OBVIOUS
    <3>2. 0 \in D
      BY <3>1, RepsAssumption
    <3>3. a \in Seq(D) /\ a # <<>>
      BY <1>1, <3>2
    <3> QED
      BY <3>1, <3>3 DEF Key
  <2>2. b \in Key
    BY <1>1, <2>1, NextKeyCounts
  <2> QED
    BY <1>1, <2>1, <2>2, NextKeyCounts
<1>3. PICK x, y, z : x = KeyValue(a) /\ y = KeyValue(b) /\ z = KeyValue(c)
  OBVIOUS
<1>4. x \in Nat /\ y = x + 1 /\ z = y + 1
  <2>1. x \in Nat /\ y = x + 1
    BY <1>1, <1>2, <1>3, NextKeyCounts
  <2>2. z = y + 1
    BY <1>1, <1>2, <1>3, NextKeyCounts
  <2> QED
    BY <2>1, <2>2
<1>5. a # b /\ KeyValue(a) < KeyValue(c) /\ KeyValue(b) < KeyValue(c)
  <2>1. x # y /\ x < z /\ y < z
    BY <1>4
  <2> QED
    BY <1>3, <2>1
<1>6. PICK S, R : /\ S = [k \in {a, b} |-> IF k = a THEN FirstRecords ELSE <<FirstProps>>]
                  /\ R = [k \in {a, b} |-> Fulltext(k, FALSE)]
  OBVIOUS
<1>7. db = [strings |-> S, reps |-> R, nextString |-> c, nextRep |-> c]
  BY <1>1, <1>6 DEF Init
<1>8. db.strings = S /\ db.reps = R /\ db.nextString = c /\ db.nextRep = c
  BY <1>7
<1>9. PICK first : first = FlattenSeq(FirstRecords)
  OBVIOUS
<1>10. /\ first \in Text /\ FirstRecords \in Seq(Seq(Int)) \ {<<>>}
       /\ FirstProps \in Text /\ <<FirstProps>> \in Seq(Seq(Int)) \ {<<>>}
       /\ FlattenSeq(<<FirstProps>>) = FirstProps
  <2>1. FirstRecords \in Seq(Seq(Nat \ {0})) /\ FirstRecords # <<>>
    BY RepsAssumption
  <2>2. <<>> \in Seq(Nat \ {0})
    OBVIOUS
  <2>3. first \in Text
    BY <1>9, <2>1, <2>2, FlattenAppend DEF Text
  <2>4. FirstRecords \in Seq(Seq(Int))
    BY <2>1
  <2>5. FirstProps \in Text /\ FirstProps \in Seq(Int)
    <3>1. FirstProps \in PropLists \cup {FirstProps}
      OBVIOUS
    <3>2. FirstProps \in Seq(Nat \ {0})
      BY <3>1, RepsAssumption
    <3> QED
      BY <3>2 DEF Text
  <2>6. FlattenSeq(<<FirstProps>>) = FirstProps
    BY <2>5, FlattenOneTwo
  <2> QED
    BY <2>1, <2>3, <2>4, <2>5, <2>6
<1>11. PICK ra, rb : ra = Fulltext(a, FALSE) /\ rb = Fulltext(b, FALSE)
  OBVIOUS
<1>12. /\ ra \in RepType /\ ra.string = a /\ ra.kind = "fulltext" /\ ra.mutable = FALSE
       /\ rb \in RepType /\ rb.string = b /\ rb.kind = "fulltext" /\ rb.mutable = FALSE
  BY <1>2, <1>11, FulltextFields
<1>13. /\ DOMAIN S = {a, b} /\ S[a] = FirstRecords /\ S[b] = <<FirstProps>>
       /\ DOMAIN R = {a, b} /\ R[a] = ra /\ R[b] = rb
  BY <1>5, <1>6, <1>11
<1>14. TablesType(db)
  <2>1. PICK Q : Q = Seq(Seq(Int)) \ {<<>>}
    OBVIOUS
  <2>2. S \in [{a, b} -> Q]
    BY <1>6, <1>10, <2>1
  <2>3. R \in [{a, b} -> RepType]
    BY <1>6, <1>11, <1>12
  <2> QED
    BY <1>2, <1>7, <1>8, <1>13, <2>1, <2>2, <2>3 DEF TablesType
<1>15. Owned(db) /\ Below(db)
  <2>1. Owned(db)
    BY <1>5, <1>8, <1>12, <1>13 DEF Owned
  <2>2. Below(db)
    BY <1>5, <1>8, <1>13 DEF Below
  <2> QED
    BY <2>1, <2>2
<1>16. PICK C : C = [k \in {a, b} |-> IF k = a THEN first ELSE FirstProps]
  OBVIOUS
<1>17. C[a] = first /\ C[b] = FirstProps /\ C \in [{a, b} -> Text]
  BY <1>5, <1>10, <1>16
<1>18. StandsFor(db, C, a) /\ StandsFor(db, C, b)
  BY <1>8, <1>9, <1>10, <1>12, <1>13, <1>17 DEF StandsFor
<1>19. Sound(db, C)
  BY <1>8, <1>13, <1>14, <1>15, <1>17, <1>18 DEF Sound
<1>20. /\ DOMAIN nodes = {FirstId}
       /\ nodes[FirstId] = [prop |-> b, data |-> a, edit |-> NoKey, mutable |-> FALSE]
       /\ nodes[FirstId].prop = b /\ nodes[FirstId].data = a
       /\ nodes[FirstId].edit = NoKey /\ nodes[FirstId].mutable = FALSE
       /\ text[FirstId] = first /\ props[FirstId] = FirstProps
       /\ \A t \in Txns : txn[t].stream = "none"
  <2>1. nodes = [id \in {FirstId} |-> [prop |-> b, data |-> a,
                                       edit |-> NoKey, mutable |-> FALSE]]
    BY <1>1 DEF Init
  <2>2. text[FirstId] = first /\ props[FirstId] = FirstProps
    BY <1>9 DEF Init
  <2>3. \A t \in Txns : txn[t].stream = "none"
    BY DEF Init, NoTxn
  <2> QED
    BY <2>1, <2>2, <2>3
<1>21. TextsRight(C, nodes, txn, text, props)
  <2>1. \A t \in Txns : SentRight(C, txn[t], nodes)
    BY <1>20 DEF SentRight
  <2>2. C[nodes[FirstId].data] = text[FirstId] /\ C[nodes[FirstId].prop] = props[FirstId]
    BY <1>17, <1>20
  <2> QED
    BY <1>20, <2>1, <2>2 DEF TextsRight
<1>22. NamesRight(db, nodes)
  <2>1. a # NoKey /\ b # NoKey
    BY <1>2 DEF Key, NoKey
  <2>2. KeysOf(nodes[FirstId]) = {a, b}
    BY <1>20, <2>1 DEF KeysOf
  <2>3. NodeRight(db, nodes[FirstId])
    <3>1. \A k \in {a, b} : k \in DOMAIN db.reps /\ ~db.reps[k].mutable
      BY <1>8, <1>12, <1>13
    <3>2. KeysOf(nodes[FirstId]) \subseteq DOMAIN db.reps
      BY <2>2, <3>1
    <3> QED
      BY <1>5, <1>20, <2>2, <3>1, <3>2 DEF NodeRight
  <2> QED
    BY <1>8, <1>13, <1>20, <2>2, <2>3 DEF NamesRight
<1>23. nodes[FirstId] \in NodeType
  BY <1>2, <1>20 DEF NodeType
<1> QED
  BY <1>19, <1>20, <1>21, <1>22, <1>23

\* The invariant holds initially.
LEMMA RepsInit ==
  ASSUME Init
  PROVE  RepsInv
<1>1. PICK C : /\ Sound(db, C) /\ TextsRight(C, nodes, txn, text, props)
               /\ NamesRight(db, nodes)
               /\ \A id \in DOMAIN nodes : nodes[id] \in NodeType
  BY InitTables
<1>2. /\ DOMAIN nodes = {FirstId} /\ nodes[FirstId].mutable = FALSE
      /\ nodes = [id \in {FirstId} |-> nodes[id]] /\ head = FirstId
  BY DEF Init
<1>3. Fixed(nodes) = {FirstId}
  BY <1>2 DEF Fixed
<1>4. NodesShape(nodes, text, props)
  <2>1. FlattenSeq(FirstRecords) \in Text /\ FirstProps \in Text
    <3>1. FirstRecords \in Seq(Seq(Nat \ {0})) /\ <<>> \in Seq(Nat \ {0})
      BY RepsAssumption
    <3> QED
      BY <3>1, FlattenAppend, RepsAssumption DEF Text
  <2>2. text \in [{FirstId} -> Text] /\ props \in [{FirstId} -> Text]
    BY <2>1 DEF Init
  <2>3. nodes \in [{FirstId} -> NodeType]
    BY <1>1, <1>2
  <2> QED
    BY <1>2, <1>3, <2>2, <2>3, FirstIdSound DEF NodesShape
<1>5. OrderRight(nodes, head)
  BY <1>2, <1>3, FirstIdSound DEF OrderRight, MadeBefore, KeyBefore
<1>6. TxnsRight(txn, nodes)
  <2>1. NoTxn("none") \in TxnType
    BY DEF NoTxn, TxnType, NoId, Text
  <2>2. txn \in [Txns -> TxnType]
    BY <2>1 DEF Init
  <2>3. \A t \in Txns : /\ txn[t].state = "none" /\ txn[t].node = NoId
                        /\ txn[t].stream = "none"
    BY DEF Init, NoTxn
  <2> QED
    BY <1>2, <2>2, <2>3 DEF TxnsRight, TxnRight
<1>7. GotRight(reader, nodes, text)
  <2>1. [node |-> NoId, got |-> <<>>] \in ReaderType
    BY DEF ReaderType, NoId, Text
  <2> QED
    BY <2>1 DEF Init, GotRight
<1> QED
  BY <1>1, <1>4, <1>5, <1>6, <1>7 DEF RepsInv, NodesInv

-----------------------------------------------------------------------------
(* Node revisions and the representations they name *)

\* What a node revision names is in the table.
LEMMA NodeFacts ==
  ASSUME NEW s, NEW N, NEW T, NEW P, NodesShape(N, T, P), NamesRight(s, N),
         NEW id \in DOMAIN N
  PROVE  /\ N[id] \in NodeType /\ T[id] \in Text /\ P[id] \in Text
         /\ N[id].prop \in Key /\ N[id].data \in Key
         /\ N[id].prop \in DOMAIN s.reps /\ N[id].data \in DOMAIN s.reps
         /\ N[id].edit = NoKey \/ N[id].edit \in DOMAIN s.reps
         /\ NodeRight(s, N[id]) /\ id # NoId
         /\ N[id].prop # NoKey /\ N[id].data # NoKey
<1>1. PICK n : n = N[id]
  OBVIOUS
<1>2. n \in NodeType /\ T[id] \in Text /\ P[id] \in Text
  BY <1>1 DEF NodesShape
<1>3. n.prop \in Key /\ n.data \in Key
  BY <1>2 DEF NodeType
<1>4. n.prop # NoKey /\ n.data # NoKey
  BY <1>3 DEF Key, NoKey
<1>5. NodeRight(s, n)
  BY <1>1 DEF NamesRight
<1>6. /\ n.prop \in DOMAIN s.reps /\ n.data \in DOMAIN s.reps
      /\ n.edit = NoKey \/ n.edit \in DOMAIN s.reps
  BY <1>4, <1>5 DEF NodeRight, KeysOf
<1>7. id # NoId
  <2>1. IsId(id)
    BY DEF NodesShape, IdsSound
  <2>2. Len(id) >= 2 /\ Len(id) \in Nat
    BY <2>1, Components
  <2> QED
    BY <2>2 DEF NoId
<1> QED
  BY <1>1, <1>2, <1>3, <1>4, <1>5, <1>6, <1>7

\* The order of making is transitive.
LEMMA MadeBeforeTransitive ==
  ASSUME NEW a \in NodeType, NEW b \in NodeType, NEW c \in NodeType,
         MadeBefore(a, b), MadeBefore(b, c)
  PROVE  MadeBefore(a, c)
<1>1. ASSUME NEW k \in Key, NEW l \in Key, NEW m \in Key, KeyBefore(k, l), KeyBefore(l, m)
      PROVE  KeyBefore(k, m)
  <2>1. KeyValue(k) \in Nat /\ KeyValue(l) \in Nat /\ KeyValue(m) \in Nat
    BY NextKeyCounts
  <2> QED
    BY <1>1, <2>1 DEF KeyBefore
<1>2. /\ a.prop \in Key /\ b.prop \in Key /\ c.prop \in Key
      /\ a.data \in Key /\ b.data \in Key /\ c.data \in Key
  BY DEF NodeType
<1>3. /\ KeyBefore(a.prop, b.prop) /\ KeyBefore(a.data, b.data)
      /\ KeyBefore(b.prop, c.prop) /\ KeyBefore(b.data, c.data)
  BY DEF MadeBefore
<1>4. KeyBefore(a.prop, c.prop)
  BY <1>1, <1>2, <1>3
<1>5. KeyBefore(a.data, c.data)
  BY <1>1, <1>2, <1>3
<1> QED
  BY <1>4, <1>5 DEF MadeBefore

\* Names are as right as they were when the same representations are there.
LEMMA SameRepsNames ==
  ASSUME NEW s, NEW u, NEW N, NamesRight(s, N), SameReps(s, u)
  PROVE  NamesRight(u, N)
<1>1. /\ DOMAIN u.reps = DOMAIN s.reps
      /\ \A k \in DOMAIN s.reps : u.reps[k].mutable = s.reps[k].mutable
  BY DEF SameReps
<1>2. \A id \in DOMAIN N : NodeRight(s, N[id])
  BY DEF NamesRight
<1>3. ASSUME NEW id \in DOMAIN N
      PROVE  NodeRight(u, N[id])
  <2>1. PICK n : n = N[id]
    OBVIOUS
  <2>2. NodeRight(s, n)
    BY <1>2, <2>1
  <2>3. \A k \in KeysOf(n) : k \in DOMAIN s.reps /\ k \in DOMAIN u.reps
                             /\ u.reps[k].mutable = s.reps[k].mutable
    BY <1>1, <2>2 DEF NodeRight
  <2>4. n.edit # NoKey => n.edit \in KeysOf(n)
    BY DEF KeysOf
  <2> QED
    BY <2>1, <2>2, <2>3, <2>4 DEF NodeRight
<1>4. ASSUME NEW id1 \in DOMAIN N, NEW id2 \in DOMAIN N, id1 # id2,
             NEW k \in KeysOf(N[id1]) \cap KeysOf(N[id2])
      PROVE  ~u.reps[k].mutable
  <2>1. ~s.reps[k].mutable
    BY <1>4 DEF NamesRight
  <2>2. k \in DOMAIN s.reps
    BY <1>2 DEF NodeRight
  <2> QED
    BY <1>1, <2>1, <2>2
<1>5. \A k \in DOMAIN u.reps :
        \E id \in DOMAIN N : k \in KeysOf(N[id]) /\ (u.reps[k].mutable \/ ~N[id].mutable)
  BY <1>1 DEF NamesRight
<1> QED
  BY <1>3, <1>4, <1>5 DEF NamesRight

\* What the invariant says, with the texts it speaks of.
LEMMA RepsInvTexts ==
  ASSUME RepsInv
  PROVE  \E C : Sound(db, C) /\ TextsRight(C, nodes, txn, text, props)
BY DEF RepsInv

\* The predecessors of the two ID's svn_fs_deltify looks for.
LEMMA PredecessorOfNext ==
  ASSUME NEW id, IsId(id), id[Len(id)] > 0
  PROVE  /\ IdPredecessor([id EXCEPT ![Len(id)] = @ + 1]) = id
         /\ IdPredecessor(id \o <<1, 1>>) = id
<1>1. PICK n : n = Len(id)
  OBVIOUS
<1>2. n \in Nat /\ n >= 2 /\ id \in Seq(Nat) /\ id[n] \in Nat /\ id[n] > 0
  BY <1>1, Components, FirstAndLast
<1>3. PICK next : next = [id EXCEPT ![n] = id[n] + 1]
  OBVIOUS
<1>4. next \in Seq(Nat) /\ Len(next) = n /\ next[n] = id[n] + 1
  BY <1>1, <1>2, <1>3
<1>5. next[n] - 1 > 0 /\ next[n] - 1 = id[n]
  BY <1>2, <1>4, SMTT(30)
<1>6. IdPredecessor(next) = [next EXCEPT ![n] = id[n]]
  BY <1>4, <1>5 DEF IdPredecessor
<1>7. [next EXCEPT ![n] = id[n]] = id
  <2>1. PICK q : q = [next EXCEPT ![n] = id[n]]
    OBVIOUS
  <2>2. q \in Seq(Nat) /\ Len(q) = n
    BY <1>2, <1>4, <2>1
  <2>3. \A j \in 1..n : j # n => next[j] = id[j]
    BY <1>1, <1>2, <1>3
  <2>4. \A j \in 1..n : q[j] = id[j]
    BY <1>2, <1>4, <2>1, <2>3
  <2>5. q = id
    <3>1. Len(q) = Len(id) /\ \A j \in 1..Len(q) : q[j] = id[j]
      BY <1>1, <2>2, <2>4
    <3> QED
      BY <1>2, <2>2, <3>1, SeqEqual
  <2> QED
    BY <2>1, <2>5
<1>8. PICK b : b = id \o <<1, 1>>
  OBVIOUS
<1>9. /\ IsId(b) /\ Len(b) = n + 2
      /\ \A j \in 1..n : b[j] = id[j]
      /\ b[n + 2] = 1
  <2>1. 1 \in Nat
    OBVIOUS
  <2> QED
    BY <1>1, <1>8, <2>1, BranchIsId
<1>10. b \in Seq(Nat)
  BY <1>9, Components
<1>11. IdPredecessor(b) = SubSeq(b, 1, n)
  BY <1>2, <1>9 DEF IdPredecessor
<1>12. SubSeq(b, 1, n) = id
  <2>1. SubSeq(b, 1, n) \in Seq(Nat) /\ Len(SubSeq(b, 1, n)) = n
        /\ \A j \in 1..n : SubSeq(b, 1, n)[j] = b[j]
    BY <1>2, <1>9, <1>10
  <2> QED
    BY <1>1, <1>2, <1>9, <2>1
<1> QED
  BY <1>1, <1>3, <1>6, <1>7, <1>8, <1>11, <1>12

-----------------------------------------------------------------------------
(* svnadmin *)

\* Only the tables change, and they stand for the same texts.
LEMMA TablesStep ==
  ASSUME RepsInv, NEW C, Sound(db, C), TextsRight(C, nodes, txn, text, props),
         Sound(db', C), SameReps(db, db'),
         UNCHANGED <<nodes, head, txn, reader, text, props>>
  PROVE  RepsInv'
<1>1. NodesInv
  BY DEF RepsInv
<1>2. NamesRight(db', nodes)
  BY <1>1, SameRepsNames DEF NodesInv
<1>3. /\ nodes' = nodes /\ head' = head /\ txn' = txn /\ reader' = reader
      /\ text' = text /\ props' = props
  OBVIOUS
<1>4. /\ NodesShape(nodes', text', props') /\ NamesRight(db', nodes')
      /\ OrderRight(nodes', head') /\ TxnsRight(txn', nodes')
      /\ GotRight(reader', nodes', text')
  BY <1>1, <1>2, <1>3 DEF NodesInv
<1>5. TextsRight(C, nodes', txn', text', props')
  BY <1>3
<1> QED
  BY <1>1, <1>4, <1>5 DEF RepsInv, NodesInv

\* svn_fs_deltify, unless it is against an open transaction.  The node
\* revision of one that has not changed the properties or the text has the
\* same representation as its predecessor, and nothing is done.
LEMMA DeltifyStep ==
  ASSUME RepsInv, NEW id \in Committed, SvnadminDeltify(id), ~tainted'
  PROVE  RepsInv'
<1>1. NodesInv
  BY DEF RepsInv
<1>2. PICK C : Sound(db, C) /\ TextsRight(C, nodes, txn, text, props)
  BY RepsInvTexts
<1>3. PICK next, branch : next = [id EXCEPT ![Len(id)] = @ + 1] /\ branch = id \o <<1, 1>>
  OBVIOUS
<1>4. PICK source : /\ source = next \/ source = branch
                    /\ source \in DOMAIN nodes
                    /\ \E saves \in Savings :
                         db' = Deltify(db, nodes[id], nodes[source], saves)
                    /\ ~AgainstOpen(nodes[id], nodes[source])
  BY <1>3 DEF SvnadminDeltify
<1>5. PICK saves : db' = Deltify(db, nodes[id], nodes[source], saves)
  BY <1>4
<1>6. id \in DOMAIN nodes /\ ~nodes[id].mutable /\ id \in Fixed(nodes)
  BY DEF Committed, Fixed
<1>7. IsId(id) /\ id[Len(id)] > 0 /\ id # NoId
  <2>1. IsId(id) /\ id[Len(id)] > 0
    BY <1>1, <1>6 DEF NodesInv, NodesShape, IdsSound
  <2>2. id # NoId
    BY <1>1, <1>6, NodeFacts DEF NodesInv
  <2> QED
    BY <2>1, <2>2
<1>8. IdPredecessor(source) = id
  BY <1>3, <1>4, <1>7, PredecessorOfNext
<1>11. PICK a, b : a = nodes[id] /\ b = nodes[source]
  OBVIOUS
<1>12. /\ a.prop \in DOMAIN db.reps /\ a.data \in DOMAIN db.reps
       /\ NodeRight(db, a) /\ a.prop # NoKey /\ a.data # NoKey
  BY <1>1, <1>6, <1>11, NodeFacts DEF NodesInv
<1>13. /\ b.prop \in DOMAIN db.reps /\ b.data \in DOMAIN db.reps
       /\ NodeRight(db, b) /\ b.prop # NoKey /\ b.data # NoKey
  BY <1>1, <1>4, <1>11, NodeFacts DEF NodesInv
<1>14. ~db.reps[a.prop].mutable /\ ~db.reps[a.data].mutable
  BY <1>6, <1>11, <1>12 DEF NodeRight, KeysOf
<1>17. PICK s, u : s = db /\ u = db'
  OBVIOUS
<1>18. Sound(u, C) /\ SameReps(s, u)
  <2>1. CASE ~b.mutable
    <3>1. source \in Fixed(nodes)
      BY <1>4, <1>11, <2>1 DEF Fixed
    <3>2. MadeBefore(nodes[id], nodes[source])
      BY <1>1, <1>7, <1>8, <3>1 DEF NodesInv, OrderRight
    <3>3. KeyBefore(a.prop, b.prop) /\ KeyBefore(a.data, b.data)
      BY <1>11, <3>2 DEF MadeBefore
    <3>4. ~db.reps[b.prop].mutable /\ ~db.reps[b.data].mutable
      BY <1>13, <2>1 DEF NodeRight, KeysOf
    <3>5. /\ Sound(s, C) /\ a.prop \in DOMAIN s.reps /\ a.data \in DOMAIN s.reps
          /\ b.prop \in DOMAIN s.reps /\ b.data \in DOMAIN s.reps
          /\ ~s.reps[a.prop].mutable /\ ~s.reps[a.data].mutable
          /\ ~s.reps[b.prop].mutable /\ ~s.reps[b.data].mutable
          /\ u = Deltify(s, a, b, saves)
      BY <1>2, <1>5, <1>11, <1>12, <1>13, <1>14, <1>17, <3>4
    <3> QED
      BY <3>3, <3>5, DeltifySound
  <2>2. CASE b.mutable
    <3>1. b.prop = a.prop /\ b.data = a.data
      BY <1>4, <1>11, <2>2 DEF AgainstOpen
    <3>2. u = Deltify(s, a, b, saves)
      BY <1>5, <1>11, <1>17
    <3>3. u = s
      BY <3>1, <3>2, Zenon DEF Deltify
    <3> QED
      BY <1>2, <1>17, <3>3 DEF SameReps
  <2> QED
    BY <2>1, <2>2
<1>19. UNCHANGED <<nodes, head, txn, reader, text, props>>
  BY DEF SvnadminDeltify
<1> QED
  BY <1>2, <1>17, <1>18, <1>19, TablesStep

\* svn_fs_undeltify
LEMMA UndeltifyStep ==
  ASSUME RepsInv, NEW id \in Committed, SvnadminUndeltify(id)
  PROVE  RepsInv'
<1>1. NodesInv
  BY DEF RepsInv
<1>2. PICK C : Sound(db, C) /\ TextsRight(C, nodes, txn, text, props)
  BY RepsInvTexts
<1>3. PICK n, s : n = nodes[id] /\ s = db
  OBVIOUS
<1>4. n.prop \in DOMAIN s.reps /\ n.data \in DOMAIN s.reps
  BY <1>1, <1>3, NodeFacts DEF NodesInv, Committed
<1>5. PICK v, u, p, d : /\ v = RepUndeltify(s, p) /\ u = RepUndeltify(v, d)
                        /\ p = n.prop /\ d = n.data
  OBVIOUS
<1>6. Sound(v, C) /\ SameReps(s, v)
  BY <1>2, <1>3, <1>4, <1>5, RepUndeltifySound
<1>7. d \in DOMAIN v.reps
  BY <1>4, <1>5, <1>6 DEF SameReps
<1>8. Sound(u, C) /\ SameReps(v, u)
  BY <1>5, <1>6, <1>7, RepUndeltifySound
<1>9. SameReps(s, u)
  BY <1>6, <1>8 DEF SameReps
<1>10. db' = u /\ UNCHANGED <<nodes, head, txn, reader, text, props>>
  BY <1>3, <1>5 DEF SvnadminUndeltify
<1> QED
  BY <1>2, <1>3, <1>8, <1>9, <1>10, TablesStep

-----------------------------------------------------------------------------
(* Readers *)

\* What was read of a text, and the next piece of it.
LEMMA PrefixGrows ==
  ASSUME NEW t \in Text, NEW got \in Text, IsPrefix(got, t), NEW n \in Nat,
         NEW piece, piece = TextPart(t, Len(got), n)
  PROVE  piece \in Text /\ got \o piece \in Text /\ IsPrefix(got \o piece, t)
<1>1. PICK g, l, m : g = Len(got) /\ l = Len(t) /\ m = IF g + n <= l THEN g + n ELSE l
  OBVIOUS
<1>2. /\ t \in Seq(Nat \ {0}) /\ got \in Seq(Nat \ {0}) /\ g \in Nat /\ l \in Nat
      /\ g <= l /\ SubSeq(got, 1, g) = SubSeq(t, 1, g)
  BY <1>1 DEF Text, IsPrefix
<1>3. m \in Nat /\ g <= m /\ m <= l
  BY <1>1, <1>2
<1>4. piece = SubSeq(t, g + 1, m)
  <2>1. g + n \in Int /\ l \in Int
    BY <1>2
  <2>2. Min({g + n, l}) = m
    BY <1>1, <2>1, MinOfTwo
  <2> QED
    BY <1>1, <2>2 DEF TextPart
<1>5. SubSeq(got, 1, g) = got
  BY <1>1, <1>2
<1>6. SubSeq(t, 0 + 1, g) \o SubSeq(t, g + 1, m) = SubSeq(t, 0 + 1, m)
  <2>1. 0 \in Nat /\ 0 <= g /\ m <= Len(t)
    BY <1>1, <1>2, <1>3
  <2> QED
    BY <1>2, <1>3, <2>1, AdjacentParts, SMTT(30)
<1>7. got \o piece = SubSeq(t, 1, m)
  <2>1. 0 + 1 = 1
    OBVIOUS
  <2>2. SubSeq(t, 1, g) = got
    BY <1>2, <1>5
  <2>3. SubSeq(t, 1, g) \o SubSeq(t, g + 1, m) = SubSeq(t, 1, m)
    BY <1>6, <2>1
  <2> QED
    BY <1>4, <2>2, <2>3
<1>8. piece \in Seq(Nat \ {0}) /\ SubSeq(t, 1, m) \in Seq(Nat \ {0}) /\ Len(SubSeq(t, 1, m)) = m
  <2>1. \A i \in 1..l : t[i] \in Nat \ {0}
    BY <1>1, <1>2
  <2>2. \A i \in (g + 1)..m : t[i] \in Nat \ {0}
    BY <1>2, <1>3, <2>1
  <2>3. \A i \in 1..m : t[i] \in Nat \ {0}
    BY <1>3, <1>2, <2>1
  <2>4. g + 1 \in Int /\ 1 \in Int /\ m \in Int
    BY <1>2, <1>3
  <2>5. SubSeq(t, g + 1, m) \in Seq(Nat \ {0})
    BY <2>2, <2>4, SubSeqProperties
  <2>6. SubSeq(t, 1, m) \in Seq(Nat \ {0})
        /\ Len(SubSeq(t, 1, m)) = IF 1 <= m THEN m - 1 + 1 ELSE 0
    BY <2>3, <2>4, SubSeqProperties
  <2> QED
    BY <1>3, <1>4, <2>5, <2>6
<1>9. SubSeq(SubSeq(t, 1, m), 1, m) = SubSeq(t, 1, m)
  BY <1>3, <1>8
<1> QED
  BY <1>1, <1>3, <1>7, <1>8, <1>9 DEF Text, IsPrefix

\* Only readers change.
LEMMA ReaderStep ==
  ASSUME RepsInv, GotRight(reader', nodes, text),
         UNCHANGED <<db, nodes, head, txn, text, props>>
  PROVE  RepsInv'
<1>1. NodesInv
  BY DEF RepsInv
<1>2. PICK C : Sound(db, C) /\ TextsRight(C, nodes, txn, text, props)
  BY RepsInvTexts
<1>3. /\ nodes' = nodes /\ head' = head /\ txn' = txn /\ db' = db
      /\ text' = text /\ props' = props
  OBVIOUS
<1>4. /\ NodesShape(nodes', text', props') /\ NamesRight(db', nodes')
      /\ OrderRight(nodes', head') /\ TxnsRight(txn', nodes')
      /\ GotRight(reader', nodes', text')
  BY <1>1, <1>3 DEF NodesInv
<1>5. Sound(db', C) /\ TextsRight(C, nodes', txn', text', props')
  BY <1>2, <1>3
<1> QED
  BY <1>1, <1>4, <1>5 DEF RepsInv, NodesInv

\* svn_fs_file_contents
LEMMA FileContentsStep ==
  ASSUME RepsInv, NEW r \in Readers, NEW id \in Committed, FileContents(r, id)
  PROVE  RepsInv'
<1>1. NodesInv /\ GotRight(reader, nodes, text)
  BY DEF RepsInv, NodesInv
<1>2. id \in Fixed(nodes) /\ id \in DOMAIN nodes
  BY DEF Fixed, Committed
<1>3. id # NoId /\ id \in Seq(Nat) /\ text[id] \in Text
  <2>1. IsId(id)
    BY <1>1, <1>2 DEF NodesInv, NodesShape, IdsSound
  <2> QED
    BY <1>1, <1>2, <2>1, NodeFacts, Components DEF NodesInv
<1>4. reader \in [Readers -> ReaderType] /\ reader[r].got = <<>> /\ reader[r] \in ReaderType
  BY <1>1 DEF GotRight, FileContents
<1>5. PICK x : x = [reader[r] EXCEPT !.node = id]
  OBVIOUS
<1>6. x \in ReaderType /\ x.node = id /\ x.got = <<>>
  BY <1>3, <1>4, <1>5 DEF ReaderType
<1>7. reader' = [reader EXCEPT ![r] = x]
  BY <1>5 DEF FileContents
<1>8. IsPrefix(<<>>, text[id])
  <2>1. Len(text[id]) \in Nat /\ text[id] \in Seq(Nat \ {0}) /\ Len(<<>>) = 0
    BY <1>3 DEF Text
  <2>2. SubSeq(text[id], 1, 0) = <<>> /\ SubSeq(<<>>, 1, 0) = <<>>
    BY <2>1
  <2> QED
    BY <2>1, <2>2 DEF IsPrefix
<1>9. reader' \in [Readers -> ReaderType]
  BY <1>4, <1>6, <1>7
<1>10. reader'[r] = x /\ \A q \in Readers : q # r => reader'[q] = reader[q]
  BY <1>4, <1>7
<1>11. GotRight(reader', nodes, text)
  BY <1>1, <1>2, <1>3, <1>6, <1>8, <1>9, <1>10 DEF GotRight
<1> QED
  BY <1>11, ReaderStep DEF FileContents

\* rep_read_contents
LEMMA ReadContentsStep ==
  ASSUME RepsInv, NEW r \in Readers, Read(r)
  PROVE  RepsInv'
<1>1. NodesInv /\ GotRight(reader, nodes, text)
  BY DEF RepsInv, NodesInv
<1>2. PICK C : Sound(db, C) /\ TextsRight(C, nodes, txn, text, props)
  BY RepsInvTexts
<1>3. PICK id, got, t : id = reader[r].node /\ got = reader[r].got /\ t = text[id]
  OBVIOUS
<1>4. id # NoId /\ reader[r] \in ReaderType /\ reader \in [Readers -> ReaderType]
  BY <1>1, <1>3 DEF GotRight, Read
<1>5. id \in Fixed(nodes) /\ IsPrefix(got, t) /\ id \in DOMAIN nodes
  BY <1>1, <1>3, <1>4 DEF GotRight, Fixed
<1>6. PICK key : key = nodes[id].data
  OBVIOUS
<1>7. key \in DOMAIN db.reps /\ key # NoKey /\ t \in Text
  BY <1>1, <1>3, <1>5, <1>6, NodeFacts DEF NodesInv
<1>8. C[key] = t
  BY <1>2, <1>3, <1>5, <1>6 DEF TextsRight
<1>9. got \in Text /\ Len(got) \in Nat /\ ReadSize \in Nat
  BY <1>3, <1>4, RepsAssumption DEF ReaderType, Text
<1>10. PICK piece : piece = RepReadRange(db, key, Len(got), ReadSize)
  OBVIOUS
<1>11. piece = TextPart(t, Len(got), ReadSize)
  BY <1>2, <1>7, <1>8, <1>9, <1>10, ReadRangeExact
<1>12. got \o piece \in Text /\ IsPrefix(got \o piece, t)
  BY <1>5, <1>7, <1>9, <1>11, PrefixGrows
<1>13. PICK x : x = [reader[r] EXCEPT !.got = got \o piece]
  OBVIOUS
<1>14. x \in ReaderType /\ x.node = id /\ x.got = got \o piece
  BY <1>3, <1>4, <1>12, <1>13 DEF ReaderType
<1>15. reader' = [reader EXCEPT ![r] = x]
  BY <1>3, <1>6, <1>7, <1>10, <1>13 DEF Read
<1>16. reader' \in [Readers -> ReaderType]
  BY <1>4, <1>14, <1>15
<1>17. reader'[r] = x /\ \A q \in Readers : q # r => reader'[q] = reader[q]
  BY <1>4, <1>15
<1>18. GotRight(reader', nodes, text)
  BY <1>1, <1>3, <1>4, <1>5, <1>12, <1>14, <1>16, <1>17 DEF GotRight
<1> QED
  BY <1>18, ReaderStep DEF Read

-----------------------------------------------------------------------------
(* Transactions: steps that keep their node revision *)

\* A mutable representation is named by one node revision only.
LEMMA MutableHasOneOwner ==
  ASSUME NEW s, NEW N, NEW T, NEW P, NodesShape(N, T, P), NamesRight(s, N),
         NEW i \in DOMAIN N, NEW k \in KeysOf(N[i]), s.reps[k].mutable,
         NEW j \in DOMAIN N, j # i
  PROVE  k \notin KeysOf(N[j]) /\ k # N[j].prop /\ k # N[j].data /\ k # N[j].edit
<1>1. k \notin KeysOf(N[j])
  BY DEF NamesRight
<1>2. k # NoKey
  BY DEF KeysOf
<1> QED
  BY <1>1, <1>2 DEF KeysOf

\* The record of one transaction changes, but not the node revision it has.
LEMMA TxnStep ==
  ASSUME RepsInv, NEW t \in Txns, NEW x \in TxnType, txn' = [txn EXCEPT ![t] = x],
         x.node = txn[t].node, TxnRight(x, nodes),
         NEW D, Sound(db', D), SameReps(db, db'),
         \A id \in DOMAIN nodes :
           D[nodes[id].data] = text[id] /\ D[nodes[id].prop] = props[id],
         SentRight(D, x, nodes),
         \A u \in Txns : u # t => SentRight(D, txn[u], nodes),
         UNCHANGED <<nodes, head, reader, text, props>>
  PROVE  RepsInv'
<1>1. NodesInv /\ TxnsRight(txn, nodes)
  BY DEF RepsInv, NodesInv
<1>2. NamesRight(db', nodes)
  BY <1>1, SameRepsNames DEF NodesInv
<1>3. /\ nodes' = nodes /\ head' = head /\ reader' = reader
      /\ text' = text /\ props' = props
  OBVIOUS
<1>4. txn \in [Txns -> TxnType]
  BY <1>1 DEF TxnsRight
<1>5. txn' \in [Txns -> TxnType] /\ txn'[t] = x /\ \A u \in Txns : u # t => txn'[u] = txn[u]
  BY <1>4
<1>6. TxnsRight(txn', nodes)
  <2>1. \A u \in Txns : txn'[u].node = txn[u].node
    BY <1>5
  <2>2. \A u \in Txns : TxnRight(txn'[u], nodes)
    BY <1>1, <1>5 DEF TxnsRight
  <2>3. \A u, v \in Txns : u # v /\ txn'[u].node # NoId => txn'[v].node # txn'[u].node
    BY <1>1, <2>1 DEF TxnsRight
  <2>4. ASSUME NEW id \in DOMAIN nodes, nodes[id].mutable
        PROVE  \E u \in Txns : txn'[u].node = id
    <3>1. PICK u \in Txns : txn[u].node = id
      BY <1>1, <2>4 DEF TxnsRight
    <3> QED
      BY <2>1, <3>1
  <2> QED
    BY <1>5, <2>2, <2>3, <2>4 DEF TxnsRight
<1>7. TextsRight(D, nodes, txn', text, props)
  BY <1>5 DEF TextsRight
<1>8. /\ NodesShape(nodes', text', props') /\ NamesRight(db', nodes')
      /\ OrderRight(nodes', head') /\ TxnsRight(txn', nodes')
      /\ GotRight(reader', nodes', text')
  BY <1>1, <1>2, <1>3, <1>6 DEF NodesInv
<1>9. TextsRight(D, nodes', txn', text', props')
  BY <1>3, <1>7
<1> QED
  BY <1>1, <1>8, <1>9 DEF RepsInv, NodesInv

\* svn_fs_begin_txn
LEMMA BeginStep ==
  ASSUME RepsInv, NEW t \in Txns, Begin(t)
  PROVE  RepsInv'
<1>1. NodesInv /\ TxnsRight(txn, nodes) /\ head \in Fixed(nodes)
  BY DEF RepsInv, NodesInv, OrderRight
<1>2. PICK C : Sound(db, C) /\ TextsRight(C, nodes, txn, text, props)
  BY RepsInvTexts
<1>3. txn \in [Txns -> TxnType] /\ txn[t] \in TxnType /\ TxnRight(txn[t], nodes)
  BY <1>1 DEF TxnsRight
<1>4. PICK x : x = [txn[t] EXCEPT !.state = "open", !.base = head]
  OBVIOUS
<1>5. head \in Seq(Nat)
  <2>1. head \in DOMAIN nodes
    BY <1>1 DEF Fixed
  <2>2. IsId(head)
    BY <1>1, <2>1 DEF NodesInv, NodesShape, IdsSound
  <2> QED
    BY <2>2, Components
<1>6. /\ x \in TxnType /\ x.state = "open" /\ x.base = head /\ x.node = txn[t].node
      /\ x.stream = txn[t].stream
  BY <1>3, <1>4, <1>5 DEF TxnType
<1>7. txn' = [txn EXCEPT ![t] = x]
  BY <1>4 DEF Begin
<1>8. txn[t].node = NoId /\ txn[t].stream = "none"
  BY <1>3 DEF TxnRight, Begin
<1>9. TxnRight(x, nodes)
  BY <1>1, <1>6, <1>8 DEF TxnRight
<1>10. SentRight(C, x, nodes)
  BY <1>6, <1>8 DEF SentRight
<1>11. db' = db /\ SameReps(db, db')
  BY DEF Begin, SameReps
<1>12. /\ \A id \in DOMAIN nodes :
            C[nodes[id].data] = text[id] /\ C[nodes[id].prop] = props[id]
       /\ \A u \in Txns : u # t => SentRight(C, txn[u], nodes)
  BY <1>2 DEF TextsRight
<1>13. UNCHANGED <<nodes, head, reader, text, props>>
  BY DEF Begin
<1>14. Sound(db', C)
  BY <1>2, <1>11
<1> QED
  BY <1>6, <1>7, <1>9, <1>10, <1>11, <1>12, <1>13, <1>14, TxnStep

\* What an open stream is on.
LEMMA StreamFacts ==
  ASSUME RepsInv, NEW C, Sound(db, C), TextsRight(C, nodes, txn, text, props),
         NEW t \in Txns, txn[t].stream # "none"
  PROVE  /\ txn[t].node # NoId /\ txn[t].node \in DOMAIN nodes
         /\ txn[t].state = "open" /\ nodes[txn[t].node].mutable
         /\ nodes[txn[t].node].edit \in DOMAIN db.reps
         /\ nodes[txn[t].node].edit # NoKey
         /\ nodes[txn[t].node].edit \in KeysOf(nodes[txn[t].node])
         /\ db.reps[nodes[txn[t].node].edit].mutable
         /\ nodes[txn[t].node].edit # nodes[txn[t].node].prop
         /\ nodes[txn[t].node].edit # nodes[txn[t].node].data
         /\ C[nodes[txn[t].node].edit] \in Text
         /\ C[nodes[txn[t].node].edit] \o txn[t].buf = txn[t].sent
<1>1. NodesInv /\ TxnsRight(txn, nodes)
  BY DEF RepsInv, NodesInv
<1>2. TxnRight(txn[t], nodes) /\ SentRight(C, txn[t], nodes)
  BY <1>1 DEF TxnsRight, TextsRight
<1>3. PICK i, n : i = txn[t].node /\ n = nodes[i]
  OBVIOUS
<1>4. i # NoId /\ i \in DOMAIN nodes /\ n.mutable /\ n.edit # NoKey /\ txn[t].state = "open"
  BY <1>2, <1>3 DEF TxnRight
<1>5. NodeRight(db, n)
  BY <1>1, <1>3, <1>4, NodeFacts DEF NodesInv
<1>6. n.edit \in KeysOf(n)
  BY <1>4 DEF KeysOf
<1>7. /\ n.edit \in DOMAIN db.reps /\ db.reps[n.edit].mutable
      /\ n.edit # n.prop /\ n.edit # n.data
  BY <1>4, <1>5, <1>6 DEF NodeRight
<1>8. C[n.edit] \in Text
  BY <1>7 DEF Sound
<1>9. C[n.edit] \o txn[t].buf = txn[t].sent
  BY <1>2, <1>3 DEF SentRight
<1> QED
  BY <1>3, <1>4, <1>6, <1>7, <1>8, <1>9

\* One byte of a text.
LEMMA OneByte ==
  ASSUME NEW t \in Text, NEW at \in Nat, at < Len(t)
  PROVE  TextPart(t, at, 1) = <<t[at + 1]>> /\ t[at + 1] \in Nat \ {0}
<1>1. t \in Seq(Nat \ {0}) /\ Len(t) \in Nat
  BY DEF Text
<1>2. Min({at + 1, Len(t)}) = at + 1
  <2>1. at + 1 \in Int /\ Len(t) \in Int /\ at + 1 <= Len(t)
    BY <1>1
  <2> QED
    BY <2>1, MinOfTwo
<1>3. TextPart(t, at, 1) = SubSeq(t, at + 1, at + 1)
  BY <1>2 DEF TextPart
<1>4. t[at + 1] \in Nat \ {0}
  BY <1>1
<1>5. SubSeq(t, at + 1, at + 1) = <<t[at + 1]>>
  <2>1. PICK q : q = SubSeq(t, at + 1, at + 1)
    OBVIOUS
  <2>2. PICK k, S : k = 1 /\ S = Nat \ {0}
    OBVIOUS
  <2>3. q \in Seq(S) /\ Len(q) = 1 /\ \A i \in 1..1 : q[i] = t[at + i]
    <3>1. k \in Nat /\ at + k <= Len(t) /\ t \in Seq(S)
      BY <1>1, <2>2
    <3>2. /\ SubSeq(t, at + 1, at + k) \in Seq(S)
          /\ Len(SubSeq(t, at + 1, at + k)) = k
          /\ \A i \in 1..k : SubSeq(t, at + 1, at + k)[i] = t[at + i]
      BY <3>1, PartOf
    <3> QED
      BY <2>1, <2>2, <3>2
  <2>4. q[1] = t[at + 1]
    BY <2>3
  <2>5. q = <<q[1]>>
    BY <2>3
  <2> QED
    BY <2>1, <2>4, <2>5
<1> QED
  BY <1>3, <1>4, <1>5

\* window_consumer: an instruction puts into the buffer what was meant.
LEMMA InstructionStep ==
  ASSUME RepsInv, NEW t \in Txns, NEW op \in Bytes \cup {0}, Instruction(t, op)
  PROVE  RepsInv'
<1>1. NodesInv /\ TxnsRight(txn, nodes)
  BY DEF RepsInv, NodesInv
<1>2. PICK C : Sound(db, C) /\ TextsRight(C, nodes, txn, text, props)
  BY RepsInvTexts
<1>3. txn \in [Txns -> TxnType] /\ txn[t] \in TxnType /\ TxnRight(txn[t], nodes)
  BY <1>1 DEF TxnsRight
<1>4. txn[t].stream = "edit"
  BY DEF Instruction
<1>5. PICK i, n, at, e : /\ i = txn[t].node /\ n = nodes[i] /\ at = Len(txn[t].sent)
                         /\ e = C[n.edit]
  OBVIOUS
<1>6. /\ i # NoId /\ i \in DOMAIN nodes /\ e \in Text
      /\ e \o txn[t].buf = txn[t].sent
  BY <1>2, <1>4, <1>5, StreamFacts
<1>7. txn[t].buf \in Text /\ txn[t].sent \in Text /\ at \in Nat
  BY <1>3, <1>5 DEF TxnType, Text
<1>8. n.data \in DOMAIN db.reps /\ text[i] \in Text
  BY <1>1, <1>5, <1>6, NodeFacts DEF NodesInv
<1>9. OwnText(t) = text[i]
  BY <1>5, <1>6 DEF OwnText
<1>10. PICK bytes, meant :
         /\ bytes = IF op # 0 THEN <<op>> ELSE RepReadRange(db, n.data, at, 1)
         /\ meant = IF op # 0 THEN op ELSE text[i][at + 1]
  OBVIOUS
<1>11. bytes = <<meant>> /\ meant \in Nat \ {0}
  <2>1. CASE op # 0
    BY <1>10, <2>1, RepsAssumption
  <2>2. CASE op = 0
    <3>1. at < Len(text[i])
      BY <1>5, <1>9, <2>2 DEF Instruction
    <3>2. C[n.data] = text[i]
      BY <1>2, <1>5, <1>6 DEF TextsRight
    <3>3. RepReadRange(db, n.data, at, 1) = TextPart(text[i], at, 1)
      <4>1. 1 \in Nat
        OBVIOUS
      <4> QED
        BY <1>2, <1>7, <1>8, <3>2, <4>1, ReadRangeExact
    <3>4. TextPart(text[i], at, 1) = <<text[i][at + 1]>> /\ text[i][at + 1] \in Nat \ {0}
      BY <1>7, <1>8, <3>1, OneByte
    <3> QED
      BY <1>10, <2>2, <3>3, <3>4
  <2> QED
    BY <2>1, <2>2
<1>12. PICK buf, sent : buf = txn[t].buf \o bytes /\ sent = Append(txn[t].sent, meant)
  OBVIOUS
<1>13. buf \in Text /\ sent \in Text /\ e \o buf = sent
  <2>1. PICK b, m, s, S : b = txn[t].buf /\ m = <<meant>> /\ s = txn[t].sent /\ S = Nat \ {0}
    OBVIOUS
  <2>2. m \in Seq(S) /\ b \in Seq(S) /\ e \in Seq(S) /\ s \in Seq(S) /\ meant \in S
    BY <1>6, <1>7, <1>11, <2>1 DEF Text
  <2>3. b \o m \in Seq(S) /\ Append(s, meant) \in Seq(S)
    BY <2>2
  <2>4. (e \o b) \o m = e \o (b \o m)
    BY <2>2, ConcatAssociative, SMTT(30)
  <2>5. Append(s, meant) = s \o <<meant>>
    BY <2>2, AppendIsConcat
  <2> QED
    BY <1>6, <1>11, <1>12, <2>1, <2>3, <2>4, <2>5 DEF Text
<1>14. PICK x : x = [txn[t] EXCEPT !.buf = buf, !.sent = sent]
  OBVIOUS
<1>15. /\ x \in TxnType /\ x.state = txn[t].state /\ x.base = txn[t].base
       /\ x.node = txn[t].node /\ x.stream = txn[t].stream
       /\ x.buf = buf /\ x.sent = sent
  BY <1>3, <1>13, <1>14 DEF TxnType
<1>16. txn' = [txn EXCEPT ![t] = x]
  <2>1. txn' = [txn EXCEPT ![t].buf = @ \o bytes, ![t].sent = Append(@, meant)]
    BY <1>5, <1>9, <1>10 DEF Instruction
  <2> QED
    BY <1>12, <1>14, <2>1
<1>17. TxnRight(x, nodes)
  BY <1>3, <1>15 DEF TxnRight
<1>18. SentRight(C, x, nodes)
  BY <1>4, <1>5, <1>13, <1>15 DEF SentRight
<1>19. db' = db /\ SameReps(db, db')
  BY DEF Instruction, SameReps
<1>20. /\ \A id \in DOMAIN nodes :
            C[nodes[id].data] = text[id] /\ C[nodes[id].prop] = props[id]
       /\ \A u \in Txns : u # t => SentRight(C, txn[u], nodes)
  BY <1>2 DEF TextsRight
<1>21. UNCHANGED <<nodes, head, reader, text, props>>
  BY DEF Instruction
<1>22. Sound(db', C)
  BY <1>2, <1>19
<1> QED
  BY <1>15, <1>16, <1>17, <1>18, <1>19, <1>20, <1>21, <1>22, TxnStep

\* window_consumer: the buffer is written to the edit.
LEMMA FlushStep ==
  ASSUME RepsInv, NEW t \in Txns, NEW isNull \in BOOLEAN, Flush(t, isNull)
  PROVE  RepsInv'
<1>1. NodesInv /\ TxnsRight(txn, nodes)
  BY DEF RepsInv, NodesInv
<1>2. PICK C : Sound(db, C) /\ TextsRight(C, nodes, txn, text, props)
  BY RepsInvTexts
<1>3. txn \in [Txns -> TxnType] /\ txn[t] \in TxnType /\ TxnRight(txn[t], nodes)
  BY <1>1 DEF TxnsRight
<1>4. txn[t].stream = "edit"
  BY DEF Flush
<1>5. PICK i, k, buf : i = txn[t].node /\ k = nodes[i].edit /\ buf = txn[t].buf
  OBVIOUS
<1>6. /\ i # NoId /\ i \in DOMAIN nodes /\ k \in DOMAIN db.reps /\ db.reps[k].mutable
      /\ k \in KeysOf(nodes[i]) /\ k # nodes[i].prop /\ k # nodes[i].data
      /\ C[k] \in Text /\ C[k] \o buf = txn[t].sent
  BY <1>2, <1>4, <1>5, StreamFacts
<1>7. buf \in Text
  BY <1>3, <1>5 DEF TxnType
<1>8. PICK D : D = Put(C, k, C[k] \o buf)
  OBVIOUS
<1>9. db' = RepWrite(db, k, buf)
  BY <1>5 DEF Flush
<1>10. Sound(db', D) /\ db'.reps = db.reps
  <2>1. /\ Sound(RepWrite(db, k, buf), Put(C, k, C[k] \o buf))
        /\ RepWrite(db, k, buf).reps = db.reps
    BY <1>2, <1>6, <1>7, RepWriteSound
  <2> QED
    BY <1>8, <1>9, <2>1
<1>11. SameReps(db, db')
  BY <1>10 DEF SameReps
<1>12. D[k] = C[k] \o buf /\ \A l \in DOMAIN db.reps : l # k => D[l] = C[l]
  BY <1>2, <1>6, <1>8 DEF Put, Sound
<1>13. ASSUME NEW id \in DOMAIN nodes
       PROVE  D[nodes[id].data] = text[id] /\ D[nodes[id].prop] = props[id]
  <2>1. nodes[id].data \in DOMAIN db.reps /\ nodes[id].prop \in DOMAIN db.reps
    BY <1>1, NodeFacts DEF NodesInv
  <2>2. nodes[id].data # k /\ nodes[id].prop # k
    <3>1. CASE id = i
      BY <1>6, <3>1
    <3>2. CASE id # i
      BY <1>1, <1>6, <3>2, MutableHasOneOwner DEF NodesInv
    <3> QED
      BY <3>1, <3>2
  <2>3. C[nodes[id].data] = text[id] /\ C[nodes[id].prop] = props[id]
    BY <1>2 DEF TextsRight
  <2> QED
    BY <1>12, <2>1, <2>2, <2>3
<1>14. ASSUME NEW u \in Txns, u # t
       PROVE  SentRight(D, txn[u], nodes)
  <2>1. SentRight(C, txn[u], nodes)
    BY <1>2 DEF TextsRight
  <2>2. CASE txn[u].stream = "none"
    BY <2>2 DEF SentRight
  <2>3. CASE txn[u].stream # "none"
    <3>1. PICK j : j = txn[u].node
      OBVIOUS
    <3>2. j \in DOMAIN nodes /\ nodes[j].edit \in DOMAIN db.reps
      BY <1>2, <2>3, <3>1, StreamFacts
    <3>3. j # i
      BY <1>1, <1>5, <1>6, <1>14, <3>1 DEF TxnsRight
    <3>4. nodes[j].edit # k
      BY <1>1, <1>6, <3>2, <3>3, MutableHasOneOwner DEF NodesInv
    <3>5. D[nodes[j].edit] = C[nodes[j].edit]
      BY <1>12, <3>2, <3>4
    <3> QED
      BY <2>1, <3>1, <3>5 DEF SentRight
  <2> QED
    BY <2>2, <2>3
<1>15. PICK stream : stream = IF isNull THEN "finish" ELSE "edit"
  OBVIOUS
<1>16. stream \in {"edit", "finish"}
  BY <1>15
<1>17. PICK x : x = [txn[t] EXCEPT !.buf = <<>>, !.stream = stream]
  OBVIOUS
<1>18. /\ x \in TxnType /\ x.state = txn[t].state /\ x.base = txn[t].base
       /\ x.node = txn[t].node /\ x.stream = stream
       /\ x.buf = <<>> /\ x.sent = txn[t].sent
  <2>1. <<>> \in Text
    BY DEF Text
  <2> QED
    BY <1>3, <1>16, <1>17, <2>1 DEF TxnType
<1>19. txn' = [txn EXCEPT ![t] = x]
  <2>1. txn' = [txn EXCEPT ![t].buf = <<>>, ![t].stream = stream]
    BY <1>4, <1>15 DEF Flush
  <2> QED
    BY <1>17, <2>1
<1>20. TxnRight(x, nodes)
  BY <1>3, <1>4, <1>16, <1>18 DEF TxnRight
<1>21. SentRight(D, x, nodes)
  <2>1. D[k] \o <<>> = txn[t].sent
    <3>1. txn[t].sent \in Seq(Nat \ {0}) /\ D[k] = txn[t].sent
      BY <1>3, <1>6, <1>12 DEF TxnType, Text
    <3> QED
      BY <3>1
  <2> QED
    BY <1>5, <1>18, <2>1 DEF SentRight
<1>22. UNCHANGED <<nodes, head, reader, text, props>>
  BY DEF Flush
<1> QED
  BY <1>10, <1>11, <1>13, <1>14, <1>18, <1>19, <1>20, <1>21, <1>22, TxnStep

-----------------------------------------------------------------------------
(* Transactions: steps that write their node revision *)

\* The node revision i with the record n is the one that transaction t
\* changes: it has it, or clones it now.
OwnRight(t, C, i, n) ==
  /\ i # NoId /\ i \in Seq(Nat) /\ i[Len(i)] > 0
  /\ i \notin Fixed(nodes) /\ IdPredecessor(i) \in Fixed(nodes)
  /\ IdsSound(DOMAIN nodes \cup {i}, Fixed(nodes))
  /\ n \in NodeType /\ n.mutable /\ NodeRight(db, n)
  /\ txn[t].base \in Fixed(nodes) /\ MadeBefore(nodes[txn[t].base], n)
  /\ n.edit # NoKey => KeyBefore(nodes[txn[t].base].data, n.edit)
  /\ \A j \in DOMAIN nodes :
       j # i => \A k \in KeysOf(nodes[j]) \cap KeysOf(n) : ~db.reps[k].mutable
  /\ i \in DOMAIN nodes => nodes[i] = n
  /\ \A u \in Txns : u # t => txn[u].node # i
  /\ OwnText(t) \in Text /\ OwnProps(t) \in Text
  /\ C[n.data] = OwnText(t) /\ C[n.prop] = OwnProps(t)
  /\ txn[t].stream = "none" <=> n.edit = NoKey

\* So it is for OwnId and OwnNode.
LEMMA OwnFacts ==
  ASSUME RepsInv, NEW C, Sound(db, C), TextsRight(C, nodes, txn, text, props),
         NEW t \in Txns, txn[t].state = "open"
  PROVE  OwnRight(t, C, OwnId(t), OwnNode(t))
<1>1. NodesInv /\ TxnsRight(txn, nodes) /\ NodesShape(nodes, text, props)
      /\ NamesRight(db, nodes)
  BY DEF RepsInv, NodesInv
<1>2. txn[t] \in TxnType /\ TxnRight(txn[t], nodes)
  BY <1>1 DEF TxnsRight
<1>3. PICK i, n, b : i = OwnId(t) /\ n = OwnNode(t) /\ b = txn[t].base
  OBVIOUS
<1>4. b \in Fixed(nodes) /\ b \in DOMAIN nodes /\ ~nodes[b].mutable
  BY <1>2, <1>3 DEF TxnRight, Fixed
<1>5. IdsSound(DOMAIN nodes, Fixed(nodes))
  BY <1>1 DEF NodesShape
<1>6. CASE txn[t].node # NoId
  <2>1. i = txn[t].node /\ n = nodes[i] /\ OwnText(t) = text[i] /\ OwnProps(t) = props[i]
    BY <1>3, <1>6 DEF OwnId, OwnNode, OwnText, OwnProps
  <2>2. /\ i \in DOMAIN nodes /\ n.mutable /\ IdPredecessor(i) \in Fixed(nodes)
        /\ MadeBefore(nodes[b], n)
        /\ n.edit # NoKey => KeyBefore(nodes[b].data, n.edit)
        /\ txn[t].stream = "none" <=> n.edit = NoKey
    BY <1>2, <1>3, <1>6, <2>1 DEF TxnRight
  <2>3. n \in NodeType /\ NodeRight(db, n) /\ text[i] \in Text /\ props[i] \in Text
    BY <1>1, <2>1, <2>2, NodeFacts
  <2>4. DOMAIN nodes \cup {i} = DOMAIN nodes
    BY <2>2
  <2>5. i \in Seq(Nat) /\ i[Len(i)] > 0
    <3>1. IsId(i) /\ i[Len(i)] > 0
      BY <1>1, <2>2 DEF NodesShape, IdsSound
    <3> QED
      BY <3>1, Components
  <2>6. i \notin Fixed(nodes)
    BY <2>1, <2>2 DEF Fixed
  <2>7. \A j \in DOMAIN nodes :
          j # i => \A k \in KeysOf(nodes[j]) \cap KeysOf(n) : ~db.reps[k].mutable
    BY <1>1, <2>1, <2>2 DEF NamesRight
  <2>8. \A u \in Txns : u # t => txn[u].node # i
    BY <1>1, <1>6, <2>1 DEF TxnsRight
  <2>9. C[n.data] = text[i] /\ C[n.prop] = props[i]
    BY <2>1, <2>2 DEF TextsRight
  <2>10. IdsSound(DOMAIN nodes \cup {i}, Fixed(nodes))
    BY <1>5, <2>4
  <2>11. OwnRight(t, C, i, n)
    BY <1>3, <1>4, <1>6, <2>1, <2>2, <2>3, <2>5, <2>6, <2>7, <2>8, <2>9, <2>10 DEF OwnRight
  <2> QED
    BY <1>3, <2>11
<1>7. CASE txn[t].node = NoId
  <2>1. /\ i = NewSuccessorId(DOMAIN nodes, b) /\ n = [nodes[b] EXCEPT !.mutable = TRUE]
        /\ OwnText(t) = text[b] /\ OwnProps(t) = props[b]
    BY <1>3, <1>7 DEF OwnId, OwnNode, OwnText, OwnProps
  <2>2. /\ nodes[b] \in NodeType /\ NodeRight(db, nodes[b])
        /\ text[b] \in Text /\ props[b] \in Text
    BY <1>1, <1>4, NodeFacts
  <2>3. /\ n \in NodeType /\ n.mutable /\ n.prop = nodes[b].prop
        /\ n.data = nodes[b].data /\ n.edit = nodes[b].edit
    BY <2>1, <2>2 DEF NodeType
  <2>4. KeysOf(n) = KeysOf(nodes[b])
    BY <2>3 DEF KeysOf
  <2>5. \A k \in KeysOf(n) : ~db.reps[k].mutable
    BY <1>4, <2>2, <2>4 DEF NodeRight
  <2>6. NodeRight(db, n)
    BY <2>2, <2>3, <2>4 DEF NodeRight
  <2>7. n.edit = NoKey
    <3>1. n.edit # NoKey => n.edit \in KeysOf(n) /\ db.reps[n.edit].mutable
      BY <2>6 DEF NodeRight, KeysOf
    <3> QED
      BY <2>5, <3>1
  <2>8. b[Len(b)] > 0
    BY <1>1, <1>4 DEF NodesShape
  <2>9. /\ FreeKey(i, DOMAIN nodes, Fixed(nodes)) /\ IdPredecessor(i) \in Fixed(nodes)
        /\ i[Len(i)] > 0
    BY <1>4, <1>5, <2>1, <2>8, SuccessorIsFree
  <2>10. i \notin DOMAIN nodes /\ IsId(i)
    BY <2>9 DEF FreeKey
  <2>11. i # NoId /\ i \in Seq(Nat) /\ i \notin Fixed(nodes)
    <3>1. i \in Seq(Nat) /\ Len(i) >= 2 /\ Len(i) \in Nat
      BY <2>10, Components
    <3> QED
      BY <2>10, <3>1 DEF NoId, Fixed
  <2>12. IdsSound(DOMAIN nodes \cup {i}, Fixed(nodes))
    <3>1. PICK K : K = DOMAIN nodes \cup {i}
      OBVIOUS
    <3>2. IsFiniteSet(K)
      BY <1>5, <3>1, FS_AddElement DEF IdsSound
    <3>3. /\ Fixed(nodes) \subseteq K
          /\ \A k \in K : IsId(k) /\ PartsPositive(k)
      BY <1>5, <2>9, <3>1 DEF IdsSound, FreeKey
    <3>4. \A k \in K : \A m \in 2..(Len(k) - 1) :
            m % 2 = 0 => SubSeq(k, 1, m) \in Fixed(nodes)
      BY <1>5, <2>9, <3>1 DEF IdsSound, FreeKey
    <3>5. IdsSound(K, Fixed(nodes))
      BY <3>2, <3>3, <3>4 DEF IdsSound
    <3> QED
      BY <3>1, <3>5
  <2>13. MadeBefore(nodes[b], n)
    BY <2>3 DEF MadeBefore, KeyBefore
  <2>14. \A u \in Txns : u # t => txn[u].node # i
    <3> SUFFICES ASSUME NEW u \in Txns, txn[u].node = i
                 PROVE  FALSE
      OBVIOUS
    <3>1. TxnRight(txn[u], nodes)
      BY <1>1 DEF TxnsRight
    <3> QED
      BY <2>10, <2>11, <3>1 DEF TxnRight
  <2>15. C[n.data] = text[b] /\ C[n.prop] = props[b]
    BY <1>4, <2>3 DEF TextsRight
  <2>16. txn[t].stream = "none"
    BY <1>2, <1>7 DEF TxnRight
  <2>17. OwnRight(t, C, i, n)
    BY <1>3, <1>4, <2>1, <2>2, <2>3, <2>5, <2>6, <2>7, <2>9, <2>10, <2>11, <2>12,
       <2>13, <2>14, <2>15, <2>16 DEF OwnRight
  <2> QED
    BY <1>3, <2>17
<1> QED
  BY <1>6, <1>7

\* The tables s and texts C after the node revision i of N became n: what the
\* others name is as it was, and what is in the table is named.
PutRight(s, C, u, D, N, i, n) ==
  /\ Sound(u, D) /\ NodeRight(u, n)
  /\ \A j \in DOMAIN N : j # i =>
       \A k \in KeysOf(N[j]) :
         /\ k \in DOMAIN u.reps /\ u.reps[k].mutable = s.reps[k].mutable
         /\ D[k] = C[k]
  /\ \A j \in DOMAIN N :
       j # i => \A k \in KeysOf(N[j]) \cap KeysOf(n) : ~s.reps[k].mutable
  /\ \A k \in DOMAIN u.reps :
       \/ k \in KeysOf(n) /\ u.reps[k].mutable
       \/ \E j \in DOMAIN N : /\ j # i /\ k \in KeysOf(N[j])
                              /\ u.reps[k].mutable \/ ~N[j].mutable

\* The node revisions N, with the texts U and properties V and the tables u,
\* are the present ones but for i.
NodesPut(N, i, n, u, U, V) ==
  /\ DOMAIN N = DOMAIN nodes \cup {i} /\ N[i] = n
  /\ \A j \in DOMAIN nodes : j # i => N[j] = nodes[j]
  /\ Fixed(N) = Fixed(nodes)
  /\ NodesShape(N, U, V) /\ OrderRight(N, head) /\ NamesRight(u, N)
  /\ GotRight(reader, N, U)

\* put_node_revision of a transaction's own node revision keeps the node
\* revisions' shape and order, and what they name.
LEMMA PutNodes ==
  ASSUME NodesInv, NEW i, NEW C, NEW t \in Txns, NEW m, OwnRight(t, C, i, m),
         NEW n \in NodeType, n.mutable,
         NEW T \in Text, NEW P \in Text, NEW D, NEW u,
         PutRight(db, C, u, D, nodes, i, n),
         NEW N, N = Put(nodes, i, n)
  PROVE  NodesPut(N, i, n, u, Put(text, i, T), Put(props, i, P))
<1>1. /\ NodesShape(nodes, text, props) /\ NamesRight(db, nodes)
      /\ OrderRight(nodes, head) /\ GotRight(reader, nodes, text)
  BY DEF NodesInv
<1>2. /\ DOMAIN N = DOMAIN nodes \cup {i} /\ N[i] = n
      /\ \A j \in DOMAIN nodes : j # i => N[j] = nodes[j]
      /\ N = [j \in DOMAIN N |-> N[j]]
  <2>1. DOMAIN N = DOMAIN nodes \cup {i}
    BY DEF Put
  <2>2. N[i] = n /\ \A j \in DOMAIN nodes : j # i => N[j] = nodes[j]
    BY DEF Put
  <2>3. N = [j \in DOMAIN N |-> N[j]]
    BY DEF Put
  <2> QED
    BY <2>1, <2>2, <2>3
<1>3. i \notin Fixed(nodes) /\ i[Len(i)] > 0 /\ IdsSound(DOMAIN nodes \cup {i}, Fixed(nodes))
  BY DEF OwnRight
<1>4. Fixed(N) = Fixed(nodes) /\ \A j \in Fixed(nodes) : j \in DOMAIN nodes /\ N[j] = nodes[j]
  BY <1>2, <1>3 DEF Fixed
<1>5. NodesShape(N, Put(text, i, T), Put(props, i, P))
  <2>1. \A j \in DOMAIN N : N[j] \in NodeType /\ j[Len(j)] > 0
    BY <1>1, <1>2, <1>3 DEF NodesShape
  <2>2. N \in [DOMAIN N -> NodeType]
    BY <1>2, <2>1
  <2>3. PICK U, V : U = Put(text, i, T) /\ V = Put(props, i, P)
    OBVIOUS
  <2>4. text \in [DOMAIN nodes -> Text] /\ props \in [DOMAIN nodes -> Text]
    BY <1>1 DEF NodesShape
  <2>5. U \in [DOMAIN nodes \cup {i} -> Text] /\ V \in [DOMAIN nodes \cup {i} -> Text]
    BY <2>3, <2>4 DEF Put
  <2>6. IdsSound(DOMAIN N, Fixed(N))
    BY <1>2, <1>3, <1>4
  <2>7. U \in [DOMAIN N -> Text] /\ V \in [DOMAIN N -> Text]
    BY <1>2, <2>5
  <2>8. NodesShape(N, U, V)
    BY <2>1, <2>2, <2>6, <2>7 DEF NodesShape
  <2> QED
    BY <2>3, <2>8
<1>6. OrderRight(N, head)
  BY <1>1, <1>4 DEF OrderRight
<1>7. NamesRight(u, N)
  <2>1. /\ NodeRight(u, n)
        /\ \A j \in DOMAIN nodes : j # i =>
             \A k \in KeysOf(nodes[j]) :
               k \in DOMAIN u.reps /\ u.reps[k].mutable = db.reps[k].mutable
        /\ \A j \in DOMAIN nodes :
             j # i => \A k \in KeysOf(nodes[j]) \cap KeysOf(n) : ~db.reps[k].mutable
        /\ \A k \in DOMAIN u.reps :
             \/ k \in KeysOf(n) /\ u.reps[k].mutable
             \/ \E j \in DOMAIN nodes : /\ j # i /\ k \in KeysOf(nodes[j])
                                        /\ u.reps[k].mutable \/ ~nodes[j].mutable
    BY DEF PutRight
  <2>2. ASSUME NEW j \in DOMAIN N
        PROVE  NodeRight(u, N[j])
    <3>1. CASE j = i
      BY <1>2, <2>1, <3>1
    <3>2. CASE j # i
      <4>1. PICK x : x = nodes[j]
        OBVIOUS
      <4>2. j \in DOMAIN nodes /\ N[j] = x
        BY <1>2, <3>2, <4>1
      <4>3. NodeRight(db, x)
        BY <1>1, <4>1, <4>2 DEF NamesRight
      <4>4. \A k \in KeysOf(x) : k \in DOMAIN u.reps /\ u.reps[k].mutable = db.reps[k].mutable
        BY <2>1, <3>2, <4>1, <4>2
      <4>5. x.edit # NoKey => x.edit \in KeysOf(x)
        BY DEF KeysOf
      <4>6. NodeRight(u, x)
        BY <4>3, <4>4, <4>5 DEF NodeRight
      <4> QED
        BY <4>2, <4>6
    <3> QED
      BY <3>1, <3>2
  <2>3. ASSUME NEW k \in DOMAIN u.reps
        PROVE  \E j \in DOMAIN N : k \in KeysOf(N[j]) /\ (u.reps[k].mutable \/ ~N[j].mutable)
    <3>1. CASE k \in KeysOf(n) /\ u.reps[k].mutable
      BY <1>2, <3>1
    <3>2. CASE \E j \in DOMAIN nodes : /\ j # i /\ k \in KeysOf(nodes[j])
                                       /\ u.reps[k].mutable \/ ~nodes[j].mutable
      <4>1. PICK j \in DOMAIN nodes : /\ j # i /\ k \in KeysOf(nodes[j])
                                      /\ u.reps[k].mutable \/ ~nodes[j].mutable
        BY <3>2
      <4>2. j \in DOMAIN N /\ N[j] = nodes[j]
        BY <1>2, <4>1
      <4> QED
        BY <4>1, <4>2
    <3> QED
      BY <2>1, <3>1, <3>2
  <2>4. ASSUME NEW j \in DOMAIN nodes, j # i, NEW k \in KeysOf(nodes[j]) \cap KeysOf(n)
        PROVE  ~u.reps[k].mutable
    BY <2>1, <2>4
  <2>5. ASSUME NEW j1 \in DOMAIN nodes, NEW j2 \in DOMAIN nodes, j1 # i, j2 # i, j1 # j2,
               NEW k \in KeysOf(nodes[j1]) \cap KeysOf(nodes[j2])
        PROVE  ~u.reps[k].mutable
    <3>1. ~db.reps[k].mutable
      BY <1>1, <2>5 DEF NamesRight
    <3> QED
      BY <2>1, <2>5, <3>1
  <2>6. ASSUME NEW j1 \in DOMAIN N, NEW j2 \in DOMAIN N, j1 # j2,
               NEW k \in KeysOf(N[j1]) \cap KeysOf(N[j2])
        PROVE  ~u.reps[k].mutable
    <3>1. CASE j1 = i
      BY <1>2, <2>4, <2>6, <3>1
    <3>2. CASE j2 = i
      BY <1>2, <2>4, <2>6, <3>2
    <3>3. CASE j1 # i /\ j2 # i
      BY <1>2, <2>5, <2>6, <3>3
    <3> QED
      BY <3>1, <3>2, <3>3
  <2> QED
    BY <2>2, <2>3, <2>6 DEF NamesRight
<1>8. GotRight(reader, N, Put(text, i, T))
  <2>1. \A j \in Fixed(nodes) : Put(text, i, T)[j] = text[j]
    <3>1. \A j \in Fixed(nodes) : j # i /\ j \in DOMAIN text
      BY <1>1, <1>3, <1>4 DEF NodesShape
    <3> QED
      BY <3>1 DEF Put
  <2> QED
    BY <1>1, <1>4, <2>1 DEF GotRight
<1> QED
  BY <1>2, <1>4, <1>5, <1>6, <1>7, <1>8 DEF NodesPut

\* A transaction's own node revision i, m so far, becomes n, with the text T and
\* the properties P; its record becomes x, and the tables have the texts D.
PutOwn(t, C, D, i, m, n, T, P, x) ==
  /\ t \in Txns /\ i = OwnId(t) /\ OwnRight(t, C, i, m)
  /\ TextsRight(C, nodes, txn, text, props)
  /\ n \in NodeType /\ n.mutable /\ T \in Text /\ P \in Text
  /\ PutRight(db, C, db', D, nodes, i, n)
  /\ D[n.data] = T /\ D[n.prop] = P
  /\ MadeBefore(nodes[txn[t].base], n)
  /\ n.edit # NoKey => KeyBefore(nodes[txn[t].base].data, n.edit)
  /\ nodes' = Put(nodes, i, n) /\ text' = Put(text, i, T) /\ props' = Put(props, i, P)
  /\ x \in TxnType /\ txn' = [txn EXCEPT ![t] = x]
  /\ x.node = i /\ x.state = "open" /\ x.base = txn[t].base
  /\ x.stream = "none" <=> n.edit = NoKey
  /\ x.stream # "none" => D[n.edit] \o x.buf = x.sent
  /\ x.stream = "finish" => x.buf = <<>>
  /\ UNCHANGED <<head, reader>>

\* The invariant is kept.
LEMMA PutStep ==
  ASSUME RepsInv, NEW t, NEW C, NEW D, NEW i, NEW m, NEW n, NEW T, NEW P, NEW x,
         PutOwn(t, C, D, i, m, n, T, P, x)
  PROVE  RepsInv'
<1> SUFFICES ASSUME t \in Txns, i = OwnId(t), OwnRight(t, C, i, m),
                    TextsRight(C, nodes, txn, text, props),
                    n \in NodeType, n.mutable, T \in Text, P \in Text,
                    PutRight(db, C, db', D, nodes, i, n),
                    D[n.data] = T, D[n.prop] = P,
                    MadeBefore(nodes[txn[t].base], n),
                    n.edit # NoKey => KeyBefore(nodes[txn[t].base].data, n.edit),
                    nodes' = Put(nodes, i, n), text' = Put(text, i, T),
                    props' = Put(props, i, P),
                    x \in TxnType, txn' = [txn EXCEPT ![t] = x],
                    x.node = i, x.state = "open", x.base = txn[t].base,
                    x.stream = "none" <=> n.edit = NoKey,
                    x.stream # "none" => D[n.edit] \o x.buf = x.sent,
                    x.stream = "finish" => x.buf = <<>>,
                    UNCHANGED <<head, reader>>
             PROVE  RepsInv'
  BY DEF PutOwn
<1>1. NodesInv /\ TxnsRight(txn, nodes)
  BY DEF RepsInv, NodesInv
<1>2. PICK N, U, V : N = Put(nodes, i, n) /\ U = Put(text, i, T) /\ V = Put(props, i, P)
  OBVIOUS
<1>3. /\ DOMAIN N = DOMAIN nodes \cup {i} /\ N[i] = n
      /\ \A j \in DOMAIN nodes : j # i => N[j] = nodes[j]
      /\ Fixed(N) = Fixed(nodes)
      /\ NodesShape(N, U, V) /\ OrderRight(N, head) /\ NamesRight(db', N)
      /\ GotRight(reader, N, U)
  <2>1. PICK u : u = db'
    OBVIOUS
  <2>2. PutRight(db, C, u, D, nodes, i, n)
    BY <2>1
  <2>3. NodesPut(N, i, n, u, Put(text, i, T), Put(props, i, P))
    BY <1>1, <1>2, <2>2, PutNodes
  <2> QED
    BY <1>2, <2>1, <2>3 DEF NodesPut
<1>4. nodes' = N /\ text' = U /\ props' = V /\ head' = head /\ reader' = reader
  BY <1>2
<1>5. txn \in [Txns -> TxnType]
  BY <1>1 DEF TxnsRight
<1>6. txn' \in [Txns -> TxnType] /\ txn'[t] = x /\ \A u \in Txns : u # t => txn'[u] = txn[u]
  BY <1>5
<1>7. /\ i # NoId /\ i \notin Fixed(nodes) /\ IdPredecessor(i) \in Fixed(nodes)
      /\ txn[t].base \in Fixed(nodes) /\ \A u \in Txns : u # t => txn[u].node # i
      /\ i \in DOMAIN nodes => nodes[i] = m
  BY DEF OwnRight
<1>8. \A j \in Fixed(nodes) : j \in DOMAIN nodes /\ j # i /\ N[j] = nodes[j]
  BY <1>3, <1>7 DEF Fixed
<1>9. TxnRight(x, N)
  BY <1>3, <1>7, <1>8 DEF TxnRight
<1>10. ASSUME NEW u \in Txns, u # t
       PROVE  TxnRight(txn[u], N) /\ SentRight(D, txn[u], N)
  <2>1. TxnRight(txn[u], nodes) /\ SentRight(C, txn[u], nodes)
    BY <1>1 DEF TxnsRight, TextsRight
  <2>2. PICK y, j : y = txn[u] /\ j = txn[u].node
    OBVIOUS
  <2>3. CASE j = NoId
    BY <1>3, <1>8, <2>1, <2>2, <2>3 DEF TxnRight, SentRight
  <2>4. CASE j # NoId
    <3>1. j \in DOMAIN nodes /\ j # i /\ y.state = "open" /\ y.base \in Fixed(nodes)
      BY <1>7, <1>10, <2>1, <2>2, <2>4 DEF TxnRight
    <3>2. N[j] = nodes[j] /\ N[y.base] = nodes[y.base]
      BY <1>3, <1>8, <3>1
    <3>3. TxnRight(y, N)
      BY <1>3, <1>8, <2>1, <2>2, <2>4, <3>1, <3>2 DEF TxnRight
    <3>4. SentRight(D, y, N)
      <4>1. CASE y.stream = "none"
        BY <4>1 DEF SentRight
      <4>2. CASE y.stream # "none"
        <5>1. nodes[j].edit # NoKey
          BY <2>1, <2>2, <2>4, <4>2 DEF TxnRight
        <5>2. nodes[j].edit \in KeysOf(nodes[j])
          BY <5>1 DEF KeysOf
        <5>3. D[nodes[j].edit] = C[nodes[j].edit]
          BY <3>1, <5>2 DEF PutRight
        <5> QED
          BY <2>1, <2>2, <3>2, <5>3 DEF SentRight
      <4> QED
        BY <4>1, <4>2
    <3> QED
      BY <2>2, <3>3, <3>4
  <2> QED
    BY <2>3, <2>4
<1>11. TxnsRight(txn', N)
  <2>1. \A u \in Txns : TxnRight(txn'[u], N)
    BY <1>6, <1>9, <1>10
  <2>2. \A u, v \in Txns : u # v /\ txn'[u].node # NoId => txn'[v].node # txn'[u].node
    BY <1>1, <1>6, <1>7 DEF TxnsRight
  <2>3. ASSUME NEW j \in DOMAIN N, N[j].mutable
        PROVE  \E u \in Txns : txn'[u].node = j
    <3>1. CASE j = i
      BY <1>6, <3>1
    <3>2. CASE j # i
      <4>1. j \in DOMAIN nodes /\ nodes[j].mutable
        BY <1>3, <2>3, <3>2
      <4>2. PICK u \in Txns : txn[u].node = j
        BY <1>1, <4>1 DEF TxnsRight
      <4>3. CASE u = t
        <5>1. j # NoId
          BY <1>1, <4>1, NodeFacts DEF NodesInv
        <5>2. txn[t].node # NoId /\ txn[t].node = j
          BY <4>2, <4>3, <5>1
        <5>3. i = j
          BY <5>2 DEF OwnId
        <5> QED
          BY <3>2, <5>3
      <4>4. CASE u # t
        BY <1>6, <4>2, <4>4
      <4> QED
        BY <4>3, <4>4
    <3> QED
      BY <3>1, <3>2
  <2> QED
    BY <1>6, <2>1, <2>2, <2>3 DEF TxnsRight
<1>12. TextsRight(D, N, txn', U, V)
  <2>1. ASSUME NEW j \in DOMAIN N
        PROVE  D[N[j].data] = U[j] /\ D[N[j].prop] = V[j]
    <3>1. CASE j = i
      <4>1. U[i] = T /\ V[i] = P
        BY <1>2 DEF Put
      <4> QED
        BY <1>3, <3>1, <4>1
    <3>2. CASE j # i
      <4>1. j \in DOMAIN nodes /\ N[j] = nodes[j]
        BY <1>3, <3>2
      <4>2. U[j] = text[j] /\ V[j] = props[j]
        <5>1. j \in DOMAIN text /\ j \in DOMAIN props
          BY <1>1, <4>1 DEF NodesInv, NodesShape
        <5> QED
          BY <1>2, <3>2, <5>1 DEF Put
      <4>3. nodes[j].data \in KeysOf(nodes[j]) /\ nodes[j].prop \in KeysOf(nodes[j])
        <5>1. nodes[j].data # NoKey /\ nodes[j].prop # NoKey
          BY <1>1, <4>1, NodeFacts DEF NodesInv
        <5> QED
          BY <5>1 DEF KeysOf
      <4>4. D[nodes[j].data] = C[nodes[j].data] /\ D[nodes[j].prop] = C[nodes[j].prop]
        BY <3>2, <4>1, <4>3 DEF PutRight
      <4>5. C[nodes[j].data] = text[j] /\ C[nodes[j].prop] = props[j]
        BY <4>1 DEF TextsRight
      <4> QED
        BY <4>1, <4>2, <4>4, <4>5
    <3> QED
      BY <3>1, <3>2
  <2>2. SentRight(D, x, N)
    BY <1>3 DEF SentRight
  <2>3. \A u \in Txns : SentRight(D, txn'[u], N)
    BY <1>6, <1>10, <2>2
  <2> QED
    BY <2>1, <2>3 DEF TextsRight
<1>13. Sound(db', D)
  BY DEF PutRight
<1>14. /\ NodesShape(nodes', text', props') /\ NamesRight(db', nodes')
       /\ OrderRight(nodes', head') /\ TxnsRight(txn', nodes')
       /\ GotRight(reader', nodes', text') /\ TextsRight(D, nodes', txn', text', props')
  BY <1>3, <1>4, <1>11, <1>12
<1> QED
  BY <1>1, <1>13, <1>14 DEF RepsInv, NodesInv

\* A representation of the node revision has been made writable under its key
\* KEY, or under a new one.
LEMMA WrittenRight ==
  ASSUME NodesInv, NEW C, NEW i, NEW t, NEW m, OwnRight(t, C, i, m),
         NEW u, NEW D, NEW key, NEW k, NEW v, Writable(db, C, u, D, key, k, v),
         key \in KeysOf(m) \cup {NoKey},
         NEW n, NodeRight(u, n), KeysOf(n) = (KeysOf(m) \ {key}) \cup {k}
  PROVE  PutRight(db, C, u, D, nodes, i, n)
<1>1. /\ Sound(u, D) /\ u.reps[k].mutable
      /\ DOMAIN u.reps = DOMAIN db.reps \cup {k}
      /\ \A x \in DOMAIN db.reps : x # k => D[x] = C[x]
      /\ \A x \in DOMAIN db.reps : u.reps[x].mutable = db.reps[x].mutable
      /\ \/ k = key /\ key \in DOMAIN db.reps /\ db.reps[key].mutable
         \/ k \notin DOMAIN db.reps /\ (key = NoKey \/ ~db.reps[key].mutable)
  BY DEF Writable
<1>2. /\ m.mutable
      /\ i \in DOMAIN nodes => nodes[i] = m
      /\ \A j \in DOMAIN nodes :
           j # i => \A l \in KeysOf(nodes[j]) \cap KeysOf(m) : ~db.reps[l].mutable
  BY DEF OwnRight
<1>3. NamesRight(db, nodes)
  BY DEF NodesInv
<1>4. NoKey \notin KeysOf(m)
  BY DEF KeysOf
<1>5. ASSUME NEW j \in DOMAIN nodes, j # i, NEW l \in KeysOf(nodes[j])
      PROVE  l \in DOMAIN db.reps /\ l # k
  <2>1. l \in DOMAIN db.reps
    BY <1>3 DEF NamesRight, NodeRight
  <2>2. CASE k = key /\ key \in DOMAIN db.reps /\ db.reps[key].mutable
    <3>1. ASSUME l = k
          PROVE  FALSE
      <4>1. l \in KeysOf(m) \/ l = NoKey
        BY <2>2, <3>1
      <4>2. l # NoKey
        BY DEF KeysOf
      <4>3. ~db.reps[l].mutable
        BY <1>2, <1>5, <4>1, <4>2
      <4> QED
        BY <2>2, <3>1, <4>3
    <3> QED
      BY <2>1, <3>1
  <2> QED
    BY <1>1, <2>1, <2>2
<1>6. ASSUME NEW l \in DOMAIN u.reps
      PROVE  \/ l \in KeysOf(n) /\ u.reps[l].mutable
             \/ \E j \in DOMAIN nodes : /\ j # i /\ l \in KeysOf(nodes[j])
                                        /\ u.reps[l].mutable \/ ~nodes[j].mutable
  <2>1. CASE l = k
    BY <1>1, <2>1
  <2>2. CASE l # k
    <3>1. l \in DOMAIN db.reps /\ u.reps[l].mutable = db.reps[l].mutable
      BY <1>1, <2>2
    <3>2. PICK j \in DOMAIN nodes :
            l \in KeysOf(nodes[j]) /\ (db.reps[l].mutable \/ ~nodes[j].mutable)
      BY <1>3, <3>1 DEF NamesRight
    <3>3. CASE j # i
      BY <3>1, <3>2, <3>3
    <3>4. CASE j = i
      <4>1. l \in KeysOf(m) /\ db.reps[l].mutable
        BY <1>2, <3>2, <3>4
      <4>2. l # key
        BY <1>1, <1>4, <2>2, <4>1
      <4> QED
        BY <3>1, <4>1, <4>2
    <3> QED
      BY <3>3, <3>4
  <2> QED
    BY <2>1, <2>2
<1>7. ASSUME NEW j \in DOMAIN nodes, j # i, NEW l \in KeysOf(nodes[j]) \cap KeysOf(n)
      PROVE  ~db.reps[l].mutable
  <2>1. l \in KeysOf(m)
    BY <1>5, <1>7
  <2> QED
    BY <1>2, <1>7, <2>1
<1>8. ASSUME NEW j \in DOMAIN nodes, j # i, NEW l \in KeysOf(nodes[j])
      PROVE  l \in DOMAIN u.reps /\ u.reps[l].mutable = db.reps[l].mutable /\ D[l] = C[l]
  BY <1>1, <1>5, <1>8
<1> QED
  BY <1>1, <1>6, <1>7, <1>8 DEF PutRight

\* The record of the transaction that has a node revision now.
LEMMA OwnTxn ==
  ASSUME RepsInv, NEW t \in Txns, txn[t].state = "open", NEW i \in Seq(Nat),
         NEW x, x = [txn[t] EXCEPT !.node = i]
  PROVE  /\ x \in TxnType /\ x.node = i /\ x.state = "open" /\ x.base = txn[t].base
         /\ x.stream = txn[t].stream /\ x.buf = txn[t].buf /\ x.sent = txn[t].sent
<1>1. txn[t] \in TxnType
  BY DEF RepsInv, NodesInv, TxnsRight
<1> QED
  BY <1>1 DEF TxnType

\* svn_fs_change_node_prop
LEMMA SetProplistStep ==
  ASSUME RepsInv, NEW t \in Txns, NEW list \in PropLists, SetProplist(t, list)
  PROVE  RepsInv'
<1>1. NodesInv
  BY DEF RepsInv
<1>2. PICK C : Sound(db, C) /\ TextsRight(C, nodes, txn, text, props)
  BY RepsInvTexts
<1>3. PICK i, m, b, key, s : /\ i = OwnId(t) /\ m = OwnNode(t) /\ b = nodes[txn[t].base]
                             /\ key = m.prop /\ s = db
  OBVIOUS
<1>4. OwnRight(t, C, i, m)
  <2>1. txn[t].state = "open"
    BY DEF SetProplist
  <2> QED
    BY <1>2, <1>3, <2>1, OwnFacts
<1>5. /\ m \in NodeType /\ m.mutable /\ NodeRight(s, m) /\ MadeBefore(b, m)
      /\ m.edit # NoKey => KeyBefore(b.data, m.edit)
      /\ OwnText(t) \in Text /\ C[m.data] = OwnText(t) /\ txn[t].base \in Fixed(nodes)
      /\ txn[t].stream = "none" <=> m.edit = NoKey
      /\ i \in Seq(Nat)
  BY <1>3, <1>4 DEF OwnRight
<1>6. /\ key \in Key /\ m.data \in Key /\ key # NoKey /\ m.data # NoKey
      /\ key \in KeysOf(m) /\ m.data \in KeysOf(m)
  <2>1. key \in Key /\ m.data \in Key
    BY <1>3, <1>5 DEF NodeType
  <2> QED
    BY <1>3, <2>1 DEF Key, NoKey, KeysOf
<1>7. /\ key \in DOMAIN s.reps /\ m.data \in DOMAIN s.reps /\ key # m.data
      /\ m.edit # NoKey => /\ m.edit \in DOMAIN s.reps /\ m.edit # key /\ m.edit # m.data
                           /\ s.reps[m.edit].mutable
  BY <1>3, <1>5, <1>6 DEF NodeRight, KeysOf
<1>8. b.prop \in DOMAIN s.reps
  BY <1>1, <1>3, <1>5, NodeFacts DEF NodesInv, Fixed
<1>9. list \in Text
  BY RepsAssumption DEF Text
<1>10. PICK r, u : /\ r = GetMutableRep(s, key)
                   /\ u = RepWrite(RepContentsClear(r.db, r.key), r.key, list)
  OBVIOUS
<1>11. PICK k : k = r.key
  OBVIOUS
<1>12. PICK D : Writable(s, C, u, D, key, k, list)
  BY <1>2, <1>3, <1>7, <1>9, <1>10, <1>11, ProplistSound
<1>13. /\ Sound(u, D) /\ k \in DOMAIN u.reps /\ D[k] = list
       /\ DOMAIN u.reps = DOMAIN s.reps \cup {k}
       /\ \A x \in DOMAIN s.reps : x # k => D[x] = C[x]
       /\ \A x \in DOMAIN s.reps : u.reps[x].mutable = s.reps[x].mutable
       /\ \/ k = key
          \/ k \notin DOMAIN s.reps /\ \A x \in DOMAIN s.reps : KeyBefore(x, k)
  BY <1>12 DEF Writable
<1>14. k # m.data /\ (m.edit # NoKey => k # m.edit) /\ KeyBefore(b.prop, k)
  <2>1. KeyBefore(b.prop, key)
    BY <1>3, <1>5 DEF MadeBefore
  <2> QED
    BY <1>7, <1>8, <1>13, <2>1
<1>15. k \in Key /\ k # NoKey
  BY <1>13 DEF Sound, TablesType, Key, NoKey
<1>16. PICK n : n = [m EXCEPT !.prop = k]
  OBVIOUS
<1>17. /\ n \in NodeType /\ n.mutable /\ n.prop = k /\ n.data = m.data /\ n.edit = m.edit
  BY <1>5, <1>15, <1>16 DEF NodeType
<1>18. KeysOf(n) = (KeysOf(m) \ {key}) \cup {k}
  BY <1>3, <1>6, <1>7, <1>15, <1>17 DEF KeysOf
<1>19. NodeRight(u, n)
  <2>1. KeysOf(n) \subseteq DOMAIN u.reps
    BY <1>5, <1>13, <1>18 DEF NodeRight
  <2>2. n.edit # NoKey => u.reps[n.edit].mutable
    BY <1>7, <1>13, <1>17
  <2> QED
    BY <1>7, <1>14, <1>17, <2>1, <2>2 DEF NodeRight
<1>20. PutRight(db, C, u, D, nodes, i, n)
  <2>1. Writable(db, C, u, D, key, k, list)
    BY <1>3, <1>12
  <2> QED
    BY <1>1, <1>4, <1>6, <1>18, <1>19, <2>1, WrittenRight
<1>21. D[n.data] = OwnText(t) /\ D[n.prop] = list
  BY <1>5, <1>7, <1>13, <1>14, <1>17
<1>22. MadeBefore(b, n) /\ (n.edit # NoKey => KeyBefore(b.data, n.edit))
  BY <1>5, <1>14, <1>17 DEF MadeBefore
<1>23. PICK x : x = [txn[t] EXCEPT !.node = i]
  OBVIOUS
<1>24. /\ x \in TxnType /\ x.node = i /\ x.state = "open" /\ x.base = txn[t].base
       /\ x.stream = txn[t].stream /\ x.buf = txn[t].buf /\ x.sent = txn[t].sent
  <2>1. txn[t].state = "open"
    BY DEF SetProplist
  <2> QED
    BY <1>5, <1>23, <2>1, OwnTxn
<1>25. /\ x.stream # "none" => D[n.edit] \o x.buf = x.sent
       /\ x.stream = "finish" => x.buf = <<>>
  <2>1. SentRight(C, txn[t], nodes)
    BY <1>2 DEF TextsRight
  <2>2. CASE txn[t].stream = "none"
    BY <1>24, <2>2
  <2>3. CASE txn[t].stream # "none"
    <3>1. m.edit # NoKey
      BY <1>5, <2>3
    <3>2. D[m.edit] = C[m.edit]
      BY <1>7, <1>13, <1>14, <3>1
    <3>3. txn[t].node # NoId
      BY <1>2, <2>3, StreamFacts
    <3>4. m = nodes[txn[t].node]
      BY <1>3, <3>3 DEF OwnNode
    <3> QED
      BY <1>17, <1>24, <2>1, <3>2, <3>4 DEF SentRight
  <2> QED
    BY <2>2, <2>3
<1>26. /\ db' = u /\ txn' = [txn EXCEPT ![t] = x]
       /\ nodes' = Put(nodes, i, n) /\ text' = Put(text, i, OwnText(t))
       /\ props' = Put(props, i, list) /\ UNCHANGED <<head, reader>>
  <2>1. db' = u
    BY <1>3, <1>10 DEF SetProplist
  <2>2. txn' = [txn EXCEPT ![t] = x]
    BY <1>3, <1>23 DEF SetProplist
  <2>3. /\ nodes' = Put(nodes, i, n) /\ text' = Put(text, i, OwnText(t))
        /\ props' = Put(props, i, list)
    BY <1>3, <1>10, <1>11, <1>16 DEF SetProplist, PutNode
  <2>4. UNCHANGED <<head, reader>>
    BY DEF SetProplist
  <2> QED
    BY <2>1, <2>2, <2>3, <2>4
<1>27. PutRight(db, C, db', D, nodes, i, n)
  BY <1>20, <1>26
<1>28. /\ n.edit # NoKey => KeyBefore(nodes[txn[t].base].data, n.edit)
       /\ MadeBefore(nodes[txn[t].base], n)
       /\ x.stream = "none" <=> n.edit = NoKey
  BY <1>3, <1>5, <1>17, <1>22, <1>24
<1>29. PICK T : T = OwnText(t)
  OBVIOUS
<1>30. /\ T \in Text /\ D[n.data] = T /\ D[n.prop] = list /\ n \in NodeType /\ n.mutable
       /\ nodes' = Put(nodes, i, n) /\ text' = Put(text, i, T)
       /\ props' = Put(props, i, list) /\ UNCHANGED <<head, reader>>
       /\ x \in TxnType /\ txn' = [txn EXCEPT ![t] = x]
       /\ x.node = i /\ x.state = "open" /\ x.base = txn[t].base
  BY <1>5, <1>17, <1>21, <1>24, <1>26, <1>29
<1>31. i = OwnId(t) /\ TextsRight(C, nodes, txn, text, props)
  BY <1>2, <1>3
<1>32. PutOwn(t, C, D, i, m, n, T, list, x)
  BY <1>4, <1>9, <1>25, <1>27, <1>28, <1>30, <1>31 DEF PutOwn
<1> QED
  BY <1>32, PutStep

\* svn_fs_apply_textdelta
LEMMA ApplyTextdeltaStep ==
  ASSUME RepsInv, NEW t \in Txns, ApplyTextdelta(t)
  PROVE  RepsInv'
<1>1. NodesInv
  BY DEF RepsInv
<1>2. PICK C : Sound(db, C) /\ TextsRight(C, nodes, txn, text, props)
  BY RepsInvTexts
<1>3. PICK i, m, b, s, T, P :
        /\ i = OwnId(t) /\ m = OwnNode(t) /\ b = nodes[txn[t].base] /\ s = db
        /\ T = OwnText(t) /\ P = OwnProps(t)
  OBVIOUS
<1>4. txn[t].state = "open" /\ m.edit = NoKey
  BY <1>3 DEF ApplyTextdelta
<1>5. OwnRight(t, C, i, m)
  BY <1>2, <1>3, <1>4, OwnFacts
<1>6. /\ m \in NodeType /\ m.mutable /\ NodeRight(s, m) /\ MadeBefore(b, m)
      /\ T \in Text /\ P \in Text /\ C[m.data] = T /\ C[m.prop] = P
      /\ txn[t].base \in Fixed(nodes) /\ i \in Seq(Nat)
  BY <1>3, <1>5 DEF OwnRight
<1>7. m.prop \in Key /\ m.data \in Key /\ m.prop # NoKey /\ m.data # NoKey
  <2>1. m.prop \in Key /\ m.data \in Key
    BY <1>6 DEF NodeType
  <2> QED
    BY <2>1 DEF Key, NoKey
<1>8. m.prop \in DOMAIN s.reps /\ m.data \in DOMAIN s.reps /\ m.prop # m.data
  BY <1>6, <1>7 DEF NodeRight, KeysOf
<1>9. b.data \in DOMAIN s.reps
  BY <1>1, <1>3, <1>6, NodeFacts DEF NodesInv, Fixed
<1>10. NoKey \notin DOMAIN s.reps
  BY <1>2, <1>3 DEF Sound, TablesType, Key, NoKey
<1>11. PICK r, u, k, e, key : /\ r = GetMutableRep(s, key) /\ u = r.db /\ k = r.key
                              /\ key = NoKey /\ e = <<>>
  OBVIOUS
<1>12. PICK D : Writable(s, C, u, D, key, k, e)
  <2>1. e = (IF key = NoKey THEN <<>> ELSE C[key]) /\ key \in DOMAIN s.reps \cup {NoKey}
    BY <1>11
  <2>2. Sound(s, C)
    BY <1>2, <1>3
  <2>3. \E D : Writable(s, C, r.db, D, key, r.key, e)
    BY <1>11, <2>1, <2>2, GetMutableSound
  <2> QED
    BY <1>11, <2>3
<1>13. /\ Sound(u, D) /\ k \in DOMAIN u.reps /\ u.reps[k].mutable /\ D[k] = <<>>
       /\ DOMAIN u.reps = DOMAIN s.reps \cup {k}
       /\ \A x \in DOMAIN s.reps : x # k => D[x] = C[x]
       /\ k \notin DOMAIN s.reps /\ \A x \in DOMAIN s.reps : KeyBefore(x, k)
  BY <1>10, <1>11, <1>12 DEF Writable
<1>14. k \in Key /\ k # NoKey
  BY <1>13 DEF Sound, TablesType, Key, NoKey
<1>15. PICK n : n = [m EXCEPT !.edit = k]
  OBVIOUS
<1>16. /\ n \in NodeType /\ n.mutable /\ n.prop = m.prop /\ n.data = m.data /\ n.edit = k
  BY <1>6, <1>14, <1>15 DEF NodeType
<1>17. KeysOf(n) = (KeysOf(m) \ {key}) \cup {k}
  BY <1>4, <1>7, <1>11, <1>14, <1>16 DEF KeysOf
<1>18. NodeRight(u, n)
  <2>1. KeysOf(n) \subseteq DOMAIN u.reps
    BY <1>6, <1>13, <1>17 DEF NodeRight
  <2> QED
    BY <1>8, <1>13, <1>16, <2>1 DEF NodeRight
<1>19. PutRight(db, C, u, D, nodes, i, n)
  <2>1. Writable(db, C, u, D, key, k, e) /\ key \in KeysOf(m) \cup {NoKey}
    BY <1>3, <1>11, <1>12
  <2> QED
    BY <1>1, <1>5, <1>17, <1>18, <2>1, WrittenRight
<1>20. D[n.data] = T /\ D[n.prop] = P /\ D[n.edit] = <<>>
  BY <1>6, <1>8, <1>13, <1>16
<1>21. MadeBefore(b, n) /\ KeyBefore(b.data, n.edit)
  BY <1>6, <1>9, <1>13, <1>16 DEF MadeBefore
<1>22. PICK x : x = [txn[t] EXCEPT !.node = i, !.stream = "edit", !.buf = <<>>, !.sent = <<>>]
  OBVIOUS
<1>23. /\ x \in TxnType /\ x.node = i /\ x.state = "open" /\ x.base = txn[t].base
       /\ x.stream = "edit" /\ x.buf = <<>> /\ x.sent = <<>>
  <2>1. txn[t] \in TxnType
    BY <1>1 DEF NodesInv, TxnsRight
  <2>2. <<>> \in Text
    BY DEF Text
  <2> QED
    BY <1>4, <1>6, <1>22, <2>1, <2>2 DEF TxnType
<1>24. /\ x.stream # "none" => D[n.edit] \o x.buf = x.sent
       /\ x.stream = "finish" => x.buf = <<>>
       /\ x.stream = "none" <=> n.edit = NoKey
  <2>1. <<>> \o <<>> = <<>>
    OBVIOUS
  <2> QED
    BY <1>14, <1>16, <1>20, <1>23, <2>1
<1>25. /\ db' = u /\ txn' = [txn EXCEPT ![t] = x]
       /\ nodes' = Put(nodes, i, n) /\ text' = Put(text, i, T)
       /\ props' = Put(props, i, P) /\ UNCHANGED <<head, reader>>
  <2>1. db' = u
    BY <1>3, <1>11 DEF ApplyTextdelta
  <2>2. txn' = [txn EXCEPT ![t] = x]
    BY <1>3, <1>22 DEF ApplyTextdelta
  <2>3. /\ nodes' = Put(nodes, i, n) /\ text' = Put(text, i, T)
        /\ props' = Put(props, i, P)
    BY <1>3, <1>11, <1>15 DEF ApplyTextdelta, PutNode
  <2>4. UNCHANGED <<head, reader>>
    BY DEF ApplyTextdelta
  <2> QED
    BY <2>1, <2>2, <2>3, <2>4
<1>26. PutRight(db, C, db', D, nodes, i, n)
  BY <1>19, <1>25
<1>27. PutOwn(t, C, D, i, m, n, T, P, x)
  BY <1>2, <1>3, <1>5, <1>6, <1>16, <1>20, <1>21, <1>23, <1>24, <1>25, <1>26 DEF PutOwn
<1> QED
  BY <1>27, PutStep

\* The tables u are s without the mutable ones of the representations X.
Dropped(s, C, u, D, X) ==
  /\ Sound(u, D)
  /\ \A k \in DOMAIN u.reps :
       k \in DOMAIN s.reps /\ u.reps[k] = s.reps[k] /\ D[k] = C[k]
  /\ \A k \in DOMAIN s.reps : k \in DOMAIN u.reps \/ (k \in X /\ s.reps[k].mutable)
  /\ \A k \in X : k \in DOMAIN u.reps => ~s.reps[k].mutable

\* svn_fs__delete_rep_if_mutable
LEMMA DropOne ==
  ASSUME NEW s, NEW C, Sound(s, C), NEW key \in DOMAIN s.reps \cup {NoKey},
         NEW u, u = DeleteRepIfMutable(s, key)
  PROVE  \E D : Dropped(s, C, u, D, {key})
<1>1. NoKey \notin DOMAIN s.reps
  BY DEF Sound, TablesType, Key, NoKey
<1>2. CASE key = NoKey \/ ~s.reps[key].mutable
  <2>1. u = s
    BY <1>2 DEF DeleteRepIfMutable
  <2>2. Dropped(s, C, u, C, {key})
    BY <1>1, <1>2, <2>1 DEF Dropped
  <2> QED
    BY <2>2
<1>3. CASE key # NoKey /\ s.reps[key].mutable
  <2>1. PICK D : D = [k \in DOMAIN s.reps \ {key} |-> C[k]]
    OBVIOUS
  <2>2. /\ Sound(u, D) /\ DOMAIN u.reps = DOMAIN s.reps \ {key}
        /\ \A k \in DOMAIN s.reps \ {key} : u.reps[k] = s.reps[k] /\ D[k] = C[k]
    BY <1>3, <2>1, DeleteSound
  <2>3. Dropped(s, C, u, D, {key})
    BY <1>3, <2>2 DEF Dropped
  <2> QED
    BY <2>3
<1> QED
  BY <1>2, <1>3

\* One after the other.
LEMMA DropMore ==
  ASSUME NEW s, NEW C, NEW u, NEW D, NEW X, Dropped(s, C, u, D, X),
         NEW key \in DOMAIN s.reps \cup {NoKey}, key \notin X \/ key = NoKey,
         NEW v, v = DeleteRepIfMutable(u, key)
  PROVE  \E E : Dropped(s, C, v, E, X \cup {key})
<1>1. /\ Sound(u, D)
      /\ \A k \in DOMAIN u.reps :
           k \in DOMAIN s.reps /\ u.reps[k] = s.reps[k] /\ D[k] = C[k]
      /\ \A k \in DOMAIN s.reps : k \in DOMAIN u.reps \/ (k \in X /\ s.reps[k].mutable)
      /\ \A k \in X : k \in DOMAIN u.reps => ~s.reps[k].mutable
  BY DEF Dropped
<1>2. key \in DOMAIN u.reps \cup {NoKey}
  BY <1>1
<1>3. PICK E : Dropped(u, D, v, E, {key})
  BY <1>1, <1>2, DropOne
<1>4. /\ Sound(v, E)
      /\ \A k \in DOMAIN v.reps :
           k \in DOMAIN u.reps /\ v.reps[k] = u.reps[k] /\ E[k] = D[k]
      /\ \A k \in DOMAIN u.reps : k \in DOMAIN v.reps \/ (k = key /\ u.reps[k].mutable)
      /\ key \in DOMAIN v.reps => ~u.reps[key].mutable
  BY <1>3 DEF Dropped
<1>5. \A k \in DOMAIN v.reps :
        k \in DOMAIN s.reps /\ v.reps[k] = s.reps[k] /\ E[k] = C[k]
  BY <1>1, <1>4
<1>6. \A k \in DOMAIN s.reps :
        k \in DOMAIN v.reps \/ (k \in X \cup {key} /\ s.reps[k].mutable)
  BY <1>1, <1>4
<1>7. \A k \in X \cup {key} : k \in DOMAIN v.reps => ~s.reps[k].mutable
  BY <1>1, <1>4
<1>8. Dropped(s, C, v, E, X \cup {key})
  BY <1>4, <1>5, <1>6, <1>7 DEF Dropped
<1> QED
  BY <1>8

\* svn_fs__dag_finalize_edits
LEMMA FinalizeEditsStep ==
  ASSUME RepsInv, NEW t \in Txns, FinalizeEdits(t)
  PROVE  RepsInv'
<1>1. NodesInv /\ NamesRight(db, nodes)
  BY DEF RepsInv, NodesInv
<1>2. PICK C : Sound(db, C) /\ TextsRight(C, nodes, txn, text, props)
  BY RepsInvTexts
<1>3. txn[t].state = "open" /\ txn[t].stream = "finish"
  BY DEF FinalizeEdits
<1>4. PICK i, m, b, s, T, P :
        /\ i = OwnId(t) /\ m = OwnNode(t) /\ b = nodes[txn[t].base] /\ s = db
        /\ T = txn[t].sent /\ P = OwnProps(t)
  OBVIOUS
<1>5. i = txn[t].node /\ m = nodes[i] /\ i \in DOMAIN nodes
  <2>1. txn[t].node # NoId /\ txn[t].node \in DOMAIN nodes
    BY <1>2, <1>3, StreamFacts
  <2> QED
    BY <1>4, <2>1 DEF OwnId, OwnNode
<1>6. OwnRight(t, C, i, m)
  BY <1>2, <1>3, <1>4, OwnFacts
<1>7. /\ m \in NodeType /\ m.mutable /\ NodeRight(s, m) /\ MadeBefore(b, m)
      /\ P \in Text /\ C[m.prop] = P /\ m.edit # NoKey
      /\ KeyBefore(b.data, m.edit) /\ i \in Seq(Nat)
      /\ \A j \in DOMAIN nodes :
           j # i => \A k \in KeysOf(nodes[j]) \cap KeysOf(m) : ~s.reps[k].mutable
  BY <1>3, <1>4, <1>6 DEF OwnRight
<1>8. m.prop \in Key /\ m.data \in Key /\ m.edit \in Key /\ m.prop # NoKey /\ m.data # NoKey
  <2>1. m.prop \in Key /\ m.data \in Key /\ m.edit \in Key
    BY <1>7 DEF NodeType
  <2> QED
    BY <2>1 DEF Key, NoKey
<1>9. /\ m.prop \in DOMAIN s.reps /\ m.data \in DOMAIN s.reps /\ m.edit \in DOMAIN s.reps
      /\ m.prop # m.data /\ m.edit # m.prop /\ m.edit # m.data
      /\ KeysOf(m) = {m.prop, m.data, m.edit}
  BY <1>7, <1>8 DEF NodeRight, KeysOf
<1>10. PICK u : u = DeleteRepIfMutable(s, m.data)
  OBVIOUS
<1>11. PICK D : Dropped(s, C, u, D, {m.data})
  <2>1. Sound(s, C)
    BY <1>2, <1>4
  <2> QED
    BY <1>9, <1>10, <2>1, DropOne
<1>12. /\ Sound(u, D)
       /\ \A k \in DOMAIN u.reps :
            k \in DOMAIN s.reps /\ u.reps[k] = s.reps[k] /\ D[k] = C[k]
       /\ \A k \in DOMAIN s.reps :
            k \in DOMAIN u.reps \/ (k = m.data /\ s.reps[k].mutable)
       /\ m.data \in DOMAIN u.reps => ~s.reps[m.data].mutable
  BY <1>11 DEF Dropped
<1>13. PICK n : n = [m EXCEPT !.data = m.edit, !.edit = NoKey]
  OBVIOUS
<1>14. /\ n \in NodeType /\ n.mutable /\ n.prop = m.prop /\ n.data = m.edit
       /\ n.edit = NoKey
  BY <1>7, <1>8, <1>13 DEF NodeType
<1>15. KeysOf(n) = {m.prop, m.edit}
  BY <1>7, <1>8, <1>14 DEF KeysOf
<1>16. NodeRight(u, n)
  BY <1>9, <1>12, <1>14, <1>15 DEF NodeRight
<1>17. PutRight(db, C, u, D, nodes, i, n)
  <2>1. ASSUME NEW j \in DOMAIN nodes, j # i, NEW k \in KeysOf(nodes[j])
        PROVE  k \in DOMAIN u.reps /\ u.reps[k].mutable = s.reps[k].mutable /\ D[k] = C[k]
    <3>1. k \in DOMAIN s.reps
      BY <1>1, <1>4 DEF NamesRight, NodeRight
    <3>2. ~(k = m.data /\ s.reps[k].mutable)
      BY <1>7, <1>9, <2>1
    <3> QED
      BY <1>12, <3>1, <3>2
  <2>2. \A j \in DOMAIN nodes :
          j # i => \A k \in KeysOf(nodes[j]) \cap KeysOf(n) : ~s.reps[k].mutable
    BY <1>7, <1>9, <1>15
  <2>3. ASSUME NEW k \in DOMAIN u.reps
        PROVE  \/ k \in KeysOf(n) /\ u.reps[k].mutable
               \/ \E j \in DOMAIN nodes : /\ j # i /\ k \in KeysOf(nodes[j])
                                          /\ u.reps[k].mutable \/ ~nodes[j].mutable
    <3>1. k \in DOMAIN s.reps /\ u.reps[k] = s.reps[k]
      BY <1>12
    <3>2. PICK j \in DOMAIN nodes :
            k \in KeysOf(nodes[j]) /\ (s.reps[k].mutable \/ ~nodes[j].mutable)
      BY <1>1, <1>4, <3>1 DEF NamesRight
    <3>3. CASE j # i
      BY <3>1, <3>2, <3>3
    <3>4. CASE j = i
      <4>1. k \in KeysOf(m) /\ s.reps[k].mutable
        BY <1>5, <1>7, <3>2, <3>4
      <4>2. k # m.data
        BY <1>12, <4>1
      <4> QED
        BY <1>9, <1>15, <3>1, <4>1, <4>2
    <3> QED
      BY <3>3, <3>4
  <2>4. \A j \in DOMAIN nodes : j # i =>
          \A k \in KeysOf(nodes[j]) :
            k \in DOMAIN u.reps /\ u.reps[k].mutable = db.reps[k].mutable /\ D[k] = C[k]
    BY <1>4, <2>1
  <2> QED
    BY <1>4, <1>12, <1>16, <2>2, <2>3, <2>4 DEF PutRight
<1>18. T \in Text /\ C[m.edit] = T
  <2>1. txn[t] \in TxnType
    BY <1>1 DEF NodesInv, TxnsRight
  <2>2. SentRight(C, txn[t], nodes)
    BY <1>2 DEF TextsRight
  <2>3. C[m.edit] \o <<>> = T
    BY <1>3, <1>4, <1>5, <2>2 DEF SentRight
  <2>4. C[m.edit] \in Seq(Nat \ {0})
    BY <1>2, <1>4, <1>9 DEF Sound, Text
  <2>5. T \in Text
    BY <1>4, <2>1 DEF TxnType
  <2> QED
    BY <2>3, <2>4, <2>5
<1>19. D[n.data] = T /\ D[n.prop] = P
  BY <1>7, <1>9, <1>12, <1>14, <1>18
<1>20. MadeBefore(b, n)
  BY <1>7, <1>14 DEF MadeBefore
<1>21. PICK x : x = [txn[t] EXCEPT !.stream = "none", !.sent = <<>>]
  OBVIOUS
<1>22. /\ x \in TxnType /\ x.node = i /\ x.state = "open" /\ x.base = txn[t].base
       /\ x.stream = "none"
  <2>1. txn[t] \in TxnType
    BY <1>1 DEF NodesInv, TxnsRight
  <2>2. <<>> \in Text
    BY DEF Text
  <2> QED
    BY <1>3, <1>5, <1>21, <2>1, <2>2 DEF TxnType
<1>23. /\ db' = u /\ txn' = [txn EXCEPT ![t] = x]
       /\ nodes' = Put(nodes, i, n) /\ text' = Put(text, i, T)
       /\ props' = Put(props, i, P) /\ UNCHANGED <<head, reader>>
  <2>1. db' = u
    BY <1>4, <1>5, <1>10 DEF FinalizeEdits
  <2>2. txn' = [txn EXCEPT ![t] = x]
    BY <1>21 DEF FinalizeEdits
  <2>3. /\ nodes' = Put(nodes, i, n) /\ text' = Put(text, i, T)
        /\ props' = Put(props, i, P)
    BY <1>4, <1>5, <1>13 DEF FinalizeEdits, PutNode
  <2>4. UNCHANGED <<head, reader>>
    BY DEF FinalizeEdits
  <2> QED
    BY <2>1, <2>2, <2>3, <2>4
<1>24. PutRight(db, C, db', D, nodes, i, n)
  BY <1>17, <1>23
<1>25. PutOwn(t, C, D, i, m, n, T, P, x)
  BY <1>2, <1>4, <1>6, <1>7, <1>14, <1>18, <1>19, <1>20, <1>22, <1>23, <1>24 DEF PutOwn
<1> QED
  BY <1>25, PutStep

-----------------------------------------------------------------------------
(* Transactions: the end *)

\* The node revisions N are the present ones but for i, which is committed or
\* gone; the others' texts in D are those in C.
Ended(N, i, C, D) ==
  /\ DOMAIN N \subseteq DOMAIN nodes /\ Fixed(nodes) \subseteq Fixed(N)
  /\ \A j \in DOMAIN nodes :
       j # i => /\ j \in DOMAIN N /\ N[j] = nodes[j]
                /\ \A k \in KeysOf(nodes[j]) : D[k] = C[k]
  /\ i \in DOMAIN N => ~N[i].mutable

\* The transaction that had i is over, and the others are as they were.
LEMMA EndTxn ==
  ASSUME RepsInv, NEW C, Sound(db, C), TextsRight(C, nodes, txn, text, props),
         NEW t \in Txns, txn[t].node # NoId,
         NEW N, NEW D, Ended(N, txn[t].node, C, D),
         NEW X, X = [txn EXCEPT ![t] = NoTxn("done")]
  PROVE  TxnsRight(X, N) /\ \A u \in Txns : SentRight(D, X[u], N)
<1>1. NodesInv /\ TxnsRight(txn, nodes) /\ txn \in [Txns -> TxnType]
  BY DEF RepsInv, NodesInv, TxnsRight
<1>2. PICK i, x : i = txn[t].node /\ x = NoTxn("done")
  OBVIOUS
<1>3. /\ x \in TxnType /\ x.state = "done" /\ x.node = NoId /\ x.stream = "none"
  <2>1. <<>> \in Seq(Nat) /\ <<>> \in Text
    BY DEF Text
  <2> QED
    BY <1>2, <2>1 DEF NoTxn, TxnType, NoId
<1>4. X \in [Txns -> TxnType] /\ X[t] = x /\ \A u \in Txns : u # t => X[u] = txn[u]
  BY <1>1, <1>2, <1>3
<1>5. /\ DOMAIN N \subseteq DOMAIN nodes /\ Fixed(nodes) \subseteq Fixed(N)
      /\ \A j \in DOMAIN nodes :
           j # i => /\ j \in DOMAIN N /\ N[j] = nodes[j]
                    /\ \A k \in KeysOf(nodes[j]) : D[k] = C[k]
      /\ i \in DOMAIN N => ~N[i].mutable
  BY <1>2 DEF Ended
<1>6. i \in DOMAIN nodes /\ nodes[i].mutable
  BY <1>1, <1>2 DEF TxnsRight, TxnRight
<1>7. \A j \in Fixed(nodes) : j \in DOMAIN nodes /\ N[j] = nodes[j]
  BY <1>5, <1>6 DEF Fixed
<1>8. TxnRight(x, N) /\ SentRight(D, x, N)
  BY <1>3 DEF TxnRight, SentRight
<1>9. ASSUME NEW u \in Txns, u # t
      PROVE  TxnRight(txn[u], N) /\ SentRight(D, txn[u], N)
  <2>1. TxnRight(txn[u], nodes) /\ SentRight(C, txn[u], nodes)
    BY <1>1 DEF TxnsRight, TextsRight
  <2>2. PICK y, j : y = txn[u] /\ j = txn[u].node
    OBVIOUS
  <2>3. CASE j = NoId
    BY <1>5, <2>1, <2>2, <2>3 DEF TxnRight, SentRight
  <2>4. CASE j # NoId
    <3>1. j \in DOMAIN nodes /\ j # i /\ y.state = "open" /\ y.base \in Fixed(nodes)
      BY <1>1, <1>2, <1>9, <2>1, <2>2, <2>4 DEF TxnRight, TxnsRight
    <3>2. N[j] = nodes[j] /\ N[y.base] = nodes[y.base] /\ j \in DOMAIN N
      BY <1>5, <1>7, <3>1
    <3>3. TxnRight(y, N)
      BY <1>5, <2>1, <2>2, <2>4, <3>1, <3>2 DEF TxnRight
    <3>4. SentRight(D, y, N)
      <4>1. CASE y.stream = "none"
        BY <4>1 DEF SentRight
      <4>2. CASE y.stream # "none"
        <5>1. nodes[j].edit # NoKey
          BY <2>1, <2>2, <2>4, <4>2 DEF TxnRight
        <5>2. nodes[j].edit \in KeysOf(nodes[j])
          BY <5>1 DEF KeysOf
        <5>3. D[nodes[j].edit] = C[nodes[j].edit]
          BY <1>5, <3>1, <5>2
        <5> QED
          BY <2>1, <2>2, <3>2, <5>3 DEF SentRight
      <4> QED
        BY <4>1, <4>2
    <3> QED
      BY <2>2, <3>3, <3>4
  <2> QED
    BY <2>3, <2>4
<1>10. \A u \in Txns : TxnRight(X[u], N) /\ SentRight(D, X[u], N)
  BY <1>4, <1>8, <1>9
<1>11. \A u, v \in Txns : u # v /\ X[u].node # NoId => X[v].node # X[u].node
  BY <1>1, <1>3, <1>4 DEF TxnsRight
<1>12. ASSUME NEW j \in DOMAIN N, N[j].mutable
       PROVE  \E u \in Txns : X[u].node = j
  <2>1. j # i
    BY <1>5, <1>12
  <2>2. j \in DOMAIN nodes /\ nodes[j].mutable
    BY <1>5, <1>12, <2>1
  <2>3. PICK u \in Txns : txn[u].node = j
    BY <1>1, <2>2 DEF TxnsRight
  <2>4. u # t
    BY <1>2, <2>1, <2>3
  <2> QED
    BY <1>4, <2>3, <2>4
<1> QED
  BY <1>4, <1>10, <1>11, <1>12 DEF TxnsRight

\* What svn_fs_commit_txn makes of the tables: the representations p and d
\* become immutable, and the rest is as it was.
Committing(s, u, p, d) ==
  /\ DOMAIN u.reps = DOMAIN s.reps
  /\ ~u.reps[p].mutable /\ ~u.reps[d].mutable
  /\ \A k \in DOMAIN s.reps : k # p /\ k # d => u.reps[k].mutable = s.reps[k].mutable

\* make_node_immutable and svn_fs__stable_node keep all texts.
LEMMA CommitTables ==
  ASSUME NEW s, NEW C, Sound(s, C), NEW p \in DOMAIN s.reps, NEW d \in DOMAIN s.reps,
         NEW a, NEW b, b.prop = p, b.data = d,
         a.prop \in DOMAIN s.reps, a.data \in DOMAIN s.reps,
         ~s.reps[a.prop].mutable, ~s.reps[a.data].mutable,
         KeyBefore(a.prop, p), KeyBefore(a.data, d),
         NEW f, f = MakeRepImmutable(MakeRepImmutable(s, p), d),
         NEW saves, NEW u, u = Deltify(f, a, b, saves)
  PROVE  Sound(u, C) /\ Committing(s, u, p, d)
<1>1. PICK g : g = MakeRepImmutable(s, p)
  OBVIOUS
<1>2. Sound(g, C) /\ MadeImmutable(s, g, p)
  BY <1>1, MakeImmutableSound
<1>3. d \in DOMAIN g.reps /\ f = MakeRepImmutable(g, d)
  BY <1>1, <1>2 DEF MadeImmutable
<1>4. Sound(f, C) /\ MadeImmutable(g, f, d)
  BY <1>2, <1>3, MakeImmutableSound
<1>5. /\ ~f.reps[p].mutable /\ ~f.reps[d].mutable /\ DOMAIN f.reps = DOMAIN s.reps
      /\ \A k \in DOMAIN s.reps : k # p /\ k # d => f.reps[k] = s.reps[k]
  BY <1>2, <1>4 DEF MadeImmutable
<1>6. ~f.reps[a.prop].mutable /\ ~f.reps[a.data].mutable
  BY <1>5
<1>7. Sound(u, C) /\ SameReps(f, u)
  <2>1. /\ a.prop \in DOMAIN f.reps /\ a.data \in DOMAIN f.reps
        /\ b.prop \in DOMAIN f.reps /\ b.data \in DOMAIN f.reps
        /\ ~f.reps[b.prop].mutable /\ ~f.reps[b.data].mutable
        /\ KeyBefore(a.prop, b.prop) /\ KeyBefore(a.data, b.data)
    BY <1>5
  <2> QED
    BY <1>4, <1>6, <2>1, DeltifySound
<1> QED
  BY <1>5, <1>7 DEF Committing, SameReps

\* The node revisions N are the present ones, with i committed.
FixedOnly(N, i) ==
  /\ DOMAIN N = DOMAIN nodes /\ N[i] = [nodes[i] EXCEPT !.mutable = FALSE]
  /\ \A j \in DOMAIN nodes : j # i => N[j] = nodes[j]

\* The names after it, N being the present node revisions with i committed.
LEMMA CommitNames ==
  ASSUME NodesInv, NEW i \in DOMAIN nodes, NEW n, n = nodes[i], n.edit = NoKey,
         NEW u, Committing(db, u, n.prop, n.data),
         NEW N, FixedOnly(N, i)
  PROVE  NamesRight(u, N)
<1> /\ DOMAIN N = DOMAIN nodes /\ N[i] = [n EXCEPT !.mutable = FALSE]
    /\ \A j \in DOMAIN nodes : j # i => N[j] = nodes[j]
  BY DEF FixedOnly
<1>1. NamesRight(db, nodes) /\ NodesShape(nodes, text, props)
  BY DEF NodesInv
<1>2. PICK p, d : p = n.prop /\ d = n.data
  OBVIOUS
<1>3. /\ n \in NodeType /\ p \in DOMAIN db.reps /\ d \in DOMAIN db.reps
      /\ p # NoKey /\ d # NoKey /\ NodeRight(db, n)
  BY <1>1, <1>2, NodeFacts
<1>4. /\ DOMAIN u.reps = DOMAIN db.reps /\ ~u.reps[p].mutable /\ ~u.reps[d].mutable
      /\ \A k \in DOMAIN db.reps :
           k # p /\ k # d => u.reps[k].mutable = db.reps[k].mutable
  BY <1>2 DEF Committing
<1>5. KeysOf(n) = {p, d}
  BY <1>2, <1>3 DEF KeysOf
<1>6. PICK x : x = N[i]
  OBVIOUS
<1>7. x.prop = p /\ x.data = d /\ x.edit = NoKey /\ x.mutable = FALSE
  BY <1>2, <1>3, <1>6 DEF NodeType
<1>8. KeysOf(x) = {p, d}
  BY <1>3, <1>7 DEF KeysOf
<1>9. \A j \in DOMAIN nodes : KeysOf(N[j]) = KeysOf(nodes[j])
  BY <1>5, <1>6, <1>8
<1>10. \A j \in DOMAIN nodes : \A k \in KeysOf(nodes[j]) : k \in DOMAIN db.reps
  BY <1>1 DEF NamesRight, NodeRight
<1>11. \A k \in DOMAIN db.reps : ~db.reps[k].mutable => ~u.reps[k].mutable
  BY <1>4
<1>12. NodeRight(u, x)
  <2>1. p # d
    BY <1>2, <1>3 DEF NodeRight
  <2> QED
    BY <1>3, <1>4, <1>7, <1>8, <2>1 DEF NodeRight
<1>13. ASSUME NEW j \in DOMAIN nodes, j # i
       PROVE  NodeRight(u, nodes[j])
  <2>1. PICK y : y = nodes[j]
    OBVIOUS
  <2>2. NodeRight(db, y)
    BY <1>1, <2>1 DEF NamesRight
  <2>3. y.edit # NoKey => y.edit \in KeysOf(y)
    BY DEF KeysOf
  <2>4. \A k \in KeysOf(y) \cap {p, d} : ~db.reps[k].mutable
    BY <1>1, <1>5, <1>13, <2>1 DEF NamesRight
  <2>5. y.edit # NoKey => u.reps[y.edit].mutable
    <3>1. y.edit # NoKey => /\ db.reps[y.edit].mutable /\ y.edit # p /\ y.edit # d
                            /\ y.edit \in DOMAIN db.reps
      BY <2>2, <2>3, <2>4 DEF NodeRight
    <3> QED
      BY <1>4, <3>1
  <2>6. KeysOf(y) \subseteq DOMAIN u.reps
    BY <1>4, <2>2 DEF NodeRight
  <2>7. ~y.mutable => \A k \in KeysOf(y) : ~u.reps[k].mutable
    BY <1>11, <2>2 DEF NodeRight
  <2>8. NodeRight(u, y)
    BY <2>2, <2>5, <2>6, <2>7 DEF NodeRight
  <2> QED
    BY <2>1, <2>8
<1>14. \A j \in DOMAIN N : NodeRight(u, N[j])
  BY <1>6, <1>12, <1>13
<1>15. ASSUME NEW k \in DOMAIN u.reps
       PROVE  \E j \in DOMAIN N : k \in KeysOf(N[j]) /\ (u.reps[k].mutable \/ ~N[j].mutable)
  <2>1. CASE k \in {p, d}
    BY <1>6, <1>7, <1>8, <2>1
  <2>2. CASE k \notin {p, d}
    <3>1. PICK j \in DOMAIN nodes :
            k \in KeysOf(nodes[j]) /\ (db.reps[k].mutable \/ ~nodes[j].mutable)
      BY <1>1, <1>4 DEF NamesRight
    <3>2. j # i
      BY <1>5, <2>2, <3>1
    <3>3. u.reps[k].mutable = db.reps[k].mutable
      BY <1>4, <2>2
    <3> QED
      BY <3>1, <3>2, <3>3
  <2> QED
    BY <2>1, <2>2
<1>16. ASSUME NEW j1 \in DOMAIN N, NEW j2 \in DOMAIN N, j1 # j2,
              NEW k \in KeysOf(N[j1]) \cap KeysOf(N[j2])
       PROVE  ~u.reps[k].mutable
  <2>1. k \in KeysOf(nodes[j1]) \cap KeysOf(nodes[j2])
    BY <1>9, <1>16
  <2>2. ~db.reps[k].mutable
    BY <1>1, <1>16, <2>1 DEF NamesRight
  <2> QED
    BY <1>10, <1>11, <2>1, <2>2
<1> QED
  BY <1>14, <1>15, <1>16 DEF NamesRight

\* svn_fs_commit_txn
LEMMA CommitStep ==
  ASSUME RepsInv, NEW t \in Txns, Commit(t)
  PROVE  RepsInv'
<1>1. /\ NodesInv /\ TxnsRight(txn, nodes) /\ NodesShape(nodes, text, props)
      /\ NamesRight(db, nodes) /\ OrderRight(nodes, head) /\ GotRight(reader, nodes, text)
  BY DEF RepsInv, NodesInv
<1>2. PICK C : Sound(db, C) /\ TextsRight(C, nodes, txn, text, props)
  BY RepsInvTexts
<1>3. PICK i, n, pred, a, N, X :
        /\ i = txn[t].node /\ n = nodes[i] /\ pred = IdPredecessor(i) /\ a = nodes[pred]
        /\ N = [nodes EXCEPT ![i].mutable = FALSE]
        /\ X = [txn EXCEPT ![t] = NoTxn("done")]
  OBVIOUS
<1>4. PICK saves, f : /\ f = MakeRepImmutable(MakeRepImmutable(db, n.prop), n.data)
                      /\ db' = Deltify(f, a, n, saves)
  BY <1>3 DEF Commit
<1>5. /\ i # NoId /\ txn[t].base = head /\ n.edit = NoKey /\ txn[t].state = "open"
      /\ nodes' = N /\ head' = i /\ txn' = X
      /\ reader' = reader /\ text' = text /\ props' = props
  BY <1>3 DEF Commit
<1>6. /\ i \in DOMAIN nodes /\ n.mutable /\ pred \in Fixed(nodes) /\ MadeBefore(nodes[head], n)
  <2>1. TxnRight(txn[t], nodes)
    BY <1>1 DEF TxnsRight
  <2> QED
    BY <1>3, <1>5, <2>1 DEF TxnRight
<1>7. pred \in DOMAIN nodes /\ ~a.mutable /\ i # pred /\ i # head /\ head \in DOMAIN nodes
  BY <1>1, <1>3, <1>6 DEF Fixed, OrderRight
<1>8. /\ n \in NodeType /\ n.prop \in DOMAIN db.reps /\ n.data \in DOMAIN db.reps
  BY <1>1, <1>3, <1>6, NodeFacts
<1>9. /\ a \in NodeType /\ a.prop \in DOMAIN db.reps /\ a.data \in DOMAIN db.reps
      /\ NodeRight(db, a) /\ a.prop # NoKey /\ a.data # NoKey
  BY <1>1, <1>3, <1>7, NodeFacts
<1>10. ~db.reps[a.prop].mutable /\ ~db.reps[a.data].mutable
  BY <1>7, <1>9 DEF NodeRight, KeysOf
<1>11. ASSUME NEW j \in Fixed(nodes)
       PROVE  MadeBefore(nodes[j], n)
  <2>1. MadeBefore(nodes[j], nodes[head])
    BY <1>1 DEF OrderRight
  <2>2. nodes[j] \in NodeType /\ nodes[head] \in NodeType
    BY <1>1, <1>7 DEF NodesShape, Fixed
  <2> QED
    BY <1>6, <1>8, <2>1, <2>2, MadeBeforeTransitive
<1>12. Sound(db', C) /\ Committing(db, db', n.prop, n.data)
  <2>1. KeyBefore(a.prop, n.prop) /\ KeyBefore(a.data, n.data)
    BY <1>3, <1>6, <1>11 DEF MadeBefore
  <2>2. PICK s, u, p, d : s = db /\ u = db' /\ p = n.prop /\ d = n.data
    OBVIOUS
  <2>3. /\ Sound(s, C) /\ p \in DOMAIN s.reps /\ d \in DOMAIN s.reps
        /\ n.prop = p /\ n.data = d
        /\ a.prop \in DOMAIN s.reps /\ a.data \in DOMAIN s.reps
        /\ ~s.reps[a.prop].mutable /\ ~s.reps[a.data].mutable
        /\ KeyBefore(a.prop, p) /\ KeyBefore(a.data, d)
        /\ f = MakeRepImmutable(MakeRepImmutable(s, p), d)
        /\ u = Deltify(f, a, n, saves)
    BY <1>2, <1>4, <1>8, <1>9, <1>10, <2>1, <2>2
  <2>4. Sound(u, C) /\ Committing(s, u, p, d)
    BY <2>3, CommitTables
  <2> QED
    BY <2>2, <2>4
<1>13. PICK x : x = [n EXCEPT !.mutable = FALSE]
  OBVIOUS
<1>14. /\ x \in NodeType /\ x.prop = n.prop /\ x.data = n.data /\ x.edit = NoKey
       /\ x.mutable = FALSE
  BY <1>5, <1>8, <1>13 DEF NodeType
<1>15. /\ DOMAIN N = DOMAIN nodes /\ N[i] = x
       /\ \A j \in DOMAIN nodes : j # i => N[j] = nodes[j]
       /\ N \in [DOMAIN nodes -> NodeType]
  <2>1. nodes \in [DOMAIN nodes -> NodeType]
    BY <1>1 DEF NodesShape
  <2>2. N = [nodes EXCEPT ![i] = x]
    BY <1>3, <1>13
  <2> QED
    BY <1>6, <1>14, <2>1, <2>2
<1>16. Fixed(N) = Fixed(nodes) \cup {i}
  BY <1>6, <1>14, <1>15 DEF Fixed
<1>17. NodesShape(N, text, props)
  <2>1. /\ IdsSound(DOMAIN nodes, Fixed(nodes))
        /\ \A id \in DOMAIN nodes : id[Len(id)] > 0
        /\ text \in [DOMAIN nodes -> Text] /\ props \in [DOMAIN nodes -> Text]
    BY <1>1 DEF NodesShape
  <2>2. PICK K, F, G : K = DOMAIN nodes /\ F = Fixed(nodes) /\ G = Fixed(N)
    OBVIOUS
  <2>3. G = F \cup {i} /\ i \in K /\ IdsSound(K, F)
    BY <1>6, <1>16, <2>1, <2>2
  <2>4. IdsSound(K, G)
    BY <2>3 DEF IdsSound
  <2>5. IdsSound(DOMAIN N, Fixed(N))
    BY <1>15, <2>2, <2>4
  <2>6. /\ N \in [DOMAIN N -> NodeType] /\ text \in [DOMAIN N -> Text]
        /\ props \in [DOMAIN N -> Text] /\ \A id \in DOMAIN N : id[Len(id)] > 0
    BY <1>15, <2>1
  <2> QED
    BY <2>5, <2>6 DEF NodesShape
<1>18. NamesRight(db', N)
  <2>1. PICK u : u = db'
    OBVIOUS
  <2>2. /\ Committing(db, u, n.prop, n.data) /\ FixedOnly(N, i)
        /\ n = nodes[i] /\ n.edit = NoKey
    BY <1>3, <1>5, <1>12, <1>13, <1>15, <2>1 DEF FixedOnly
  <2>3. NamesRight(u, N)
    BY <1>1, <1>6, <2>2, CommitNames
  <2> QED
    BY <2>1, <2>3
<1>19. OrderRight(N, i)
  <2>1. \A j \in Fixed(nodes) : N[j] = nodes[j] /\ j # i
    BY <1>3, <1>6, <1>15 DEF Fixed
  <2>2. MadeBefore(x, x)
    BY DEF MadeBefore, KeyBefore
  <2>3. \A j \in Fixed(nodes) : MadeBefore(N[j], N[i])
    BY <1>11, <1>14, <1>15, <2>1 DEF MadeBefore
  <2>4. ASSUME NEW j \in Fixed(nodes)
        PROVE  \/ IdPredecessor(j) = NoId
               \/ IdPredecessor(j) \in Fixed(N) /\ MadeBefore(N[IdPredecessor(j)], N[j])
    <3>1. CASE IdPredecessor(j) = NoId
      BY <3>1
    <3>2. CASE IdPredecessor(j) # NoId
      <4>1. IdPredecessor(j) \in Fixed(nodes) /\ MadeBefore(nodes[IdPredecessor(j)], nodes[j])
        BY <1>1, <3>2 DEF OrderRight
      <4> QED
        BY <1>16, <2>1, <4>1
    <3> QED
      BY <3>1, <3>2
  <2>5. IdPredecessor(i) \in Fixed(N) /\ MadeBefore(N[IdPredecessor(i)], N[i])
    BY <1>3, <1>6, <1>16, <2>3
  <2>6. MadeBefore(N[i], N[i])
    BY <1>15, <2>2
  <2> QED
    BY <1>16, <2>3, <2>4, <2>5, <2>6 DEF OrderRight
<1>20. GotRight(reader, N, text)
  BY <1>1, <1>16 DEF GotRight
<1>21. Ended(N, i, C, C)
  BY <1>14, <1>15, <1>16 DEF Ended
<1>22. TxnsRight(X, N) /\ \A u \in Txns : SentRight(C, X[u], N)
  <2>1. txn[t].node # NoId /\ Ended(N, txn[t].node, C, C)
    BY <1>3, <1>5, <1>21
  <2>2. X = [txn EXCEPT ![t] = NoTxn("done")]
    BY <1>3
  <2> QED
    BY <1>2, <2>1, <2>2, EndTxn
<1>23. TextsRight(C, N, X, text, props)
  <2>1. \A j \in DOMAIN nodes : N[j].data = nodes[j].data /\ N[j].prop = nodes[j].prop
    BY <1>3, <1>14, <1>15
  <2>2. \A j \in DOMAIN nodes : C[nodes[j].data] = text[j] /\ C[nodes[j].prop] = props[j]
    BY <1>2 DEF TextsRight
  <2> QED
    BY <1>15, <1>22, <2>1, <2>2 DEF TextsRight
<1>24. /\ NodesShape(nodes', text', props') /\ NamesRight(db', nodes')
       /\ OrderRight(nodes', head') /\ TxnsRight(txn', nodes')
       /\ GotRight(reader', nodes', text') /\ TextsRight(C, nodes', txn', text', props')
  BY <1>5, <1>17, <1>18, <1>19, <1>20, <1>22, <1>23
<1> QED
  BY <1>1, <1>12, <1>24 DEF RepsInv, NodesInv

\* The node revisions N are the present ones without i.
Without(N, i) ==
  DOMAIN N = DOMAIN nodes \ {i} /\ \A j \in DOMAIN N : N[j] = nodes[j]

\* The texts of those N has are the same in D as in C.
TextsOf(N, C, D) == \A j \in DOMAIN N : \A k \in KeysOf(nodes[j]) : D[k] = C[k]

\* The names when the node revision i and its mutable representations are gone.
LEMMA AbortNames ==
  ASSUME NodesInv, NEW i \in DOMAIN nodes, NEW n, n = nodes[i], n.mutable,
         NEW C, NEW u, NEW D, NEW Y, Dropped(db, C, u, D, Y), Y \subseteq KeysOf(n) \cup {NoKey},
         KeysOf(n) \subseteq Y,
         NEW N, Without(N, i)
  PROVE  NamesRight(u, N) /\ TextsOf(N, C, D)
<1> /\ DOMAIN N = DOMAIN nodes \ {i}
    /\ \A j \in DOMAIN N : N[j] = nodes[j]
  BY DEF Without
<1>1. NamesRight(db, nodes)
  BY DEF NodesInv
<1>2. /\ \A k \in DOMAIN u.reps :
           k \in DOMAIN db.reps /\ u.reps[k] = db.reps[k] /\ D[k] = C[k]
      /\ \A k \in DOMAIN db.reps : k \in DOMAIN u.reps \/ (k \in Y /\ db.reps[k].mutable)
      /\ \A k \in Y : k \in DOMAIN u.reps => ~db.reps[k].mutable
  BY DEF Dropped
<1>3. ASSUME NEW j \in DOMAIN N, NEW k \in KeysOf(nodes[j])
      PROVE  k \in DOMAIN u.reps /\ u.reps[k] = db.reps[k] /\ D[k] = C[k]
  <2>1. k \in DOMAIN db.reps /\ k # NoKey
    BY <1>1 DEF NamesRight, NodeRight, KeysOf
  <2>2. k \in KeysOf(n) => ~db.reps[k].mutable
    BY <1>1, <1>3 DEF NamesRight
  <2> QED
    BY <1>2, <2>1, <2>2
<1>4. ASSUME NEW j \in DOMAIN N
      PROVE  NodeRight(u, N[j])
  <2>1. PICK y : y = nodes[j]
    OBVIOUS
  <2>2. NodeRight(db, y) /\ N[j] = y
    BY <1>1, <2>1 DEF NamesRight
  <2>3. y.edit # NoKey => y.edit \in KeysOf(y)
    BY DEF KeysOf
  <2>4. \A k \in KeysOf(y) : k \in DOMAIN u.reps /\ u.reps[k] = db.reps[k]
    BY <1>3, <2>1
  <2>5. NodeRight(u, y)
    BY <2>2, <2>3, <2>4 DEF NodeRight
  <2> QED
    BY <2>2, <2>5
<1>5. ASSUME NEW k \in DOMAIN u.reps
      PROVE  \E j \in DOMAIN N : k \in KeysOf(N[j]) /\ (u.reps[k].mutable \/ ~N[j].mutable)
  <2>1. k \in DOMAIN db.reps /\ u.reps[k] = db.reps[k]
    BY <1>2
  <2>2. PICK j \in DOMAIN nodes :
          k \in KeysOf(nodes[j]) /\ (db.reps[k].mutable \/ ~nodes[j].mutable)
    BY <1>1, <2>1 DEF NamesRight
  <2>3. j # i
    <3>1. ASSUME j = i
          PROVE  FALSE
      <4>1. k \in Y /\ db.reps[k].mutable
        BY <2>2, <3>1
      <4> QED
        BY <1>2, <4>1
    <3> QED
      BY <3>1
  <2> QED
    BY <2>1, <2>2, <2>3
<1>6. ASSUME NEW j1 \in DOMAIN N, NEW j2 \in DOMAIN N, j1 # j2,
             NEW k \in KeysOf(N[j1]) \cap KeysOf(N[j2])
      PROVE  ~u.reps[k].mutable
  <2>1. k \in KeysOf(nodes[j1]) \cap KeysOf(nodes[j2])
    BY <1>6
  <2>2. ~db.reps[k].mutable
    BY <1>1, <1>6, <2>1 DEF NamesRight
  <2> QED
    BY <1>3, <2>1, <2>2
<1>7. NamesRight(u, N)
  BY <1>4, <1>5, <1>6 DEF NamesRight
<1>8. \A j \in DOMAIN N : \A k \in KeysOf(nodes[j]) : D[k] = C[k]
  BY <1>3
<1> QED
  BY <1>7, <1>8 DEF TextsOf

\* svn_fs_abort_txn of a transaction without changes.
LEMMA AbortNothing ==
  ASSUME RepsInv, NEW t \in Txns, Abort(t), txn[t].node = NoId
  PROVE  RepsInv'
<1>1. NodesInv /\ NodesShape(nodes, text, props)
  BY DEF RepsInv, NodesInv
<1>2. PICK C : Sound(db, C) /\ TextsRight(C, nodes, txn, text, props)
  BY RepsInvTexts
<1>3. NoId \notin DOMAIN nodes
  BY <1>1, NodeFacts DEF NodesInv
<1>4. /\ nodes \in [DOMAIN nodes -> NodeType]
      /\ text \in [DOMAIN nodes -> Text] /\ props \in [DOMAIN nodes -> Text]
  BY <1>1 DEF NodesShape
<1>5. PICK i : i = txn[t].node
  OBVIOUS
<1>6. /\ nodes' = [k \in DOMAIN nodes \ {i} |-> nodes[k]]
      /\ text' = [k \in DOMAIN text \ {i} |-> text[k]]
      /\ props' = [k \in DOMAIN props \ {i} |-> props[k]]
      /\ db' = db /\ txn' = [txn EXCEPT ![t] = NoTxn("done")]
      /\ head' = head /\ reader' = reader
  BY <1>5 DEF Abort
<1>7. nodes' = nodes /\ text' = text /\ props' = props
  <2>1. /\ DOMAIN nodes \ {i} = DOMAIN nodes /\ DOMAIN text \ {i} = DOMAIN text
        /\ DOMAIN props \ {i} = DOMAIN props
    BY <1>3, <1>4, <1>5
  <2> QED
    BY <1>4, <1>6, <2>1
<1>8. PICK x : x = NoTxn("done")
  OBVIOUS
<1>9. /\ x \in TxnType /\ x.state = "done" /\ x.node = NoId /\ x.stream = "none"
  <2>1. <<>> \in Seq(Nat) /\ <<>> \in Text
    BY DEF Text
  <2> QED
    BY <1>8, <2>1 DEF NoTxn, TxnType, NoId
<1>10. TxnRight(x, nodes) /\ SentRight(C, x, nodes)
  BY <1>9 DEF TxnRight, SentRight
<1>11. Sound(db', C) /\ SameReps(db, db')
  BY <1>2, <1>6 DEF SameReps
<1>12. /\ \A id \in DOMAIN nodes :
            C[nodes[id].data] = text[id] /\ C[nodes[id].prop] = props[id]
       /\ \A u \in Txns : u # t => SentRight(C, txn[u], nodes)
  BY <1>2 DEF TextsRight
<1>13. UNCHANGED <<nodes, head, reader, text, props>> /\ txn' = [txn EXCEPT ![t] = x]
  BY <1>6, <1>7, <1>8
<1>14. x.node = txn[t].node
  BY <1>9
<1> QED
  BY <1>9, <1>10, <1>11, <1>12, <1>13, <1>14, TxnStep

\* svn_fs_abort_txn
LEMMA AbortStep ==
  ASSUME RepsInv, NEW t \in Txns, Abort(t)
  PROVE  RepsInv'
<1> SUFFICES ASSUME txn[t].node # NoId
             PROVE  RepsInv'
  BY AbortNothing
<1>1. /\ NodesInv /\ TxnsRight(txn, nodes) /\ NodesShape(nodes, text, props)
      /\ NamesRight(db, nodes) /\ OrderRight(nodes, head) /\ GotRight(reader, nodes, text)
  BY DEF RepsInv, NodesInv
<1>2. PICK C : Sound(db, C) /\ TextsRight(C, nodes, txn, text, props)
  BY RepsInvTexts
<1>3. PICK i, n, N, T, P, X :
        /\ i = txn[t].node /\ n = nodes[i]
        /\ N = [k \in DOMAIN nodes \ {i} |-> nodes[k]]
        /\ T = [k \in DOMAIN text \ {i} |-> text[k]]
        /\ P = [k \in DOMAIN props \ {i} |-> props[k]]
        /\ X = [txn EXCEPT ![t] = NoTxn("done")]
  OBVIOUS
<1>4. /\ nodes' = N /\ text' = T /\ props' = P /\ txn' = X
      /\ head' = head /\ reader' = reader
      /\ db' = DeleteRepIfMutable(DeleteRepIfMutable(DeleteRepIfMutable(
                 db, n.prop), n.data), n.edit)
  BY <1>3 DEF Abort
<1>5. i # NoId /\ i \in DOMAIN nodes /\ n.mutable
  <2>1. TxnRight(txn[t], nodes)
    BY <1>1 DEF TxnsRight
  <2> QED
    BY <1>3, <2>1 DEF TxnRight
<1>6. /\ n.prop \in DOMAIN db.reps /\ n.data \in DOMAIN db.reps
      /\ n.edit = NoKey \/ n.edit \in DOMAIN db.reps
      /\ NodeRight(db, n) /\ n.prop # NoKey /\ n.data # NoKey
  BY <1>1, <1>3, <1>5, NodeFacts
<1>7. n.prop # n.data /\ (n.edit # NoKey => n.edit # n.prop /\ n.edit # n.data)
  BY <1>6 DEF NodeRight
<1>8. PICK s, p, d, e, u, v, w :
        /\ s = db /\ p = n.prop /\ d = n.data /\ e = n.edit
        /\ u = DeleteRepIfMutable(s, p) /\ v = DeleteRepIfMutable(u, d)
        /\ w = DeleteRepIfMutable(v, e)
  OBVIOUS
<1>9. PICK D1 : Dropped(s, C, u, D1, {p})
  BY <1>2, <1>6, <1>8, DropOne
<1>10. PICK D2 : Dropped(s, C, v, D2, {p} \cup {d})
  <2>1. d \in DOMAIN s.reps \cup {NoKey} /\ d \notin {p}
    BY <1>6, <1>7, <1>8
  <2> QED
    BY <1>8, <1>9, <2>1, DropMore
<1>11. PICK Y : Y = ({p} \cup {d}) \cup {e}
  OBVIOUS
<1>12. PICK D : Dropped(s, C, w, D, Y)
  <2>1. e \in DOMAIN s.reps \cup {NoKey} /\ (e \notin {p} \cup {d} \/ e = NoKey)
    BY <1>6, <1>7, <1>8
  <2> QED
    BY <1>8, <1>10, <1>11, <2>1, DropMore
<1>13. db' = w /\ Sound(w, D) /\ Dropped(db, C, w, D, Y)
  BY <1>4, <1>8, <1>12 DEF Dropped
<1>14. Y \subseteq KeysOf(n) \cup {NoKey} /\ KeysOf(n) \subseteq Y
  BY <1>8, <1>11 DEF KeysOf
<1>15. DOMAIN N = DOMAIN nodes \ {i} /\ \A j \in DOMAIN N : N[j] = nodes[j]
  BY <1>3
<1>16. /\ NamesRight(w, N)
       /\ \A j \in DOMAIN N : \A k \in KeysOf(nodes[j]) : D[k] = C[k]
  <2>1. Without(N, i) /\ n = nodes[i]
    BY <1>3, <1>15 DEF Without
  <2>2. NamesRight(w, N) /\ TextsOf(N, C, D)
    BY <1>1, <1>5, <1>13, <1>14, <2>1, AbortNames
  <2> QED
    BY <2>2 DEF TextsOf
<1>17. Fixed(N) = Fixed(nodes) /\ \A j \in Fixed(nodes) : N[j] = nodes[j] /\ j # i
  BY <1>3, <1>5, <1>15 DEF Fixed
<1>18. /\ nodes \in [DOMAIN nodes -> NodeType]
       /\ text \in [DOMAIN nodes -> Text] /\ props \in [DOMAIN nodes -> Text]
       /\ IdsSound(DOMAIN nodes, Fixed(nodes))
       /\ \A id \in DOMAIN nodes : id[Len(id)] > 0
  BY <1>1 DEF NodesShape
<1>19. NodesShape(N, T, P)
  <2>1. N \in [DOMAIN N -> NodeType] /\ T \in [DOMAIN N -> Text] /\ P \in [DOMAIN N -> Text]
    BY <1>3, <1>15, <1>18
  <2>2. PICK K, L, F : K = DOMAIN nodes /\ L = DOMAIN N /\ F = Fixed(nodes)
    OBVIOUS
  <2>3. L \subseteq K /\ F \subseteq L /\ IdsSound(K, F)
    BY <1>15, <1>17, <1>18, <2>2 DEF IdsSound
  <2>4. IsFiniteSet(L)
    BY <2>3, FS_Subset DEF IdsSound
  <2>5. IdsSound(L, F)
    BY <2>3, <2>4 DEF IdsSound
  <2> QED
    BY <1>15, <1>17, <1>18, <2>1, <2>2, <2>5 DEF NodesShape
<1>20. OrderRight(N, head)
  BY <1>1, <1>17 DEF OrderRight
<1>21. GotRight(reader, N, T)
  <2>1. \A j \in Fixed(nodes) : T[j] = text[j]
    BY <1>3, <1>17, <1>18 DEF Fixed
  <2> QED
    BY <1>1, <1>17, <2>1 DEF GotRight
<1>22. Ended(N, i, C, D)
  BY <1>15, <1>16, <1>17 DEF Ended
<1>23. TxnsRight(X, N) /\ \A y \in Txns : SentRight(D, X[y], N)
  <2>1. txn[t].node # NoId /\ Ended(N, txn[t].node, C, D)
    BY <1>3, <1>5, <1>22
  <2>2. X = [txn EXCEPT ![t] = NoTxn("done")]
    BY <1>3
  <2> QED
    BY <1>2, <2>1, <2>2, EndTxn
<1>24. TextsRight(D, N, X, T, P)
  <2>1. ASSUME NEW j \in DOMAIN N
        PROVE  D[N[j].data] = T[j] /\ D[N[j].prop] = P[j]
    <3>1. N[j] = nodes[j] /\ T[j] = text[j] /\ P[j] = props[j] /\ j \in DOMAIN nodes
      BY <1>3, <1>15, <1>18
    <3>2. nodes[j].data \in KeysOf(nodes[j]) /\ nodes[j].prop \in KeysOf(nodes[j])
      <4>1. nodes[j].data # NoKey /\ nodes[j].prop # NoKey
        BY <1>1, <3>1, NodeFacts
      <4> QED
        BY <4>1 DEF KeysOf
    <3>3. C[nodes[j].data] = text[j] /\ C[nodes[j].prop] = props[j]
      BY <1>2, <3>1 DEF TextsRight
    <3> QED
      BY <1>16, <3>1, <3>2, <3>3
  <2> QED
    BY <1>23, <2>1 DEF TextsRight
<1>25. /\ NodesShape(nodes', text', props') /\ NamesRight(db', nodes')
       /\ OrderRight(nodes', head') /\ TxnsRight(txn', nodes')
       /\ GotRight(reader', nodes', text') /\ TextsRight(D, nodes', txn', text', props')
       /\ Sound(db', D)
  BY <1>4, <1>13, <1>16, <1>19, <1>20, <1>21, <1>23, <1>24
<1> QED
  BY <1>1, <1>25 DEF RepsInv, NodesInv

-----------------------------------------------------------------------------
(* The theorems *)

\* Every step keeps the invariant, and so does stuttering.
LEMMA RepsNext ==
  ASSUME RepsInv, [Next]_vars, ~tainted'
  PROVE  RepsInv'
<1>1. CASE UNCHANGED vars
  <2>1. /\ db' = db /\ nodes' = nodes /\ head' = head /\ txn' = txn /\ reader' = reader
        /\ text' = text /\ props' = props
    BY <1>1 DEF vars
  <2>2. NodesInv /\ GotRight(reader', nodes, text)
    BY <2>1 DEF RepsInv, NodesInv
  <2> QED
    BY <2>1, <2>2, ReaderStep
<1>2. ASSUME NEW t \in Txns, Begin(t)
      PROVE  RepsInv'
  BY <1>2, BeginStep
<1>3. ASSUME NEW t \in Txns, NEW list \in PropLists, SetProplist(t, list)
      PROVE  RepsInv'
  BY <1>3, SetProplistStep
<1>4. ASSUME NEW t \in Txns, ApplyTextdelta(t)
      PROVE  RepsInv'
  BY <1>4, ApplyTextdeltaStep
<1>5. ASSUME NEW t \in Txns, NEW op \in Bytes \cup {0}, Instruction(t, op)
      PROVE  RepsInv'
  BY <1>5, InstructionStep
<1>6. ASSUME NEW t \in Txns, NEW isNull \in BOOLEAN, Flush(t, isNull)
      PROVE  RepsInv'
  BY <1>6, FlushStep
<1>7. ASSUME NEW t \in Txns, FinalizeEdits(t)
      PROVE  RepsInv'
  BY <1>7, FinalizeEditsStep
<1>8. ASSUME NEW t \in Txns, Commit(t)
      PROVE  RepsInv'
  BY <1>8, CommitStep
<1>9. ASSUME NEW t \in Txns, Abort(t)
      PROVE  RepsInv'
  BY <1>9, AbortStep
<1>10. ASSUME NEW id \in Committed, SvnadminDeltify(id)
       PROVE  RepsInv'
  BY <1>10, DeltifyStep
<1>11. ASSUME NEW id \in Committed, SvnadminUndeltify(id)
       PROVE  RepsInv'
  BY <1>11, UndeltifyStep
<1>12. ASSUME NEW r \in Readers, NEW id \in Committed, FileContents(r, id)
       PROVE  RepsInv'
  BY <1>12, FileContentsStep
<1>13. ASSUME NEW r \in Readers, Read(r)
       PROVE  RepsInv'
  BY <1>13, ReadContentsStep
<1> QED
  BY <1>1, <1>2, <1>3, <1>4, <1>5, <1>6, <1>7, <1>8, <1>9, <1>10, <1>11, <1>12, <1>13
  DEF Next

\* The inductive invariant is an invariant, as long as svnadmin has not
\* deltified a committed representation against one of an open transaction.
THEOREM RepsInvariant == Spec => [](~tainted => RepsInv)
<1>1. Init => RepsInv
  BY RepsInit
<1>2. ASSUME ~tainted => RepsInv, [Next]_vars
      PROVE  (~tainted => RepsInv)'
  <2> SUFFICES ASSUME ~tainted'
               PROVE  RepsInv'
    OBVIOUS
  <2>1. ~tainted
    BY <1>2 DEF Next, vars, SvnadminDeltify
  <2> QED
    BY <1>2, <2>1, RepsNext
<1> QED
  BY <1>1, <1>2, PTL DEF Spec

\* What the invariant says of the texts read through the tables: those of every
\* node revision, committed or not, are what clients sent.
LEMMA InvReads ==
  ASSUME RepsInv, NEW id \in DOMAIN nodes
  PROVE  /\ RepContents(db, nodes[id].data) = text[id]
         /\ RepContents(db, nodes[id].prop) = props[id]
<1>1. NodesInv
  BY DEF RepsInv
<1>2. PICK C : Sound(db, C) /\ TextsRight(C, nodes, txn, text, props)
  BY RepsInvTexts
<1>3. PICK p, d : p = nodes[id].prop /\ d = nodes[id].data
  OBVIOUS
<1>4. p \in DOMAIN db.reps /\ d \in DOMAIN db.reps
  BY <1>1, <1>3, NodeFacts DEF NodesInv
<1>5. C[d] = text[id] /\ C[p] = props[id]
  BY <1>2, <1>3 DEF TextsRight
<1>6. RepContents(db, d) = C[d]
  BY <1>2, <1>4, ContentsExact
<1>7. RepContents(db, p) = C[p]
  BY <1>2, <1>4, ContentsExact
<1> QED
  BY <1>3, <1>5, <1>6, <1>7

\* Revisions keep what clients sent for them, for texts, records, keys and
\* transactions of any size and number: rep_read_range plays any chain of
\* deltas, and svn_fs__rep_deltify and svn_fs__rep_undeltify keep what it gives.
\* svnadmin may run beside open transactions, as long as it has not deltified
\* against one of them (tainted).
THEOREM ContentsAreKept == Spec => []ContentsKept
<1>1. (~tainted => RepsInv) => ContentsKept
  BY InvReads DEF ContentsKept, Committed
<1> QED
  BY <1>1, RepsInvariant, PTL

\* A text stream (rep_read_contents) on a committed file gets the file's text,
\* whatever is done to the representations between two reads, under the same
\* condition.
THEOREM ReadersGetTheText == Spec => []ReadersGetText
<1>1. (~tainted => RepsInv) => ReadersGetText
  BY DEF RepsInv, NodesInv, GotRight, ReadersGetText
<1> QED
  BY <1>1, RepsInvariant, PTL

\* The invariant implies the soundness of the two tables.
LEMMA InvTables == (~tainted => RepsInv) => TablesSound
<1> SUFFICES ASSUME RepsInv
             PROVE  TablesSound
  BY DEF TablesSound
<1>1. /\ NodesInv /\ NamesRight(db, nodes) /\ NodesShape(nodes, text, props)
      /\ TxnsRight(txn, nodes) /\ OrderRight(nodes, head)
  BY DEF RepsInv, NodesInv
<1>2. PICK C : Sound(db, C) /\ TextsRight(C, nodes, txn, text, props)
  BY RepsInvTexts
<1>3. /\ TablesType(db) /\ Owned(db) /\ Below(db)
      /\ \A k \in DOMAIN db.reps : StandsFor(db, C, k)
  BY <1>2 DEF Sound
<1>4. Committed = Fixed(nodes) /\ \A id \in Committed : id \in DOMAIN nodes
  BY DEF Committed, Fixed
<1>5. \A id \in DOMAIN nodes : NodeRight(db, nodes[id])
  BY <1>1 DEF NamesRight
<1>6. \A id \in Committed : \A k \in KeysOf(nodes[id]) : ~db.reps[k].mutable
  BY <1>5 DEF NodeRight, Committed
<1>7. TypeOK
  <2>1. \A k \in DOMAIN db.strings : db.strings[k] # <<>>
    BY <1>3 DEF TablesType
  <2>2. ASSUME NEW k \in DOMAIN db.reps
        PROVE  /\ db.reps[k].kind \in {"fulltext", "delta"}
               /\ db.reps[k].mutable => db.reps[k].kind = "fulltext"
    BY <1>3 DEF StandsFor
  <2>3. head \in Committed
    BY <1>1, <1>4 DEF OrderRight
  <2>4. DOMAIN text = DOMAIN nodes /\ DOMAIN props = DOMAIN nodes
    BY <1>1 DEF NodesShape
  <2>5. ASSUME NEW id \in Committed
        PROVE  nodes[id].edit = NoKey
    <3>1. NodeRight(db, nodes[id]) /\ \A k \in KeysOf(nodes[id]) : ~db.reps[k].mutable
      BY <1>4, <1>5, <1>6
    <3> QED
      BY <3>1 DEF NodeRight, KeysOf
  <2>6. \A t \in Txns : txn[t].node = NoId \/ nodes[txn[t].node].mutable
    BY <1>1 DEF TxnsRight, TxnRight
  <2> QED
    BY <2>1, <2>2, <2>3, <2>4, <2>5, <2>6 DEF TypeOK
<1>8. OwnChangesRead
  BY InvReads DEF OwnChangesRead
<1>9. StringsOwned
  BY <1>3 DEF Owned, StringsOwned
<1>10. RepsOwned
  <2>1. DOMAIN db.reps = UNION {KeysOf(nodes[id]) : id \in DOMAIN nodes}
    <3>1. \A k \in DOMAIN db.reps : \E id \in DOMAIN nodes : k \in KeysOf(nodes[id])
      BY <1>1 DEF NamesRight
    <3>2. \A id \in DOMAIN nodes : KeysOf(nodes[id]) \subseteq DOMAIN db.reps
      BY <1>5 DEF NodeRight
    <3> QED
      BY <3>1, <3>2
  <2>2. \A id1, id2 \in DOMAIN nodes :
          id1 # id2 => \A k \in KeysOf(nodes[id1]) \cap KeysOf(nodes[id2]) :
                         ~db.reps[k].mutable
    BY <1>1 DEF NamesRight
  <2> QED
    BY <1>6, <2>1, <2>2 DEF RepsOwned
<1>11. BasesImmutable
  BY <1>3 DEF StandsFor, BasesImmutable
<1>12. KeysBelowNext
  BY <1>3 DEF Below, KeysBelowNext
<1>13. StringReadExact
  <2> SUFFICES ASSUME NEW k \in DOMAIN db.strings,
                      NEW offset \in 0..Len(FlattenSeq(db.strings[k])),
                      NEW len \in 1..Len(FlattenSeq(db.strings[k]))
               PROVE  StringRead(db.strings[k], offset, len)
                        = SubSeq(FlattenSeq(db.strings[k]), offset + 1,
                                 Min({offset + len, Len(FlattenSeq(db.strings[k]))}))
    BY DEF StringReadExact
  <2>1. offset \in Nat /\ len \in Nat
    OBVIOUS
  <2> QED
    BY <1>2, <2>1, StringsReadExact
<1> QED
  BY <1>7, <1>8, <1>9, <1>10, <1>11, <1>12, <1>13 DEF TablesSound

\* Nothing is left behind in the `strings' and `representations' tables and
\* nothing is missing: each string and each representation has one owner, a
\* delta's base is there and immutable, a key is never handed out twice, and
\* svn_fs__string_read gives what was written, wherever records end.  All this
\* until svnadmin deltifies against an open transaction.
THEOREM TablesAreSound == Spec => []TablesSound
BY InvTables, RepsInvariant, PTL
=============================================================================
