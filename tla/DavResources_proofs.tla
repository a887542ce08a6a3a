--------------------------- MODULE DavResources_proofs ---------------------------
(***************************************************************************)
(* That the answers of the Apache module are true and the URL's it gives   *)
(* out are stable, for any paths, number of revisions, transactions,       *)
(* activities and lost answers.                                            *)
(*                                                                         *)
(* First what each URI that the module builds is parsed into, and what is  *)
(* reported of it (VccResource, BaselineResource, CollectionResource...);  *)
(* then the inductive invariant DavInv: which URI the client has in hand   *)
(* at each step of svn_ra_dav__get_baseline_info, and of which revision.   *)
(***************************************************************************)
EXTENDS DavResources, FiniteSetTheorems, SequenceTheorems, WellFoundedInduction, TLAPS

Words == {"ver", "wrk", "act", "vcc", "default", "bc", "bln"}
Name == (Words \cup {Special} \cup Activities \cup Range(RevNames) \cup Range(IdNames)
               \cup UNION {Range(p) : p \in DavPaths}) \ {Empty}
Path == {p \in Seq(Name) : p # <<>> => p[1] # Special}

----------------------------------------------------------------------------
(* Names and components *)

\* A set of numbers has a least one.
LEMMA LeastNumber ==
  ASSUME NEW T \in SUBSET Nat, T # {}
  PROVE  \E n \in T : \A m \in T : n <= m
<1> DEFINE R == OpToRel(<, Nat)
<1>1. PICK n \in T : \A m \in T : ~ (<<m, n>> \in R)
  BY NatLessThanWellFounded, WFMin, Zenon
<1>2. R = {ss \in Nat \X Nat : ss[1] < ss[2]}
  BY Zenon DEF OpToRel
<1>3. \A m \in T : n <= m
  <2> TAKE m \in T
  <2>1. m \in Nat /\ n \in Nat
    OBVIOUS
  <2>2. ~ (m < n)
    BY <1>1, <1>2, <2>1
  <2> QED
    BY <2>1, <2>2
<1> QED
  BY <1>3

\* A name is that of one number.
LEMMA IndexInRight ==
  ASSUME NEW s \in Seq(Name), IsInjective(s), NEW i \in 1..Len(s)
  PROVE  IndexIn(s, s[i]) = i
<1> DEFINE I == {j \in 1..Len(s) : s[j] = s[i]}
<1>1. I = {i}
  BY LenProperties DEF IsInjective
<1>2. Min(I) = i
  <2> HIDE DEF I
  <2>1. \A x \in I : (\A y \in I : x <= y) => x = i
    BY <1>1
  <2>2. i \in I /\ \A y \in I : i <= y
    BY <1>1
  <2> QED
    BY <2>1, <2>2 DEF Min
<1>3. IndexIn(s, s[i]) = IF I # {} THEN Min(I) ELSE 0
  BY Zenon DEF IndexIn, SelectInSeq
<1> HIDE DEF I
<1> QED
  BY <1>1, <1>2, <1>3

\* What Clean computes is what its recursion determines.
CleanStep(f, uri, i) ==
  IF i = 0 THEN <<>> ELSE IF uri[i] = Empty THEN f[i - 1] ELSE Append(f[i - 1], uri[i])

LEMMA CleanBy ==
  ASSUME NEW uri \in Seq(Name \cup {Empty}), NEW f, f = [i \in 0..Len(uri) |-> CleanStep(f, uri, i)]
  PROVE  Clean(uri) = f[Len(uri)]
<1> DEFINE P(h) == h = [i \in 0..Len(uri) |-> CleanStep(h, uri, i)]
<1>1. Clean(uri) = (CHOOSE h : P(h))[Len(uri)]
  BY Zenon DEF Clean, CleanStep
<1>2. PICK g : P(g) /\ Clean(uri) = g[Len(uri)]
  <2>1. P(f)
    BY Zenon
  <2> HIDE DEF P
  <2>2. P(CHOOSE h : P(h))
    BY <2>1, Zenon
  <2> QED
    BY <1>1, <2>2, Zenon
<1> DEFINE T == {i \in 0..Len(uri) : g[i] # f[i]}
<1>3. Len(uri) \in Nat /\ Len(uri) \in 0..Len(uri)
  BY LenProperties
<1>4. \A i \in 0..Len(uri) : g[i] = CleanStep(g, uri, i) /\ f[i] = CleanStep(f, uri, i)
  BY <1>2, Zenon
<1>5. T = {}
  <2> SUFFICES ASSUME T # {}
               PROVE  FALSE
    OBVIOUS
  <2>1. T \in SUBSET Nat
    BY <1>3
  <2>2. PICK n \in T : \A m \in T : n <= m
    <3> HIDE DEF T
    <3> QED
      BY <2>1, LeastNumber
  <2>3. n \in 0..Len(uri) /\ n \in Nat
    BY <2>1
  <2>4. CASE n = 0
    BY <1>4, <2>2, <2>3, <2>4 DEF CleanStep
  <2>5. CASE n # 0
    <3>1. n - 1 \in 0..Len(uri) /\ ~(n <= n - 1)
      BY <1>3, <2>3, <2>5
    <3>2. g[n - 1] = f[n - 1]
      BY <2>2, <3>1
    <3>3. g[n] = f[n]
      BY <1>4, <2>3, <2>5, <3>2, Zenon DEF CleanStep
    <3> QED
      BY <2>2, <3>3
  <2> QED
    BY <2>4, <2>5
<1> QED
  BY <1>2, <1>3, <1>5

\* A URI without empty components is left as it is.
LEMMA CleanPlain ==
  ASSUME NEW uri \in Seq(Name)
  PROVE  Clean(uri) = uri
<1> DEFINE N == Len(uri)
           f == [i \in 0..N |-> SubSeq(uri, 1, i)]
<1>1. N \in Nat /\ uri \in Seq(Name \cup {Empty}) /\ \A i \in 1..N : uri[i] \in Name /\ uri[i] # Empty
  <2>1. N \in Nat /\ \A i \in 1..N : uri[i] \in Name
    BY LenProperties, ElementOfSeq
  <2>2. Name \subseteq Name \cup {Empty} /\ Empty \notin Name
    BY Zenon DEF Name
  <2>3. uri \in Seq(Name \cup {Empty})
    BY <2>2, SeqMonotonic, Zenon
  <2> QED
    BY <2>1, <2>2, <2>3
<1>2. ASSUME NEW i \in 0..N
      PROVE  f[i] = CleanStep(f, uri, i)
  <2>1. CASE i = 0
    BY <2>1, SubSeqEmpty DEF CleanStep
  <2>2. CASE i # 0
    <3>1. i \in 1..N /\ i - 1 \in 0..N
      BY <1>1, <2>2
    <3>2. SubSeq(uri, 1, i) = Append(SubSeq(uri, 1, i - 1), uri[i])
      <4>1. SubSeq(uri, 1, i) = SubSeq(uri, 1, i - 1) \o <<uri[i]>>
        BY <1>1, <3>1, SubSeqRecursiveSecond
      <4>2. SubSeq(uri, 1, i - 1) \in Seq(Name)
        BY <1>1, <3>1, SubSeqProperties
      <4> QED
        BY <1>1, <3>1, <4>1, <4>2, AppendIsConcat
    <3> QED
      BY <1>1, <2>2, <3>1, <3>2 DEF CleanStep
  <2> QED
    BY <2>1, <2>2
<1>3. f = [i \in 0..N |-> CleanStep(f, uri, i)]
  BY <1>2, Zenon
<1>4. f[N] = uri
  BY <1>1, SubSeqFull
<1> HIDE DEF f
<1> QED
  BY <1>1, <1>3, <1>4, CleanBy

LEMMA Associative ==
  ASSUME NEW s \in Seq(Name), NEW t \in Seq(Name), NEW u \in Seq(Name)
  PROVE  (s \o t) \o u = s \o (t \o u)
  BY ConcatAssociative

\* One component more of what is joined.
LEMMA JoinedPrefix ==
  ASSUME NEW u \in Seq(Name), NEW p \in Seq(Name), NEW k \in 1..Len(p)
  PROVE  u \o SubSeq(p, 1, k) = Append(u \o SubSeq(p, 1, k - 1), p[k])
<1> DEFINE s == SubSeq(p, 1, k - 1)
           e == <<p[k]>>
<1>1. Len(p) \in Nat /\ p[k] \in Name /\ \A j \in 1..k - 1 : p[j] \in Name
  BY LenProperties, ElementOfSeq
<1>2. SubSeq(p, 1, k) = s \o e
  BY <1>1, SubSeqRecursiveSecond
<1>3. s \in Seq(Name) /\ e \in Seq(Name)
  BY <1>1, SubSeqProperties
<1> HIDE DEF s
<1>4. (u \o s) \o e = u \o (s \o e)
  <2> HIDE DEF e
  <2> QED
    BY <1>3, Associative, Zenon
<1>5. u \o s \in Seq(Name)
  BY <1>3, ConcatProperties, Zenon
<1>6. Append(u \o s, p[k]) = (u \o s) \o e
  BY <1>1, <1>5, AppendIsConcat, Zenon
<1> QED
  BY <1>2, <1>4, <1>6, Zenon DEF s

\* An empty component is dropped.
LEMMA CleanSlash ==
  ASSUME NEW uri \in Seq(Name \cup {Empty}), NEW u \in Seq(Name), NEW p \in Seq(Name),
         Len(uri) = Len(u) + 1 + Len(p),
         \A i \in 1..Len(u) : uri[i] = u[i],
         uri[Len(u) + 1] = Empty,
         \A i \in 1..Len(p) : uri[Len(u) + 1 + i] = p[i]
  PROVE  Clean(uri) = u \o p
<1> DEFINE N == Len(uri)
           f == [i \in 0..N |-> IF i <= Len(u) THEN SubSeq(u, 1, i)
                                ELSE u \o SubSeq(p, 1, i - Len(u) - 1)]
<1>1. /\ N \in Nat /\ Len(u) \in Nat /\ Len(p) \in Nat
      /\ \A i \in 1..Len(u) : u[i] \in Name /\ u[i] # Empty
      /\ \A i \in 1..Len(p) : p[i] \in Name /\ p[i] # Empty
  <2>1. Empty \notin Name
    BY DEF Name
  <2> QED
    BY <2>1, LenProperties, ElementOfSeq
<1>2. ASSUME NEW i \in 0..N
      PROVE  f[i] = CleanStep(f, uri, i)
  <2>1. CASE i = 0
    <3>1. i <= Len(u) /\ SubSeq(u, 1, i) = <<>>
      <4> HIDE DEF f
      <4> QED
        BY <1>1, <2>1, SubSeqEmpty
    <3> QED
      BY <2>1, <3>1, Zenon DEF CleanStep
  <2>2. CASE i \in 1..Len(u)
    <3>1. i # 0 /\ i - 1 \in 0..N /\ i - 1 <= Len(u) /\ i <= Len(u)
      BY <1>1, <2>2
    <3>2. SubSeq(u, 1, i) = Append(SubSeq(u, 1, i - 1), u[i])
      <4>1. SubSeq(u, 1, i) = SubSeq(u, 1, i - 1) \o <<u[i]>>
        BY <1>1, <2>2, SubSeqRecursiveSecond
      <4>2. SubSeq(u, 1, i - 1) \in Seq(Name)
        BY <1>1, <2>2, SubSeqProperties
      <4> QED
        BY <1>1, <2>2, <4>1, <4>2, AppendIsConcat
    <3>3. f[i] = SubSeq(u, 1, i) /\ f[i - 1] = SubSeq(u, 1, i - 1)
      BY <3>1, Zenon
    <3>4. uri[i] = u[i] /\ uri[i] # Empty
      <4> HIDE DEF f
      <4> QED
        BY <1>1, <2>2
    <3> QED
      BY <3>1, <3>2, <3>3, <3>4, Zenon DEF CleanStep
  <2>3. CASE i = Len(u) + 1
    <3>1. i # 0 /\ i - 1 \in 0..N /\ i - 1 = Len(u) /\ ~(i <= Len(u)) /\ i - Len(u) - 1 = 0
      BY <1>1, <2>3
    <3>2. SubSeq(p, 1, 0) = <<>> /\ u \o <<>> = u /\ SubSeq(u, 1, Len(u)) = u
      BY SubSeqEmpty, ConcatEmptySeq, SubSeqFull
    <3>3. f[i] = u /\ f[i - 1] = u
      <4>1. f[i] = u \o SubSeq(p, 1, i - Len(u) - 1) /\ f[i - 1] = SubSeq(u, 1, i - 1)
        <5>1. i - 1 <= Len(u)
          BY <1>1, <3>1
        <5> QED
          BY <3>1, <5>1, Zenon
      <4> HIDE DEF f
      <4> QED
        BY <3>1, <3>2, <4>1, Zenon
    <3> QED
      BY <2>3, <3>1, <3>3, Zenon DEF CleanStep
  <2>4. CASE i > Len(u) + 1
    <3> DEFINE k == i - Len(u) - 1
    <3>1. /\ i # 0 /\ i - 1 \in 0..N /\ ~(i - 1 <= Len(u)) /\ ~(i <= Len(u))
          /\ k \in 1..Len(p) /\ k - 1 = i - 1 - Len(u) - 1 /\ Len(u) + 1 + k = i
      BY <1>1, <2>4
    <3>2. uri[i] = p[k] /\ uri[i] # Empty
      <4>1. k \in 1..Len(p) /\ Len(u) + 1 + k = i
        BY <3>1, Zenon
      <4> HIDE DEF k, f
      <4>2. uri[Len(u) + 1 + k] = p[k] /\ p[k] # Empty
        BY <1>1, <4>1, Zenon
      <4> QED
        BY <4>1, <4>2, Zenon
    <3>3. f[i] = u \o SubSeq(p, 1, k) /\ f[i - 1] = u \o SubSeq(p, 1, k - 1)
      BY <3>1, Zenon
    <3> HIDE DEF k, f
    <3>4. u \o SubSeq(p, 1, k) = Append(u \o SubSeq(p, 1, k - 1), p[k])
      BY <3>1, JoinedPrefix, Zenon
    <3> QED
      BY <3>1, <3>2, <3>3, <3>4, Zenon DEF CleanStep
  <2>5. i = 0 \/ i \in 1..Len(u) \/ i = Len(u) + 1 \/ i > Len(u) + 1
    <3> HIDE DEF f
    <3> QED
      BY <1>1
  <2> QED
    BY <2>1, <2>2, <2>3, <2>4, <2>5, Zenon
<1>3. f = [i \in 0..N |-> CleanStep(f, uri, i)]
  BY <1>2, Zenon
<1>4. f[N] = u \o p
  <2>1. N \in 0..N /\ ~(N <= Len(u)) /\ N - Len(u) - 1 = Len(p)
    BY <1>1
  <2>2. SubSeq(p, 1, Len(p)) = p
    BY SubSeqFull
  <2> QED
    BY <2>1, <2>2, Zenon
<1> HIDE DEF f
<1> QED
  BY <1>1, <1>3, <1>4, CleanBy

\* What is below three components.
ThreeAnd(u, a, b, c, p) ==
  /\ u \in Seq(Name) /\ Len(u) = 3 + Len(p)
  /\ u[1] = a /\ u[2] = b /\ u[3] = c
  /\ SubSeq(u, 3, Len(u)) = <<c>> \o p
  /\ SubSeq(u, 4, Len(u)) = p

LEMMA BelowThree ==
  ASSUME NEW a \in Name, NEW b \in Name, NEW c \in Name, NEW p \in Seq(Name)
  PROVE  ThreeAnd(<<a, b, c>> \o p, a, b, c, p)
<1> DEFINE t == <<a, b, c>>
           u == t \o p
<1>1. t \in Seq(Name) /\ Len(t) = 3 /\ t[1] = a /\ t[2] = b /\ t[3] = c
  OBVIOUS
<1> HIDE DEF t
<1>2. /\ u \in Seq(Name) /\ Len(u) = 3 + Len(p)
      /\ \A i \in 1..3 + Len(p) : u[i] = IF i <= 3 THEN t[i] ELSE p[i - 3]
  <2>1. /\ t \o p \in Seq(Name) /\ Len(t \o p) = Len(t) + Len(p)
        /\ \A i \in 1..Len(t) + Len(p) : (t \o p)[i] = IF i <= Len(t) THEN t[i] ELSE p[i - Len(t)]
    BY <1>1, ConcatProperties
  <2> QED
    BY <1>1, <2>1
<1>3. Len(p) \in Nat /\ \A i \in 1..Len(p) : p[i] \in Name
  BY LenProperties, ElementOfSeq
<1> HIDE DEF u
<1>4. u[1] = a /\ u[2] = b /\ u[3] = c /\ \A i \in 1..Len(p) : u[i + 3] = p[i]
  <2>1. 1 \in 1..3 + Len(p) /\ 2 \in 1..3 + Len(p) /\ 3 \in 1..3 + Len(p)
    BY <1>3
  <2>2. ASSUME NEW i \in 1..Len(p)
        PROVE  u[i + 3] = p[i]
    <3>1. i + 3 \in 1..3 + Len(p) /\ ~(i + 3 <= 3) /\ i + 3 - 3 = i
      BY <1>3
    <3> QED
      BY <1>2, <3>1
  <2> QED
    BY <1>1, <1>2, <2>1, <2>2
<1>5. \A i \in 1..Len(u) : u[i] \in Name
  BY <1>2, ElementOfSeq
<1>6. SubSeq(u, 4, Len(u)) = p
  <2> DEFINE s == SubSeq(u, 4, Len(u))
  <2>1. /\ s \in Seq(Name) /\ Len(s) = IF 4 <= Len(u) THEN Len(u) - 4 + 1 ELSE 0
        /\ \A i \in 1..Len(u) - 4 + 1 : s[i] = u[4 + i - 1]
    BY <1>2, <1>3, <1>5, SubSeqProperties
  <2>2. Len(s) = Len(p)
    BY <1>2, <1>3, <2>1
  <2>3. \A i \in 1..Len(s) : s[i] = p[i]
    BY <1>2, <1>3, <1>4, <2>1, <2>2
  <2> HIDE DEF s
  <2>4. s = p
    BY <2>1, <2>2, <2>3, SeqEqual
  <2> QED
    BY <2>4 DEF s
<1>7. SubSeq(u, 3, Len(u)) = <<c>> \o p
  <2>1. 3 \in 1..Len(u) /\ Len(u) \in 3..Len(u)
    BY <1>2, <1>3
  <2>2. SubSeq(u, 3, Len(u)) = <<u[3]>> \o SubSeq(u, 3 + 1, Len(u))
    BY <1>2, <2>1, SubSeqRecursiveFirst
  <2> QED
    BY <1>4, <1>6, <2>2
<1> QED
  BY <1>2, <1>4, <1>6, <1>7, Zenon DEF ThreeAnd, t, u

\* What is below one.
LEMMA BelowOne ==
  ASSUME NEW c \in Name, NEW p \in Seq(Name)
  PROVE  /\ <<c>> \o p \in Seq(Name) /\ (<<c>> \o p)[1] = c /\ <<c>> \o p # <<>>
         /\ Tail(<<c>> \o p) = p /\ (<<c>> \o p = <<c>> <=> p = <<>>)
<1>1. <<c>> \in Seq(Name) /\ <<c>> # <<>>
  OBVIOUS
<1>2. Head(<<c>> \o p) = Head(<<c>>) /\ Tail(<<c>> \o p) = Tail(<<c>>) \o p
  BY <1>1, ConcatSimplifications
<1>3. Tail(<<c>>) = <<>> /\ <<>> \o p = p /\ Head(<<c>>) = c
  BY ConcatEmptySeq
<1>4. <<c>> \o p \in Seq(Name) /\ Len(<<c>> \o p) = 1 + Len(p) /\ Len(p) \in Nat
  BY <1>1, ConcatProperties, LenProperties
<1>5. <<c>> \o p # <<>> /\ (<<c>> \o p)[1] = c
  BY <1>1, <1>4, ConcatProperties
<1>6. <<c>> \o p = <<c>> <=> p = <<>>
  <2>1. <<c>> \o <<>> = <<c>>
    BY <1>1, ConcatEmptySeq
  <2> QED
    BY <1>2, <1>3, <2>1, Zenon
<1> QED
  BY <1>2, <1>3, <1>4, <1>5, <1>6

----------------------------------------------------------------------------
(* What the URI's are parsed into *)

\* The empty text is none of the words of a URI, nor a name.
LEMMA NamesRight ==
  /\ Special \in Name /\ Empty \notin Name
  /\ "ver" \in Name /\ "wrk" \in Name /\ "act" \in Name /\ "vcc" \in Name /\ "default" \in Name
  /\ "bc" \in Name /\ "bln" \in Name
  /\ Activities \subseteq Name /\ DavPaths \subseteq Path
  /\ RevNames \in Seq(Name) /\ IdNames \in Seq(Name)
<1>1. /\ "$svn" # "" /\ "ver" # "" /\ "wrk" # "" /\ "act" # "" /\ "vcc" # "" /\ "default" # ""
      /\ "bc" # "" /\ "bln" # ""
  OBVIOUS
<1>2. /\ Special # Empty /\ "ver" # Empty /\ "wrk" # Empty /\ "act" # Empty /\ "vcc" # Empty
      /\ "default" # Empty /\ "bc" # Empty /\ "bln" # Empty
  BY <1>1, Zenon DEF Special, Empty
<1>3. /\ Special \in Name /\ Empty \notin Name
      /\ "ver" \in Name /\ "wrk" \in Name /\ "act" \in Name /\ "vcc" \in Name /\ "default" \in Name
      /\ "bc" \in Name /\ "bln" \in Name
  BY <1>2, Zenon DEF Name, Words
<1>4. ASSUME NEW s, Components(s), Range(s) \ {Empty} \subseteq Name
      PROVE  s \in Seq(Name)
  <2>1. s \in Seq(Range(s)) /\ Range(s) \subseteq Name
    BY <1>4, Zenon DEF Components
  <2> QED
    BY <2>1, SeqMonotonic, Zenon
<1>5. RevNames \in Seq(Name) /\ IdNames \in Seq(Name)
  <2>1. Range(RevNames) \ {Empty} \subseteq Name /\ Range(IdNames) \ {Empty} \subseteq Name
    BY Zenon DEF Name
  <2> QED
    BY <1>4, <2>1, DavConstants, Zenon
<1>6. Activities \subseteq Name
  BY DavConstants, Zenon DEF Name
<1>7. ASSUME NEW p \in DavPaths
      PROVE  p \in Path
  <2>1. Range(p) \ {Empty} \subseteq Name
    BY Zenon DEF Name
  <2>2. p \in Seq(Name)
    BY <1>4, <2>1, DavConstants, Zenon
  <2> QED
    BY <2>2, DavConstants, Zenon DEF Path
<1> QED
  BY <1>3, <1>5, <1>6, <1>7, Zenon

VccUri == <<Special, "vcc", "default">>
BaselineUri(r) == <<Special, "bln", RevNames[r + 1]>>
CollectionUri(r) == <<Special, "bc", RevNames[r + 1]>>
VersionUri(id, p) == <<Special, "ver", IdNames[id]>> \o p
WorkingUri(a, p) == <<Special, "wrk", a>> \o p

\* Numbers are read back as they were written.
LEMMA RevisionRead ==
  ASSUME NEW r \in 0..MaxDavRev
  PROVE  RevNames[r + 1] \in Name /\ StrToRev(RevNames[r + 1]) = r
<1>1. /\ RevNames \in Seq(Name) /\ IsInjective(RevNames)
      /\ MaxDavRev < Len(RevNames) /\ MaxDavRev \in Nat
  BY NamesRight, DavConstants, Zenon
<1>2. r + 1 \in 1..Len(RevNames)
  BY <1>1, LenProperties
<1>3. IndexIn(RevNames, RevNames[r + 1]) = r + 1
  BY <1>1, <1>2, IndexInRight
<1>4. RevNames[r + 1] \in Name
  BY <1>1, <1>2, ElementOfSeq
<1> QED
  BY <1>3, <1>4 DEF StrToRev

LEMMA IdRead ==
  ASSUME NEW i \in 1..Len(IdNames)
  PROVE  IdNames[i] \in Name /\ ParseId(IdNames[i]) = i
<1>1. IdNames \in Seq(Name) /\ IsInjective(IdNames)
  BY NamesRight, DavConstants, Zenon
<1>2. IndexIn(IdNames, IdNames[i]) = i
  BY <1>1, IndexInRight
<1> QED
  BY <1>1, <1>2, ElementOfSeq DEF ParseId

\* A special URI of three components and a path below them.
LEMMA ParseThree ==
  ASSUME NEW d \in Name, d \in SpecialSubdirs, NEW c \in Name, NEW p \in Seq(Name), NEW label
  PROVE  /\ Clean(<<Special, d, c>> \o p) = <<Special, d, c>> \o p
         /\ ParseUri(<<Special, d, c>> \o p, label) = ParseSpecial(d, <<c>> \o p, label)
<1> DEFINE u == <<Special, d, c>> \o p
<1>1. /\ u \in Seq(Name) /\ Len(u) = 3 + Len(p)
      /\ u[1] = Special /\ u[2] = d /\ SubSeq(u, 3, Len(u)) = <<c>> \o p
  <2>1. Special \in Name
    BY NamesRight, Zenon
  <2>2. ThreeAnd(u, Special, d, c, p)
    BY <2>1, BelowThree, Zenon
  <2> HIDE DEF u
  <2> QED
    BY <2>2, Zenon DEF ThreeAnd
<1> HIDE DEF u
<1>2. Len(p) \in Nat
  BY LenProperties
<1>3. Clean(u) = u
  BY <1>1, CleanPlain
<1>4. Len(u) > 1 /\ Len(u) # 2
  BY <1>1, <1>2
<1>5. ParseUri(u, label) = ParseSpecial(d, <<c>> \o p, label)
  BY <1>1, <1>4, Zenon DEF ParseUri
<1> QED
  BY <1>3, <1>5 DEF u

LEMMA NothingBelow ==
  ASSUME NEW d \in Name, NEW c \in Name
  PROVE  <<Special, d, c>> \o <<>> = <<Special, d, c>> /\ <<c>> \o <<>> = <<c>> /\ <<>> \in Seq(Name)
<1>1. <<Special, d, c>> \in Seq(Name) /\ <<c>> \in Seq(Name)
  BY NamesRight
<1> QED
  BY <1>1, ConcatEmptySeq

LEMMA ParseJustThree ==
  ASSUME NEW d \in Name, d \in SpecialSubdirs, NEW c \in Name, NEW label
  PROVE  /\ Clean(<<Special, d, c>>) = <<Special, d, c>>
         /\ ParseUri(<<Special, d, c>>, label) = ParseSpecial(d, <<c>>, label)
<1>1. PICK e : e = <<>>
  OBVIOUS
<1>2. <<Special, d, c>> \o e = <<Special, d, c>> /\ <<c>> \o e = <<c>> /\ e \in Seq(Name)
  BY <1>1, NothingBelow, Zenon
<1>3. /\ Clean(<<Special, d, c>> \o e) = <<Special, d, c>> \o e
      /\ ParseUri(<<Special, d, c>> \o e, label) = ParseSpecial(d, <<c>> \o e, label)
  <2>1. e \in Seq(Name)
    BY <1>2
  <2>2. Clean(<<Special, d, c>> \o e) = <<Special, d, c>> \o e
    BY <2>1, ParseThree
  <2>3. ParseUri(<<Special, d, c>> \o e, label) = ParseSpecial(d, <<c>> \o e, label)
    BY <2>1, ParseThree
  <2> QED
    BY <2>2, <2>3
<1> QED
  BY <1>2, <1>3, Zenon

----------------------------------------------------------------------------
(* What the resources are *)

Tree == UNION {[D -> Nat] : D \in SUBSET Path}
NodeRecord == [kind : {"dir", "file"}, created : Nat, pred : Nat]

\* The revisions are trees with a root, of nodes that are there and have names.
StoreRight ==
  /\ drevs \in Seq(Tree) /\ DavYoungest \in 1..MaxDavRev
  /\ dnodes \in Seq(NodeRecord) /\ Len(dnodes) <= Len(IdNames)
  /\ \A r \in 0..DavYoungest :
       /\ <<>> \in DOMAIN DavTree(r)
       /\ \A p \in DOMAIN DavTree(r) : p \in Path /\ DavTree(r)[p] \in 1..Len(dnodes)

\* The fields of a resource.
ResourceIs(res, type, restype, baselined, rev, id, path, act, exists, coll, uri) ==
  /\ res.type = type /\ res.restype = restype /\ res.baselined = baselined
  /\ res.rev = rev /\ res.id = id /\ res.path = path /\ res.act = act
  /\ res.exists = exists /\ res.coll = coll /\ res.uri = uri

IsDir(id) == NodeKind(id) = "dir"

\* The resource of a path in a revision.
Found(res, uri, p, r) ==
  ResourceIs(res, "regular", Empty, FALSE, r, DavTree(r)[p], p, Empty, TRUE, IsDir(DavTree(r)[p]), uri)

\* A path, in the youngest revision or a given one.
LEMMA RegularResource ==
  ASSUME NEW uri, NEW p, NEW r, r = Latest \/ r \in Nat, DavYoungest \in Nat
  PROVE  LET rev == IF r = Latest THEN DavYoungest ELSE r
             res == PrepResource([[NoResource EXCEPT !.type = "regular", !.rev = r, !.path = p]
                                  EXCEPT !.uri = uri])
         IN  IF rev <= DavYoungest /\ p \in DOMAIN DavTree(rev) THEN Found(res, uri, p, rev) ELSE res = Failed
<1> DEFINE rev == IF r = Latest THEN DavYoungest ELSE r
           a == [[NoResource EXCEPT !.type = "regular", !.rev = r, !.path = p] EXCEPT !.uri = uri]
<1>1. a.type = "regular" /\ a.rev = r /\ a.path = p
  BY DEF NoResource
<1>2. PrepResource(a) = PrepRegular(a)
  <2> HIDE DEF a
  <2> QED
    BY <1>1 DEF PrepResource
<1>3. rev > DavYoungest <=> ~(rev <= DavYoungest)
  BY DEF Latest
<1>4. CASE ~(rev <= DavYoungest /\ p \in DOMAIN DavTree(rev))
  <2>1. PrepRegular(a) = Failed
    <3> HIDE DEF a
    <3> QED
      BY <1>1, <1>3, <1>4 DEF PrepRegular
  <2> QED
    BY <1>2, <1>4, <2>1, Zenon
<1>5. CASE rev <= DavYoungest /\ p \in DOMAIN DavTree(rev)
  <2> DEFINE id == DavTree(rev)[p]
             b == [a EXCEPT !.rev = rev, !.exists = TRUE, !.id = id, !.coll = NodeKind(id) = "dir"]
  <2>1. PrepRegular(a) = b
    <3> HIDE DEF a
    <3> QED
      BY <1>1, <1>3, <1>5, Zenon DEF PrepRegular
  <2>2. Found(b, uri, p, rev)
    <3>1. PICK c : c = (NodeKind(id) = "dir")
      OBVIOUS
    <3> DEFINE d == [a EXCEPT !.rev = rev, !.exists = TRUE, !.id = id, !.coll = c]
    <3>2. b = d
      BY <3>1, Zenon
    <3> HIDE DEF id, rev, b
    <3>3. ResourceIs(d, "regular", Empty, FALSE, rev, id, p, Empty, TRUE, c, uri)
      BY DEF ResourceIs, NoResource
    <3> QED
      BY <3>1, <3>2, <3>3, Zenon DEF Found, IsDir, id
  <2> HIDE DEF b
  <2> QED
    BY <1>2, <1>5, <2>1, <2>2, Zenon
<1> QED
  BY <1>4, <1>5, Zenon

\* A URI below the repository's location, for the youngest revision.
LEMMA PublicResource ==
  ASSUME StoreRight, NEW p \in Path
  PROVE  LET res == GetResource(p, Empty)
         IN  IF p \in DOMAIN DavTree(DavYoungest) THEN Found(res, p, p, DavYoungest) ELSE res = Failed
<1>1. DavYoungest \in Nat /\ DavYoungest <= DavYoungest
  BY DavConstants DEF StoreRight
<1>2. Clean(p) = p
  BY CleanPlain DEF Path
<1> DEFINE a == [NoResource EXCEPT !.type = "regular", !.path = p]
           b == [NoResource EXCEPT !.type = "regular", !.rev = Latest, !.path = p]
<1>3. ParseUri(p, Empty) = a
  <2>1. ~(Len(p) > 1 /\ p[1] = Special)
    BY DEF Path
  <2> QED
    BY <2>1, Zenon DEF ParseUri
<1>4. a.type # "error" /\ a = b
  <2>1. a.type # "error"
    BY DEF NoResource
  <2>2. PICK x : x = [NoResource EXCEPT !.type = "regular"]
    OBVIOUS
  <2>3. x = [k \in DOMAIN x |-> x[k]] /\ x.rev = Latest
    BY <2>2 DEF NoResource
  <2>4. [x EXCEPT !.rev = Latest] = x
    BY <2>3
  <2>5. a = [x EXCEPT !.path = p] /\ b = [[x EXCEPT !.rev = Latest] EXCEPT !.path = p]
    BY <2>2
  <2> QED
    BY <2>1, <2>4, <2>5, Zenon
<1> DEFINE c == PrepResource([b EXCEPT !.uri = p])
<1>5. GetResource(p, Empty) = c
  <2> HIDE DEF a, b
  <2> QED
    BY <1>2, <1>3, <1>4, Zenon DEF GetResource
<1>6. IF p \in DOMAIN DavTree(DavYoungest) THEN Found(c, p, p, DavYoungest) ELSE c = Failed
  BY <1>1, RegularResource, Zenon
<1> HIDE DEF c
<1> QED
  BY <1>5, <1>6, Zenon

\* A path in the collection of a baseline.
LEMMA CollectionResource ==
  ASSUME StoreRight, NEW p \in Seq(Name), NEW r \in 0..MaxDavRev
  PROVE  LET uri == BuildUri("bc", r, 0, <<>>) \o p
             res == GetResource(uri, Empty)
         IN  /\ Clean(BuildUri("bc", r, 0, <<>>)) = CollectionUri(r)
             /\ Clean(uri) = CollectionUri(r) \o p
             /\ IF r <= DavYoungest /\ p \in DOMAIN DavTree(r)
                THEN Found(res, CollectionUri(r) \o p, p, r) ELSE res = Failed
<1> DEFINE n == RevNames[r + 1]
           u == <<Special, "bc", n, Empty>>
           uri == u \o p
<1>1. n \in Name /\ StrToRev(n) = r
  BY RevisionRead
<1>2. BuildUri("bc", r, 0, <<>>) = u
  BY DEF BuildUri
<1>3. DavYoungest \in Nat /\ r \in Nat /\ r # Latest
  BY DavConstants DEF StoreRight, Latest
<1> HIDE DEF n
<1>4. /\ u \in Seq(Name \cup {Empty}) /\ Len(u) = 4
      /\ u[1] = Special /\ u[2] = "bc" /\ u[3] = n /\ u[4] = Empty
  BY <1>1, NamesRight
<1> DEFINE t == <<Special, "bc", n>>
<1>5. t \in Seq(Name) /\ Len(t) = 3 /\ t[1] = Special /\ t[2] = "bc" /\ t[3] = n
  BY <1>1, NamesRight
<1>6. Clean(u) = t
  <2>1. <<>> \in Seq(Name) /\ Len(<<>>) = 0 /\ t \o <<>> = t
    BY <1>5, ConcatEmptySeq
  <2>2. /\ Len(u) = Len(t) + 1 + Len(<<>>)
        /\ \A i \in 1..Len(t) : u[i] = t[i]
        /\ u[Len(t) + 1] = Empty
        /\ \A i \in 1..Len(<<>>) : u[Len(t) + 1 + i] = <<>>[i]
    BY <1>4, <1>5, <2>1
  <2> HIDE DEF u, t
  <2>3. Clean(u) = t \o <<>>
    BY <1>4, <1>5, <2>1, <2>2, CleanSlash
  <2> QED
    BY <2>1, <2>3
<1> HIDE DEF u
<1>7. Clean(uri) = t \o p
  <2>1. p \in Seq(Name \cup {Empty}) /\ Len(p) \in Nat
    BY SeqMonotonic, LenProperties
  <2>2. /\ uri \in Seq(Name \cup {Empty}) /\ Len(uri) = 4 + Len(p)
        /\ \A i \in 1..4 + Len(p) : uri[i] = IF i <= 4 THEN u[i] ELSE p[i - 4]
    <3>1. /\ u \o p \in Seq(Name \cup {Empty}) /\ Len(u \o p) = Len(u) + Len(p)
          /\ \A i \in 1..Len(u) + Len(p) : (u \o p)[i] = IF i <= Len(u) THEN u[i] ELSE p[i - Len(u)]
      BY <1>4, <2>1, ConcatProperties
    <3> QED
      BY <1>4, <3>1
  <2> HIDE DEF uri, t
  <2>3. /\ Len(uri) = Len(t) + 1 + Len(p)
        /\ \A i \in 1..Len(t) : uri[i] = t[i]
        /\ uri[Len(t) + 1] = Empty
    BY <1>4, <1>5, <2>1, <2>2
  <2>4. ASSUME NEW i \in 1..Len(p)
        PROVE  uri[Len(t) + 1 + i] = p[i]
    <3>1. 4 + i \in 1..4 + Len(p) /\ ~(4 + i <= 4) /\ 4 + i - 4 = i /\ Len(t) + 1 + i = 4 + i
      BY <1>5, <2>1
    <3> QED
      BY <2>2, <3>1
  <2> QED
    BY <1>5, <2>2, <2>3, <2>4, CleanSlash
<1> DEFINE v == t \o p
           a == [NoResource EXCEPT !.type = "regular", !.rev = r, !.path = p]
<1>8. ParseUri(v, Empty) = a
  <2>1. ParseUri(v, Empty) = ParseSpecial("bc", <<n>> \o p, Empty)
    <3>1. "bc" \in Name /\ "bc" \in SpecialSubdirs
      BY NamesRight DEF SpecialSubdirs
    <3> QED
      BY <1>1, <3>1, ParseThree
  <2>2. ParseSpecial("bc", <<n>> \o p, Empty) = ParseBaselineCollUri(<<n>> \o p)
    BY DEF ParseSpecial
  <2>3. (<<n>> \o p)[1] = n /\ Tail(<<n>> \o p) = p
    BY <1>1, BelowOne
  <2> QED
    BY <1>1, <2>1, <2>2, <2>3, Zenon DEF ParseBaselineCollUri
<1>9. a.type # "error"
  BY DEF NoResource
<1> DEFINE c == PrepResource([a EXCEPT !.uri = v])
<1>10. GetResource(uri, Empty) = c
  <2> HIDE DEF a, v, uri
  <2> QED
    BY <1>7, <1>8, <1>9, Zenon DEF GetResource, v
<1>11. IF r <= DavYoungest /\ p \in DOMAIN DavTree(r) THEN Found(c, v, p, r) ELSE c = Failed
  BY <1>3, RegularResource, Zenon
<1>12. CollectionUri(r) = t
  BY DEF CollectionUri, n
<1> HIDE DEF c, t
<1> QED
  BY <1>2, <1>6, <1>7, <1>10, <1>11, <1>12, Zenon DEF v, uri

\* The configuration; with a label, one of its baselines.
LEMMA VccResource ==
  ASSUME StoreRight
  PROVE  LET res == GetResource(VccUri, Empty)
         IN  ResourceIs(res, "private", "vcc", TRUE, Latest, 0, <<>>, Empty, TRUE, FALSE, VccUri)
<1> DEFINE a == [NoResource EXCEPT !.type = "private", !.restype = "vcc", !.exists = TRUE, !.baselined = TRUE]
           b == [a EXCEPT !.uri = VccUri]
<1>1. Clean(VccUri) = VccUri /\ ParseUri(VccUri, Empty) = ParseSpecial("vcc", <<"default">>, Empty)
  <2>1. "vcc" \in SpecialSubdirs /\ "vcc" \in Name /\ "default" \in Name
    BY NamesRight DEF SpecialSubdirs
  <2> QED
    BY <2>1, ParseJustThree, Zenon DEF VccUri
<1>2. ParseSpecial("vcc", <<"default">>, Empty) = a
  <2>1. ParseSpecial("vcc", <<"default">>, Empty) = ParseVccUri(<<"default">>, Empty)
    BY DEF ParseSpecial
  <2> QED
    BY <2>1, Zenon DEF ParseVccUri
<1>3. a.type # "error" /\ b.type = "private"
  BY DEF NoResource
<1>4. GetResource(VccUri, Empty) = PrepResource(b)
  <2> HIDE DEF a
  <2> QED
    BY <1>1, <1>2, <1>3, Zenon DEF GetResource
<1>5. PrepResource(b) = b
  <2> HIDE DEF b
  <2> QED
    BY <1>3 DEF PrepResource
<1>6. ResourceIs(b, "private", "vcc", TRUE, Latest, 0, <<>>, Empty, TRUE, FALSE, VccUri)
  BY DEF ResourceIs, NoResource
<1> QED
  BY <1>4, <1>5, <1>6, Zenon

\* A baseline, by its URI or by its label; its revision need not be there.
Baseline(res, r) ==
  ResourceIs(res, "version", Empty, TRUE, r, 0, <<>>, Empty, TRUE, FALSE, BaselineUri(r))

LEMMA PreparedBaseline ==
  ASSUME StoreRight, NEW r \in Nat, NEW uri
  PROVE  Baseline(PrepResource([[NoResource EXCEPT !.type = "version", !.baselined = TRUE, !.rev = r]
                                EXCEPT !.uri = uri]), r)
<1> DEFINE a == [[NoResource EXCEPT !.type = "version", !.baselined = TRUE, !.rev = r] EXCEPT !.uri = uri]
           b == [a EXCEPT !.rev = r, !.exists = TRUE, !.uri = BaselineUri(r)]
<1>1. a.type = "version" /\ a.id = 0 /\ a.rev = r /\ r # Latest
  BY DEF NoResource, Latest
<1>2. PrepResource(a) = PrepVersion(a)
  <2> HIDE DEF a
  <2> QED
    BY <1>1 DEF PrepResource
<1>3. BuildUri("bln", r, 0, <<>>) = BaselineUri(r)
  BY DEF BuildUri, BaselineUri
<1>4. PrepVersion(a) = b
  <2> HIDE DEF a
  <2> QED
    BY <1>1, <1>3, Zenon DEF PrepVersion
<1>5. Baseline(b, r)
  BY DEF Baseline, ResourceIs, NoResource
<1> QED
  BY <1>2, <1>4, <1>5, Zenon

LEMMA BaselineResource ==
  ASSUME StoreRight, NEW r \in 0..MaxDavRev
  PROVE  /\ Baseline(GetResource(BaselineUri(r), Empty), r)
         /\ Baseline(GetResource(VccUri, RevNames[r + 1]), r)
<1> DEFINE n == RevNames[r + 1]
           a == [NoResource EXCEPT !.type = "version", !.baselined = TRUE, !.rev = r]
<1>1. n \in Name /\ n # Empty /\ StrToRev(n) = r /\ r \in Nat
  BY RevisionRead, NamesRight
<1>2. a.type # "error"
  BY DEF NoResource
<1>3. ASSUME NEW d \in {"bln", "vcc"}, NEW c \in Name, NEW label,
             ParseSpecial(d, <<c>>, label) = a
      PROVE  Baseline(GetResource(<<Special, d, c>>, label), r)
  <2>1. d \in SpecialSubdirs /\ d \in Name
    BY NamesRight DEF SpecialSubdirs
  <2>2. Clean(<<Special, d, c>>) = <<Special, d, c>> /\ ParseUri(<<Special, d, c>>, label) = a
    BY <1>3, <2>1, ParseJustThree, Zenon
  <2>3. GetResource(<<Special, d, c>>, label) = PrepResource([a EXCEPT !.uri = <<Special, d, c>>])
    <3> HIDE DEF a
    <3> QED
      BY <1>2, <2>2, Zenon DEF GetResource
  <2>4. Baseline(PrepResource([a EXCEPT !.uri = <<Special, d, c>>]), r)
    BY <1>1, PreparedBaseline, Zenon
  <2> QED
    BY <2>3, <2>4, Zenon
<1>4. ParseSpecial("bln", <<n>>, Empty) = a
  <2>1. ParseSpecial("bln", <<n>>, Empty) = ParseBaselineUri(<<n>>)
    BY DEF ParseSpecial
  <2>2. <<n>>[1] = n
    OBVIOUS
  <2> QED
    BY <1>1, <2>1, <2>2, Zenon DEF ParseBaselineUri
<1>5. ParseSpecial("vcc", <<"default">>, n) = a
  <2>1. ParseSpecial("vcc", <<"default">>, n) = ParseVccUri(<<"default">>, n)
    BY DEF ParseSpecial
  <2> QED
    BY <1>1, <2>1, Zenon DEF ParseVccUri
<1> HIDE DEF a
<1>6. "default" \in Name
  BY NamesRight
<1> QED
  BY <1>1, <1>3, <1>4, <1>5, <1>6, Zenon DEF BaselineUri, VccUri

\* A node, by its version resource: in the request line and in the headers.
LEMMA VersionResource ==
  ASSUME StoreRight, NEW id \in 1..Len(dnodes), NEW p \in Seq(Name)
  PROVE  LET res == GetResource(VersionUri(id, p), Empty)
             info == SimpleParseUri(VersionUri(id, p))
         IN  /\ ResourceIs(res, "version", Empty, FALSE, Latest, id, p, Empty, TRUE, IsDir(id), VersionUri(id, p))
             /\ info.ok = TRUE /\ info.id = id /\ info.path = p
<1> DEFINE n == IdNames[id]
           u == VersionUri(id, p)
<1>1. id \in 1..Len(IdNames) /\ id \in Nat /\ id # 0 /\ ~(id > Len(dnodes))
  <2>1. Len(dnodes) \in Nat /\ Len(IdNames) \in Nat /\ Len(dnodes) <= Len(IdNames)
    BY NamesRight, LenProperties DEF StoreRight
  <2> QED
    BY <2>1
<1>2. n \in Name /\ ParseId(n) = id
  BY <1>1, IdRead
<1>3. u = <<Special, "ver", n>> \o p
  BY DEF VersionUri
<1> HIDE DEF n, u
<1>4. /\ Len(u) = 3 + Len(p) /\ Len(p) \in Nat /\ u[1] = Special /\ u[2] = "ver" /\ u[3] = n
      /\ SubSeq(u, 4, Len(u)) = p
  <2>1. Special \in Name /\ "ver" \in Name
    BY NamesRight
  <2> QED
    <3>1. ThreeAnd(u, Special, "ver", n, p)
      BY <1>2, <1>3, <2>1, BelowThree, Zenon
    <3> QED
      BY <3>1, LenProperties, Zenon DEF ThreeAnd
<1>5. Clean(u) = u /\ ParseUri(u, Empty) = ParseSpecial("ver", <<n>> \o p, Empty)
  <2>1. "ver" \in Name /\ "ver" \in SpecialSubdirs
    BY NamesRight DEF SpecialSubdirs
  <2>2. Clean(<<Special, "ver", n>> \o p) = <<Special, "ver", n>> \o p
    BY <1>2, <2>1, ParseThree
  <2>3. ParseUri(<<Special, "ver", n>> \o p, Empty) = ParseSpecial("ver", <<n>> \o p, Empty)
    BY <1>2, <2>1, ParseThree
  <2> QED
    BY <1>3, <2>2, <2>3, Zenon
<1> DEFINE a == [NoResource EXCEPT !.type = "version", !.id = id, !.path = p]
           b == [a EXCEPT !.uri = u]
<1>6. ParseUri(u, Empty) = a
  <2>1. ParseSpecial("ver", <<n>> \o p, Empty) = ParseVersionUri(<<n>> \o p)
    BY DEF ParseSpecial
  <2>2. (<<n>> \o p)[1] = n /\ Tail(<<n>> \o p) = p
    BY <1>2, BelowOne
  <2> QED
    BY <1>1, <1>2, <1>5, <2>1, <2>2, Zenon DEF ParseVersionUri
<1>7. a.type # "error" /\ b.type = "version" /\ b.id = id
  BY DEF NoResource
<1>8. GetResource(u, Empty) = PrepResource(b)
  <2> HIDE DEF a
  <2> QED
    BY <1>5, <1>6, <1>7, Zenon DEF GetResource
<1>9. PrepResource(b) = PrepVersion(b)
  <2> HIDE DEF b
  <2> QED
    BY <1>7 DEF PrepResource
<1> DEFINE c == [b EXCEPT !.exists = TRUE, !.coll = NodeKind(id) = "dir"]
<1>10. PrepVersion(b) = c
  <2> HIDE DEF b
  <2> QED
    BY <1>1, <1>7, Zenon DEF PrepVersion
<1>11. ResourceIs(c, "version", Empty, FALSE, Latest, id, p, Empty, TRUE, IsDir(id), u)
  <2>1. PICK k : k = IsDir(id)
    OBVIOUS
  <2>2. c = [b EXCEPT !.exists = TRUE, !.coll = k]
    BY <2>1, Zenon DEF IsDir
  <2> HIDE DEF c
  <2>3. ResourceIs([b EXCEPT !.exists = TRUE, !.coll = k],
                   "version", Empty, FALSE, Latest, id, p, Empty, TRUE, k, u)
    BY DEF ResourceIs, NoResource
  <2> QED
    BY <2>1, <2>2, <2>3, Zenon
<1>12. /\ SimpleParseUri(u).ok = TRUE /\ SimpleParseUri(u).id = id /\ SimpleParseUri(u).path = p
  <2>1. u # <<>> /\ u # <<Special>> /\ ~(Len(u) < 3)
    <3>1. Len(u) >= 3
      BY <1>4
    <3>2. Len(<<>>) = 0 /\ Len(<<Special>>) = 1
      OBVIOUS
    <3>3. ~(0 >= 3) /\ ~(1 >= 3)
      OBVIOUS
    <3>4. u # <<>> /\ u # <<Special>>
      BY <3>1, <3>2, <3>3, Zenon
    <3> QED
      BY <1>4, <3>1, <3>4
  <2>2. "ver" # "act"
    OBVIOUS
  <2> DEFINE v == [NoInfo EXCEPT !.ok = ParseId(u[3]) # 0, !.id = ParseId(u[3]), !.path = SubSeq(u, 4, Len(u))]
  <2>3. SimpleParseUri(u) = v
    BY <1>4, <2>1, <2>2 DEF SimpleParseUri
  <2>4. v = [NoInfo EXCEPT !.ok = TRUE, !.id = id, !.path = p]
    <3>1. (ParseId(u[3]) # 0) = TRUE
      BY <1>1, <1>2, <1>4
    <3>2. ParseId(u[3]) = id
      BY <1>2, <1>4
    <3> QED
      BY <1>4, <3>1, <3>2, Zenon
  <2> HIDE DEF v
  <2> QED
    BY <2>3, <2>4 DEF NoInfo
<1>13. ResourceIs(GetResource(u, Empty), "version", Empty, FALSE, Latest, id, p, Empty, TRUE, IsDir(id), u)
  <2> HIDE DEF c
  <2>1. GetResource(u, Empty) = c
    <3> HIDE DEF b
    <3> QED
      BY <1>8, <1>9, <1>10, Zenon
  <2> QED
    BY <1>11, <2>1, Zenon
<1> QED
  BY <1>12, <1>13, Zenon DEF u

\* A path in the transaction of an activity, while that is open.
TxnsRight ==
  /\ dtxns \in Seq([open : BOOLEAN, base : 0..DavYoungest])
  /\ dacts \in [Activities -> 0..Len(dtxns)]

LEMMA WorkingResource ==
  ASSUME StoreRight, TxnsRight, NEW a \in Activities, NEW p \in Seq(Name), dacts[a] # 0,
         p \in DOMAIN DavTree(dtxns[dacts[a]].base)
  PROVE  LET res == GetResource(WorkingUri(a, p), Empty)
         IN  IF dtxns[dacts[a]].open
             THEN res.type = "working" /\ res.exists = TRUE /\ res.path = p /\ res.act = a
             ELSE res.type = "error"
<1> DEFINE u == WorkingUri(a, p)
           t == dacts[a]
<1>1. u = <<Special, "wrk", a>> \o p /\ a \in Name
  BY NamesRight DEF WorkingUri
<1> HIDE DEF u
<1>2. Clean(u) = u /\ ParseUri(u, Empty) = ParseSpecial("wrk", <<a>> \o p, Empty)
  <2>1. "wrk" \in Name /\ "wrk" \in SpecialSubdirs
    BY NamesRight DEF SpecialSubdirs
  <2>2. Clean(<<Special, "wrk", a>> \o p) = <<Special, "wrk", a>> \o p
    BY <1>1, <2>1, ParseThree
  <2>3. ParseUri(<<Special, "wrk", a>> \o p, Empty) = ParseSpecial("wrk", <<a>> \o p, Empty)
    BY <1>1, <2>1, ParseThree
  <2> QED
    BY <1>1, <2>2, <2>3, Zenon
<1> DEFINE b == [NoResource EXCEPT !.type = "working", !.act = a, !.path = p]
           c == [b EXCEPT !.uri = u]
<1>3. ParseUri(u, Empty) = b
  <2>1. ParseSpecial("wrk", <<a>> \o p, Empty) = ParseWorkingUri(<<a>> \o p)
    BY DEF ParseSpecial
  <2>2. (<<a>> \o p)[1] = a /\ Tail(<<a>> \o p) = p
    BY <1>1, BelowOne
  <2> QED
    BY <1>2, <2>1, <2>2, Zenon DEF ParseWorkingUri
<1>4. b.type # "error" /\ c.type = "working" /\ c.act = a /\ c.path = p /\ c.baselined = FALSE
  BY DEF NoResource
<1>5. GetResource(u, Empty) = PrepResource(c)
  <2> HIDE DEF b
  <2> QED
    BY <1>2, <1>3, <1>4, Zenon DEF GetResource
<1>6. PrepResource(c) = PrepWorking(c)
  <2> HIDE DEF c
  <2> QED
    BY <1>4 DEF PrepResource
<1>7. GetTxn(a) = t
  BY DEF GetTxn
<1>8. CASE ~ dtxns[t].open
  <2>1. PrepWorking(c) = Failed
    <3> HIDE DEF c
    <3> QED
      BY <1>4, <1>7, <1>8, Zenon DEF PrepWorking
  <2>2. Failed.type = "error"
    BY DEF Failed, NoResource
  <2> QED
    BY <1>5, <1>6, <1>8, <2>1, <2>2, Zenon DEF u
<1>9. CASE dtxns[t].open
  <2> DEFINE id == DavTree(dtxns[t].base)[p]
             e == [c EXCEPT !.exists = TRUE, !.id = id, !.coll = NodeKind(id) = "dir"]
  <2>1. PrepWorking(c) = e
    <3> HIDE DEF c
    <3> QED
      BY <1>4, <1>7, <1>9, Zenon DEF PrepWorking
  <2>2. e.type = "working" /\ e.exists = TRUE /\ e.path = p /\ e.act = a
    <3>1. PICK k : k = (NodeKind(id) = "dir")
      OBVIOUS
    <3>2. e = [c EXCEPT !.exists = TRUE, !.id = id, !.coll = k]
      BY <3>1, Zenon
    <3> HIDE DEF e, id
    <3>3. LET x == [c EXCEPT !.exists = TRUE, !.id = id, !.coll = k]
          IN  x.type = "working" /\ x.exists = TRUE /\ x.path = p /\ x.act = a
      BY DEF NoResource
    <3> QED
      BY <3>2, <3>3, Zenon
  <2> HIDE DEF e
  <2> QED
    BY <1>5, <1>6, <1>9, <2>1, <2>2, Zenon DEF u
<1> QED
  BY <1>8, <1>9, Zenon

----------------------------------------------------------------------------
(* What is reported of them *)

BcUri(r) == BuildUri("bc", r, 0, <<>>)

LEMMA PropIsSome ==
  ASSUME NEW v
  PROVE  Prop(v) # NoProp /\ Prop(v)[1] = v
  BY DEF Prop, NoProp

\* The response to a PROPFIND.
LEMMA Response ==
  ASSUME NEW uri, NEW label
  PROVE  LET res == GetResource(uri, label)
         IN  /\ res.type # "error" /\ res.exists = TRUE =>
                  /\ GetProps(uri, label) # NoProp
                  /\ GetProps(uri, label)[1] = Propset(res)
             /\ res = Failed => GetProps(uri, label) = NoProp
<1> DEFINE res == GetResource(uri, label)
<1>1. ASSUME res.type # "error" /\ res.exists = TRUE
      PROVE  GetProps(uri, label) # NoProp /\ GetProps(uri, label)[1] = Propset(res)
  <2>1. GetProps(uri, label) = Prop(Propset(res))
    BY <1>1, Zenon DEF GetProps
  <2> HIDE DEF res
  <2> QED
    BY <2>1, PropIsSome, Zenon
<1>2. ASSUME res = Failed
      PROVE  GetProps(uri, label) = NoProp
  <2>1. Failed.type = "error"
    BY DEF Failed, NoResource
  <2> QED
    BY <1>2, <2>1, Zenon DEF GetProps
<1> QED
  BY <1>1, <1>2, Zenon

LEMMA PublicProps ==
  ASSUME StoreRight, NEW p \in Path
  PROVE  LET set == GetProps(p, Empty)
         IN  /\ p \in DOMAIN DavTree(DavYoungest) =>
                  set # NoProp /\ set[1].vcc = Prop(VccUri) /\ set[1].rel = Prop(p)
             /\ p \notin DOMAIN DavTree(DavYoungest) => set = NoProp
<1> DEFINE res == GetResource(p, Empty)
<1>1. IF p \in DOMAIN DavTree(DavYoungest) THEN Found(res, p, p, DavYoungest) ELSE res = Failed
  BY PublicResource, Zenon
<1>2. ASSUME p \in DOMAIN DavTree(DavYoungest)
      PROVE  GetProps(p, Empty) # NoProp /\ GetProps(p, Empty)[1].vcc = Prop(VccUri)
             /\ GetProps(p, Empty)[1].rel = Prop(p)
  <2>1. res.type = "regular" /\ res.exists = TRUE /\ res.path = p
    BY <1>1, <1>2, Zenon DEF Found, ResourceIs
  <2>2. GetProps(p, Empty) # NoProp /\ GetProps(p, Empty)[1] = Propset(res)
    <3>1. res.type # "error"
      BY <2>1
    <3> QED
      BY <2>1, <3>1, Response, Zenon
  <2>3. Propset(res).vcc = Vcc(res) /\ Propset(res).rel = RelativePath(res)
    <3> HIDE DEF res
    <3> QED
      BY DEF Propset
  <2>4. Vcc(res) = Prop(VccUri) /\ RelativePath(res) = Prop(p)
    <3>1. BuildUri("vcc", 0, 0, <<>>) = VccUri
      BY DEF BuildUri, VccUri
    <3> QED
      BY <2>1, <3>1, Zenon DEF Vcc, RelativePath
  <2> QED
    BY <2>2, <2>3, <2>4, Zenon
<1>3. ASSUME p \notin DOMAIN DavTree(DavYoungest)
      PROVE  GetProps(p, Empty) = NoProp
  BY <1>1, <1>3, Response, Zenon
<1> QED
  BY <1>2, <1>3, Zenon

LEMMA VccProps ==
  ASSUME StoreRight
  PROVE  LET set == GetProps(VccUri, Empty)
         IN  set # NoProp /\ set[1].checked = Prop(BaselineUri(DavYoungest))
<1> DEFINE res == GetResource(VccUri, Empty)
<1>1. res.type = "private" /\ res.restype = "vcc" /\ res.exists = TRUE
  BY VccResource, Zenon DEF ResourceIs
<1>2. GetProps(VccUri, Empty) # NoProp /\ GetProps(VccUri, Empty)[1] = Propset(res)
  <2>1. res.type # "error"
    BY <1>1
  <2> QED
    BY <1>1, <2>1, Response, Zenon
<1> HIDE DEF res
<1>3. Propset(res).checked = CheckedIn(res)
  BY DEF Propset
<1>4. CheckedIn(res) = Prop(BaselineUri(DavYoungest))
  <2>1. BuildUri("bln", DavYoungest, 0, <<>>) = BaselineUri(DavYoungest)
    BY DEF BuildUri, BaselineUri
  <2>2. CheckedIn(res) = Prop(BuildUri("bln", DavYoungest, 0, <<>>))
    BY <1>1 DEF CheckedIn
  <2> QED
    BY <2>1, <2>2, Zenon
<1> QED
  BY <1>2, <1>3, <1>4, Zenon

\* A baseline tells its collection and its revision.
TellsBaseline(set, r) == set # NoProp /\ set[1].bc = Prop(BcUri(r)) /\ set[1].name = Prop(r)

LEMMA BaselineProps ==
  ASSUME StoreRight, NEW r \in 0..MaxDavRev
  PROVE  /\ TellsBaseline(GetProps(BaselineUri(r), Empty), r)
         /\ TellsBaseline(GetProps(VccUri, RevNames[r + 1]), r)
<1>1. ASSUME NEW uri, NEW label, Baseline(GetResource(uri, label), r)
      PROVE  TellsBaseline(GetProps(uri, label), r)
  <2> DEFINE res == GetResource(uri, label)
  <2>1. res.type = "version" /\ res.baselined = TRUE /\ res.exists = TRUE /\ res.rev = r
    BY <1>1, Zenon DEF Baseline, ResourceIs
  <2>2. GetProps(uri, label) # NoProp /\ GetProps(uri, label)[1] = Propset(res)
    <3>1. res.type # "error"
      BY <2>1
    <3> QED
      BY <2>1, <3>1, Response, Zenon
  <2> HIDE DEF res
  <2>3. Propset(res).bc = BaselineCollection(res) /\ Propset(res).name = VersionName(res)
    BY DEF Propset
  <2>4. BaselineCollection(res) = Prop(BcUri(r)) /\ VersionName(res) = Prop(r)
    BY <2>1, Zenon DEF BaselineCollection, VersionName, BcUri
  <2> QED
    BY <2>2, <2>3, <2>4, Zenon DEF TellsBaseline
<1> QED
  BY <1>1, BaselineResource, Zenon

LEMMA CollectionProps ==
  ASSUME StoreRight, NEW p \in Seq(Name), NEW r \in 0..MaxDavRev
  PROVE  LET set == GetProps(BcUri(r) \o p, Empty)
         IN  IF r <= DavYoungest /\ p \in DOMAIN DavTree(r)
             THEN set # NoProp /\ set[1].coll = IsDir(DavTree(r)[p]) ELSE set = NoProp
<1> DEFINE uri == BcUri(r) \o p
           res == GetResource(uri, Empty)
<1>1. IF r <= DavYoungest /\ p \in DOMAIN DavTree(r)
      THEN Found(res, CollectionUri(r) \o p, p, r) ELSE res = Failed
  BY CollectionResource, Zenon DEF BcUri
<1> HIDE DEF uri
<1>2. ASSUME r <= DavYoungest /\ p \in DOMAIN DavTree(r)
      PROVE  GetProps(uri, Empty) # NoProp /\ GetProps(uri, Empty)[1].coll = IsDir(DavTree(r)[p])
  <2>1. res.type = "regular" /\ res.exists = TRUE /\ res.coll = IsDir(DavTree(r)[p])
    BY <1>1, <1>2, Zenon DEF Found, ResourceIs
  <2>2. GetProps(uri, Empty) # NoProp /\ GetProps(uri, Empty)[1] = Propset(res)
    <3>1. res.type # "error"
      BY <2>1
    <3> QED
      BY <2>1, <3>1, Response, Zenon
  <2> HIDE DEF res
  <2>3. Propset(res).coll = res.coll
    BY DEF Propset
  <2> QED
    BY <2>1, <2>2, <2>3, Zenon
<1>3. ASSUME ~(r <= DavYoungest /\ p \in DOMAIN DavTree(r))
      PROVE  GetProps(uri, Empty) = NoProp
  BY <1>1, <1>3, Response, Zenon
<1> QED
  BY <1>2, <1>3, Zenon DEF uri

----------------------------------------------------------------------------
(* The inductive invariant *)

\* Where svn_ra_dav__get_baseline_info is, and which URI it has in hand.  The
\* names cut off are joined in the right order if there is one at most.
AskRight ==
  /\ DOMAIN ask = DOMAIN NoAsk
  /\ ask.step \in {"idle", "start", "checked", "baseline", "kind"}
  /\ ask.step # "idle" =>
       /\ ask.path \in Path /\ ask.left \in Path /\ ask.lopped \in Seq(Name) /\ ask.cuts \in Nat
       /\ ask.rev \in {Latest} \cup (0..MaxDavRev) /\ ask.start \in 0..DavYoungest
       /\ ask.cuts = 0 => ask.left = ask.path /\ ask.lopped = <<>>
       /\ ask.cuts = 1 => /\ ask.path # <<>> /\ ask.left = Front(ask.path)
                          /\ ask.lopped = <<Last(ask.path)>>
       /\ ask.step # "start" => ask.rel = ask.left \o ask.lopped
       /\ ask.step = "checked" => ask.rev = Latest /\ ask.bln = VccUri
       /\ ask.step = "baseline" =>
            IF ask.rev = Latest THEN \E r \in ask.start..DavYoungest : ask.bln = BaselineUri(r)
            ELSE ask.bln = VccUri
       /\ ask.step = "kind" =>
            /\ ask.got \in 0..MaxDavRev /\ ask.bc = BcUri(ask.got)
            /\ IF ask.rev = Latest THEN ask.got \in ask.start..DavYoungest ELSE ask.got = ask.rev

\* What a directory holds, as it is listed.
Listing(r, p) ==
  {[uri |-> CollectionUri(r) \o q, path |-> q, coll |-> IsDir(DavTree(r)[q])] :
     q \in {q \in DOMAIN DavTree(r) : q = p \/ (q # <<>> /\ Front(q) = p)}}

\* An answer that is a path of a revision, and where it was found.
GoodAnswer ==
  answer.ok /\ answer.cuts <= 1 =>
    /\ answer.got \in 0..DavYoungest /\ answer.bc = BcUri(answer.got)
    /\ answer.path \in DOMAIN DavTree(answer.got) /\ answer.rel = answer.path
    /\ answer.dir = IsDir(DavTree(answer.got)[answer.path])
    /\ IF answer.rev = Latest THEN answer.got \in answer.start..answer.end ELSE answer.got = answer.rev
    /\ answer.listing # {} => answer.listing = Listing(answer.got, answer.path)

\* An answer that is none.
BadAnswer ==
  ~answer.ok /\ answer.cuts <= 1 =>
    \/ answer.hurt
    \/ IF answer.rev = Latest
       THEN \E s \in answer.start..answer.end : answer.path \notin DOMAIN DavTree(s)
       ELSE answer.rev > answer.start \/ answer.path \notin DOMAIN DavTree(answer.rev)

AnswerRight ==
  /\ DOMAIN answer = DOMAIN NoAnswer
  /\ answer # NoAnswer =>
       /\ answer.start \in 0..DavYoungest /\ answer.end \in 0..DavYoungest
       /\ answer.rev \in {Latest} \cup (0..MaxDavRev)
       /\ GoodAnswer /\ BadAnswer

\* The URL's the client keeps are those the server built.
HeldRight ==
  /\ DOMAIN held = {"ver", "wrk"}
  /\ held.ver # NoUrl =>
       /\ held.ver.rev \in 0..DavYoungest
       /\ held.ver.path \in DOMAIN DavTree(held.ver.rev)
       /\ held.ver.uri = VersionUri(DavTree(held.ver.rev)[held.ver.path], held.ver.path)
  /\ held.wrk # NoUrl =>
       /\ held.wrk.act \in Activities /\ held.wrk.txn = dacts[held.wrk.act] /\ held.wrk.txn # 0
       /\ held.wrk.path \in DOMAIN DavTree(dtxns[held.wrk.txn].base)
       /\ held.wrk.uri = WorkingUri(held.wrk.act, held.wrk.path)

DavInv == StoreRight /\ TxnsRight /\ AskRight /\ AnswerRight /\ HeldRight /\ lost \in Nat

----------------------------------------------------------------------------
(* What it implies *)

LEMMA NodeOf ==
  ASSUME StoreRight, NEW r \in 0..DavYoungest, NEW p \in DOMAIN DavTree(r)
  PROVE  /\ p \in Path /\ p \in Seq(Name) /\ r \in 0..MaxDavRev /\ r \in Nat
         /\ DavTree(r)[p] \in 1..Len(dnodes) /\ NodeKind(DavTree(r)[p]) \in {"dir", "file"}
<1>1. p \in Path /\ DavTree(r)[p] \in 1..Len(dnodes) /\ dnodes \in Seq(NodeRecord)
  BY Zenon DEF StoreRight
<1>2. r \in 0..MaxDavRev /\ r \in Nat
  BY DavConstants DEF StoreRight
<1> DEFINE id == DavTree(r)[p]
<1>3. dnodes[id] \in NodeRecord
  <2> HIDE DEF id
  <2> QED
    BY <1>1, ElementOfSeq DEF id
<1>4. NodeKind(id) \in {"dir", "file"}
  <2> HIDE DEF id
  <2> QED
    BY <1>3 DEF NodeKind, NodeRecord
<1> QED
  BY <1>1, <1>2, <1>4, Zenon DEF Path

LEMMA AnswersAreTrue == DavInv => AnswerTrue
<1> SUFFICES ASSUME DavInv, answer # NoAnswer, answer.cuts <= 1
             PROVE  AnswerTrue
  BY Zenon DEF AnswerTrue
<1> DEFINE r == IF answer.rev = Latest THEN answer.got ELSE answer.rev
<1>0. StoreRight
  BY DEF DavInv
<1>1. GoodAnswer /\ BadAnswer
  BY Zenon DEF DavInv, AnswerRight
<1>2. CASE answer.ok
  <2>1. /\ answer.got \in 0..DavYoungest /\ answer.bc = BcUri(answer.got)
        /\ answer.path \in DOMAIN DavTree(answer.got) /\ answer.rel = answer.path
        /\ answer.dir = IsDir(DavTree(answer.got)[answer.path])
        /\ IF answer.rev = Latest THEN answer.got \in answer.start..answer.end ELSE answer.got = answer.rev
        /\ answer.listing # {} => answer.listing = Listing(answer.got, answer.path)
    BY <1>1, <1>2, Zenon DEF GoodAnswer
  <2>2. r = answer.got
    BY <2>1
  <2>3. PICK g : g = answer.got
    OBVIOUS
  <2>4. PICK p : p = answer.path
    OBVIOUS
  <2>5. g \in 0..DavYoungest /\ p \in DOMAIN DavTree(g)
    BY <2>1, <2>3, <2>4
  <2>6. /\ g \in 0..MaxDavRev /\ p \in Seq(Name)
        /\ NodeKind(DavTree(g)[p]) \in {"dir", "file"}
    BY <1>0, <2>5, NodeOf
  <2>7. Clean(BcUri(g)) = CollectionUri(g)
    BY <1>0, <2>6, CollectionResource, Zenon DEF BcUri
  <2>8. CheckPath(answer) = NodeKind(DavTree(g)[p])
    <3>1. answer.dir = (NodeKind(DavTree(g)[p]) = "dir")
      BY <2>1, <2>3, <2>4, Zenon DEF IsDir
    <3> QED
      BY <1>2, <2>6, <3>1 DEF CheckPath
  <2>9. ASSUME answer.listing # {}
        PROVE  answer.listing =
                  {[uri |-> Clean(answer.bc) \o q, path |-> q, coll |-> NodeKind(DavTree(r)[q]) = "dir"] :
                     q \in {q \in DOMAIN DavTree(r) : q = answer.path \/ (q # <<>> /\ Front(q) = answer.path)}}
    <3>1. Clean(answer.bc) = CollectionUri(g)
      BY <2>1, <2>3, <2>7, Zenon
    <3>2. answer.listing = Listing(g, p)
      BY <2>1, <2>3, <2>4, <2>9, Zenon
    <3> DEFINE L(c, x, y) == {[uri |-> c \o q, path |-> q, coll |-> NodeKind(DavTree(x)[q]) = "dir"] :
                                q \in {q \in DOMAIN DavTree(x) : q = y \/ (q # <<>> /\ Front(q) = y)}}
    <3>3. Listing(g, p) = L(CollectionUri(g), g, p)
      BY Zenon DEF Listing, IsDir
    <3>4. r = g
      BY <2>2, <2>3, Zenon
    <3> HIDE DEF r, L
    <3>5. answer.listing = L(Clean(answer.bc), r, answer.path)
      BY <2>4, <3>1, <3>2, <3>3, <3>4, Zenon
    <3> QED
      BY <3>5, Zenon DEF L
  <2> HIDE DEF r
  <2> QED
    BY <1>2, <2>1, <2>2, <2>3, <2>4, <2>5, <2>8, <2>9, Zenon DEF AnswerTrue, r
<1>3. CASE ~answer.ok
  BY <1>1, <1>3, Zenon DEF AnswerTrue, BadAnswer
<1> QED
  BY <1>2, <1>3

LEMMA UrlsAreStable == DavInv => UrlsStable
<1> SUFFICES ASSUME DavInv
             PROVE  UrlsStable
  OBVIOUS
<1>0. StoreRight /\ TxnsRight /\ HeldRight
  BY DEF DavInv
<1>1. ASSUME held.ver # NoUrl
      PROVE  LET id == DavTree(held.ver.rev)[held.ver.path]
                 res == GetResource(held.ver.uri, Empty)
                 info == SimpleParseUri(held.ver.uri)
             IN  /\ res.type = "version" /\ res.exists /\ res.id = id /\ res.path = held.ver.path
                 /\ res.coll = (NodeKind(id) = "dir")
                 /\ info.ok /\ info.id = id /\ info.path = held.ver.path
  <2>1. PICK r, p : r = held.ver.rev /\ p = held.ver.path
    OBVIOUS
  <2>2. PICK id : id = DavTree(r)[p]
    OBVIOUS
  <2>3. /\ r \in 0..DavYoungest /\ p \in DOMAIN DavTree(r) /\ held.ver.uri = VersionUri(id, p)
    BY <1>0, <1>1, <2>1, <2>2, Zenon DEF HeldRight
  <2>4. id \in 1..Len(dnodes) /\ p \in Seq(Name)
    BY <1>0, <2>2, <2>3, NodeOf
  <2> DEFINE res == GetResource(VersionUri(id, p), Empty)
             info == SimpleParseUri(VersionUri(id, p))
  <2>5. /\ ResourceIs(res, "version", Empty, FALSE, Latest, id, p, Empty, TRUE, IsDir(id), VersionUri(id, p))
        /\ info.ok = TRUE /\ info.id = id /\ info.path = p
    BY <1>0, <2>4, VersionResource, Zenon
  <2>6. res.type = "version" /\ res.exists = TRUE /\ res.id = id /\ res.path = p /\ res.coll = IsDir(id)
    BY <2>5, Zenon DEF ResourceIs
  <2> QED
    BY <2>1, <2>2, <2>3, <2>5, <2>6, Zenon DEF IsDir
<1>2. ASSUME held.wrk # NoUrl
      PROVE  LET res == GetResource(held.wrk.uri, Empty)
             IN  IF dtxns[held.wrk.txn].open
                 THEN res.type = "working" /\ res.exists /\ res.path = held.wrk.path
                      /\ dacts[res.act] = held.wrk.txn
                 ELSE res.type = "error"
  <2>1. PICK a, p : a = held.wrk.act /\ p = held.wrk.path
    OBVIOUS
  <2>2. /\ a \in Activities /\ held.wrk.txn = dacts[a] /\ dacts[a] # 0
        /\ p \in DOMAIN DavTree(dtxns[dacts[a]].base) /\ held.wrk.uri = WorkingUri(a, p)
    BY <1>0, <1>2, <2>1, Zenon DEF HeldRight
  <2>3. dtxns[dacts[a]].base \in 0..DavYoungest
    <3>1. dacts[a] \in 1..Len(dtxns)
      <4>1. dacts[a] \in 0..Len(dtxns) /\ Len(dtxns) \in Nat
        BY <1>0, <2>2, LenProperties DEF TxnsRight
      <4> QED
        BY <2>2, <4>1
    <3>2. dtxns[dacts[a]] \in [open : BOOLEAN, base : 0..DavYoungest]
      BY <1>0, <3>1, ElementOfSeq DEF TxnsRight
    <3> QED
      BY <3>2, Zenon
  <2>4. p \in Seq(Name)
    BY <1>0, <2>2, <2>3, NodeOf
  <2>5. LET res == GetResource(WorkingUri(a, p), Empty)
        IN  IF dtxns[dacts[a]].open
            THEN res.type = "working" /\ res.exists = TRUE /\ res.path = p /\ res.act = a
            ELSE res.type = "error"
    BY <1>0, <2>2, <2>4, WorkingResource, Zenon
  <2> QED
    BY <2>1, <2>2, <2>5, Zenon
<1> QED
  BY <1>1, <1>2, Zenon DEF UrlsStable

----------------------------------------------------------------------------
(* The client's requests keep it *)

LEMMA StoreKept ==
  ASSUME StoreRight, UNCHANGED <<drevs, dnodes>>
  PROVE  StoreRight' /\ DavYoungest' = DavYoungest /\ \A r : DavTree(r)' = DavTree(r)
  BY DEF StoreRight, DavYoungest, DavTree

LEMMA HeldKept ==
  ASSUME TxnsRight, HeldRight, UNCHANGED <<drevs, dnodes, dacts, dtxns, held>>
  PROVE  TxnsRight' /\ HeldRight'
  BY Zenon DEF TxnsRight, HeldRight, DavYoungest, DavTree

\* Where the client stands in a series of requests; and whether none is under way.
Asking ==
  /\ StoreRight /\ AskRight /\ ask.step # "idle" /\ lost \in Nat
  /\ UNCHANGED <<drevs, dnodes>>

LEMMA AskIdle ==
  ASSUME ask' = NoAsk
  PROVE  AskRight'
<1>1. NoAsk.step = "idle" /\ DOMAIN NoAsk = DOMAIN NoAsk
  BY DEF NoAsk
<1> QED
  BY <1>1 DEF AskRight

\* An answer that was lost, where there is one, is noticed.
LEMMA LostNoticed ==
  ASSUME NEW uri, NEW label, NEW set, GetPropsResource(uri, label, set), lost \in Nat
  PROVE  /\ lost' \in Nat
         /\ set # NoProp => set = GetProps(uri, label)
         /\ set = NoProp => lost' # lost \/ GetProps(uri, label) = NoProp
<1>1. CASE set = GetProps(uri, label) /\ UNCHANGED lost
  BY <1>1
<1>2. CASE set = NoProp /\ lost < MaxLost /\ lost' = lost + 1
  BY <1>2
<1> QED
  BY <1>1, <1>2 DEF GetPropsResource

\* What is returned.
LEMMA Returned ==
  ASSUME Asking, NEW a, Return(a)
  PROVE  /\ AskRight'
         /\ DOMAIN answer' = DOMAIN NoAnswer
         /\ answer'.start \in 0..DavYoungest' /\ answer'.end \in 0..DavYoungest'
         /\ answer'.rev \in {Latest} \cup (0..MaxDavRev)
         /\ answer'.ok = a.ok /\ answer'.dir = a.dir /\ answer'.hurt = a.hurt
         /\ answer'.path = ask.path /\ answer'.rev = ask.rev /\ answer'.rel = ask.rel
         /\ answer'.bc = ask.bc /\ answer'.got = ask.got /\ answer'.cuts = ask.cuts
         /\ answer'.start = ask.start /\ answer'.end = DavYoungest /\ answer'.listing = {}
<1>1. AskRight'
  BY AskIdle DEF Return
<1>2. PICK ok, dir, hurt : ok = a.ok /\ dir = a.dir /\ hurt = a.hurt
  OBVIOUS
<1> DEFINE b == [NoAnswer EXCEPT !.path = ask.path, !.rev = ask.rev, !.rel = ask.rel, !.bc = ask.bc,
                   !.got = ask.got, !.cuts = ask.cuts, !.start = ask.start, !.end = DavYoungest,
                   !.ok = ok, !.dir = dir, !.hurt = hurt]
<1>3. answer' = b
  BY <1>2, Zenon DEF Return
<1>4. /\ DOMAIN b = DOMAIN NoAnswer
      /\ b.ok = ok /\ b.dir = dir /\ b.hurt = hurt
      /\ b.path = ask.path /\ b.rev = ask.rev /\ b.rel = ask.rel
      /\ b.bc = ask.bc /\ b.got = ask.got /\ b.cuts = ask.cuts
      /\ b.start = ask.start /\ b.end = DavYoungest /\ b.listing = {}
  BY DEF NoAnswer
<1> HIDE DEF b
<1>5. /\ ask.start \in 0..DavYoungest /\ ask.rev \in {Latest} \cup (0..MaxDavRev)
      /\ DavYoungest' = DavYoungest /\ DavYoungest \in 0..DavYoungest
  <2>1. DavYoungest \in Nat
    BY DavConstants DEF Asking, StoreRight
  <2>2. ask.start \in 0..DavYoungest /\ ask.rev \in {Latest} \cup (0..MaxDavRev)
    BY Zenon DEF Asking, AskRight
  <2>3. DavYoungest' = DavYoungest
    BY StoreKept DEF Asking
  <2> QED
    BY <2>1, <2>2, <2>3
<1> QED
  BY <1>1, <1>2, <1>3, <1>4, <1>5, Zenon

\* A call fails because an answer was lost or because there is nothing.
LEMMA ErrorRight ==
  ASSUME Asking, Return(Error),
         \/ lost' # lost
         \/ ask.cuts <= 1 => IF ask.rev = Latest
                             THEN \E s \in ask.start..DavYoungest : ask.path \notin DOMAIN DavTree(s)
                             ELSE ask.rev > ask.start \/ ask.path \notin DOMAIN DavTree(ask.rev)
  PROVE  AskRight' /\ AnswerRight'
<1>1. /\ AskRight'
      /\ DOMAIN answer' = DOMAIN NoAnswer
      /\ answer'.start \in 0..DavYoungest' /\ answer'.end \in 0..DavYoungest'
      /\ answer'.rev \in {Latest} \cup (0..MaxDavRev)
      /\ answer'.ok = Error.ok /\ answer'.hurt = Error.hurt
      /\ answer'.path = ask.path /\ answer'.rev = ask.rev /\ answer'.cuts = ask.cuts
      /\ answer'.start = ask.start /\ answer'.end = DavYoungest
  BY Returned, Zenon
<1>2. Error.ok = FALSE
  BY DEF Error
<1>3. Error.hurt = (ask.hurt \/ lost' # lost)
  BY Zenon DEF Error
<1>4. DavYoungest' = DavYoungest /\ \A r : DavTree(r)' = DavTree(r)
  BY StoreKept DEF Asking
<1>5. GoodAnswer'
  BY <1>1, <1>2, Zenon DEF GoodAnswer
<1>6. BadAnswer'
  <2>1. CASE lost' # lost
    BY <1>1, <1>3, <2>1, Zenon DEF BadAnswer
  <2>2. CASE ask.cuts <= 1 => IF ask.rev = Latest
                             THEN \E s \in ask.start..DavYoungest : ask.path \notin DOMAIN DavTree(s)
                             ELSE ask.rev > ask.start \/ ask.path \notin DOMAIN DavTree(ask.rev)
    BY <1>1, <1>4, <2>2, Zenon DEF BadAnswer
  <2> QED
    BY <2>1, <2>2, Zenon
<1> QED
  BY <1>1, <1>5, <1>6, Zenon DEF AnswerRight

LEMMA FrontOfPath ==
  ASSUME NEW p \in Path, p # <<>>
  PROVE  Front(p) \in Path /\ Last(p) \in Name
<1>1. p \in Seq(Name) /\ Len(p) \in Nat /\ Len(p) # 0 /\ p[1] # Special
  BY LenProperties, EmptySeq DEF Path
<1>2. \A i \in 1..Len(p) : p[i] \in Name
  BY <1>1, ElementOfSeq
<1> DEFINE f == SubSeq(p, 1, Len(p) - 1)
<1>3. /\ f \in Seq(Name) /\ Len(f) = IF 1 <= Len(p) - 1 THEN Len(p) - 1 - 1 + 1 ELSE 0
      /\ \A i \in 1..Len(p) - 1 - 1 + 1 : f[i] = p[1 + i - 1]
  BY <1>1, <1>2, SubSeqProperties
<1> HIDE DEF f
<1>4. ASSUME f # <<>>
      PROVE  f[1] # Special
  <2>1. Len(f) # 0
    BY <1>3, <1>4, EmptySeq
  <2>2. 1 \in 1..Len(p) - 1 - 1 + 1
    BY <1>1, <1>3, <2>1
  <2> QED
    BY <1>1, <1>3, <2>2
<1>5. Last(p) \in Name
  BY <1>1, <1>2 DEF Last
<1> QED
  BY <1>3, <1>4, <1>5, Zenon DEF Front, Path, f

LEMMA StartInfoKeeps ==
  ASSUME DavInv, NEW p \in DavPaths, NEW r \in {Latest} \cup (0..MaxDavRev), StartInfo(p, r)
  PROVE  DavInv'
<1>0. StoreRight /\ TxnsRight /\ HeldRight /\ lost \in Nat
  BY DEF DavInv
<1>1. UNCHANGED <<drevs, dnodes, dacts, dtxns, held, lost>>
  BY DEF StartInfo
<1>2. StoreRight' /\ DavYoungest' = DavYoungest
  BY <1>0, <1>1, StoreKept
<1>3. TxnsRight' /\ HeldRight'
  BY <1>0, <1>1, HeldKept
<1>4. AnswerRight'
  BY Zenon DEF StartInfo, AnswerRight
<1>5. AskRight'
  <2>1. p \in Path /\ <<>> \in Seq(Name) /\ DavYoungest \in 0..DavYoungest /\ 0 \in Nat
    BY <1>0, NamesRight, DavConstants DEF StoreRight
  <2> DEFINE b == [NoAsk EXCEPT !.step = "start", !.path = p, !.rev = r, !.left = p, !.start = DavYoungest]
  <2>2. ask' = b
    BY DEF StartInfo
  <2>3. /\ DOMAIN b = DOMAIN NoAsk /\ b.step = "start" /\ b.path = p /\ b.left = p /\ b.rev = r
        /\ b.start = DavYoungest /\ b.lopped = <<>> /\ b.cuts = 0
    BY DEF NoAsk
  <2> HIDE DEF b
  <2>4. "start" # "idle" /\ "start" # "checked" /\ "start" # "baseline" /\ "start" # "kind" /\ 0 # 1
    OBVIOUS
  <2> QED
    BY <1>2, <2>1, <2>2, <2>3, <2>4, Zenon DEF AskRight
<1>6. lost' \in Nat
  BY <1>0, <1>1
<1> QED
  BY <1>2, <1>3, <1>4, <1>5, <1>6 DEF DavInv

\* Revisions and nodes are only added.
Grows ==
  /\ DavYoungest <= DavYoungest' /\ DavYoungest \in Nat /\ DavYoungest' \in Nat
  /\ \A r \in 0..DavYoungest : DavTree(r)' = DavTree(r)
  /\ \A i \in 1..Len(dnodes) : dnodes'[i] = dnodes[i]

LEMMA SameIsGrowth ==
  ASSUME StoreRight, UNCHANGED <<drevs, dnodes>>
  PROVE  Grows
<1>1. DavYoungest \in Nat
  BY DavConstants DEF StoreRight
<1> QED
  BY <1>1, StoreKept DEF Grows

LEMMA KindKept ==
  ASSUME StoreRight, Grows, NEW r \in 0..DavYoungest, NEW p \in DOMAIN DavTree(r)
  PROVE  DavTree(r)' = DavTree(r) /\ IsDir(DavTree(r)[p])' = IsDir(DavTree(r)[p])
<1>1. DavTree(r)' = DavTree(r)
  BY DEF Grows
<1>2. DavTree(r)[p] \in 1..Len(dnodes)
  BY NodeOf
<1>3. PICK i : i = DavTree(r)[p] /\ i = DavTree(r)'[p]
  BY <1>1
<1>4. dnodes'[i] = dnodes[i]
  BY <1>2, <1>3 DEF Grows
<1> QED
  BY <1>1, <1>3, <1>4, Zenon DEF IsDir, NodeKind

LEMMA AnswerGrows ==
  ASSUME StoreRight, AnswerRight, Grows, UNCHANGED answer
  PROVE  AnswerRight'
<1> SUFFICES ASSUME answer # NoAnswer
             PROVE  AnswerRight'
  BY Zenon DEF AnswerRight
<1>1. /\ DOMAIN answer = DOMAIN NoAnswer /\ GoodAnswer /\ BadAnswer
      /\ answer.start \in 0..DavYoungest /\ answer.end \in 0..DavYoungest
      /\ answer.rev \in {Latest} \cup (0..MaxDavRev)
  BY Zenon DEF AnswerRight
<1>2. 0..DavYoungest \subseteq 0..DavYoungest'
  BY DEF Grows
<1>3. GoodAnswer'
  <2> SUFFICES ASSUME answer.ok /\ answer.cuts <= 1
               PROVE  GoodAnswer'
    BY Zenon DEF GoodAnswer
  <2>1. PICK g, p : g = answer.got /\ p = answer.path
    OBVIOUS
  <2>2. g \in 0..DavYoungest /\ p \in DOMAIN DavTree(g)
    BY <1>1, <2>1, Zenon DEF GoodAnswer
  <2>3. DavTree(g)' = DavTree(g) /\ \A q \in DOMAIN DavTree(g) : IsDir(DavTree(g)[q])' = IsDir(DavTree(g)[q])
    BY <2>2, KindKept
  <2>4. Listing(g, p)' = Listing(g, p)
    BY <2>3, Zenon DEF Listing, CollectionUri
  <2>5. g \in 0..DavYoungest'
    BY <1>2, <2>2
  <2> QED
    BY <1>1, <2>1, <2>2, <2>3, <2>4, <2>5, Zenon DEF GoodAnswer, BcUri, BuildUri
<1>4. BadAnswer'
  <2> SUFFICES ASSUME ~answer.ok /\ answer.cuts <= 1 /\ ~answer.hurt
               PROVE  BadAnswer'
    BY Zenon DEF BadAnswer
  <2>1. CASE answer.rev = Latest
    <3>1. PICK s \in answer.start..answer.end : answer.path \notin DOMAIN DavTree(s)
      BY <1>1, <2>1, Zenon DEF BadAnswer
    <3>2. s \in 0..DavYoungest
      BY <1>1 DEF Grows
    <3>3. DavTree(s)' = DavTree(s)
      BY <3>2, Zenon DEF Grows
    <3> QED
      BY <2>1, <3>1, <3>3, Zenon DEF BadAnswer
  <2>2. CASE answer.rev # Latest /\ answer.rev > answer.start
    BY <2>2, Zenon DEF BadAnswer
  <2>3. CASE answer.rev # Latest /\ ~(answer.rev > answer.start)
    <3>1. answer.path \notin DOMAIN DavTree(answer.rev)
      BY <1>1, <2>3, Zenon DEF BadAnswer
    <3>2. answer.rev \in 0..DavYoungest
      BY <1>1, <2>3 DEF Grows
    <3>3. DavTree(answer.rev)' = DavTree(answer.rev)
      <4>1. PICK r : r = answer.rev
        OBVIOUS
      <4>2. DavTree(r)' = DavTree(r)
        BY <3>2, <4>1 DEF Grows
      <4> QED
        BY <4>1, <4>2, Zenon
    <3> QED
      BY <2>3, <3>1, <3>3, Zenon DEF BadAnswer
  <2> QED
    BY <2>1, <2>2, <2>3
<1> QED
  BY <1>1, <1>2, <1>3, <1>4, Zenon DEF AnswerRight

LEMMA AnswerKept ==
  ASSUME AnswerRight, StoreRight, UNCHANGED <<drevs, dnodes, answer>>
  PROVE  AnswerRight'
  BY SameIsGrowth, AnswerGrows

LEMMA FindStartKeeps ==
  ASSUME DavInv, FindStart
  PROVE  DavInv'
<1>0. StoreRight /\ TxnsRight /\ HeldRight /\ AnswerRight /\ AskRight /\ lost \in Nat
  BY DEF DavInv
<1>1. UNCHANGED <<drevs, dnodes, dacts, dtxns, held>> /\ ask.step = "start"
  BY DEF FindStart
<1>2. StoreRight' /\ DavYoungest' = DavYoungest
  BY <1>0, <1>1, StoreKept
<1>3. TxnsRight' /\ HeldRight'
  BY <1>0, <1>1, HeldKept
<1>4. PICK set : /\ GetPropsResource(ask.left, Empty, set)
                 /\ IF set # NoProp /\ set[1].vcc # NoProp /\ set[1].rel # NoProp
                    THEN /\ ask' = [ask EXCEPT !.step = IF ask.rev = Latest THEN "checked" ELSE "baseline",
                                               !.rel = set[1].rel[1] \o ask.lopped, !.bln = set[1].vcc[1]]
                         /\ UNCHANGED answer
                    ELSE IF set = NoProp /\ ask.left # <<>>
                    THEN /\ ask' = [ask EXCEPT !.left = Front(@), !.cuts = @ + 1,
                                               !.lopped = Append(@, Last(ask.left)),
                                               !.hurt = @ \/ lost' # lost]
                         /\ UNCHANGED answer
                    ELSE Return(Error)
  BY Zenon DEF FindStart
<1>5. /\ lost' \in Nat
      /\ set # NoProp => set = GetProps(ask.left, Empty)
      /\ set = NoProp => lost' # lost \/ GetProps(ask.left, Empty) = NoProp
  BY <1>0, <1>4, LostNoticed, Zenon
<1>6. ask.left \in Path /\ ask.step # "idle" /\ Asking
  BY <1>0, <1>1 DEF AskRight, Asking
<1>7. /\ ask.left \in DOMAIN DavTree(DavYoungest) =>
            GetProps(ask.left, Empty) # NoProp /\ GetProps(ask.left, Empty)[1].vcc = Prop(VccUri)
            /\ GetProps(ask.left, Empty)[1].rel = Prop(ask.left)
      /\ ask.left \notin DOMAIN DavTree(DavYoungest) => GetProps(ask.left, Empty) = NoProp
  BY <1>0, <1>6, PublicProps, Zenon
<1>8. CASE set # NoProp
  <2>1. set[1].vcc = Prop(VccUri) /\ set[1].rel = Prop(ask.left)
    BY <1>5, <1>7, <1>8, Zenon
  <2>2. /\ set[1].vcc # NoProp /\ set[1].vcc[1] = VccUri
        /\ set[1].rel # NoProp /\ set[1].rel[1] = ask.left
    BY <2>1, PropIsSome, Zenon
  <2>3. PICK rel : rel = ask.left \o ask.lopped
    OBVIOUS
  <2>4. PICK step : step = IF ask.rev = Latest THEN "checked" ELSE "baseline"
    OBVIOUS
  <2> DEFINE b == [ask EXCEPT !.step = step, !.rel = rel, !.bln = VccUri]
  <2>5. ask' = b /\ UNCHANGED answer
    BY <1>4, <1>8, <2>2, <2>3, <2>4, Zenon
  <2>6. /\ DOMAIN b = DOMAIN ask /\ b.step = step /\ b.rel = rel /\ b.bln = VccUri
        /\ b.path = ask.path /\ b.left = ask.left /\ b.lopped = ask.lopped /\ b.cuts = ask.cuts
        /\ b.rev = ask.rev /\ b.start = ask.start
    <3>1. DOMAIN ask = DOMAIN NoAsk
      BY <1>0 DEF AskRight
    <3> QED
      BY <3>1 DEF NoAsk
  <2> HIDE DEF b
  <2>7. AskRight'
    <3>1. CASE ask.rev = Latest
      <4>1. step = "checked" /\ "checked" # "idle" /\ "checked" # "baseline" /\ "checked" # "kind"
        BY <2>4, <3>1
      <4> QED
        BY <1>0, <1>2, <1>6, <2>3, <2>5, <2>6, <3>1, <4>1, Zenon DEF AskRight
    <3>2. CASE ask.rev # Latest
      <4>1. step = "baseline" /\ "baseline" # "idle" /\ "baseline" # "checked" /\ "baseline" # "kind"
        BY <2>4, <3>2
      <4> QED
        BY <1>0, <1>2, <1>6, <2>3, <2>5, <2>6, <3>2, <4>1, Zenon DEF AskRight
    <3> QED
      BY <3>1, <3>2
  <2>8. AnswerRight'
    BY <1>0, <1>1, <2>5, AnswerKept
  <2> QED
    BY <1>2, <1>3, <1>5, <2>7, <2>8 DEF DavInv
<1>9. CASE set = NoProp /\ ask.left # <<>>
  <2>1. PICK left, cuts, lopped, hurt : /\ left = Front(ask.left) /\ cuts = ask.cuts + 1
                                        /\ lopped = Append(ask.lopped, Last(ask.left))
                                        /\ hurt = (ask.hurt \/ lost' # lost)
    OBVIOUS
  <2> DEFINE b == [ask EXCEPT !.left = left, !.cuts = cuts, !.lopped = lopped, !.hurt = hurt]
  <2>2. ask' = b /\ UNCHANGED answer
    BY <1>4, <1>9, <2>1, Zenon
  <2>3. /\ DOMAIN b = DOMAIN ask /\ b.step = ask.step
        /\ b.path = ask.path /\ b.left = left /\ b.lopped = lopped /\ b.cuts = cuts
        /\ b.rev = ask.rev /\ b.start = ask.start
    <3>1. DOMAIN ask = DOMAIN NoAsk
      BY <1>0 DEF AskRight
    <3> QED
      BY <3>1 DEF NoAsk
  <2> HIDE DEF b
  <2>4. left \in Path /\ Last(ask.left) \in Name
    BY <1>6, <1>9, <2>1, FrontOfPath
  <2>5. lopped \in Seq(Name) /\ cuts \in Nat /\ cuts # 0 /\ (cuts = 1 => ask.cuts = 0)
    <3>1. ask.lopped \in Seq(Name) /\ ask.cuts \in Nat
      BY <1>0, <1>6, Zenon DEF AskRight
    <3>2. Append(ask.lopped, Last(ask.left)) \in Seq(Name)
      BY <2>4, <3>1, AppendProperties
    <3> QED
      BY <2>1, <3>1, <3>2
  <2>6. ASSUME cuts = 1
        PROVE  ask.path # <<>> /\ left = Front(ask.path) /\ lopped = <<Last(ask.path)>>
    <3>1. ask.left = ask.path /\ ask.lopped = <<>>
      BY <1>0, <1>6, <2>5, <2>6, Zenon DEF AskRight
    <3>2. Append(<<>>, Last(ask.path)) = <<Last(ask.path)>>
      OBVIOUS
    <3> QED
      BY <1>9, <2>1, <3>1, <3>2, Zenon
  <2>7. AskRight'
    <3>1. "start" # "idle" /\ "start" # "checked" /\ "start" # "baseline" /\ "start" # "kind"
      OBVIOUS
    <3> QED
      BY <1>0, <1>1, <1>2, <1>6, <2>2, <2>3, <2>4, <2>5, <2>6, <3>1, Zenon DEF AskRight
  <2>8. AnswerRight'
    BY <1>0, <1>1, <2>2, AnswerKept
  <2> QED
    BY <1>2, <1>3, <1>5, <2>7, <2>8 DEF DavInv
<1>10. CASE set = NoProp /\ ask.left = <<>>
  <2>1. Return(Error)
    BY <1>4, <1>10, Zenon
  <2>2. ask.left \in DOMAIN DavTree(DavYoungest)
    <3>1. DavYoungest \in 0..DavYoungest
      BY <1>0, DavConstants DEF StoreRight
    <3> QED
      BY <1>0, <1>10, <3>1, Zenon DEF StoreRight
  <2>3. lost' # lost
    BY <1>5, <1>7, <1>10, <2>2, Zenon
  <2>4. AskRight' /\ AnswerRight'
    BY <1>6, <2>1, <2>3, ErrorRight, Zenon
  <2> QED
    BY <1>2, <1>3, <1>5, <2>4 DEF DavInv
<1> QED
  BY <1>8, <1>9, <1>10, Zenon

LEMMA FetchCheckedInKeeps ==
  ASSUME DavInv, FetchCheckedIn
  PROVE  DavInv'
<1>0. StoreRight /\ TxnsRight /\ HeldRight /\ AnswerRight /\ AskRight /\ lost \in Nat
  BY DEF DavInv
<1>1. UNCHANGED <<drevs, dnodes, dacts, dtxns, held>> /\ ask.step = "checked"
  BY DEF FetchCheckedIn
<1>2. StoreRight' /\ DavYoungest' = DavYoungest
  BY <1>0, <1>1, StoreKept
<1>3. TxnsRight' /\ HeldRight'
  BY <1>0, <1>1, HeldKept
<1>4. PICK set : /\ GetPropsResource(ask.bln, Empty, set)
                 /\ IF set # NoProp /\ set[1].checked # NoProp
                    THEN /\ ask' = [ask EXCEPT !.step = "baseline", !.bln = set[1].checked[1]]
                         /\ UNCHANGED answer
                    ELSE Return(Error)
  BY Zenon DEF FetchCheckedIn
<1>5. /\ lost' \in Nat
      /\ set # NoProp => set = GetProps(ask.bln, Empty)
      /\ set = NoProp => lost' # lost \/ GetProps(ask.bln, Empty) = NoProp
  BY <1>0, <1>4, LostNoticed, Zenon
<1>6. ask.step # "idle" /\ Asking
  BY <1>0, <1>1 DEF Asking
<1>7. ask.bln = VccUri /\ ask.rev = Latest
  BY <1>0, <1>1, <1>6, Zenon DEF AskRight
<1>8. /\ GetProps(ask.bln, Empty) # NoProp
      /\ GetProps(ask.bln, Empty)[1].checked = Prop(BaselineUri(DavYoungest))
  BY <1>0, <1>7, VccProps, Zenon
<1>9. CASE set # NoProp
  <2>1. PICK bln : bln = BaselineUri(DavYoungest)
    OBVIOUS
  <2>2. set[1].checked # NoProp /\ set[1].checked[1] = bln
    BY <1>5, <1>8, <1>9, <2>1, PropIsSome, Zenon
  <2> DEFINE b == [ask EXCEPT !.step = "baseline", !.bln = bln]
  <2>3. ask' = b /\ UNCHANGED answer
    BY <1>4, <1>9, <2>2, Zenon
  <2>4. /\ DOMAIN b = DOMAIN ask /\ b.step = "baseline" /\ b.rel = ask.rel /\ b.bln = bln
        /\ b.path = ask.path /\ b.left = ask.left /\ b.lopped = ask.lopped /\ b.cuts = ask.cuts
        /\ b.rev = ask.rev /\ b.start = ask.start
    <3>1. DOMAIN ask = DOMAIN NoAsk
      BY <1>0 DEF AskRight
    <3> QED
      BY <3>1 DEF NoAsk
  <2> HIDE DEF b
  <2>5. /\ "checked" # "start" /\ "baseline" # "idle" /\ "baseline" # "checked" /\ "baseline" # "kind"
    OBVIOUS
  <2>6. \E r \in ask.start..DavYoungest' : bln = BaselineUri(r)
    <3>1. DavYoungest \in ask.start..DavYoungest'
      <4>1. ask.start \in 0..DavYoungest
        BY <1>0, <1>6, Zenon DEF AskRight
      <4>2. DavYoungest \in Nat
        BY <1>0, DavConstants DEF StoreRight
      <4> QED
        BY <1>2, <4>1, <4>2
    <3> QED
      BY <2>1, <3>1
  <2>7. AskRight'
    BY <1>0, <1>1, <1>2, <1>6, <1>7, <2>3, <2>4, <2>5, <2>6, Zenon DEF AskRight, BaselineUri
  <2>8. AnswerRight'
    BY <1>0, <1>1, <2>3, AnswerKept
  <2> QED
    BY <1>2, <1>3, <1>5, <2>7, <2>8 DEF DavInv
<1>10. CASE set = NoProp
  <2>1. Return(Error) /\ lost' # lost
    BY <1>4, <1>5, <1>8, <1>10, Zenon
  <2>2. AskRight' /\ AnswerRight'
    BY <1>6, <2>1, ErrorRight, Zenon
  <2> QED
    BY <1>2, <1>3, <1>5, <2>2 DEF DavInv
<1> QED
  BY <1>9, <1>10

LEMMA FetchBaselineKeeps ==
  ASSUME DavInv, FetchBaseline
  PROVE  DavInv'
<1>0. StoreRight /\ TxnsRight /\ HeldRight /\ AnswerRight /\ AskRight /\ lost \in Nat
  BY DEF DavInv
<1>1. UNCHANGED <<drevs, dnodes, dacts, dtxns, held>> /\ ask.step = "baseline"
  BY DEF FetchBaseline
<1>2. StoreRight' /\ DavYoungest' = DavYoungest
  BY <1>0, <1>1, StoreKept
<1>3. TxnsRight' /\ HeldRight'
  BY <1>0, <1>1, HeldKept
<1>4. PICK label : label = IF ask.rev = Latest THEN Empty ELSE RevNames[ask.rev + 1]
  OBVIOUS
<1>5. PICK set : /\ GetPropsResource(ask.bln, label, set)
                 /\ IF set # NoProp /\ set[1].bc # NoProp /\ set[1].name # NoProp
                    THEN /\ ask' = [ask EXCEPT !.step = "kind", !.bc = set[1].bc[1], !.got = set[1].name[1]]
                         /\ UNCHANGED answer
                    ELSE Return(Error)
  BY <1>4, Zenon DEF FetchBaseline
<1>6. /\ lost' \in Nat
      /\ set # NoProp => set = GetProps(ask.bln, label)
      /\ set = NoProp => lost' # lost \/ GetProps(ask.bln, label) = NoProp
  BY <1>0, <1>5, LostNoticed, Zenon
<1>7. ask.step # "idle" /\ Asking
  BY <1>0, <1>1 DEF Asking
<1>8. ask.start \in 0..DavYoungest /\ ask.rev \in {Latest} \cup (0..MaxDavRev) /\ DavYoungest \in 1..MaxDavRev
  BY <1>0, <1>7, Zenon DEF AskRight, StoreRight
<1>9. PICK r \in 0..MaxDavRev : /\ TellsBaseline(GetProps(ask.bln, label), r)
                                /\ IF ask.rev = Latest THEN r \in ask.start..DavYoungest ELSE r = ask.rev
  <2>1. CASE ask.rev = Latest
    <3>1. PICK r \in ask.start..DavYoungest : ask.bln = BaselineUri(r)
      BY <1>0, <1>1, <1>7, <2>1, Zenon DEF AskRight
    <3>2. r \in 0..MaxDavRev
      BY <1>8, DavConstants
    <3>3. TellsBaseline(GetProps(ask.bln, label), r)
      BY <1>0, <1>4, <2>1, <3>1, <3>2, BaselineProps, Zenon
    <3> QED
      BY <2>1, <3>2, <3>3
  <2>2. CASE ask.rev # Latest
    <3>1. ask.bln = VccUri /\ ask.rev \in 0..MaxDavRev
      BY <1>0, <1>1, <1>7, <1>8, <2>2, Zenon DEF AskRight
    <3>2. TellsBaseline(GetProps(ask.bln, label), ask.rev)
      BY <1>0, <1>4, <2>2, <3>1, BaselineProps, Zenon
    <3> QED
      BY <2>2, <3>1, <3>2
  <2> QED
    BY <2>1, <2>2
<1>10. CASE set # NoProp
  <2>1. PICK bc : bc = BcUri(r)
    OBVIOUS
  <2>2. set[1].bc # NoProp /\ set[1].bc[1] = bc /\ set[1].name # NoProp /\ set[1].name[1] = r
    BY <1>6, <1>9, <1>10, <2>1, PropIsSome, Zenon DEF TellsBaseline
  <2> DEFINE b == [ask EXCEPT !.step = "kind", !.bc = bc, !.got = r]
  <2>3. ask' = b /\ UNCHANGED answer
    BY <1>5, <1>10, <2>2, Zenon
  <2>4. /\ DOMAIN b = DOMAIN ask /\ b.step = "kind" /\ b.rel = ask.rel /\ b.bc = bc /\ b.got = r
        /\ b.path = ask.path /\ b.left = ask.left /\ b.lopped = ask.lopped /\ b.cuts = ask.cuts
        /\ b.rev = ask.rev /\ b.start = ask.start
    <3>1. DOMAIN ask = DOMAIN NoAsk
      BY <1>0 DEF AskRight
    <3> QED
      BY <3>1 DEF NoAsk
  <2> HIDE DEF b
  <2>5. /\ "baseline" # "start" /\ "kind" # "idle" /\ "kind" # "checked" /\ "kind" # "baseline"
    OBVIOUS
  <2>6. AskRight'
    BY <1>0, <1>1, <1>2, <1>7, <1>9, <2>1, <2>3, <2>4, <2>5, Zenon DEF AskRight, BcUri, BuildUri
  <2>7. AnswerRight'
    BY <1>0, <1>1, <2>3, AnswerKept
  <2> QED
    BY <1>2, <1>3, <1>6, <2>6, <2>7 DEF DavInv
<1>11. CASE set = NoProp
  <2>1. Return(Error) /\ lost' # lost
    BY <1>5, <1>6, <1>9, <1>11, Zenon DEF TellsBaseline
  <2>2. AskRight' /\ AnswerRight'
    BY <1>7, <2>1, ErrorRight, Zenon
  <2> QED
    BY <1>2, <1>3, <1>6, <2>2 DEF DavInv
<1> QED
  BY <1>10, <1>11

LEMMA FrontLast ==
  ASSUME NEW p \in Path, p # <<>>
  PROVE  /\ Front(p) \in Seq(Name) /\ Last(p) \in Name
         /\ Front(p) \o <<Last(p)>> = p /\ Append(Front(p), Last(p)) = p
<1>1. p \in Seq(Name) /\ Len(p) \in Nat /\ Len(p) # 0
  BY LenProperties, EmptySeq DEF Path
<1>2. Front(p) \in Seq(Name) /\ Last(p) \in Name
  BY FrontOfPath DEF Path
<1>3. 1 \in 1..Len(p) /\ Len(p) \in 1..Len(p)
  BY <1>1
<1>4. SubSeq(p, 1, Len(p)) = SubSeq(p, 1, Len(p) - 1) \o <<p[Len(p)]>>
  BY <1>1, <1>3, SubSeqRecursiveSecond
<1>5. SubSeq(p, 1, Len(p)) = p
  BY <1>1, SubSeqFull
<1>6. Front(p) \o <<Last(p)>> = p
  BY <1>4, <1>5, Zenon DEF Front, Last
<1>7. Append(Front(p), Last(p)) = Front(p) \o <<Last(p)>>
  BY <1>2, AppendIsConcat
<1> QED
  BY <1>2, <1>6, <1>7

LEMMA FetchKindKeeps ==
  ASSUME DavInv, FetchKind
  PROVE  DavInv'
<1>0. StoreRight /\ TxnsRight /\ HeldRight /\ AnswerRight /\ AskRight /\ lost \in Nat
  BY DEF DavInv
<1>1. UNCHANGED <<drevs, dnodes, dacts, dtxns, held>> /\ ask.step = "kind"
  BY DEF FetchKind
<1>2. StoreRight' /\ DavYoungest' = DavYoungest /\ \A r : DavTree(r)' = DavTree(r)
  BY <1>0, <1>1, StoreKept
<1>3. TxnsRight' /\ HeldRight'
  BY <1>0, <1>1, HeldKept
<1>4. PICK set : /\ GetPropsResource(ask.bc \o ask.rel, Empty, set)
                 /\ Return(IF set # NoProp THEN Gives(set[1].coll) ELSE Error)
  BY Zenon DEF FetchKind
<1>5. /\ lost' \in Nat
      /\ set # NoProp => set = GetProps(ask.bc \o ask.rel, Empty)
      /\ set = NoProp => lost' # lost \/ GetProps(ask.bc \o ask.rel, Empty) = NoProp
  BY <1>0, <1>4, LostNoticed, Zenon
<1>6. ask.step # "idle" /\ ask.step # "start" /\ Asking
  BY <1>0, <1>1 DEF Asking
<1>7. PICK g, q : g = ask.got /\ q = ask.rel
  OBVIOUS
<1>8. /\ g \in 0..MaxDavRev /\ ask.bc = BcUri(g) /\ q = ask.left \o ask.lopped
      /\ ask.left \in Path /\ ask.path \in Path /\ ask.lopped \in Seq(Name) /\ ask.cuts \in Nat
      /\ ask.start \in 0..DavYoungest
      /\ IF ask.rev = Latest THEN g \in ask.start..DavYoungest ELSE g = ask.rev
  BY <1>0, <1>1, <1>6, <1>7, Zenon DEF AskRight
<1>9. q \in Seq(Name)
  <2>1. ask.left \in Seq(Name)
    BY <1>8 DEF Path
  <2> QED
    BY <1>8, <2>1, ConcatProperties
<1>10. ASSUME ask.cuts <= 1
       PROVE  q = ask.path
  <2>1. CASE ask.cuts = 0
    <3>1. ask.left = ask.path /\ ask.lopped = <<>>
      BY <1>0, <1>6, <2>1, Zenon DEF AskRight
    <3>2. ask.path \in Seq(Name)
      BY <1>8 DEF Path
    <3>3. ask.path \o <<>> = ask.path
      BY <3>2, ConcatEmptySeq
    <3> QED
      BY <1>8, <3>1, <3>3, Zenon
  <2>2. CASE ask.cuts = 1
    <3>1. ask.path # <<>> /\ ask.left = Front(ask.path) /\ ask.lopped = <<Last(ask.path)>>
      BY <1>0, <1>6, <2>2, Zenon DEF AskRight
    <3>2. Front(ask.path) \o <<Last(ask.path)>> = ask.path
      BY <1>8, <3>1, FrontLast
    <3> QED
      BY <1>8, <3>1, <3>2, Zenon
  <2>3. PICK n : n = ask.cuts
    OBVIOUS
  <2>4. n \in Nat /\ n <= 1
    BY <1>8, <1>10, <2>3, Zenon
  <2>5. n = 0 \/ n = 1
    BY <2>4
  <2> QED
    BY <2>1, <2>2, <2>3, <2>5, Zenon
<1>11. IF g <= DavYoungest /\ q \in DOMAIN DavTree(g)
       THEN /\ GetProps(ask.bc \o ask.rel, Empty) # NoProp
            /\ GetProps(ask.bc \o ask.rel, Empty)[1].coll = IsDir(DavTree(g)[q])
       ELSE GetProps(ask.bc \o ask.rel, Empty) = NoProp
  BY <1>0, <1>7, <1>8, <1>9, CollectionProps, Zenon
<1>12. CASE set # NoProp
  <2>1. PICK dir : dir = IsDir(DavTree(g)[q])
    OBVIOUS
  <2>2. g <= DavYoungest /\ q \in DOMAIN DavTree(g) /\ set[1].coll = dir
    BY <1>5, <1>11, <1>12, <2>1, Zenon
  <2>3. Return(Gives(dir))
    BY <1>4, <1>12, <2>2, Zenon
  <2>4. Gives(dir).ok = TRUE /\ Gives(dir).dir = dir
    BY DEF Gives
  <2>5. /\ AskRight'
        /\ DOMAIN answer' = DOMAIN NoAnswer
        /\ answer'.start \in 0..DavYoungest' /\ answer'.end \in 0..DavYoungest'
        /\ answer'.rev \in {Latest} \cup (0..MaxDavRev)
        /\ answer'.ok = TRUE /\ answer'.dir = dir
        /\ answer'.path = ask.path /\ answer'.rev = ask.rev /\ answer'.rel = q
        /\ answer'.bc = BcUri(g) /\ answer'.got = g /\ answer'.cuts = ask.cuts
        /\ answer'.start = ask.start /\ answer'.end = DavYoungest /\ answer'.listing = {}
    BY <1>6, <1>7, <1>8, <2>3, <2>4, Returned, Zenon
  <2>6. g \in 0..DavYoungest'
    BY <1>2, <1>8, <2>2
  <2>7. IsDir(DavTree(g)[q])' = IsDir(DavTree(g)[q]) /\ BcUri(g)' = BcUri(g)
    BY <1>1, <1>2, Zenon DEF IsDir, NodeKind, BcUri, BuildUri
  <2>8. GoodAnswer'
    <3> SUFFICES ASSUME ask.cuts <= 1
                 PROVE  GoodAnswer'
      BY <2>5, Zenon DEF GoodAnswer
    <3>1. q = ask.path
      BY <1>10
    <3> QED
      BY <1>2, <1>8, <2>1, <2>2, <2>5, <2>6, <2>7, <3>1, Zenon DEF GoodAnswer
  <2>9. BadAnswer'
    BY <2>5, Zenon DEF BadAnswer
  <2>10. AnswerRight'
    BY <2>5, <2>8, <2>9, Zenon DEF AnswerRight
  <2> QED
    BY <1>2, <1>3, <1>5, <2>5, <2>10 DEF DavInv
<1>13. CASE set = NoProp
  <2>1. Return(Error)
    BY <1>4, <1>13, Zenon
  <2>2. \/ lost' # lost
        \/ ask.cuts <= 1 => IF ask.rev = Latest
                            THEN \E s \in ask.start..DavYoungest : ask.path \notin DOMAIN DavTree(s)
                            ELSE ask.rev > ask.start \/ ask.path \notin DOMAIN DavTree(ask.rev)
    <3> SUFFICES ASSUME ~(lost' # lost), ask.cuts <= 1
                 PROVE  IF ask.rev = Latest
                        THEN \E s \in ask.start..DavYoungest : ask.path \notin DOMAIN DavTree(s)
                        ELSE ask.rev > ask.start \/ ask.path \notin DOMAIN DavTree(ask.rev)
      BY Zenon
    <3>1. ~(g <= DavYoungest /\ q \in DOMAIN DavTree(g))
      BY <1>5, <1>11, <1>13, Zenon
    <3>2. q = ask.path
      BY <1>10
    <3>3. DavYoungest \in Nat
      BY <1>0, DavConstants DEF StoreRight
    <3>4. CASE ask.rev = Latest
      <4>1. g \in ask.start..DavYoungest
        BY <1>8, <3>4
      <4>2. g <= DavYoungest
        BY <1>8, <3>3, <4>1
      <4> QED
        BY <3>1, <3>2, <3>4, <4>1, <4>2, Zenon
    <3>5. CASE ask.rev # Latest
      <4>1. g = ask.rev
        BY <1>8, <3>5
      <4>2. ~(g <= DavYoungest) => g > ask.start
        BY <1>8, <3>3
      <4> QED
        BY <3>1, <3>2, <3>5, <4>1, <4>2, Zenon
    <3> QED
      BY <3>4, <3>5
  <2>3. AskRight' /\ AnswerRight'
    BY <1>6, <2>1, <2>2, ErrorRight, Zenon
  <2> QED
    BY <1>2, <1>3, <1>5, <2>3 DEF DavInv
<1> QED
  BY <1>12, <1>13

\* The listing is that of the directory in the answer's revision.
LEMMA WalkLists ==
  ASSUME StoreRight, NEW r \in 0..DavYoungest, NEW p \in DOMAIN DavTree(r), IsDir(DavTree(r)[p]),
         NEW res, Found(res, CollectionUri(r) \o p, p, r)
  PROVE  Walk(res) = Listing(r, p)
<1> DEFINE tree == DavTree(r)
           names == {q \in DOMAIN tree : q # <<>> /\ Front(q) = p}
           u == CollectionUri(r)
           e(q) == [uri |-> u \o q, path |-> q, coll |-> IsDir(tree[q])]
<1>1. res.rev = r /\ res.path = p /\ res.uri = u \o p
  BY Zenon DEF Found, ResourceIs
<1>2. Walk(res) = {[uri |-> u \o p, path |-> p, coll |-> TRUE]}
                  \cup {[uri |-> Append(u \o p, Last(q)), path |-> q, coll |-> NodeKind(tree[q]) = "dir"] : q \in names}
  BY <1>1, Zenon DEF Walk
<1>3. [uri |-> u \o p, path |-> p, coll |-> TRUE] = e(p)
  <2>1. IsDir(tree[p]) = TRUE
    OBVIOUS
  <2> QED
    BY <2>1, Zenon
<1>4. ASSUME NEW q \in names
      PROVE  [uri |-> Append(u \o p, Last(q)), path |-> q, coll |-> NodeKind(tree[q]) = "dir"] = e(q)
  <2>1. q \in DOMAIN DavTree(r) /\ q # <<>> /\ Front(q) = p
    BY <1>4
  <2>2. q \in Path /\ p \in Seq(Name) /\ r \in 0..MaxDavRev
    BY <2>1, NodeOf
  <2>3. Append(p, Last(q)) = q /\ Last(q) \in Name
    BY <2>1, <2>2, FrontLast
  <2>4. u \in Seq(Name)
    BY <2>2, RevisionRead, NamesRight DEF CollectionUri
  <2> HIDE DEF u
  <2>5. Append(u \o p, Last(q)) = u \o q
    <3>1. PICK x \in Name : x = Last(q)
      BY <2>3
    <3>2. u \o p \in Seq(Name) /\ <<x>> \in Seq(Name)
      BY <2>2, <2>4, ConcatProperties
    <3>3. Append(u \o p, x) = (u \o p) \o <<x>>
      BY <3>2, AppendIsConcat
    <3>4. (u \o p) \o <<x>> = u \o (p \o <<x>>)
      BY <2>2, <2>4, <3>2, ConcatAssociative
    <3>5. p \o <<x>> = Append(p, x)
      BY <2>2, AppendIsConcat
    <3> QED
      BY <2>3, <3>1, <3>3, <3>4, <3>5, Zenon
  <2> QED
    BY <2>5, Zenon DEF IsDir
<1>5. Walk(res) = {e(p)} \cup {e(q) : q \in names}
  <2> DEFINE w(q) == [uri |-> Append(u \o p, Last(q)), path |-> q, coll |-> NodeKind(tree[q]) = "dir"]
  <2>1. \A q \in names : w(q) = e(q)
    BY <1>4, Zenon
  <2>2. Walk(res) = {e(p)} \cup {w(q) : q \in names}
    BY <1>2, <1>3, Zenon
  <2> HIDE DEF w, e, names
  <2>3. {w(q) : q \in names} = {e(q) : q \in names}
    BY <2>1
  <2> QED
    BY <2>2, <2>3, Zenon
<1>6. Listing(r, p) = {e(q) : q \in {q \in DOMAIN tree : q = p \/ (q # <<>> /\ Front(q) = p)}}
  BY Zenon DEF Listing
<1>7. {q \in DOMAIN tree : q = p \/ (q # <<>> /\ Front(q) = p)} = {p} \cup names
  BY Zenon
<1> HIDE DEF e, names
<1>8. {e(q) : q \in {p} \cup names} = {e(p)} \cup {e(q) : q \in names}
  BY Zenon
<1> QED
  BY <1>5, <1>6, <1>7, <1>8, Zenon

LEMMA AskKept ==
  ASSUME AskRight, UNCHANGED <<drevs, ask>>
  PROVE  AskRight'
  BY Zenon DEF AskRight, DavYoungest, BaselineUri, VccUri, BcUri, BuildUri

\* A good answer, again: where its URI leads.
LEMMA AnswerFound ==
  ASSUME StoreRight, AnswerRight, answer.ok, answer.cuts <= 1
  PROVE  LET res == GetResource(answer.bc \o answer.rel, Empty)
         IN  /\ answer.got \in 0..DavYoungest /\ answer.path \in DOMAIN DavTree(answer.got)
             /\ answer.dir = IsDir(DavTree(answer.got)[answer.path])
             /\ Found(res, CollectionUri(answer.got) \o answer.path, answer.path, answer.got)
<1>1. answer # NoAnswer
  <2>1. NoAnswer.ok = FALSE
    BY DEF NoAnswer
  <2> QED
    BY <2>1, Zenon
<1>2. PICK g, p : g = answer.got /\ p = answer.path
  OBVIOUS
<1>3. /\ g \in 0..DavYoungest /\ p \in DOMAIN DavTree(g) /\ answer.bc = BcUri(g) /\ answer.rel = p
      /\ answer.dir = IsDir(DavTree(g)[p])
  BY <1>1, <1>2, Zenon DEF AnswerRight, GoodAnswer
<1>4. g \in 0..MaxDavRev /\ p \in Seq(Name) /\ g <= DavYoungest
  <2>1. g \in 0..MaxDavRev /\ p \in Seq(Name)
    BY <1>3, NodeOf
  <2>2. DavYoungest \in Nat
    BY DavConstants DEF StoreRight
  <2> QED
    BY <1>3, <2>1, <2>2
<1>5. Found(GetResource(BcUri(g) \o p, Empty), CollectionUri(g) \o p, p, g)
  BY <1>3, <1>4, CollectionResource, Zenon DEF BcUri
<1> QED
  BY <1>2, <1>3, <1>5, Zenon

LEMMA ListDirectoryKeeps ==
  ASSUME DavInv, ListDirectory
  PROVE  DavInv'
<1>0. StoreRight /\ TxnsRight /\ HeldRight /\ AnswerRight /\ AskRight /\ lost \in Nat
  BY DEF DavInv
<1>1. UNCHANGED <<drevs, dnodes, dacts, dtxns, ask, held, lost>> /\ answer.ok /\ answer.dir
  BY DEF ListDirectory
<1>2. StoreRight' /\ DavYoungest' = DavYoungest /\ \A r : DavTree(r)' = DavTree(r)
  BY <1>0, <1>1, StoreKept
<1>3. TxnsRight' /\ HeldRight'
  BY <1>0, <1>1, HeldKept
<1>4. AskRight'
  BY <1>0, <1>1, AskKept
<1>5. PICK list : list = Walk(GetResource(answer.bc \o answer.rel, Empty))
  OBVIOUS
<1> DEFINE b == [answer EXCEPT !.listing = list]
<1>6. answer' = b
  BY <1>5, Zenon DEF ListDirectory
<1>7. /\ DOMAIN b = DOMAIN answer /\ b.listing = list
      /\ b.ok = answer.ok /\ b.path = answer.path /\ b.rev = answer.rev /\ b.rel = answer.rel
      /\ b.bc = answer.bc /\ b.got = answer.got /\ b.dir = answer.dir /\ b.cuts = answer.cuts
      /\ b.start = answer.start /\ b.end = answer.end /\ b.hurt = answer.hurt
  <2>1. DOMAIN answer = DOMAIN NoAnswer
    BY <1>0 DEF AnswerRight
  <2> QED
    BY <2>1 DEF NoAnswer
<1> HIDE DEF b
<1>8. answer # NoAnswer
  <2>1. NoAnswer.ok = FALSE
    BY DEF NoAnswer
  <2> QED
    BY <1>1, <2>1, Zenon
<1>9. GoodAnswer'
  <2> SUFFICES ASSUME answer.cuts <= 1
               PROVE  GoodAnswer'
    BY <1>6, <1>7, Zenon DEF GoodAnswer
  <2>1. PICK g, p : g = answer.got /\ p = answer.path
    OBVIOUS
  <2>2. /\ g \in 0..DavYoungest /\ p \in DOMAIN DavTree(g) /\ IsDir(DavTree(g)[p])
        /\ Found(GetResource(answer.bc \o answer.rel, Empty), CollectionUri(g) \o p, p, g)
    BY <1>0, <1>1, <2>1, AnswerFound, Zenon
  <2>3. list = Listing(g, p)
    BY <1>0, <1>5, <2>2, WalkLists, Zenon
  <2>4. Listing(g, p)' = Listing(g, p) /\ IsDir(DavTree(g)[p])' = IsDir(DavTree(g)[p]) /\ BcUri(g)' = BcUri(g)
    BY <1>1, <1>2, Zenon DEF Listing, IsDir, NodeKind, CollectionUri, BcUri, BuildUri
  <2>5. /\ answer.bc = BcUri(g) /\ answer.rel = p /\ answer.dir = IsDir(DavTree(g)[p])
        /\ IF answer.rev = Latest THEN g \in answer.start..answer.end ELSE g = answer.rev
    BY <1>0, <1>1, <1>8, <2>1, Zenon DEF AnswerRight, GoodAnswer
  <2> QED
    BY <1>2, <1>6, <1>7, <2>1, <2>2, <2>3, <2>4, <2>5, Zenon DEF GoodAnswer
<1>10. BadAnswer'
  BY <1>1, <1>6, <1>7, Zenon DEF BadAnswer
<1>11. AnswerRight'
  BY <1>0, <1>2, <1>6, <1>7, <1>8, <1>9, <1>10, Zenon DEF AnswerRight
<1> QED
  BY <1>0, <1>1, <1>2, <1>3, <1>4, <1>11 DEF DavInv

LEMMA FetchVersionUrlKeeps ==
  ASSUME DavInv, FetchVersionUrl
  PROVE  DavInv'
<1>0. StoreRight /\ TxnsRight /\ HeldRight /\ AnswerRight /\ AskRight /\ lost \in Nat
  BY DEF DavInv
<1>1. UNCHANGED <<drevs, dnodes, dacts, dtxns, ask, lost>> /\ answer.ok /\ answer.cuts <= 1 /\ answer' = NoAnswer
  BY DEF FetchVersionUrl
<1>2. StoreRight' /\ DavYoungest' = DavYoungest /\ \A r : DavTree(r)' = DavTree(r)
  BY <1>0, <1>1, StoreKept
<1>3. AskRight'
  BY <1>0, <1>1, AskKept
<1>4. AnswerRight'
  BY <1>1, Zenon DEF AnswerRight
<1>5. TxnsRight'
  BY <1>0, <1>1, <1>2, Zenon DEF TxnsRight
<1>6. PICK g, p : g = answer.got /\ p = answer.path
  OBVIOUS
<1>7. PICK res : res = GetResource(answer.bc \o answer.rel, Empty)
  OBVIOUS
<1>8. g \in 0..DavYoungest /\ p \in DOMAIN DavTree(g) /\ Found(res, CollectionUri(g) \o p, p, g)
  BY <1>0, <1>1, <1>6, <1>7, AnswerFound, Zenon
<1>9. Propset(res).checked[1] = VersionUri(DavTree(g)[p], p)
  <2>1. PICK id : id = DavTree(g)[p]
    OBVIOUS
  <2>2. res.type = "regular" /\ res.id = id /\ res.path = p
    BY <1>8, <2>1, Zenon DEF Found, ResourceIs
  <2>3. Propset(res).checked = CheckedIn(res)
    BY DEF Propset
  <2>4. CheckedIn(res) = Prop(BuildUri("ver", 0, id, p))
    BY <2>2 DEF CheckedIn
  <2>5. BuildUri("ver", 0, id, p) = VersionUri(id, p)
    BY DEF BuildUri, VersionUri
  <2> QED
    BY <2>1, <2>3, <2>4, <2>5, PropIsSome, Zenon
<1>10. PICK uri : uri = VersionUri(DavTree(g)[p], p)
  OBVIOUS
<1>11. PICK ver : ver = [NoUrl EXCEPT !.uri = uri, !.rev = g, !.path = p]
  OBVIOUS
<1>12. held' = [held EXCEPT !.ver = ver]
  BY <1>6, <1>7, <1>9, <1>10, <1>11, Zenon DEF FetchVersionUrl
<1>13. ver.uri = uri /\ ver.rev = g /\ ver.path = p
  BY <1>11 DEF NoUrl
<1>14. DOMAIN held' = {"ver", "wrk"} /\ held'.ver = ver /\ held'.wrk = held.wrk
  <2>1. DOMAIN held = {"ver", "wrk"}
    BY <1>0 DEF HeldRight
  <2> QED
    BY <1>12, <2>1
<1>15. HeldRight'
  <2>1. VersionUri(DavTree(g)[p], p)' = VersionUri(DavTree(g)[p], p)
    BY <1>2, Zenon DEF VersionUri
  <2>2. held'.wrk # NoUrl =>
          /\ held'.wrk.act \in Activities /\ held'.wrk.txn = dacts'[held'.wrk.act] /\ held'.wrk.txn # 0
          /\ held'.wrk.path \in DOMAIN DavTree(dtxns[held.wrk.txn].base)'
          /\ held'.wrk.uri = WorkingUri(held'.wrk.act, held'.wrk.path)
    BY <1>0, <1>1, <1>2, <1>14, Zenon DEF HeldRight
  <2> QED
    BY <1>1, <1>2, <1>8, <1>10, <1>13, <1>14, <2>1, <2>2, Zenon DEF HeldRight, WorkingUri
<1> QED
  BY <1>0, <1>1, <1>2, <1>3, <1>4, <1>5, <1>15 DEF DavInv

----------------------------------------------------------------------------
(* Activities and working resources keep it *)

LEMMA TxnOf ==
  ASSUME TxnsRight, NEW t \in 1..Len(dtxns)
  PROVE  dtxns[t].base \in 0..DavYoungest /\ dtxns[t].open \in BOOLEAN
<1>1. dtxns[t] \in [open : BOOLEAN, base : 0..DavYoungest]
  BY ElementOfSeq DEF TxnsRight
<1> QED
  BY <1>1, Zenon

\* The working resource stays, if its activity does and the base of its transaction.
LEMMA HeldGrows ==
  ASSUME StoreRight, TxnsRight, HeldRight, Grows, UNCHANGED held,
         \A a \in Activities : dacts[a] # 0 => dacts'[a] = dacts[a],
         \A t \in 1..Len(dtxns) : dtxns'[t].base = dtxns[t].base
  PROVE  HeldRight'
<1>1. 0..DavYoungest \subseteq 0..DavYoungest'
  BY DEF Grows
<1>2. ASSUME held.ver # NoUrl
      PROVE  /\ held'.ver.rev \in 0..DavYoungest'
             /\ held'.ver.path \in DOMAIN DavTree(held.ver.rev)'
             /\ held'.ver.uri = VersionUri(DavTree(held.ver.rev)[held.ver.path], held.ver.path)'
  <2>1. PICK r, p : r = held.ver.rev /\ p = held.ver.path
    OBVIOUS
  <2>2. r \in 0..DavYoungest /\ p \in DOMAIN DavTree(r) /\ held.ver.uri = VersionUri(DavTree(r)[p], p)
    BY <1>2, <2>1, Zenon DEF HeldRight
  <2>3. DavTree(r)' = DavTree(r)
    BY <2>2 DEF Grows
  <2> QED
    BY <1>1, <2>1, <2>2, <2>3, Zenon DEF VersionUri
<1>3. ASSUME held.wrk # NoUrl
      PROVE  /\ held'.wrk.act \in Activities /\ held'.wrk.txn = dacts'[held'.wrk.act] /\ held'.wrk.txn # 0
             /\ held'.wrk.path \in DOMAIN DavTree(dtxns[held.wrk.txn].base)'
             /\ held'.wrk.uri = WorkingUri(held'.wrk.act, held'.wrk.path)
  <2>1. PICK a, t, p : a = held.wrk.act /\ t = held.wrk.txn /\ p = held.wrk.path
    OBVIOUS
  <2>2. /\ a \in Activities /\ t = dacts[a] /\ t # 0 /\ p \in DOMAIN DavTree(dtxns[t].base)
        /\ held.wrk.uri = WorkingUri(a, p)
    BY <1>3, <2>1, Zenon DEF HeldRight
  <2>3. t \in 1..Len(dtxns)
    <3>1. t \in 0..Len(dtxns) /\ Len(dtxns) \in Nat
      BY <2>2, LenProperties DEF TxnsRight
    <3> QED
      BY <2>2, <3>1
  <2>4. PICK b : b = dtxns[t].base
    OBVIOUS
  <2>5. b \in 0..DavYoungest /\ dtxns'[t].base = b
    BY <2>3, <2>4, TxnOf
  <2>6. DavTree(b)' = DavTree(b)
    BY <2>5 DEF Grows
  <2>7. dacts'[a] = t
    BY <2>2
  <2> QED
    BY <2>1, <2>2, <2>4, <2>5, <2>6, <2>7, Zenon DEF WorkingUri
<1>4. DOMAIN held' = {"ver", "wrk"}
  BY Zenon DEF HeldRight
<1> QED
  BY <1>2, <1>3, <1>4, Zenon DEF HeldRight

LEMMA MakeActivityKeeps ==
  ASSUME DavInv, NEW a \in Activities, MakeActivity(a)
  PROVE  DavInv'
<1>0. StoreRight /\ TxnsRight /\ HeldRight /\ AnswerRight /\ AskRight /\ lost \in Nat
  BY DEF DavInv
<1>1. /\ UNCHANGED <<drevs, dnodes, ask, answer, held>>
      /\ dtxns' = Append(dtxns, [open |-> TRUE, base |-> DavYoungest])
      /\ ~GetResource(<<Special, "act", a>>, Empty).exists
  BY DEF MakeActivity
<1>2. StoreRight' /\ DavYoungest' = DavYoungest /\ \A r : DavTree(r)' = DavTree(r)
  BY <1>0, <1>1, StoreKept
<1>3. AskRight' /\ AnswerRight' /\ Grows
  BY <1>0, <1>1, AskKept, AnswerKept, SameIsGrowth
<1>4. dacts[a] = 0
  <2>1. a \in Name /\ "act" \in Name /\ "act" \in SpecialSubdirs
    BY NamesRight DEF SpecialSubdirs
  <2> DEFINE u == <<Special, "act", a>>
             b == [NoResource EXCEPT !.type = "activity", !.act = a]
             c == [b EXCEPT !.uri = u]
  <2>2. Clean(u) = u /\ ParseUri(u, Empty) = ParseSpecial("act", <<a>>, Empty)
    BY <2>1, ParseJustThree, Zenon
  <2> HIDE DEF u
  <2>3. ParseSpecial("act", <<a>>, Empty) = b
    <3>1. ParseSpecial("act", <<a>>, Empty) = ParseActivityUri(<<a>>)
      BY DEF ParseSpecial
    <3>2. Len(<<a>>) = 1 /\ <<a>>[1] = a
      OBVIOUS
    <3> QED
      BY <3>1, <3>2, Zenon DEF ParseActivityUri
  <2>4. b.type # "error" /\ c.type = "activity" /\ c.act = a
    BY DEF NoResource
  <2>5. GetResource(u, Empty) = PrepResource(c)
    <3> HIDE DEF b
    <3> QED
      BY <2>2, <2>3, <2>4, Zenon DEF GetResource
  <2>6. PICK some : some = (GetTxn(a) # 0)
    OBVIOUS
  <2>7. PrepResource(c) = [c EXCEPT !.exists = some]
    <3>1. PrepResource(c) = PrepActivity(c)
      <4> HIDE DEF c
      <4> QED
        BY <2>4 DEF PrepResource
    <3> HIDE DEF c
    <3> QED
      BY <2>4, <2>6, <3>1, Zenon DEF PrepActivity
  <2>8. [c EXCEPT !.exists = some].exists = some
    BY DEF NoResource
  <2>9. ~some
    BY <1>1, <2>5, <2>7, <2>8, Zenon DEF u
  <2> QED
    BY <2>6, <2>9, Zenon DEF GetTxn
<1>5. /\ dtxns \in Seq([open : BOOLEAN, base : 0..DavYoungest]) /\ Len(dtxns) \in Nat
      /\ dacts \in [Activities -> 0..Len(dtxns)] /\ DavYoungest \in 0..DavYoungest
  <2>1. DavYoungest \in Nat
    BY <1>0, DavConstants DEF StoreRight
  <2> QED
    BY <1>0, <2>1, LenProperties DEF TxnsRight
<1>6. /\ dtxns' \in Seq([open : BOOLEAN, base : 0..DavYoungest]) /\ Len(dtxns') = Len(dtxns) + 1
      /\ \A t \in 1..Len(dtxns) : dtxns'[t] = dtxns[t]
  <2>1. PICK x : x = [open |-> TRUE, base |-> DavYoungest]
    OBVIOUS
  <2>2. x \in [open : BOOLEAN, base : 0..DavYoungest]
    BY <1>5, <2>1
  <2>3. dtxns' = Append(dtxns, x)
    BY <1>1, <2>1
  <2> QED
    BY <1>5, <2>2, <2>3, AppendProperties
<1>7. /\ dacts' \in [Activities -> 0..Len(dtxns')] /\ lost' \in Nat
      /\ \A d \in Activities : dacts[d] # 0 => dacts'[d] = dacts[d]
  <2>1. CASE dacts' = [dacts EXCEPT ![a] = Len(dtxns')] /\ UNCHANGED lost
    <3>1. 0..Len(dtxns) \subseteq 0..Len(dtxns') /\ Len(dtxns') \in 0..Len(dtxns')
      BY <1>5, <1>6
    <3> QED
      BY <1>0, <1>4, <1>5, <2>1, <3>1
  <2>2. CASE lost < MaxLost /\ lost' = lost + 1 /\ UNCHANGED dacts
    <3>1. 0..Len(dtxns) \subseteq 0..Len(dtxns')
      BY <1>5, <1>6
    <3> QED
      BY <1>0, <1>5, <2>2, <3>1
  <2> QED
    BY <2>1, <2>2 DEF MakeActivity
<1>8. TxnsRight'
  BY <1>2, <1>6, <1>7, Zenon DEF TxnsRight
<1>9. HeldRight'
  BY <1>0, <1>1, <1>3, <1>6, <1>7, HeldGrows, Zenon
<1> QED
  BY <1>2, <1>3, <1>7, <1>8, <1>9 DEF DavInv

LEMMA EndTxnKeeps ==
  ASSUME DavInv, NEW t \in DOMAIN dtxns, EndTxn(t)
  PROVE  DavInv'
<1>0. StoreRight /\ TxnsRight /\ HeldRight /\ AnswerRight /\ AskRight /\ lost \in Nat
  BY DEF DavInv
<1>1. /\ UNCHANGED <<drevs, dnodes, dacts, ask, answer, held, lost>>
      /\ dtxns' = [dtxns EXCEPT ![t].open = FALSE]
  BY DEF EndTxn
<1>2. StoreRight' /\ DavYoungest' = DavYoungest /\ \A r : DavTree(r)' = DavTree(r)
  BY <1>0, <1>1, StoreKept
<1>3. AskRight' /\ AnswerRight' /\ Grows
  BY <1>0, <1>1, AskKept, AnswerKept, SameIsGrowth
<1>4. /\ dtxns \in Seq([open : BOOLEAN, base : 0..DavYoungest]) /\ Len(dtxns) \in Nat
      /\ t \in 1..Len(dtxns) /\ DOMAIN dtxns = 1..Len(dtxns)
  BY <1>0, LenProperties DEF TxnsRight
<1>5. dtxns[t] \in [open : BOOLEAN, base : 0..DavYoungest]
  BY <1>4, ElementOfSeq
<1>6. PICK x : x = [dtxns[t] EXCEPT !.open = FALSE]
  OBVIOUS
<1>7. x \in [open : BOOLEAN, base : 0..DavYoungest] /\ x.base = dtxns[t].base
  <2>1. PICK d \in [open : BOOLEAN, base : 0..DavYoungest] : d = dtxns[t]
    BY <1>5
  <2>2. x = [d EXCEPT !.open = FALSE]
    BY <1>6, <2>1
  <2> QED
    BY <2>1, <2>2
<1>8. dtxns' = [dtxns EXCEPT ![t] = x]
  BY <1>1, <1>6
<1>9. dtxns' \in Seq([open : BOOLEAN, base : 0..DavYoungest]) /\ Len(dtxns') = Len(dtxns)
  <2>1. PICK S : S = [open : BOOLEAN, base : 0..DavYoungest]
    OBVIOUS
  <2>2. dtxns \in Seq(S) /\ x \in S
    BY <1>4, <1>7, <2>1
  <2>3. dtxns' \in Seq(S) /\ Len(dtxns') = Len(dtxns)
    BY <1>4, <1>8, <2>2, ExceptSeq
  <2> QED
    BY <2>1, <2>3
<1>10. \A s \in 1..Len(dtxns) : dtxns'[s].base = dtxns[s].base
  BY <1>4, <1>7, <1>8
<1>11. TxnsRight'
  BY <1>0, <1>1, <1>2, <1>9, Zenon DEF TxnsRight
<1>12. HeldRight'
  BY <1>0, <1>1, <1>3, <1>10, HeldGrows, Zenon
<1> QED
  BY <1>0, <1>1, <1>2, <1>3, <1>11, <1>12 DEF DavInv

LEMMA CheckoutKeeps ==
  ASSUME DavInv, NEW a \in Activities, Checkout(a)
  PROVE  DavInv'
<1>0. StoreRight /\ TxnsRight /\ HeldRight /\ AnswerRight /\ AskRight /\ lost \in Nat
  BY DEF DavInv
<1>1. UNCHANGED <<drevs, dnodes, dacts, dtxns, ask, answer, lost>> /\ held.ver # NoUrl
  BY DEF Checkout
<1>2. StoreRight' /\ DavYoungest' = DavYoungest /\ \A r : DavTree(r)' = DavTree(r)
  BY <1>0, <1>1, StoreKept
<1>3. AskRight' /\ AnswerRight'
  BY <1>0, <1>1, AskKept, AnswerKept
<1>4. TxnsRight'
  BY <1>0, <1>1, <1>2, Zenon DEF TxnsRight
<1>5. PICK r, p, id : r = held.ver.rev /\ p = held.ver.path /\ id = DavTree(r)[p]
  OBVIOUS
<1>6. r \in 0..DavYoungest /\ p \in DOMAIN DavTree(r) /\ held.ver.uri = VersionUri(id, p)
  BY <1>0, <1>1, <1>5, Zenon DEF HeldRight
<1>7. p \in Seq(Name) /\ id \in 1..Len(dnodes)
  BY <1>0, <1>5, <1>6, NodeOf
<1>8. PICK res : res = GetResource(held.ver.uri, Empty)
  OBVIOUS
<1>9. res.path = p /\ res.baselined = FALSE
  <2>1. ResourceIs(GetResource(VersionUri(id, p), Empty), "version", Empty, FALSE, Latest, id, p, Empty,
                   TRUE, IsDir(id), VersionUri(id, p))
    BY <1>0, <1>7, VersionResource, Zenon
  <2> QED
    BY <1>6, <1>8, <2>1, Zenon DEF ResourceIs
<1>10. PICK info : info = SimpleParseUri(<<Special, "act", a>>)
  OBVIOUS
<1>11. info.act = a
  <2> DEFINE u == <<Special, "act", a>>
  <2>1. u # <<>> /\ u # <<Special>> /\ ~(Len(u) < 3) /\ u[1] = Special /\ u[2] = "act" /\ u[3] = a
    OBVIOUS
  <2> HIDE DEF u
  <2>2. SimpleParseUri(u) = [NoInfo EXCEPT !.ok = TRUE, !.act = a]
    BY <2>1 DEF SimpleParseUri
  <2> QED
    BY <1>10, <2>2 DEF u, NoInfo
<1>12. PICK t : t = dacts[a]
  OBVIOUS
<1>13. GetTxn(info.act) = t
  BY <1>11, <1>12, Zenon DEF GetTxn
<1>14. /\ t # 0 /\ SameNode(t, res.path, res.id)
       /\ held' = [held EXCEPT !.wrk = [NoUrl EXCEPT !.uri = CreateWorkingResource(res, info.act),
                                           !.path = held.ver.path, !.act = a, !.txn = t]]
  BY <1>8, <1>10, <1>13, Zenon DEF Checkout
<1>15. p \in DOMAIN DavTree(dtxns[t].base)
  BY <1>9, <1>14, Zenon DEF SameNode
<1>16. CreateWorkingResource(res, info.act) = WorkingUri(a, p)
  BY <1>9, <1>11, Zenon DEF CreateWorkingResource, WorkingUri
<1>17. PICK uri : uri = WorkingUri(a, p)
  OBVIOUS
<1>18. PICK wrk : wrk = [NoUrl EXCEPT !.uri = uri, !.path = p, !.act = a, !.txn = t]
  OBVIOUS
<1>19. held' = [held EXCEPT !.wrk = wrk]
  BY <1>5, <1>14, <1>16, <1>17, <1>18, Zenon
<1>20. wrk.uri = uri /\ wrk.path = p /\ wrk.act = a /\ wrk.txn = t
  BY <1>18 DEF NoUrl
<1>21. DOMAIN held' = {"ver", "wrk"} /\ held'.ver = held.ver /\ held'.wrk = wrk
  <2>1. DOMAIN held = {"ver", "wrk"}
    BY <1>0 DEF HeldRight
  <2> QED
    BY <1>19, <2>1
<1>22. HeldRight'
  <2>1. /\ held'.ver.rev \in 0..DavYoungest'
        /\ held'.ver.path \in DOMAIN DavTree(held.ver.rev)'
        /\ held'.ver.uri = VersionUri(DavTree(held.ver.rev)[held.ver.path], held.ver.path)'
    BY <1>2, <1>5, <1>6, <1>21, Zenon DEF VersionUri
  <2>2. /\ held'.wrk.act \in Activities /\ held'.wrk.txn = dacts'[held'.wrk.act] /\ held'.wrk.txn # 0
        /\ held'.wrk.uri = WorkingUri(held'.wrk.act, held'.wrk.path)
    BY <1>1, <1>12, <1>14, <1>17, <1>20, <1>21, Zenon
  <2>3. held'.wrk.path \in DOMAIN DavTree(dtxns[t].base)'
    <3>1. PICK b : b = dtxns[t].base
      OBVIOUS
    <3>2. dtxns'[t].base = b
      BY <1>1, <3>1, Zenon
    <3> QED
      BY <1>2, <1>15, <1>20, <1>21, <3>1, <3>2, Zenon
  <2>4. held'.wrk.txn = t
    BY <1>20, <1>21, Zenon
  <2> QED
    BY <1>1, <1>2, <1>21, <2>1, <2>2, <2>3, <2>4, Zenon DEF HeldRight, WorkingUri
<1> QED
  BY <1>0, <1>1, <1>2, <1>3, <1>4, <1>22 DEF DavInv

----------------------------------------------------------------------------
(* Other clients' commits keep it *)

LEMMA AskGrows ==
  ASSUME AskRight, Grows, UNCHANGED ask
  PROVE  AskRight'
<1>1. CASE ask.step = "idle"
  BY <1>1, Zenon DEF AskRight
<1>2. CASE ask.step # "idle"
  <2>1. PICK s : s = ask.start
    OBVIOUS
  <2>2. s \in 0..DavYoungest
    BY <1>2, <2>1, Zenon DEF AskRight
  <2>3. s \in 0..DavYoungest' /\ s..DavYoungest \subseteq s..DavYoungest'
    BY <2>2 DEF Grows
  <2>4. ask.step = "baseline" /\ ask.rev = Latest => \E r \in s..DavYoungest' : ask.bln = BaselineUri(r)
    BY <1>2, <2>1, <2>3, Zenon DEF AskRight
  <2>5. ask.step = "kind" /\ ask.rev = Latest => ask.got \in s..DavYoungest'
    BY <1>2, <2>1, <2>3, Zenon DEF AskRight
  <2> QED
    BY <1>2, <2>1, <2>3, <2>4, <2>5, Zenon DEF AskRight, BaselineUri, VccUri, BcUri, BuildUri
<1> QED
  BY <1>1, <1>2

LEMMA TxnsGrow ==
  ASSUME TxnsRight, Grows, UNCHANGED <<dacts, dtxns>>
  PROVE  TxnsRight'
<1>1. 0..DavYoungest \subseteq 0..DavYoungest'
  BY DEF Grows
<1>2. PICK A, B : A = 0..DavYoungest /\ B = 0..DavYoungest'
  OBVIOUS
<1>3. [open : BOOLEAN, base : A] \subseteq [open : BOOLEAN, base : B]
  BY <1>1, <1>2
<1>4. dtxns \in Seq([open : BOOLEAN, base : B])
  <2>1. dtxns \in Seq([open : BOOLEAN, base : A])
    BY <1>2, Zenon DEF TxnsRight
  <2> QED
    BY <1>3, <2>1, SeqMonotonic, Zenon
<1> QED
  BY <1>2, <1>4, Zenon DEF TxnsRight

\* A prefix of a path is a path.
LEMMA PrefixOfPath ==
  ASSUME NEW p \in Path, NEW k \in 0..Len(p)
  PROVE  SubSeq(p, 1, k) \in Path /\ Len(SubSeq(p, 1, k)) = k
<1>1. p \in Seq(Name) /\ Len(p) \in Nat
  BY LenProperties DEF Path
<1>2. \A i \in 1..k : p[i] \in Name
  <2>1. \A i \in 1..k : i \in 1..Len(p)
    BY <1>1
  <2> QED
    BY <1>1, <2>1, ElementOfSeq
<1> DEFINE f == SubSeq(p, 1, k)
<1>3. /\ f \in Seq(Name) /\ Len(f) = IF 1 <= k THEN k - 1 + 1 ELSE 0
      /\ \A i \in 1..k - 1 + 1 : f[i] = p[1 + i - 1]
  BY <1>1, <1>2, SubSeqProperties
<1> HIDE DEF f
<1>4. Len(f) = k
  BY <1>1, <1>3
<1>5. ASSUME f # <<>>
      PROVE  f[1] # Special
  <2>1. k # 0
    BY <1>3, <1>4, <1>5, EmptySeq
  <2>2. f[1] = p[1] /\ p # <<>>
    <3>1. 1 \in 1..k - 1 + 1 /\ 1 + 1 - 1 = 1
      BY <1>1, <2>1
    <3>2. p # <<>>
      BY <1>1, <2>1, EmptySeq
    <3> QED
      BY <1>3, <3>1, <3>2
  <2> QED
    BY <2>2, Zenon DEF Path
<1> QED
  BY <1>3, <1>4, <1>5, Zenon DEF Path, f

LEMMA FunctionIsSequence ==
  ASSUME NEW n \in Nat, NEW S, NEW f \in [1..n -> S]
  PROVE  f \in Seq(S) /\ Len(f) = n
  OBVIOUS

\* A commit adds a revision, of nodes that are there or new.
LEMMA ReplacingKeeps ==
  ASSUME StoreRight, DavYoungest < MaxDavRev, NEW p \in Path,
         NEW kept \in SUBSET DOMAIN DavTree(DavYoungest),
         NEW kinds \in Seq({"dir", "file"}), Len(kinds) \in 1..Len(p) + 1,
         Replacing(p, kept, kinds)
  PROVE  StoreRight' /\ Grows
<1> DEFINE new == {SubSeq(p, 1, k) : k \in 0..Len(kinds) - 1}
           tree == DavTree(DavYoungest)
           old(q) == IF q \in DOMAIN tree THEN tree[q] ELSE 0
           f == [q \in kept \cup new |-> IF q \in new THEN Len(dnodes) + 1 + Len(q) ELSE tree[q]]
           recs == [i \in DOMAIN kinds |->
                     [kind |-> kinds[i], created |-> DavYoungest + 1, pred |-> old(SubSeq(p, 1, i - 1))]]
<1>1. /\ Len(dnodes) + Len(kinds) <= Len(IdNames)
      /\ drevs' = Append(drevs, f) /\ dnodes' = dnodes \o recs
  BY Zenon DEF Replacing
<1>2. /\ drevs \in Seq(Tree) /\ dnodes \in Seq(NodeRecord) /\ DavYoungest \in 1..MaxDavRev
      /\ Len(drevs) \in Nat /\ Len(dnodes) \in Nat /\ Len(kinds) \in Nat /\ DOMAIN kinds = 1..Len(kinds)
      /\ kinds \in [1..Len(kinds) -> {"dir", "file"}]
      /\ DavYoungest \in Nat /\ MaxDavRev \in Nat /\ Len(p) \in Nat
  <2>1. p \in Seq(Name)
    BY DEF Path
  <2> QED
    BY <2>1, LenProperties, DavConstants DEF StoreRight
<1>3. \A q \in DOMAIN tree : q \in Path /\ tree[q] \in 1..Len(dnodes)
  <2>1. DavYoungest \in 0..DavYoungest
    BY <1>2
  <2> QED
    BY <2>1, Zenon DEF StoreRight
<1>4. \A q \in new : q \in Path /\ Len(q) \in 0..Len(kinds) - 1
  <2> SUFFICES ASSUME NEW k \in 0..Len(kinds) - 1
               PROVE  SubSeq(p, 1, k) \in Path /\ Len(SubSeq(p, 1, k)) = k
    BY Zenon
  <2>1. k \in 0..Len(p)
    BY <1>2
  <2> QED
    BY <2>1, PrefixOfPath
<1>5. <<>> \in new
  <2>1. 0 \in 0..Len(kinds) - 1 /\ 0 \in 0..Len(p)
    BY <1>2
  <2>2. SubSeq(p, 1, 0) \in Path /\ Len(SubSeq(p, 1, 0)) = 0
    BY <2>1, PrefixOfPath
  <2>3. SubSeq(p, 1, 0) = <<>>
    <3>1. PICK s : s = SubSeq(p, 1, 0)
      OBVIOUS
    <3>2. s \in Seq(Name) /\ Len(s) = 0
      BY <2>2, <3>1 DEF Path
    <3> QED
      BY <3>1, <3>2, EmptySeq
  <2> QED
    BY <2>1, <2>3, Zenon
<1> HIDE DEF new, tree
<1>6. /\ DOMAIN f = kept \cup new /\ f \in [kept \cup new -> Nat]
      /\ \A q \in DOMAIN f : q \in Path /\ f[q] \in 1..Len(dnodes) + Len(kinds)
  <2>1. \A q \in kept : q \in DOMAIN tree
    BY Zenon DEF tree
  <2>2. \A q \in kept \cup new :
          /\ q \in Path
          /\ (IF q \in new THEN Len(dnodes) + 1 + Len(q) ELSE tree[q]) \in 1..Len(dnodes) + Len(kinds)
    <3> TAKE q \in kept \cup new
    <3>1. CASE q \in new
      BY <1>2, <1>4, <3>1
    <3>2. CASE q \notin new
      BY <1>2, <1>3, <2>1, <3>2
    <3> QED
      BY <3>1, <3>2
  <2>3. 1..Len(dnodes) + Len(kinds) \subseteq Nat
    BY <1>2
  <2> QED
    BY <2>2, <2>3, Zenon
<1>7. f \in Tree
  <2>1. kept \cup new \in SUBSET Path
    BY <1>6, Zenon
  <2> HIDE DEF f
  <2> QED
    BY <1>6, <2>1, Zenon DEF Tree
<1>8. recs \in Seq(NodeRecord) /\ Len(recs) = Len(kinds)
  <2>1. \A q : old(q) \in Nat
    BY <1>2, <1>3
  <2> HIDE DEF old
  <2>2. ASSUME NEW i \in 1..Len(kinds)
        PROVE  [kind |-> kinds[i], created |-> DavYoungest + 1, pred |-> old(SubSeq(p, 1, i - 1))] \in NodeRecord
    <3>1. PICK c, o : c = DavYoungest + 1 /\ o = old(SubSeq(p, 1, i - 1))
      OBVIOUS
    <3>2. c \in Nat /\ o \in Nat /\ kinds[i] \in {"dir", "file"}
      BY <1>2, <2>1, <3>1
    <3> QED
      BY <3>1, <3>2 DEF NodeRecord
  <2>3. recs \in [1..Len(kinds) -> NodeRecord]
    BY <1>2, <2>2, Zenon
  <2> HIDE DEF recs
  <2> QED
    BY <1>2, <2>3, FunctionIsSequence, Zenon
<1> HIDE DEF f, recs
<1>9. /\ dnodes' \in Seq(NodeRecord) /\ Len(dnodes') = Len(dnodes) + Len(kinds)
      /\ \A i \in 1..Len(dnodes) : dnodes'[i] = dnodes[i]
  <2>1. /\ dnodes' \in Seq(NodeRecord) /\ Len(dnodes') = Len(dnodes) + Len(kinds)
        /\ \A i \in 1..Len(dnodes) + Len(kinds) :
             dnodes'[i] = IF i <= Len(dnodes) THEN dnodes[i] ELSE recs[i - Len(dnodes)]
    <3>1. /\ dnodes \o recs \in Seq(NodeRecord) /\ Len(dnodes \o recs) = Len(dnodes) + Len(recs)
          /\ \A i \in 1..Len(dnodes) + Len(recs) :
               (dnodes \o recs)[i] = IF i <= Len(dnodes) THEN dnodes[i] ELSE recs[i - Len(dnodes)]
      BY <1>2, <1>8, ConcatProperties, Zenon
    <3> QED
      BY <1>1, <1>8, <3>1, Zenon
  <2> QED
    BY <1>2, <2>1
<1>10. /\ drevs' \in Seq(Tree) /\ Len(drevs') = Len(drevs) + 1 /\ drevs'[Len(drevs) + 1] = f
       /\ \A i \in 1..Len(drevs) : drevs'[i] = drevs[i]
  BY <1>1, <1>2, <1>7, AppendProperties
<1>11. DavYoungest' = DavYoungest + 1 /\ DavYoungest' \in 1..MaxDavRev
  BY <1>2, <1>10 DEF DavYoungest
<1>12. \A r \in 0..DavYoungest : DavTree(r)' = DavTree(r)
  <2> TAKE r \in 0..DavYoungest
  <2>1. r + 1 \in 1..Len(drevs)
    BY <1>2 DEF DavYoungest
  <2> QED
    BY <1>10, <2>1, Zenon DEF DavTree
<1>13. Grows
  BY <1>2, <1>9, <1>11, <1>12 DEF Grows
<1>14. drevs'[Len(drevs) + 1] = f /\ Len(drevs) + 1 = DavYoungest' + 1
  BY <1>2, <1>10, <1>11 DEF DavYoungest
<1>15. ASSUME NEW r \in 0..DavYoungest'
       PROVE  /\ <<>> \in DOMAIN drevs'[r + 1]
              /\ \A q \in DOMAIN drevs'[r + 1] : q \in Path /\ drevs'[r + 1][q] \in 1..Len(dnodes')
  <2>1. CASE r = DavYoungest'
    <3>1. drevs'[r + 1] = f
      BY <1>14, <2>1
    <3> QED
      BY <1>5, <1>6, <1>9, <3>1, Zenon
  <2>2. CASE r # DavYoungest'
    <3>1. r \in 0..DavYoungest
      BY <1>2, <1>11, <2>2
    <3>2. drevs'[r + 1] = drevs[r + 1]
      BY <1>12, <3>1, Zenon DEF DavTree
    <3>3. /\ <<>> \in DOMAIN drevs[r + 1]
          /\ \A q \in DOMAIN drevs[r + 1] : q \in Path /\ drevs[r + 1][q] \in 1..Len(dnodes)
      BY <3>1, Zenon DEF StoreRight, DavTree
    <3>4. 1..Len(dnodes) \subseteq 1..Len(dnodes')
      BY <1>2, <1>9
    <3> QED
      BY <3>2, <3>3, <3>4, Zenon
  <2> QED
    BY <2>1, <2>2
<1>16. Len(dnodes') <= Len(IdNames)
  BY <1>1, <1>9
<1> QED
  BY <1>9, <1>10, <1>11, <1>13, <1>15, <1>16, Zenon DEF StoreRight, DavTree

\* What a commit leaves alone: the client, and what is under way.
LEMMA CommitKeeps ==
  ASSUME DavInv, StoreRight', Grows, UNCHANGED <<dacts, dtxns, ask, answer, held, lost>>
  PROVE  DavInv'
<1>0. StoreRight /\ TxnsRight /\ HeldRight /\ AnswerRight /\ AskRight /\ lost \in Nat
  BY DEF DavInv
<1>1. TxnsRight' /\ AskRight' /\ AnswerRight'
  BY <1>0, TxnsGrow, AskGrows, AnswerGrows
<1>2. HeldRight'
  BY <1>0, HeldGrows, Zenon
<1> QED
  BY <1>0, <1>1, <1>2 DEF DavInv

LEMMA DirsAboveRight ==
  ASSUME NEW p \in Path
  PROVE  /\ DirsAbove(p) \in Seq({"dir", "file"}) /\ Len(DirsAbove(p)) = Len(p) /\ Len(p) \in Nat
         /\ p # <<>> => Len(p) # 0
<1>1. Len(p) \in Nat /\ (p # <<>> => Len(p) # 0)
  BY LenProperties, EmptySeq DEF Path
<1>2. DirsAbove(p) \in [1..Len(p) -> {"dir", "file"}]
  BY DEF DirsAbove
<1> QED
  BY <1>1, <1>2, FunctionIsSequence

LEMMA OtherPutKeeps ==
  ASSUME DavInv, NEW p \in DavPaths, NEW kind \in {"dir", "file"}, OtherPut(p, kind)
  PROVE  DavInv'
<1>1. /\ StoreRight /\ DavYoungest < MaxDavRev /\ UNCHANGED <<dacts, dtxns, ask, answer, held, lost>>
      /\ Replacing(p, DOMAIN DavTree(DavYoungest), Append(DirsAbove(p), kind))
  BY Zenon DEF DavInv, OtherPut
<1>2. p \in Path
  BY NamesRight
<1>3. PICK kinds : kinds = Append(DirsAbove(p), kind)
  OBVIOUS
<1>4. kinds \in Seq({"dir", "file"}) /\ Len(kinds) \in 1..Len(p) + 1
  <2>1. DirsAbove(p) \in Seq({"dir", "file"}) /\ Len(DirsAbove(p)) = Len(p) /\ Len(p) \in Nat
    BY <1>2, DirsAboveRight
  <2>2. kinds \in Seq({"dir", "file"}) /\ Len(kinds) = Len(DirsAbove(p)) + 1
    BY <1>3, <2>1, AppendProperties
  <2> QED
    BY <2>1, <2>2
<1>5. StoreRight' /\ Grows
  BY <1>1, <1>2, <1>3, <1>4, ReplacingKeeps, Zenon
<1> QED
  BY <1>1, <1>5, CommitKeeps

LEMMA OtherDeleteKeeps ==
  ASSUME DavInv, NEW p \in DavPaths, OtherDelete(p)
  PROVE  DavInv'
<1> DEFINE kept == {q \in DOMAIN DavTree(DavYoungest) : ~IsPrefix(p, q)}
<1>1. /\ StoreRight /\ DavYoungest < MaxDavRev /\ UNCHANGED <<dacts, dtxns, ask, answer, held, lost>>
      /\ Replacing(p, kept, DirsAbove(p)) /\ p # <<>>
  BY Zenon DEF DavInv, OtherDelete
<1>2. p \in Path
  BY NamesRight
<1>3. PICK kinds : kinds = DirsAbove(p)
  OBVIOUS
<1>4. kinds \in Seq({"dir", "file"}) /\ Len(kinds) \in 1..Len(p) + 1
  <2>1. DirsAbove(p) \in Seq({"dir", "file"}) /\ Len(DirsAbove(p)) = Len(p) /\ Len(p) \in Nat /\ Len(p) # 0
    BY <1>1, <1>2, DirsAboveRight
  <2> QED
    BY <1>3, <2>1
<1>5. kept \in SUBSET DOMAIN DavTree(DavYoungest)
  BY Zenon
<1> HIDE DEF kept
<1>6. StoreRight' /\ Grows
  BY <1>1, <1>2, <1>3, <1>4, <1>5, ReplacingKeeps, Zenon
<1> QED
  BY <1>1, <1>6, CommitKeeps

----------------------------------------------------------------------------
(* The import *)

\* The nodes of the import are numbered.
LEMMA Numbered ==
  LET order == SetToSeq(DOMAIN Imported)
      n == Cardinality(DOMAIN Imported)
  IN  /\ n \in Nat /\ n < Len(IdNames) /\ order \in [1..n -> DOMAIN Imported]
      /\ \A p : IndexIn(order, p) \in 0..n
<1> DEFINE order == SetToSeq(DOMAIN Imported)
           n == Cardinality(DOMAIN Imported)
<1>1. n \in Nat /\ n < Len(IdNames) /\ ExistsBijection(1..n, DOMAIN Imported)
  BY FS_CardinalityType, DavConstants, Zenon
<1>2. order \in [1..n -> DOMAIN Imported]
  <2>1. PICK f : f \in Bijection(1..n, DOMAIN Imported)
    BY <1>1, Zenon DEF ExistsBijection
  <2>2. f \in [1..n -> DOMAIN Imported] /\ IsInjective(f)
    BY <2>1, Zenon DEF Bijection, Injection
  <2>3. \E g \in [1..n -> DOMAIN Imported] : IsInjective(g)
    BY <2>2, Zenon
  <2> HIDE DEF n
  <2> QED
    BY <2>3, Zenon DEF SetToSeq, n
<1> HIDE DEF order, n
<1>3. Len(order) = n
  BY <1>1, <1>2, FunctionIsSequence, Zenon
<1>4. ASSUME NEW p
      PROVE  IndexIn(order, p) \in 0..n
  <2> DEFINE I == {j \in 1..Len(order) : order[j] = p}
  <2>1. IndexIn(order, p) = IF I # {} THEN Min(I) ELSE 0
    BY Zenon DEF IndexIn, SelectInSeq
  <2>2. I \subseteq 1..n
    BY <1>3, Zenon
  <2> HIDE DEF I
  <2>3. CASE I = {}
    BY <1>1, <2>1, <2>3
  <2>4. CASE I # {}
    <3>1. I \in SUBSET Nat
      BY <1>1, <2>2
    <3>2. \E i \in I : \A j \in I : i <= j
      BY <2>4, <3>1, LeastNumber, Zenon
    <3>3. Min(I) \in I
      BY <3>2, Zenon DEF Min
    <3>4. 1..n \subseteq 0..n
      BY <1>1
    <3> QED
      BY <2>1, <2>2, <2>4, <3>3, <3>4, Zenon
  <2> QED
    BY <2>3, <2>4
<1> QED
  BY <1>1, <1>2, <1>4, Zenon DEF order, n

LEMMA ImportRight == DavInit => StoreRight
<1> SUFFICES ASSUME DavInit
             PROVE  StoreRight
  OBVIOUS
<1>1. PICK order, n : order = SetToSeq(DOMAIN Imported) /\ n = Cardinality(DOMAIN Imported)
  OBVIOUS
<1>2. /\ n \in Nat /\ n < Len(IdNames) /\ order \in [1..n -> DOMAIN Imported]
      /\ \A p : IndexIn(order, p) \in 0..n
  BY <1>1, Numbered, Zenon
<1> DEFINE f0 == [p \in {<<>>} |-> 1]
           f1 == [p \in DOMAIN Imported |-> IndexIn(order, p) + 1]
           root == [kind |-> "dir", created |-> 0, pred |-> 0]
           recs == [i \in DOMAIN order |->
             [kind |-> Imported[order[i]], created |-> 1, pred |-> IF order[i] = <<>> THEN 1 ELSE 0]]
<1>3. drevs = <<f0, f1>> /\ dnodes = <<root>> \o recs
  BY <1>1, Zenon DEF DavInit
<1>4. /\ DOMAIN Imported \subseteq Path /\ <<>> \in Path /\ <<>> \in DOMAIN Imported
      /\ \A p \in DOMAIN Imported : Imported[p] \in {"dir", "file"}
      /\ MaxDavRev \in Nat \ {0}
  BY DavConstants, NamesRight, Zenon
<1>5. f0 \in [{<<>>} -> Nat] /\ DOMAIN f0 = {<<>>} /\ f0[<<>>] = 1
  OBVIOUS
<1>6. f1 \in [DOMAIN Imported -> Nat] /\ \A p \in DOMAIN Imported : f1[p] \in 1..n + 1
  <2>1. \A p : IndexIn(order, p) + 1 \in Nat /\ IndexIn(order, p) + 1 \in 1..n + 1
    BY <1>2
  <2> QED
    BY <2>1, Zenon
<1>7. f0 \in Tree /\ f1 \in Tree
  <2> HIDE DEF f0, f1
  <2>1. {<<>>} \in SUBSET Path
    BY <1>4, Zenon
  <2> QED
    BY <1>4, <1>5, <1>6, <2>1, Zenon DEF Tree
<1>8. recs \in Seq(NodeRecord) /\ Len(recs) = n
  <2>1. ASSUME NEW i \in 1..n
        PROVE  [kind |-> Imported[order[i]], created |-> 1, pred |-> IF order[i] = <<>> THEN 1 ELSE 0] \in NodeRecord
    <3>1. PICK k, o : k = Imported[order[i]] /\ o = IF order[i] = <<>> THEN 1 ELSE 0
      OBVIOUS
    <3>2. k \in {"dir", "file"} /\ o \in Nat
      BY <1>2, <1>4, <3>1
    <3> QED
      BY <3>1, <3>2 DEF NodeRecord
  <2>2. DOMAIN order = 1..n
    BY <1>2, Zenon
  <2>3. recs \in [1..n -> NodeRecord]
    BY <2>1, <2>2, Zenon
  <2> HIDE DEF recs
  <2> QED
    BY <1>2, <2>3, FunctionIsSequence, Zenon
<1>9. <<root>> \in Seq(NodeRecord) /\ Len(<<root>>) = 1
  <2>1. root \in NodeRecord
    BY DEF NodeRecord
  <2> HIDE DEF root
  <2> QED
    BY <2>1
<1> HIDE DEF f0, f1, root, recs
<1>10. dnodes \in Seq(NodeRecord) /\ Len(dnodes) = n + 1
  <2>1. <<root>> \o recs \in Seq(NodeRecord) /\ Len(<<root>> \o recs) = Len(<<root>>) + Len(recs)
    BY <1>8, <1>9, ConcatProperties, Zenon
  <2>2. dnodes \in Seq(NodeRecord) /\ Len(dnodes) = Len(<<root>>) + Len(recs)
    BY <1>3, <2>1, Zenon
  <2> QED
    BY <1>2, <1>8, <1>9, <2>2
<1>11. drevs \in Seq(Tree) /\ Len(drevs) = 2 /\ drevs[1] = f0 /\ drevs[2] = f1
  BY <1>3, <1>7
<1>12. DavYoungest = 1 /\ DavYoungest \in 1..MaxDavRev
  BY <1>4, <1>11 DEF DavYoungest
<1>13. ASSUME NEW r \in 0..DavYoungest
       PROVE  /\ <<>> \in DOMAIN DavTree(r)
              /\ \A p \in DOMAIN DavTree(r) : p \in Path /\ DavTree(r)[p] \in 1..Len(dnodes)
  <2>1. CASE r = 0
    <3>1. DavTree(r) = f0
      BY <1>11, <2>1 DEF DavTree
    <3>2. 1 \in 1..Len(dnodes)
      BY <1>2, <1>10
    <3> QED
      BY <1>4, <1>5, <3>1, <3>2, Zenon
  <2>2. CASE r = 1
    <3>1. DavTree(r) = f1
      BY <1>11, <2>2 DEF DavTree
    <3> QED
      BY <1>4, <1>6, <1>10, <3>1, Zenon
  <2> QED
    BY <1>12, <2>1, <2>2
<1>14. Len(dnodes) <= Len(IdNames)
  <2>1. Len(IdNames) \in Nat
    BY NamesRight, LenProperties
  <2> QED
    BY <1>2, <1>10, <2>1
<1> QED
  BY <1>10, <1>11, <1>12, <1>13, <1>14, Zenon DEF StoreRight

LEMMA InitRight == DavInit => DavInv
<1> SUFFICES ASSUME DavInit
             PROVE  DavInv
  OBVIOUS
<1>1. StoreRight
  BY ImportRight
<1>2. TxnsRight
  <2>1. dtxns = <<>> /\ dacts = [a \in Activities |-> 0]
    BY DEF DavInit
  <2>2. <<>> \in Seq([open : BOOLEAN, base : 0..DavYoungest]) /\ Len(<<>>) = 0
    OBVIOUS
  <2>3. 0 \in 0..0
    OBVIOUS
  <2> QED
    BY <2>1, <2>2, <2>3, Zenon DEF TxnsRight
<1>3. AskRight
  <2>1. NoAsk.step = "idle"
    BY DEF NoAsk
  <2>2. ask = NoAsk
    BY DEF DavInit
  <2> QED
    BY <2>1, <2>2 DEF AskRight
<1>4. AnswerRight
  BY Zenon DEF DavInit, AnswerRight
<1>5. HeldRight
  <2>1. PICK u : u = NoUrl
    OBVIOUS
  <2>2. held = [ver |-> u, wrk |-> u]
    BY <2>1, Zenon DEF DavInit
  <2>3. DOMAIN held = {"ver", "wrk"} /\ held.ver = u /\ held.wrk = u
    BY <2>2
  <2> QED
    BY <2>1, <2>3, Zenon DEF HeldRight
<1>6. lost \in Nat
  BY DEF DavInit
<1> QED
  BY <1>1, <1>2, <1>3, <1>4, <1>5, <1>6 DEF DavInv

LEMMA StutterKeeps ==
  ASSUME DavInv, UNCHANGED davVars
  PROVE  DavInv'
<1>1. StoreRight /\ TxnsRight /\ HeldRight /\ AnswerRight /\ AskRight /\ lost \in Nat
  BY DEF DavInv
<1>2. UNCHANGED <<drevs, dnodes, dacts, dtxns, ask, answer, held, lost>>
  BY DEF davVars
<1> QED
  BY <1>1, <1>2, StoreKept, HeldKept, AskKept, AnswerKept DEF DavInv

----------------------------------------------------------------------------
(* The theorems *)

\* DavInv holds in every state: the client has in hand, between two requests of
\* svn_ra_dav__get_baseline_info, a URI the server built for a revision that
\* was there when it asked, and what it keeps of the answers are the URI's of
\* nodes and of paths in transactions.
THEOREM DavInvariant == DavSpec => []DavInv
<1>1. DavInit => DavInv
  BY InitRight
<1>2. ASSUME DavInv, DavNext
      PROVE  DavInv'
  <2>1. CASE \E p \in DavPaths, r \in {Latest} \cup (0 .. MaxDavRev) : StartInfo(p, r)
    BY <1>2, <2>1, StartInfoKeeps
  <2>2. CASE FindStart
    BY <1>2, <2>2, FindStartKeeps
  <2>3. CASE FetchCheckedIn
    BY <1>2, <2>3, FetchCheckedInKeeps
  <2>4. CASE FetchBaseline
    BY <1>2, <2>4, FetchBaselineKeeps
  <2>5. CASE FetchKind
    BY <1>2, <2>5, FetchKindKeeps
  <2>6. CASE ListDirectory
    BY <1>2, <2>6, ListDirectoryKeeps
  <2>7. CASE FetchVersionUrl
    BY <1>2, <2>7, FetchVersionUrlKeeps
  <2>8. CASE \E a \in Activities : MakeActivity(a) \/ Checkout(a)
    BY <1>2, <2>8, MakeActivityKeeps, CheckoutKeeps
  <2>9. CASE \E t \in DOMAIN dtxns : EndTxn(t)
    BY <1>2, <2>9, EndTxnKeeps
  <2>10. CASE \E p \in DavPaths : OtherPut(p, "file") \/ OtherPut(p, "dir") \/ OtherDelete(p)
    BY <1>2, <2>10, OtherPutKeeps, OtherDeleteKeeps
  <2> QED
    BY <1>2, <2>1, <2>2, <2>3, <2>4, <2>5, <2>6, <2>7, <2>8, <2>9, <2>10, Zenon DEF DavNext
<1>3. DavInv /\ [DavNext]_davVars => DavInv'
  BY <1>2, StutterKeeps
<1> QED
  BY <1>1, <1>3, PTL DEF DavSpec

\* svn_ra_dav__get_baseline_info and svn_ra_dav__do_check_path tell the truth,
\* whatever is committed between their requests and whichever answers get lost,
\* when they had to go up one directory at most.
THEOREM AnswersTrue == DavSpec => []AnswerTrue
  BY DavInvariant, AnswersAreTrue, PTL

\* The URL's of version resources and of working resources that the server
\* (dav_svn_build_uri, dav_svn_create_working_resource) gave to a client stay
\* what they were given for.
THEOREM UrlsKept == DavSpec => []UrlsStable
  BY DavInvariant, UrlsAreStable, PTL
==================================================================================
