---------------------------- MODULE FsIds_proofs ----------------------------
(***************************************************************************)
(* What the operators on node revision ID's do, for tables of ID's and     *)
(* numbers of any size.  First compare_ids is shown to be a strict total   *)
(* order on all node revision ID's: two of them first differ at one place, *)
(* and that place decides.  So a finite table has a last key, and the keys *)
(* that svn_fs__new_node_id and svn_fs__new_successor_id derive from it    *)
(* are free.  The latter needs that branch and revision numbers start at   *)
(* 1, and that whatever a key begins with is a committed node revision's   *)
(* ID: a branch is numbered after a key that may be a branch off another   *)
(* revision than the one asked for.                                        *)
(***************************************************************************)
EXTENDS FsIds, FiniteSetTheorems, SequenceTheorems, WellFoundedInduction, TLAPS

\* A nonempty set of natural numbers has a least element.
LEMMA LeastNumber ==
  ASSUME NEW T \in SUBSET Nat, T # {}
  PROVE  \E n \in T : \A m \in T : n <= m
<1> DEFINE R == OpToRel(<, Nat)
<1>1. PICK n \in T : \A m \in T : ~ (<<m, n>> \in R)
  BY NatLessThanWellFounded, WFMin, Zenon
<1>2. R = {ss \in Nat \X Nat : ss[1] < ss[2]}
  BY Zenon DEF OpToRel
<1>3. \A m \in T : n <= m
  <2> SUFFICES ASSUME NEW m \in T, ~ (n <= m)
               PROVE  FALSE
    OBVIOUS
  <2>1. m < n /\ <<m, n>> \in Nat \X Nat
    OBVIOUS
  <2>2. <<m, n>>[1] < <<m, n>>[2]
    BY <2>1
  <2> HIDE DEF R
  <2>3. <<m, n>> \in R
    BY <1>2, <2>1, <2>2
  <2> QED
    BY <1>1, <2>3
<1> QED
  BY <1>3

-----------------------------------------------------------------------------
(* The order of the keys *)

\* The components of an ID; -1 marks where it ends, at an odd place.
LEMMA Components ==
  ASSUME NEW a, IsId(a)
  PROVE  /\ Len(a) \in Nat /\ Len(a) >= 2 /\ Len(a) % 2 = 0
         /\ a \in Seq(Nat)
         /\ \A i \in 1..Len(a) : a[i] \in Nat /\ Component(a, i) = a[i]
         /\ \A i \in Nat \ {0} : /\ Component(a, i) \in Int
                                 /\ Component(a, i) >= -1
                                 /\ i > Len(a) <=> Component(a, i) = -1
<1>1. /\ Len(a) \in Nat /\ Len(a) >= 2 /\ Len(a) % 2 = 0
      /\ a \in Seq(Nat)
  BY DEF IsId
<1>2. \A i \in 1..Len(a) : a[i] \in Nat /\ Component(a, i) = a[i]
  BY <1>1 DEF Component
<1>3. \A i \in Nat \ {0} : i <= Len(a) => i \in 1..Len(a)
  BY <1>1
<1> QED
  BY <1>1, <1>2, <1>3 DEF Component

\* The node number, its revision and the last revision number are there.
LEMMA FirstAndLast ==
  ASSUME NEW a, IsId(a)
  PROVE  /\ a[1] \in Nat /\ a[2] \in Nat /\ a[Len(a)] \in Nat
         /\ Component(a, 1) = a[1] /\ Component(a, 2) = a[2]
<1>1. Len(a) \in Nat /\ Len(a) >= 2
  BY Components
<1>2. 1 \in 1..Len(a) /\ 2 \in 1..Len(a) /\ Len(a) \in 1..Len(a)
  BY <1>1
<1> QED
  BY <1>2, Components

\* Different ID's differ first at some place, not beyond the end of either.
LEMMA FirstDifference ==
  ASSUME NEW a, NEW b, IsId(a), IsId(b), a # b
  PROVE  \E i \in 1..(Len(a) + 1) : i \in 1..(Len(b) + 1) /\ DifferFirstAt(a, b, i)
<1> DEFINE T == {i \in Nat \ {0} : Component(a, i) # Component(b, i)}
<1>1. T # {}
  <2>1. SUFFICES ASSUME \A i \in Nat \ {0} : Component(a, i) = Component(b, i)
                 PROVE  FALSE
    OBVIOUS
  <2>2. Len(a) = Len(b)
    <3>1. /\ Len(a) \in Nat /\ Len(b) \in Nat
          /\ \A i \in Nat \ {0} : i > Len(a) <=> Component(a, i) = -1
          /\ \A i \in Nat \ {0} : i > Len(b) <=> Component(b, i) = -1
      BY Components
    <3>2. Len(a) + 1 > Len(b) /\ Len(b) + 1 > Len(a)
      BY <2>1, <3>1
    <3> QED
      BY <3>1, <3>2
  <2>3. \A i \in 1..Len(a) : a[i] = b[i]
    <3>1. /\ \A i \in 1..Len(a) : Component(a, i) = a[i]
          /\ \A i \in 1..Len(a) : Component(b, i) = b[i]
      BY <2>2, Components
    <3>2. Len(a) \in Nat
      BY Components
    <3>3. \A i \in 1..Len(a) : i \in Nat \ {0}
      BY <3>2
    <3> QED
      BY <2>1, <3>1, <3>3
  <2> QED
    BY <2>2, <2>3, SeqEqual, Components
<1>2. PICK i \in T : \A j \in T : i <= j
  BY <1>1, LeastNumber
<1>3. i \in Nat \ {0} /\ Component(a, i) # Component(b, i)
  OBVIOUS
<1>4. \A j \in 1..(i - 1) : Component(a, j) = Component(b, j)
  <2> SUFFICES ASSUME NEW j \in 1..(i - 1), Component(a, j) # Component(b, j)
               PROVE  FALSE
    OBVIOUS
  <2> j \in T
    BY <1>3
  <2> QED
    BY <1>2, <1>3
<1>5. i <= Len(a) + 1 /\ i <= Len(b) + 1
  <2>1. ASSUME i > Len(a) + 1 PROVE FALSE
    <3>1. Component(a, Len(a) + 1) = Component(b, Len(a) + 1)
      BY <1>3, <1>4, <2>1, Components
    <3>2. Len(b) <= Len(a)
      BY <3>1, Components
    <3> QED
      BY <1>3, <2>1, <3>2, Components
  <2>2. ASSUME i > Len(b) + 1 PROVE FALSE
    <3>1. Component(a, Len(b) + 1) = Component(b, Len(b) + 1)
      BY <1>3, <1>4, <2>2, Components
    <3>2. Len(a) <= Len(b)
      BY <3>1, Components
    <3> QED
      BY <1>3, <2>2, <3>2, Components
  <2>3. Len(a) \in Nat /\ Len(b) \in Nat
    BY Components
  <2> QED
    BY <1>3, <2>1, <2>2, <2>3
<1> QED
  BY <1>3, <1>4, <1>5, Components DEF DifferFirstAt

\* There is one such place, and it is the same seen from either ID.
LEMMA OneFirstDifference ==
  ASSUME NEW a, NEW b, NEW i \in Nat \ {0}, NEW j \in Nat \ {0},
         DifferFirstAt(a, b, i)
  PROVE  /\ DifferFirstAt(b, a, i)
         /\ DifferFirstAt(a, b, j) => j = i
         /\ DifferFirstAt(b, a, j) => j = i
BY DEF DifferFirstAt

\* How the ID's compare at the place where they differ first.
OrderAt(a, b, i) ==
  \/ i % 2 = 1 /\ Component(a, i) < Component(b, i)
  \/ i % 2 = 0 /\ Len(a) = i /\ Len(b) > i
  \/ i % 2 = 0 /\ (Len(a) = i <=> Len(b) = i) /\ Component(a, i) < Component(b, i)

\* compare_ids decides at that place.
LEMMA DecidedAt ==
  ASSUME NEW a, NEW b, IsId(a), IsId(b), NEW i \in Nat \ {0},
         DifferFirstAt(a, b, i)
  PROVE  /\ i <= Len(a) + 1 /\ i <= Len(b) + 1
         /\ IdLess(a, b) <=> OrderAt(a, b, i)
         /\ IdLess(b, a) <=> OrderAt(b, a, i)
<1>1. a # b
  BY DEF DifferFirstAt
<1>2. PICK k \in 1..(Len(a) + 1) : k \in 1..(Len(b) + 1) /\ DifferFirstAt(a, b, k)
  BY <1>1, FirstDifference
<1>3. k \in Nat \ {0} /\ k = i
  <2>1. Len(a) \in Nat
    BY Components
  <2>2. k \in Nat \ {0}
    BY <2>1
  <2> QED
    BY <1>2, <2>2, OneFirstDifference
<1>4. IdLess(a, b) <=> OrderAt(a, b, i)
  <2>1. ASSUME NEW j \in 1..(Len(a) + 1), DifferFirstAt(a, b, j) PROVE j = i
    BY <2>1, OneFirstDifference, Components
  <2> QED
    BY <1>2, <1>3, <2>1 DEF IdLess, OrderAt
<1>5. IdLess(b, a) <=> OrderAt(b, a, i)
  <2>1. ASSUME NEW j \in 1..(Len(b) + 1), DifferFirstAt(b, a, j) PROVE j = i
    BY <2>1, OneFirstDifference, Components
  <2>2. DifferFirstAt(b, a, i)
    BY OneFirstDifference
  <2> QED
    BY <1>2, <1>3, <2>1, <2>2 DEF IdLess, OrderAt
<1> QED
  BY <1>2, <1>3, <1>4, <1>5

\* Two ID's that first differ at a revision number both have one there.
LEMMA EvenPlaceInBoth ==
  ASSUME NEW a, NEW b, IsId(a), IsId(b), NEW i \in Nat \ {0},
         DifferFirstAt(a, b, i), i % 2 = 0
  PROVE  Len(a) >= i /\ Len(b) >= i
<1>1. i - 1 \in Nat \ {0} /\ i - 1 \in 1..(i - 1)
  OBVIOUS
<1>2. Component(a, i - 1) = Component(b, i - 1) /\ Component(a, i) # Component(b, i)
  BY <1>1 DEF DifferFirstAt
<1>3. /\ Len(a) \in Nat /\ Len(a) % 2 = 0
      /\ Len(b) \in Nat /\ Len(b) % 2 = 0
  BY Components
<1>4. /\ i - 1 > Len(a) <=> Component(a, i - 1) = -1
      /\ i - 1 > Len(b) <=> Component(b, i - 1) = -1
      /\ i > Len(a) <=> Component(a, i) = -1
      /\ i > Len(b) <=> Component(b, i) = -1
  BY <1>1, Components
<1>5. ~ (i - 1 > Len(a))
  BY <1>2, <1>3, <1>4
<1>6. i - 1 # Len(a) /\ i - 1 # Len(b)
  BY <1>3
<1> QED
  BY <1>2, <1>3, <1>4, <1>5, <1>6

\* compare_ids never says of two ID's that each is before the other, and of
\* two different ones it says that one is.
LEMMA IdLessTotal ==
  ASSUME NEW a, NEW b, IsId(a), IsId(b)
  PROVE  /\ ~ (IdLess(a, b) /\ IdLess(b, a))
         /\ ~ IdLess(a, a)
         /\ a # b => IdLess(a, b) \/ IdLess(b, a)
<1>1. ~ IdLess(a, a)
  BY DEF IdLess, DifferFirstAt
<1>2. CASE a = b
  BY <1>1, <1>2
<1>3. CASE a # b
  <2>1. PICK i \in 1..(Len(a) + 1) : DifferFirstAt(a, b, i)
    BY <1>3, FirstDifference
  <2>2. i \in Nat \ {0}
    BY Components
  <2>3. /\ IdLess(a, b) <=> OrderAt(a, b, i)
        /\ IdLess(b, a) <=> OrderAt(b, a, i)
    BY <2>1, <2>2, DecidedAt
  <2>4. /\ Component(a, i) \in Int /\ Component(b, i) \in Int
        /\ Component(a, i) # Component(b, i)
        /\ Len(a) \in Nat /\ Len(b) \in Nat
    BY <2>1, <2>2, Components DEF DifferFirstAt
  <2>5. i % 2 = 0 => Len(a) >= i /\ Len(b) >= i
    BY <2>1, <2>2, EvenPlaceInBoth
  <2>6. i % 2 = 0 \/ i % 2 = 1
    BY <2>2
  <2> QED
    BY <1>1, <2>2, <2>3, <2>4, <2>5, <2>6 DEF OrderAt
<1> QED
  BY <1>2, <1>3

\* compare_ids is transitive: when A is before B and B before C, the place
\* that decides between A and C is the first of the two that decided.
LEMMA IdLessTransitive ==
  ASSUME NEW a, NEW b, NEW c, IsId(a), IsId(b), IsId(c),
         IdLess(a, b), IdLess(b, c)
  PROVE  IdLess(a, c)
<1>1. PICK i \in 1..(Len(a) + 1) : DifferFirstAt(a, b, i)
  BY DEF IdLess
<1>2. PICK j \in 1..(Len(b) + 1) : DifferFirstAt(b, c, j)
  BY DEF IdLess
<1>3. i \in Nat \ {0} /\ j \in Nat \ {0}
  <2>1. Len(a) \in Nat /\ Len(b) \in Nat
    BY Components
  <2> QED
    BY <2>1
<1>4. OrderAt(a, b, i) /\ OrderAt(b, c, j)
  BY <1>1, <1>2, <1>3, DecidedAt
<1>5. \A k \in Nat \ {0} :
        /\ Component(a, k) \in Int /\ Component(a, k) >= -1
        /\ Component(b, k) \in Int /\ Component(b, k) >= -1
        /\ Component(c, k) \in Int /\ Component(c, k) >= -1
        /\ k > Len(a) <=> Component(a, k) = -1
        /\ k > Len(b) <=> Component(b, k) = -1
        /\ k > Len(c) <=> Component(c, k) = -1
  BY Components
<1>6. Len(a) \in Nat /\ Len(b) \in Nat /\ Len(c) \in Nat
  BY Components
<1>7. /\ i % 2 = 0 => Len(a) >= i /\ Len(b) >= i
      /\ j % 2 = 0 => Len(b) >= j /\ Len(c) >= j
  BY <1>1, <1>2, <1>3, EvenPlaceInBoth
<1>8. CASE i < j
  <2>1. DifferFirstAt(a, c, i)
    BY <1>1, <1>2, <1>3, <1>8 DEF DifferFirstAt
  <2>2. Component(b, i) = Component(c, i)
    BY <1>2, <1>3, <1>8 DEF DifferFirstAt
  <2>3. ASSUME i % 2 = 0, Len(b) > i PROVE Len(c) > i
    <3>1. i + 1 <= j /\ i + 1 \in Nat \ {0}
      BY <1>3, <1>8
    <3>2. CASE i + 1 < j
      <4>1. Component(b, i + 1) = Component(c, i + 1)
        BY <1>2, <1>3, <3>2 DEF DifferFirstAt
      <4>2. /\ i + 1 > Len(b) <=> Component(b, i + 1) = -1
            /\ i + 1 > Len(c) <=> Component(c, i + 1) = -1
        BY <3>1, Components
      <4> QED
        BY <1>3, <1>6, <2>3, <4>1, <4>2
    <3>3. CASE i + 1 = j
      <4>1. j % 2 = 1
        BY <1>3, <2>3, <3>3
      <4>2. Component(b, j) < Component(c, j)
        BY <1>4, <4>1, <1>3 DEF OrderAt
      <4>3. /\ Component(b, j) \in Int /\ Component(b, j) >= -1
            /\ Component(c, j) \in Int
            /\ j > Len(c) <=> Component(c, j) = -1
        BY <1>3, <1>5
      <4> QED
        BY <1>3, <1>6, <3>3, <4>2, <4>3
    <3> QED
      BY <3>1, <3>2, <3>3, <1>3
  <2>4. i % 2 = 0 => Len(c) >= i
    BY <2>1, <1>3, EvenPlaceInBoth
  <2>5. OrderAt(a, c, i)
    <3>1. /\ Component(a, i) \in Int /\ Component(b, i) \in Int
          /\ OrderAt(a, b, i)
      BY <1>3, <1>4, <1>5
    <3> QED
      BY <1>3, <1>6, <1>7, <2>2, <2>3, <2>4, <3>1 DEF OrderAt
  <2> QED
    BY <1>3, <2>1, <2>5, DecidedAt
<1>9. CASE j < i
  <2>1. DifferFirstAt(a, c, j)
    BY <1>1, <1>2, <1>3, <1>9 DEF DifferFirstAt
  <2>2. Component(a, j) = Component(b, j)
    BY <1>1, <1>3, <1>9 DEF DifferFirstAt
  <2>3. ASSUME j % 2 = 0, Len(b) = j PROVE Len(a) = j
    <3>1. j + 1 <= i /\ j + 1 \in Nat \ {0}
      BY <1>3, <1>9
    <3>2. CASE j + 1 < i
      <4>1. Component(a, j + 1) = Component(b, j + 1)
        BY <1>1, <1>3, <3>2 DEF DifferFirstAt
      <4>2. Component(a, j) = Component(b, j)
        BY <2>2
      <4> QED
        BY <1>3, <1>5, <1>6, <2>3, <3>1, <4>1, <4>2
    <3>3. CASE j + 1 = i
      <4>1. i % 2 = 1
        BY <1>3, <2>3, <3>3
      <4>2. Component(a, i) < Component(b, i)
        BY <1>4, <4>1, <1>3 DEF OrderAt
      <4> QED
        BY <1>3, <1>5, <1>6, <2>3, <3>3, <4>2
    <3> QED
      BY <3>1, <3>2, <3>3, <1>3
  <2>4. j % 2 = 0 => Len(a) >= j
    BY <2>1, <1>3, EvenPlaceInBoth
  <2>5. OrderAt(a, c, j)
    <3>1. /\ Component(b, j) \in Int /\ Component(c, j) \in Int
          /\ OrderAt(b, c, j)
      BY <1>3, <1>4, <1>5
    <3> QED
      BY <1>3, <1>6, <1>7, <2>2, <2>3, <2>4, <3>1 DEF OrderAt
  <2> QED
    BY <1>3, <2>1, <2>5, DecidedAt
<1>10. CASE i = j
  <2>1. \A k \in 1..(i - 1) : Component(a, k) = Component(c, k)
    BY <1>1, <1>2, <1>10 DEF DifferFirstAt
  <2>2. OrderAt(a, c, i)
    <3>1. /\ Component(a, i) \in Int /\ Component(b, i) \in Int
          /\ Component(c, i) \in Int
          /\ OrderAt(a, b, i) /\ OrderAt(b, c, i)
      BY <1>3, <1>4, <1>5, <1>10
    <3> QED
      BY <1>3, <1>6, <1>7, <1>10, <3>1 DEF OrderAt
  <2>4. CASE Component(a, i) # Component(c, i)
    BY <1>3, <2>1, <2>2, <2>4, DecidedAt DEF DifferFirstAt
  <2>5. CASE Component(a, i) = Component(c, i)
    <3>1. i % 2 = 0 /\ Len(a) = i /\ Len(c) > i
      BY <1>3, <2>2, <2>5, <1>5, <1>6 DEF OrderAt
    <3>2. i + 1 \in Nat \ {0} /\ (i + 1) % 2 = 1
      BY <1>3, <3>1
    <3>3. Component(a, i + 1) = -1 /\ Component(c, i + 1) > -1
      <4>1. /\ i + 1 > Len(a) <=> Component(a, i + 1) = -1
            /\ i + 1 > Len(c) <=> Component(c, i + 1) = -1
            /\ Component(c, i + 1) \in Int /\ Component(c, i + 1) >= -1
        BY <1>5, <3>2
      <4> QED
        BY <1>3, <1>6, <3>1, <4>1
    <3>4. DifferFirstAt(a, c, i + 1)
      BY <1>3, <2>1, <2>5, <3>2, <3>3 DEF DifferFirstAt
    <3>5. OrderAt(a, c, i + 1)
      BY <3>2, <3>3 DEF OrderAt
    <3> QED
      BY <3>2, <3>4, <3>5, DecidedAt
  <2> QED
    BY <2>4, <2>5
<1> QED
  BY <1>3, <1>8, <1>9, <1>10

-----------------------------------------------------------------------------
(* The last key of a table *)

HasLast(S) == \E k \in S : \A l \in S : l = k \/ IdLess(l, k)

\* A finite set of keys has a last one: a smallest one without would have
\* one after any of its keys is taken out, and that one or the key taken out
\* is the last of all.
LEMMA FiniteHasLast ==
  ASSUME NEW K, IsFiniteSet(K), K # {}, \A k \in K : IsId(k)
  PROVE  HasLast(K)
<1> DEFINE Sizes == {n \in Nat : \E S \in SUBSET K :
                        S # {} /\ ~ HasLast(S) /\ Cardinality(S) = n}
<1>1. SUFFICES ASSUME ~ HasLast(K)
               PROVE  FALSE
  OBVIOUS
<1>2. Sizes # {}
  <2>1. Cardinality(K) \in Nat
    BY FS_CardinalityType
  <2>2. Cardinality(K) \in Sizes
    BY <1>1, <2>1
  <2> QED
    BY <2>2
<1>3. PICK n \in Sizes : \A m \in Sizes : n <= m
  BY <1>2, LeastNumber
<1>4. PICK S \in SUBSET K : S # {} /\ ~ HasLast(S) /\ Cardinality(S) = n
  OBVIOUS
<1>5. PICK x \in S : TRUE
  BY <1>4
<1> DEFINE R == S \ {x}
<1>6. IsFiniteSet(S) /\ IsFiniteSet(R) /\ Cardinality(R) = n - 1
  BY <1>4, <1>5, FS_Subset, FS_RemoveElement
<1>7. Cardinality(R) \in Nat /\ Cardinality(R) < n /\ n \in Nat
  BY <1>6, FS_CardinalityType
<1>8. R = {} \/ HasLast(R)
  <2>1. Cardinality(R) \notin Sizes
    BY <1>3, <1>7
  <2> QED
    BY <1>7, <2>1
<1>9. CASE R = {}
  <2>1. \A l \in S : l = x
    BY <1>9
  <2> QED
    BY <1>4, <1>5, <2>1 DEF HasLast
<1>10. CASE HasLast(R)
  <2>1. PICK m \in R : \A l \in R : l = m \/ IdLess(l, m)
    BY <1>10 DEF HasLast
  <2>2. IsId(x) /\ IsId(m) /\ x # m /\ \A l \in S : IsId(l)
    BY <1>5, <2>1
  <2>3. CASE IdLess(x, m)
    <3>1. \A l \in S : l = m \/ IdLess(l, m)
      BY <2>1, <2>3
    <3> QED
      BY <1>4, <2>1, <3>1 DEF HasLast
  <2>4. CASE IdLess(m, x)
    <3>1. \A l \in S : l = x \/ IdLess(l, x)
      BY <2>1, <2>2, <2>4, IdLessTransitive
    <3> QED
      BY <1>4, <1>5, <3>1 DEF HasLast
  <2> QED
    BY <2>2, <2>3, <2>4, IdLessTotal
<1> QED
  BY <1>8, <1>9, <1>10

\* DB_LAST finds it.
LEMMA LastKeyIsLast ==
  ASSUME NEW K, IsFiniteSet(K), K # {}, \A k \in K : IsId(k)
  PROVE  /\ LastKey(K) \in K
         /\ \A l \in K : l = LastKey(K) \/ IdLess(l, LastKey(K))
BY FiniteHasLast DEF HasLast, LastKey

\* So does last_key_before among the keys before ID.
LEMMA LastKeyBeforeIsLast ==
  ASSUME NEW K, IsFiniteSet(K), \A k \in K : IsId(k),
         NEW id, NEW k \in K, IdLess(k, id)
  PROVE  /\ LastKeyBefore(K, id) \in K
         /\ IdLess(LastKeyBefore(K, id), id)
         /\ \A l \in K : IdLess(l, id) =>
              l = LastKeyBefore(K, id) \/ IdLess(l, LastKeyBefore(K, id))
<1> DEFINE S == {l \in K : IdLess(l, id)}
<1>1. IsFiniteSet(S)
  BY FS_Subset
<1>2. k \in S /\ \A l \in S : IsId(l)
  OBVIOUS
<1>3. /\ LastKey(S) \in S
      /\ \A l \in S : l = LastKey(S) \/ IdLess(l, LastKey(S))
  <2> HIDE DEF S
  <2> QED
    BY <1>1, <1>2, LastKeyIsLast
<1>4. LastKey(S) = LastKeyBefore(K, id)
  BY DEF LastKeyBefore
<1> QED
  BY <1>3, <1>4

-----------------------------------------------------------------------------
(* New ID's *)

\* Branch and revision numbers start at 1; only the root directory, node 0,
\* has a revision 0.
PartsPositive(id) ==
  /\ \A i \in 3..Len(id) : id[i] >= 1
  /\ id[1] # 0 => id[2] >= 1

\* The first revision of a node.
LEMMA NodeIdIsId ==
  ASSUME NEW u \in Nat, NEW v \in Nat
  PROVE  /\ IsId(<<u, v>>) /\ Len(<<u, v>>) = 2
         /\ <<u, v>>[1] = u /\ <<u, v>>[2] = v
BY DEF IsId

\* An ID with a branch made off it.
LEMMA BranchIsId ==
  ASSUME NEW a, IsId(a), NEW u \in Nat, NEW v \in Nat
  PROVE  /\ IsId(a \o <<u, v>>)
         /\ Len(a \o <<u, v>>) = Len(a) + 2
         /\ \A j \in 1..Len(a) : (a \o <<u, v>>)[j] = a[j]
         /\ (a \o <<u, v>>)[Len(a) + 1] = u
         /\ (a \o <<u, v>>)[Len(a) + 2] = v
<1> DEFINE b == a \o <<u, v>>
<1>1. a \in Seq(Nat) /\ <<u, v>> \in Seq(Nat) /\ Len(<<u, v>>) = 2 /\ Len(a) \in Nat
  BY Components
<1>2. b \in Seq(Nat) /\ Len(b) = Len(a) + 2
  BY <1>1
<1>3. Len(b) >= 2 /\ Len(b) % 2 = 0
  BY <1>1, <1>2, Components
<1>4. /\ \A j \in 1..Len(a) : b[j] = a[j]
      /\ b[Len(a) + 1] = u /\ b[Len(a) + 2] = v
  BY <1>1
<1> QED
  BY <1>2, <1>3, <1>4 DEF IsId

\* The next revision on the same branch.
LEMMA NextIsId ==
  ASSUME NEW a, IsId(a)
  PROVE  LET b == [a EXCEPT ![Len(a)] = @ + 1]
         IN  /\ IsId(b)
             /\ Len(b) = Len(a)
             /\ \A j \in 1..(Len(a) - 1) : b[j] = a[j]
             /\ b[Len(a)] = a[Len(a)] + 1
<1>1. a \in Seq(Nat) /\ Len(a) \in Nat /\ Len(a) >= 2 /\ a[Len(a)] \in Nat
  BY Components, FirstAndLast
<1> QED
  BY <1>1 DEF IsId

\* A prefix of whole pairs.
LEMMA PrefixIsId ==
  ASSUME NEW a, IsId(a), NEW m \in 2..Len(a), m % 2 = 0
  PROVE  /\ IsId(SubSeq(a, 1, m))
         /\ Len(SubSeq(a, 1, m)) = m
         /\ \A j \in 1..m : SubSeq(a, 1, m)[j] = a[j]
<1>1. a \in Seq(Nat) /\ Len(a) \in Nat /\ Len(a) >= 2
  BY Components
<1>2. /\ SubSeq(a, 1, m) \in Seq(Nat)
      /\ Len(SubSeq(a, 1, m)) = m
      /\ \A j \in 1..m : SubSeq(a, 1, m)[j] = a[j]
  BY <1>1
<1> QED
  BY <1>2 DEF IsId

\* An ID between two that begin alike begins like them.
LEMMA Between ==
  ASSUME NEW x, NEW m, NEW y, IsId(x), IsId(m), IsId(y),
         NEW k \in Nat, Len(x) > k, Len(y) > k,
         \A j \in 1..k : Component(x, j) = Component(y, j),
         x = m \/ IdLess(x, m), IdLess(m, y)
  PROVE  \A j \in 1..k : Component(m, j) = Component(x, j)
<1>1. CASE x = m
  BY <1>1
<1>2. CASE IdLess(x, m)
  <2>1. PICK i \in 1..(Len(x) + 1) : DifferFirstAt(x, m, i)
    BY <1>2 DEF IdLess
  <2>2. Len(x) \in Nat /\ Len(m) \in Nat /\ Len(y) \in Nat
    BY Components
  <2>3. i \in Nat \ {0}
    BY <2>2
  <2>4. CASE i > k
    BY <2>1, <2>3, <2>4 DEF DifferFirstAt
  <2>5. CASE i <= k
    <3>1. DifferFirstAt(m, y, i)
      BY <2>1, <2>3, <2>5 DEF DifferFirstAt
    <3>2. OrderAt(x, m, i) /\ OrderAt(m, y, i)
      BY <1>2, <2>1, <2>3, <3>1, DecidedAt
    <3>3. /\ Component(x, i) = Component(y, i)
          /\ Component(x, i) \in Int /\ Component(m, i) \in Int
      BY <2>3, <2>5, Components
    <3> QED
      BY <2>2, <2>3, <2>5, <3>2, <3>3 DEF OrderAt
  <2> QED
    BY <2>3, <2>4, <2>5
<1> QED
  BY <1>1, <1>2

\* The node number decides first.
LEMMA NodesInOrder ==
  ASSUME NEW a, NEW b, IsId(a), IsId(b), IdLess(a, b)
  PROVE  a[1] <= b[1]
<1>1. PICK i \in 1..(Len(a) + 1) : DifferFirstAt(a, b, i)
  BY DEF IdLess
<1>2. /\ Len(a) \in Nat /\ Len(b) \in Nat /\ Len(a) >= 2 /\ Len(b) >= 2
      /\ a[1] \in Nat /\ b[1] \in Nat
      /\ Component(a, 1) = a[1] /\ Component(b, 1) = b[1]
  BY Components, FirstAndLast
<1>3. CASE i = 1
  <2>1. OrderAt(a, b, 1)
    BY <1>1, <1>3, DecidedAt
  <2> QED
    BY <1>2, <2>1 DEF OrderAt
<1>4. CASE i > 1
  BY <1>1, <1>2, <1>4 DEF DifferFirstAt
<1> QED
  BY <1>2, <1>3, <1>4

\* svn_fs__new_node_id finds a free key.
LEMMA NewNodeIdFresh ==
  ASSUME NEW K, IsFiniteSet(K), K # {}, \A k \in K : IsId(k)
  PROVE  /\ IsId(NewNodeId(K)) /\ Len(NewNodeId(K)) = 2
         /\ NewNodeId(K)[2] = 1
         /\ NewNodeId(K) \notin K
<1> DEFINE last == LastKey(K)
<1>1. last \in K /\ \A l \in K : l = last \/ IdLess(l, last)
  BY LastKeyIsLast
<1>2. IsId(last) /\ last[1] \in Nat
  BY <1>1, FirstAndLast
<1>3. /\ IsId(NewNodeId(K)) /\ Len(NewNodeId(K)) = 2
      /\ NewNodeId(K)[1] = last[1] + 1 /\ NewNodeId(K)[2] = 1
  <2> last[1] + 1 \in Nat
    BY <1>2
  <2> HIDE DEF last
  <2>1. NewNodeId(K) = <<last[1] + 1, 1>>
    BY DEF NewNodeId, last
  <2> QED
    BY <2>1, NodeIdIsId
<1>4. ASSUME NewNodeId(K) \in K PROVE FALSE
  <2>1. NewNodeId(K)[1] <= last[1]
    BY <1>1, <1>2, <1>3, <1>4, NodesInOrder
  <2> QED
    BY <1>2, <1>3, <2>1
<1> QED
  BY <1>3, <1>4

\* NEXT is the next revision of ID, Y the first branch off NEXT.
NextAndBranch(id, next, y) ==
  /\ IsId(id) /\ IsId(next) /\ IsId(y)
  /\ Len(next) = Len(id) /\ Len(y) = Len(id) + 2
  /\ \A j \in 1..(Len(id) - 1) : next[j] = id[j]
  /\ next[Len(id)] = id[Len(id)] + 1
  /\ \A j \in 1..Len(id) : y[j] = next[j]
  /\ y[Len(id) + 1] = 1 /\ y[Len(id) + 2] = 1

\* LAST is the last of the keys K before Y.
LastBefore(K, last, y) ==
  /\ last \in K /\ IdLess(last, y)
  /\ \A l \in K : IdLess(l, y) => l = last \/ IdLess(l, last)

\* A revision comes before the branches off it.
LEMMA NextBeforeBranch ==
  ASSUME NEW id, NEW next, NEW y, NextAndBranch(id, next, y)
  PROVE  /\ IdLess(next, y)
         /\ \A j \in 1..Len(id) : /\ Component(y, j) = Component(next, j)
                                  /\ Component(next, j) = next[j]
                                  /\ Component(id, j) = id[j]
<1>1. Len(id) \in Nat /\ Len(id) >= 2 /\ Len(id) % 2 = 0
  BY Components DEF NextAndBranch
<1>2. \A j \in 1..Len(id) : /\ Component(y, j) = Component(next, j)
                            /\ Component(next, j) = next[j]
                            /\ Component(id, j) = id[j]
  BY <1>1 DEF NextAndBranch, Component
<1>3. Component(y, Len(id) + 1) = 1 /\ Component(next, Len(id) + 1) = -1
  BY <1>1 DEF NextAndBranch, Component
<1>4. DifferFirstAt(next, y, Len(id) + 1)
  BY <1>1, <1>2, <1>3 DEF DifferFirstAt
<1>5. OrderAt(next, y, Len(id) + 1)
  BY <1>1, <1>3 DEF OrderAt
<1> QED
  BY <1>1, <1>2, <1>4, <1>5, DecidedAt DEF NextAndBranch

\* Their lengths and the numbers at their places.
LEMMA NextAndBranchPlaces ==
  ASSUME NEW id, NEW next, NEW y, NextAndBranch(id, next, y),
         NEW n, n = Len(id)
  PROVE  /\ n \in Nat /\ n >= 2 /\ n % 2 = 0 /\ n \in Nat \ {0}
         /\ n + 1 \in Nat \ {0} /\ (n + 1) % 2 = 1
         /\ IsId(id) /\ id[n] \in Nat
         /\ IsId(next) /\ Len(next) = n /\ next[n] \in Nat
         /\ IsId(y) /\ Len(y) = n + 2
         /\ \A j \in 1..(n - 1) : /\ Component(id, j) = id[j]
                                  /\ Component(y, j) = id[j]
<1>1. IsId(id) /\ IsId(next) /\ IsId(y) /\ Len(next) = n /\ Len(y) = n + 2
  BY DEF NextAndBranch
<1>2. n \in Nat /\ n >= 2 /\ n % 2 = 0
  BY <1>1, Components
<1>3. n \in Nat \ {0} /\ n + 1 \in Nat \ {0} /\ (n + 1) % 2 = 1
  BY <1>2
<1>4. id[n] \in Nat /\ next[n] \in Nat
  BY <1>1, FirstAndLast
<1>5. \A j \in 1..(n - 1) : Component(id, j) = id[j] /\ Component(y, j) = id[j]
  <2> TAKE j \in 1..(n - 1)
  <2>1. j \in 1..n
    BY <1>2
  <2>2. Component(y, j) = next[j] /\ Component(id, j) = id[j]
    BY <2>1, NextBeforeBranch
  <2>3. next[j] = id[j]
    BY DEF NextAndBranch
  <2> QED
    BY <2>2, <2>3
<1> QED
  BY <1>1, <1>2, <1>3, <1>4, <1>5

\* The branch begins like ID.
LEMMA BranchBeginsLikeId ==
  ASSUME NEW id, NEW next, NEW y, NextAndBranch(id, next, y)
  PROVE  \A j \in 1..(Len(id) - 1) : Component(y, j) = Component(id, j)
<1> TAKE j \in 1..(Len(id) - 1)
<1>1. j \in 1..Len(id)
  BY Components DEF NextAndBranch
<1>2. Component(y, j) = next[j] /\ Component(id, j) = id[j]
  BY <1>1, NextBeforeBranch
<1>3. next[j] = id[j]
  BY DEF NextAndBranch
<1> QED
  BY <1>2, <1>3

\* What svn_fs__new_successor_id looks at when N.(V+1) is taken: the last key
\* before N.(V+1).1.1 agrees with ID before its last revision number, and it
\* is a revision on ID's branch or a branch off one, not above V.
LEMMA LastBeforeBranches ==
  ASSUME NEW K, \A k \in K : IsId(k) /\ PartsPositive(k),
         NEW id, NEW next \in K, NEW y, NextAndBranch(id, next, y),
         NEW last, LastBefore(K, last, y)
  PROVE  /\ \A j \in 1..(Len(id) - 1) : Component(last, j) = Component(id, j)
         /\ Len(last) >= Len(id)
         /\ Len(last) # Len(id) =>
              /\ Len(last) >= Len(id) + 2
              /\ last[Len(id)] < next[Len(id)]
<1>1. PICK n : n = Len(id)
  OBVIOUS
<1>2. /\ n \in Nat /\ n >= 2 /\ n % 2 = 0
      /\ IsId(id) /\ IsId(next) /\ Len(next) = n
      /\ IsId(y) /\ Len(y) = n + 2
  BY <1>1, Components DEF NextAndBranch
<1>3. \A j \in 1..n : /\ Component(y, j) = Component(next, j)
                      /\ Component(next, j) = next[j]
                      /\ Component(id, j) = id[j]
  BY <1>1, NextBeforeBranch
<1>4. \A j \in 1..(n - 1) : Component(next, j) = Component(id, j)
  BY <1>1, <1>2, <1>3 DEF NextAndBranch
<1>5. Component(y, n + 1) = 1 /\ Component(y, n + 2) = 1
  BY <1>1, <1>2 DEF NextAndBranch, Component
<1>6. next[n] \in Nat
  BY <1>2, FirstAndLast
<1>7. next = last \/ IdLess(next, last)
  BY NextBeforeBranch DEF LastBefore
<1>8. /\ IsId(last) /\ PartsPositive(last) /\ IdLess(last, y)
      /\ Len(last) \in Nat /\ Len(last) % 2 = 0
  BY Components DEF LastBefore
<1>9. \A j \in 1..(n - 1) : Component(last, j) = Component(next, j)
  <2>1. /\ n - 1 \in Nat /\ Len(next) > n - 1 /\ Len(y) > n - 1
        /\ \A j \in 1..(n - 1) : Component(next, j) = Component(y, j)
    BY <1>2, <1>3
  <2> QED
    BY <1>2, <1>7, <1>8, <2>1, Between
<1>10. \A j \in 1..(n - 1) : Component(last, j) = Component(id, j)
  BY <1>4, <1>9
<1>11. Len(last) >= n
  <2>1. n - 1 \in 1..(n - 1) /\ n - 1 \in Nat \ {0} /\ ~ (n - 1 > Len(next))
    BY <1>2
  <2>2. Component(last, n - 1) = Component(next, n - 1)
    BY <1>9, <2>1
  <2>3. Component(next, n - 1) # -1
    BY <1>2, <2>1, Components
  <2>4. ~ (n - 1 > Len(last))
    BY <1>8, <2>1, <2>2, <2>3, Components
  <2> QED
    BY <1>2, <1>8, <2>4
<1>12. ASSUME Len(last) # n
       PROVE  Len(last) >= n + 2 /\ last[n] < next[n]
  <2>1. Len(last) >= n + 2
    BY <1>2, <1>8, <1>11, <1>12
  <2>2. n \in 1..Len(last) /\ n + 1 \in 3..Len(last) /\ n + 2 \in 3..Len(last)
    BY <1>2, <1>8, <2>1
  <2>3. n + 1 \in 1..Len(last) /\ n + 2 \in 1..Len(last)
    BY <1>2, <2>2
  <2>4. /\ last[n] \in Nat /\ last[n + 1] \in Nat /\ last[n + 2] \in Nat
        /\ Component(last, n) = last[n]
        /\ Component(last, n + 1) = last[n + 1]
        /\ Component(last, n + 2) = last[n + 2]
    BY <1>8, <2>2, <2>3, Components
  <2>5. last[n + 1] >= 1 /\ last[n + 2] >= 1
    BY <1>8, <2>2 DEF PartsPositive
  <2>6. PICK i \in 1..(Len(last) + 1) : DifferFirstAt(last, y, i)
    BY <1>8 DEF IdLess
  <2>7. i \in Nat \ {0}
    BY <1>8
  <2>8. i <= n + 3 /\ OrderAt(last, y, i)
    BY <1>2, <1>8, <2>6, <2>7, DecidedAt
  <2>9. Component(y, n) = next[n]
    BY <1>2, <1>3
  <2>10. i >= n
    <3> SUFFICES ASSUME i < n PROVE FALSE
      BY <1>2, <2>7
    <3>1. i \in 1..(n - 1) /\ i \in 1..n
      BY <1>2, <2>7
    <3>2. Component(last, i) = Component(y, i)
      BY <1>3, <1>9, <3>1
    <3> QED
      BY <2>6, <3>2 DEF DifferFirstAt
  <2>11. CASE i = n
    BY <1>2, <1>6, <2>1, <2>4, <2>8, <2>9, <2>11 DEF OrderAt
  <2>12. CASE i = n + 1
    BY <1>2, <1>5, <2>4, <2>5, <2>8, <2>12 DEF OrderAt
  <2>13. CASE i = n + 2
    BY <1>2, <1>5, <1>8, <2>4, <2>5, <2>8, <2>13 DEF OrderAt
  <2>14. CASE i = n + 3
    <3>1. Component(y, n + 3) = -1 /\ (n + 3) % 2 = 1
      BY <1>2 DEF Component
    <3>2. Component(last, n + 3) \in Int /\ Component(last, n + 3) >= -1
      <4>1. n + 3 \in Nat \ {0}
        BY <1>2
      <4> QED
        BY <1>8, <4>1, Components
    <3> QED
      BY <1>2, <2>8, <2>14, <3>1, <3>2 DEF OrderAt
  <2> QED
    BY <1>2, <2>1, <2>7, <2>8, <2>10, <2>11, <2>12, <2>13, <2>14
<1> QED
  BY <1>1, <1>10, <1>11, <1>12

\* When that key is a revision, no branch 1 off ID is in the table.
LEMMA FirstBranchFresh ==
  ASSUME NEW K, \A k \in K : IsId(k) /\ PartsPositive(k),
         NEW id, NEW next \in K, NEW y, NextAndBranch(id, next, y),
         NEW last, LastBefore(K, last, y), Len(last) = Len(id),
         NEW x, IsId(x), Len(x) = Len(id) + 2,
         \A j \in 1..Len(id) : x[j] = id[j],
         x[Len(id) + 1] = 1
  PROVE  x \notin K
<1>1. PICK n : n = Len(id)
  OBVIOUS
<1>2. /\ n \in Nat /\ n >= 2 /\ n % 2 = 0 /\ n \in Nat \ {0}
      /\ n + 1 \in Nat \ {0} /\ (n + 1) % 2 = 1
      /\ IsId(id) /\ IsId(y) /\ Len(y) = n + 2 /\ id[n] \in Nat
  BY <1>1, NextAndBranchPlaces
<1>3. \A j \in 1..(n - 1) : /\ Component(last, j) = Component(x, j)
                            /\ Component(y, j) = Component(x, j)
  <2>1. \A j \in 1..(n - 1) : Component(last, j) = Component(id, j)
    BY <1>1, LastBeforeBranches
  <2>2. \A j \in 1..(n - 1) : j \in 1..n /\ j <= n + 2
    BY <1>2
  <2>3. \A j \in 1..(n - 1) : Component(y, j) = id[j] /\ Component(id, j) = id[j]
    <3>1. \A j \in 1..n : Component(id, j) = id[j]
      BY <1>1, <1>2, Components
    <3>2. \A j \in 1..(n - 1) : Component(y, j) = Component(id, j)
      BY <1>1, BranchBeginsLikeId
    <3> QED
      BY <2>2, <3>1, <3>2
  <2>4. \A j \in 1..(n - 1) : Component(x, j) = id[j]
    BY <1>1, <1>2, <2>2 DEF Component
  <2> QED
    BY <2>1, <2>3, <2>4
<1>4. Component(x, n) = id[n] /\ Component(x, n + 1) = 1
  BY <1>1, <1>2 DEF Component
<1>5. Component(y, n) = id[n] + 1
  BY <1>1, <1>2 DEF Component, NextAndBranch
<1>6. IsId(last) /\ Component(last, n + 1) = -1 /\ Component(last, n) \in Int
  <2>1. IsId(last) /\ ~ (n > Len(last)) /\ n + 1 > Len(last)
    BY <1>1, <1>2 DEF LastBefore
  <2> QED
    BY <1>2, <2>1, Components
<1>7. IdLess(x, y)
  <2>1. DifferFirstAt(x, y, n)
    BY <1>2, <1>3, <1>4, <1>5 DEF DifferFirstAt
  <2>2. OrderAt(x, y, n)
    BY <1>1, <1>2, <1>4, <1>5 DEF OrderAt
  <2> QED
    BY <1>2, <2>1, <2>2, DecidedAt
<1>8. IdLess(last, x)
  <2>1. CASE Component(last, n) # Component(x, n)
    <3>1. DifferFirstAt(last, x, n)
      BY <1>3, <2>1 DEF DifferFirstAt
    <3>2. OrderAt(last, x, n)
      BY <1>1, <1>2 DEF OrderAt
    <3> QED
      BY <1>2, <1>6, <3>1, <3>2, DecidedAt
  <2>2. CASE Component(last, n) = Component(x, n)
    <3>1. DifferFirstAt(last, x, n + 1)
      BY <1>2, <1>3, <1>4, <1>6, <2>2 DEF DifferFirstAt
    <3>2. OrderAt(last, x, n + 1)
      BY <1>2, <1>4, <1>6 DEF OrderAt
    <3> QED
      BY <1>2, <1>6, <3>1, <3>2, DecidedAt
  <2> QED
    BY <2>1, <2>2
<1>9. x # last
  BY <1>1, <1>2
<1> QED
  BY <1>6, <1>7, <1>8, <1>9, IdLessTotal DEF LastBefore

\* When it is a branch, the branch numbered one above is not in the table.
LEMMA NextBranchFresh ==
  ASSUME NEW K, \A k \in K : IsId(k) /\ PartsPositive(k),
         NEW id, NEW next \in K, NEW y, NextAndBranch(id, next, y),
         NEW last, LastBefore(K, last, y), Len(last) # Len(id),
         NEW x, IsId(x), Len(x) = Len(id) + 2,
         \A j \in 1..Len(id) : x[j] = last[j],
         x[Len(id) + 1] = last[Len(id) + 1] + 1
  PROVE  x \notin K
<1>1. PICK n : n = Len(id)
  OBVIOUS
<1>2. /\ n \in Nat /\ n >= 2 /\ n % 2 = 0 /\ n \in Nat \ {0}
      /\ n + 1 \in Nat \ {0} /\ (n + 1) % 2 = 1
      /\ IsId(id) /\ IsId(y) /\ Len(y) = n + 2
      /\ IsId(next) /\ Len(next) = n /\ next[n] \in Nat
  BY <1>1, NextAndBranchPlaces
<1>3. IsId(last) /\ Len(last) \in Nat /\ Len(last) >= n + 2 /\ last[n] < next[n]
  BY <1>1, LastBeforeBranches, Components DEF LastBefore
<1>4. \A j \in 1..n : Component(last, j) = last[j] /\ Component(x, j) = last[j]
  BY <1>1, <1>2, <1>3 DEF Component
<1>5. /\ Component(last, n + 1) = last[n + 1] /\ last[n + 1] \in Nat
      /\ Component(x, n + 1) = last[n + 1] + 1
      /\ last[n] \in Nat
  <2>1. n \in 1..Len(last) /\ n + 1 \in 1..Len(last) /\ n + 1 <= Len(x)
    BY <1>1, <1>2, <1>3
  <2>2. last[n] \in Nat /\ last[n + 1] \in Nat /\ Component(last, n + 1) = last[n + 1]
    BY <1>3, <2>1, Components
  <2>3. Component(x, n + 1) = last[n + 1] + 1
    BY <1>1, <2>1 DEF Component
  <2> QED
    BY <2>2, <2>3
<1>6. IdLess(last, x)
  <2>1. \A j \in 1..((n + 1) - 1) : Component(last, j) = Component(x, j)
    BY <1>2, <1>4
  <2>2. DifferFirstAt(last, x, n + 1)
    BY <1>5, <2>1 DEF DifferFirstAt
  <2>3. OrderAt(last, x, n + 1)
    BY <1>2, <1>5 DEF OrderAt
  <2> QED
    BY <1>2, <1>3, <2>2, <2>3, DecidedAt
<1>7. IdLess(x, y)
  <2>1. \A j \in 1..(n - 1) : Component(x, j) = Component(y, j)
    <3>1. \A j \in 1..(n - 1) : Component(last, j) = Component(id, j)
      BY <1>1, LastBeforeBranches
    <3>2. \A j \in 1..(n - 1) : j \in 1..n
      BY <1>2
    <3>3. \A j \in 1..(n - 1) : Component(y, j) = Component(id, j)
      BY <1>1, BranchBeginsLikeId
    <3> QED
      BY <1>4, <3>1, <3>2, <3>3
  <2>2. Component(x, n) = last[n] /\ Component(y, n) = next[n]
    BY <1>1, <1>2, <1>4, NextBeforeBranch
  <2>3. DifferFirstAt(x, y, n)
    BY <1>2, <1>3, <1>5, <2>1, <2>2 DEF DifferFirstAt
  <2>4. OrderAt(x, y, n)
    BY <1>1, <1>2, <1>3, <1>5, <2>2 DEF OrderAt
  <2> QED
    BY <1>2, <2>3, <2>4, DecidedAt
<1>8. x # last
  BY <1>5
<1> QED
  BY <1>3, <1>6, <1>7, <1>8, IdLessTotal DEF LastBefore

\* NEW is a branch off what FROM begins with: its first revision.
FirstOfBranch(new, id, from) ==
  LET n == Len(id) IN
  /\ from = id \/ Len(from) > n
  /\ new = SubSeq(from, 1, n) \o <<new[n + 1], 1>>
  /\ new[n + 1] \in Nat /\ new[n + 1] >= 1

\* svn_fs__new_successor_id finds a free key: the next revision of ID, or the
\* first revision of a branch off ID or off what another key begins with.
LEMMA NewSuccessorIdFresh ==
  ASSUME NEW K, IsFiniteSet(K), \A k \in K : IsId(k) /\ PartsPositive(k),
         NEW id \in K
  PROVE  /\ NewSuccessorId(K, id) \notin K
         /\ \/ NewSuccessorId(K, id) = [id EXCEPT ![Len(id)] = @ + 1]
            \/ \E from \in K : FirstOfBranch(NewSuccessorId(K, id), id, from)
<1>1. PICK n : n = Len(id)
  OBVIOUS
<1>2. PICK next : next = [id EXCEPT ![n] = @ + 1]
  OBVIOUS
<1>3. PICK y : y = next \o <<1, 1>>
  OBVIOUS
<1>4. PICK last : last = LastKeyBefore(K, y)
  OBVIOUS
<1>5. NewSuccessorId(K, id) =
        IF next \notin K THEN next
        ELSE IF Len(last) = n THEN id \o <<1, 1>>
        ELSE SubSeq(last, 1, n) \o <<last[n + 1] + 1, 1>>
  BY <1>1, <1>2, <1>3, <1>4, Zenon DEF NewSuccessorId
<1>6. CASE next \notin K
  BY <1>1, <1>2, <1>5, <1>6, Zenon
<1>7. CASE next \in K
  <2>1. IsId(id) /\ IsId(next) /\ n \in Nat /\ n >= 2 /\ n % 2 = 0
    BY <1>1, <1>7, Components
  <2>2. NextAndBranch(id, next, y)
    <3>1. /\ Len(next) = n /\ \A j \in 1..(n - 1) : next[j] = id[j]
          /\ next[n] = id[n] + 1
      BY <1>1, <1>2, <2>1, NextIsId
    <3>2. /\ IsId(y) /\ Len(y) = Len(next) + 2
          /\ \A j \in 1..Len(next) : y[j] = next[j]
          /\ y[Len(next) + 1] = 1 /\ y[Len(next) + 2] = 1
      BY <1>3, <2>1, BranchIsId
    <3> QED
      BY <1>1, <2>1, <3>1, <3>2 DEF NextAndBranch
  <2>3. LastBefore(K, last, y)
    <3>1. IdLess(next, y)
      BY <2>2, NextBeforeBranch
    <3> QED
      BY <1>4, <1>7, <3>1, LastKeyBeforeIsLast DEF LastBefore
  <2>4. last \in K /\ IsId(last)
    BY <2>3 DEF LastBefore
  <2>5. CASE Len(last) = n
    <3>1. NewSuccessorId(K, id) = id \o <<1, 1>>
      BY <1>5, <1>7, <2>5
    <3>2. PICK x : x = id \o <<1, 1>>
      OBVIOUS
    <3>3. /\ IsId(x) /\ Len(x) = n + 2
          /\ \A j \in 1..n : x[j] = id[j]
          /\ x[n + 1] = 1
      BY <1>1, <2>1, <3>2, BranchIsId
    <3>4. x \notin K
      BY <1>1, <1>7, <2>2, <2>3, <2>5, <3>3, FirstBranchFresh
    <3>5. SubSeq(id, 1, n) = id
      BY <1>1, <2>1, Components
    <3>6. FirstOfBranch(x, id, id)
      <4>1. x = SubSeq(id, 1, n) \o <<x[n + 1], 1>>
        BY <3>2, <3>3, <3>5
      <4>2. x[n + 1] \in Nat /\ x[n + 1] >= 1
        BY <3>3
      <4> QED
        BY <1>1, <4>1, <4>2 DEF FirstOfBranch
    <3> QED
      BY <1>1, <3>1, <3>2, <3>4, <3>6
  <2>6. CASE Len(last) # n
    <3>1. NewSuccessorId(K, id) = SubSeq(last, 1, n) \o <<last[n + 1] + 1, 1>>
      BY <1>5, <1>7, <2>6
    <3>2. Len(last) >= n + 2 /\ Len(last) \in Nat
      BY <1>1, <1>7, <2>2, <2>3, <2>4, <2>6, LastBeforeBranches, Components
    <3>3. n \in 2..Len(last) /\ n + 1 \in 1..Len(last) /\ n + 1 \in 3..Len(last)
      BY <2>1, <3>2
    <3>4. last[n + 1] \in Nat /\ last[n + 1] >= 1 /\ last[n + 1] + 1 \in Nat
      <4>1. last[n + 1] \in Nat
        BY <2>4, <3>3, Components
      <4>2. last[n + 1] >= 1
        BY <2>4, <3>3 DEF PartsPositive
      <4> QED
        BY <4>1, <4>2
    <3>5. PICK s : s = SubSeq(last, 1, n)
      OBVIOUS
    <3>6. IsId(s) /\ Len(s) = n /\ \A j \in 1..n : s[j] = last[j]
      BY <2>1, <2>4, <3>3, <3>5, PrefixIsId
    <3>7. PICK x : x = s \o <<last[n + 1] + 1, 1>>
      OBVIOUS
    <3>8. /\ IsId(x) /\ Len(x) = n + 2
          /\ \A j \in 1..n : x[j] = s[j]
          /\ x[n + 1] = last[n + 1] + 1
      <4>1. PICK u \in Nat : u = last[n + 1] + 1
        BY <3>4
      <4>2. x = s \o <<u, 1>>
        BY <3>7, <4>1
      <4>3. /\ IsId(x) /\ Len(x) = Len(s) + 2
            /\ \A j \in 1..Len(s) : x[j] = s[j]
            /\ x[Len(s) + 1] = u
        BY <3>6, <4>2, BranchIsId
      <4> QED
        BY <3>6, <4>1, <4>3
    <3>9. x \notin K
      BY <1>1, <1>7, <2>2, <2>3, <2>6, <3>6, <3>8, NextBranchFresh
    <3>10. FirstOfBranch(x, id, last)
      <4>1. x = SubSeq(last, 1, n) \o <<x[n + 1], 1>>
        BY <3>5, <3>7, <3>8
      <4>2. Len(last) > n
        BY <2>1, <3>2
      <4>3. x[n + 1] \in Nat /\ x[n + 1] >= 1
        BY <3>4, <3>8
      <4> QED
        BY <1>1, <4>1, <4>2, <4>3 DEF FirstOfBranch
    <3> QED
      BY <1>1, <2>4, <3>1, <3>5, <3>7, <3>9, <3>10
  <2> QED
    BY <2>5, <2>6
<1> QED
  BY <1>6, <1>7

\* K are the keys of a table and D the committed ones: every ID that a key
\* begins with is a committed node revision's.
IdsSound(K, D) ==
  /\ IsFiniteSet(K) /\ D \subseteq K
  /\ \A k \in K : IsId(k) /\ PartsPositive(k)
  /\ \A k \in K : \A m \in 2..(Len(k) - 1) : m % 2 = 0 => SubSeq(k, 1, m) \in D

\* A key that may be added to the table: free, with its predecessor and all
\* that it begins with committed.
FreeKey(new, K, D) ==
  /\ new \notin K /\ IsId(new) /\ PartsPositive(new)
  /\ \A m \in 2..(Len(new) - 1) : m % 2 = 0 => SubSeq(new, 1, m) \in D
  /\ IdPredecessor(new) = NoId \/ IdPredecessor(new) \in D

\* svn_fs__new_successor_id of a committed node revision gives such a key;
\* it has a predecessor unless it is a revision 1 after a revision 0.
LEMMA SuccessorIsFree ==
  ASSUME NEW K, NEW D, IdsSound(K, D), NEW id \in D
  PROVE  /\ FreeKey(NewSuccessorId(K, id), K, D)
         /\ id[Len(id)] > 0 =>
              /\ IdPredecessor(NewSuccessorId(K, id)) \in D
              /\ NewSuccessorId(K, id)[Len(NewSuccessorId(K, id))] > 0
<1>1. PICK new : new = NewSuccessorId(K, id)
  OBVIOUS
<1>2. /\ IsFiniteSet(K) /\ id \in K
      /\ \A k \in K : IsId(k) /\ PartsPositive(k)
  BY DEF IdsSound
<1>3. /\ new \notin K
      /\ \/ new = [id EXCEPT ![Len(id)] = @ + 1]
         \/ \E from \in K : FirstOfBranch(new, id, from)
  BY <1>1, <1>2, NewSuccessorIdFresh
<1>4. PICK n : n = Len(id)
  OBVIOUS
<1>5. IsId(id) /\ PartsPositive(id) /\ n \in Nat /\ n >= 2 /\ n % 2 = 0 /\ id[n] \in Nat
  BY <1>2, <1>4, Components, FirstAndLast
<1>6. CASE new = [id EXCEPT ![Len(id)] = @ + 1]
  <2>1. /\ IsId(new) /\ Len(new) = n
        /\ \A j \in 1..(n - 1) : new[j] = id[j]
        /\ new[n] = id[n] + 1
    BY <1>4, <1>5, <1>6, NextIsId
  <2>2. PartsPositive(new)
    <3>1. ASSUME NEW i \in 3..n PROVE new[i] >= 1
      BY <1>4, <1>5, <2>1 DEF PartsPositive
    <3>2. new[1] # 0 => new[2] >= 1
      BY <1>4, <1>5, <2>1 DEF PartsPositive
    <3> QED
      BY <2>1, <3>1, <3>2 DEF PartsPositive
  <2>3. \A m \in 2..(n - 1) : SubSeq(new, 1, m) = SubSeq(id, 1, m)
    BY <1>4, <1>5, <2>1 DEF IsId
  <2>4. \A m \in 2..(n - 1) : m % 2 = 0 => SubSeq(new, 1, m) \in D
    BY <1>2, <1>4, <2>3 DEF IdsSound
  <2>5. CASE id[n] > 0
    <3>1. IdPredecessor(new) = [new EXCEPT ![n] = @ - 1]
      BY <1>5, <2>1, <2>5 DEF IdPredecessor
    <3>2. [new EXCEPT ![n] = @ - 1] = id
      <4>1. new \in Seq(Nat) /\ id \in Seq(Nat)
        BY <1>5, <2>1 DEF IsId
      <4>2. n \in 1..n /\ new[n] - 1 = id[n]
        BY <1>5, <2>1
      <4>3. [new EXCEPT ![n] = id[n]] = id
        <5>1. PICK w : w = [new EXCEPT ![n] = id[n]]
          OBVIOUS
        <5>2. /\ w \in Seq(Nat) /\ Len(w) = n
              /\ \A i \in 1..n : w[i] = IF i = n THEN id[n] ELSE new[i]
          BY <1>5, <2>1, <4>1, <5>1
        <5>3. \A i \in 1..n : w[i] = id[i]
          BY <1>5, <2>1, <5>2
        <5> QED
          BY <1>4, <4>1, <5>1, <5>2, <5>3, SeqEqual
      <4> QED
        BY <4>2, <4>3
    <3> QED
      <4>1. FreeKey(new, K, D) /\ IdPredecessor(new) \in D
        BY <1>3, <2>1, <2>2, <2>4, <3>1, <3>2 DEF FreeKey
      <4> QED
        BY <1>1, <1>5, <2>1, <4>1
  <2>6. CASE id[n] = 0
    <3>1. n = 2
      BY <1>4, <1>5, <2>6 DEF PartsPositive
    <3>2. IdPredecessor(new) = NoId
      BY <2>1, <2>6, <3>1 DEF IdPredecessor
    <3> QED
      BY <1>1, <1>3, <1>4, <1>5, <2>1, <2>2, <2>4, <2>6, <3>2 DEF FreeKey
  <2> QED
    BY <1>5, <2>5, <2>6
<1>7. CASE \E from \in K : FirstOfBranch(new, id, from)
  <2>1. PICK from \in K : FirstOfBranch(new, id, from)
    BY <1>7
  <2>2. PICK s : s = SubSeq(from, 1, n)
    OBVIOUS
  <2>3. /\ IsId(from) /\ PartsPositive(from) /\ Len(from) \in Nat
        /\ n \in 2..Len(from)
    <3>1. IsId(from) /\ PartsPositive(from) /\ Len(from) \in Nat
      BY <1>2, <2>1, Components
    <3>2. Len(from) >= n
      BY <1>4, <1>5, <2>1, <3>1 DEF FirstOfBranch
    <3> QED
      BY <1>5, <3>1, <3>2
  <2>4. IsId(s) /\ Len(s) = n /\ \A j \in 1..n : s[j] = from[j]
    BY <1>5, <2>2, <2>3, PrefixIsId
  <2>5. s \in D
    <3>1. CASE from = id
      <4>1. s = id
        BY <1>4, <1>5, <2>2, <3>1 DEF IsId
      <4> QED
        BY <4>1
    <3>2. CASE Len(from) > n
      BY <1>5, <2>2, <2>3, <3>2 DEF IdsSound
    <3> QED
      BY <1>4, <2>1, <3>1, <3>2 DEF FirstOfBranch
  <2>6. PICK u : u = new[n + 1]
    OBVIOUS
  <2>7. u \in Nat /\ u >= 1 /\ new = s \o <<u, 1>>
    BY <1>4, <2>1, <2>2, <2>6 DEF FirstOfBranch
  <2>8. /\ IsId(new) /\ Len(new) = n + 2
        /\ \A j \in 1..n : new[j] = from[j]
        /\ new[n + 1] = u /\ new[n + 2] = 1
    BY <2>4, <2>7, BranchIsId
  <2>9. PartsPositive(new)
    <3>1. ASSUME NEW i \in 3..(n + 2) PROVE new[i] >= 1
      <4>1. CASE i \in 1..n
        <5>1. i \in 3..Len(from)
          BY <1>5, <2>3, <4>1
        <5> QED
          BY <2>3, <2>8, <4>1, <5>1 DEF PartsPositive
      <4> QED
        BY <1>5, <2>7, <2>8, <4>1
    <3>2. new[1] # 0 => new[2] >= 1
      BY <1>5, <2>3, <2>8 DEF PartsPositive
    <3> QED
      BY <2>8, <3>1, <3>2 DEF PartsPositive
  <2>10. SubSeq(new, 1, n) = s
    BY <1>5, <2>4, <2>7 DEF IsId
  <2>11. \A m \in 2..(Len(new) - 1) : m % 2 = 0 => SubSeq(new, 1, m) \in D
    <3> SUFFICES ASSUME NEW m \in 2..(n + 1), m % 2 = 0
                 PROVE  SubSeq(new, 1, m) \in D
      BY <1>5, <2>8
    <3>1. CASE m = n
      BY <2>5, <2>10, <3>1
    <3>2. CASE m < n
      <4>1. SubSeq(new, 1, m) = SubSeq(from, 1, m)
        BY <1>5, <2>3, <2>8, <3>2 DEF IsId
      <4>2. m \in 2..(Len(from) - 1)
        BY <1>5, <2>3, <3>2
      <4> QED
        BY <4>1, <4>2 DEF IdsSound
    <3> QED
      BY <1>5, <3>1, <3>2
  <2>12. IdPredecessor(new) = s
    BY <1>5, <2>8, <2>10 DEF IdPredecessor
  <2> QED
    BY <1>1, <1>3, <2>5, <2>8, <2>9, <2>11, <2>12 DEF FreeKey
<1> QED
  BY <1>3, <1>4, <1>6, <1>7
=============================================================================
