-------------------------- MODULE QuotaTotalProofs --------------------------
(* The total that the limit of a project is compared with is a fold over its *)
(* users.  It covers any instances that the usage of every user covers, for  *)
(* any number of users.  Both the function behind the fold and the bound are *)
(* found by induction on the number of users summed: the least number for    *)
(* which they fail does not exist.                                           *)
EXTENDS Quotas, FiniteSetTheorems, TLAPS

\* The user that is taken next, what it adds, and the sum over the users in s
\* when f gives the sums over fewer users.
Taken(s)      == CHOOSE u \in s : TRUE
Amount(u)     == inUse[u] + reserved[u]
Summed(f, s)  == IF s = {} THEN 0 ELSE Amount(Taken(s)) + f[s \ {Taken(s)}]
SumOver       == CHOOSE f : f = [s \in SUBSET Users |-> Summed(f, s)]

\* The fold is the sum over all users.
LEMMA TotalIsSum == Total = SumOver[Users]
BY Zenon DEF Total, MapThenSumSet, MapThenFoldSet, SumOver, Summed, Amount, Taken

\* A set of numbers has a least one.
LEMMA LeastNumber ==
    ASSUME NEW T, T \subseteq Nat, T # {}
    PROVE  \E n \in T : \A m \in T : n <= m
<1>1. IsWellFoundedOn(OpToRel(<, Nat), Nat)
  BY NatLessThanWellFounded
<1>2. PICK n \in T : \A m \in T : ~(<<m, n>> \in OpToRel(<, Nat))
  BY <1>1, WFMin
<1>3. \A m \in T : ~(m < n)
  BY <1>2 DEF OpToRel
<1> QED
  BY <1>3

\* Sets of users can be counted, and there is one less when one is taken.
LEMMA OneTaken ==
    ASSUME NEW s \in SUBSET Users
    PROVE  /\ Cardinality(s) \in Nat /\ (Cardinality(s) = 0 <=> s = {})
           /\ s # {} => /\ Taken(s) \in s /\ s \ {Taken(s)} \in SUBSET Users
                        /\ Cardinality(s \ {Taken(s)}) = Cardinality(s) - 1
<1>1. IsFiniteSet(s)
  BY FiniteUsers, FS_Subset
<1>2. s # {} => Taken(s) \in s
  BY DEF Taken
<1> QED
  BY <1>1, <1>2, FS_RemoveElement, FS_CardinalityType, FS_EmptySet

\* The sets of at most n users.
UpTo(n) == {s \in SUBSET Users : Cardinality(s) <= n}

\* There is a function that gives every set of users its sum.
LEMMA SumExists == \E f : f = [s \in SUBSET Users |-> Summed(f, s)]
<1> DEFINE Fails == {n \in Nat : ~\E f : f = [s \in UpTo(n) |-> Summed(f, s)]}
<1>c. \A s \in SUBSET Users : Cardinality(s) \in Nat /\ (Cardinality(s) = 0 <=> s = {})
  BY OneTaken
<1>1. Fails = {}
  <2> SUFFICES ASSUME Fails # {}
               PROVE  FALSE
    OBVIOUS
  <2>1. PICK n \in Fails : \A m \in Fails : n <= m
    BY LeastNumber
  <2>2. CASE n = 0
    <3>1. \A s \in UpTo(0) : s = {}
      BY <1>c DEF UpTo
    <3> DEFINE g == [s \in UpTo(0) |-> 0]
    <3>2. g = [s \in UpTo(0) |-> Summed(g, s)]
      BY <3>1 DEF Summed
    <3> QED
      BY <2>1, <2>2, <3>2
  <2>3. CASE n # 0
    <3>1. n \in Nat /\ n - 1 \in Nat /\ n - 1 \notin Fails
      BY <2>1, <2>3
    <3>2. PICK f : f = [s \in UpTo(n - 1) |-> Summed(f, s)]
      BY <3>1
    <3> DEFINE g == [s \in UpTo(n) |-> Summed(f, s)]
    <3>3. ASSUME NEW s \in UpTo(n - 1)
          PROVE  g[s] = f[s]
      <4>1. s \in UpTo(n)
        BY <1>c, <3>1 DEF UpTo
      <4>2. g[s] = Summed(f, s)
        BY <4>1
      <4>3. f[s] = Summed(f, s)
        BY <3>2
      <4> QED
        BY <4>2, <4>3
    <3>4. ASSUME NEW s \in UpTo(n), s # {}
          PROVE  s \ {Taken(s)} \in UpTo(n - 1)
      <4>1. s \in SUBSET Users /\ Cardinality(s) <= n
        BY DEF UpTo
      <4>2. /\ s \ {Taken(s)} \in SUBSET Users /\ Cardinality(s) \in Nat
            /\ Cardinality(s \ {Taken(s)}) = Cardinality(s) - 1
        BY <3>4, <4>1, OneTaken
      <4> QED
        BY <3>1, <4>1, <4>2 DEF UpTo
    <3>5. \A s \in UpTo(n) : Summed(g, s) = Summed(f, s)
      <4> HIDE DEF g
      <4> QED
        BY <3>3, <3>4 DEF Summed
    <3>6. g = [s \in UpTo(n) |-> Summed(g, s)]
      BY <3>5
    <3>7. \E h : h = [s \in UpTo(n) |-> Summed(h, s)]
      BY <3>6
    <3> QED
      BY <2>1, <3>7
  <2> QED
    BY <2>2, <2>3
<1>2. Cardinality(Users) \in Nat /\ UpTo(Cardinality(Users)) = SUBSET Users
  BY FiniteUsers, FS_Subset, FS_CardinalityType DEF UpTo
<1>3. \E f : f = [s \in UpTo(Cardinality(Users)) |-> Summed(f, s)]
  BY <1>1, <1>2
<1> QED
  BY <1>2, <1>3

\* So the chosen one obeys its definition.
LEMMA SumOverDef == SumOver = [s \in SUBSET Users |-> Summed(SumOver, s)]
BY SumExists, Zenon DEF SumOver

\* What the usage of every user covers, user by user, is covered by the total.
LEMMA TotalCovers ==
    ASSUME inUse \in [Users -> Int], reserved \in [Users -> Int],
           NEW E \in [Users -> SUBSET Instances],
           \A u \in Users : Cardinality(E[u]) <= inUse[u] + reserved[u]
    PROVE  Total \in Int /\ Cardinality(UNION {E[u] : u \in Users}) <= Total
<1> DEFINE All(s)  == UNION {E[u] : u \in s}
           Good(s) == SumOver[s] \in Int /\ Cardinality(All(s)) <= SumOver[s]
           Bad     == {n \in Nat : \E s \in SUBSET Users : Cardinality(s) = n /\ ~Good(s)}
<1>a. \A u \in Users : Amount(u) \in Int /\ Cardinality(E[u]) <= Amount(u)
  BY DEF Amount
<1>b. \A s \in SUBSET Users : Cardinality(s) \in Nat
  BY OneTaken
<1>c. \A s \in SUBSET Users : IsFiniteSet(All(s)) /\ Cardinality(All(s)) \in Nat
  <2> TAKE s \in SUBSET Users
  <2>1. All(s) \subseteq Instances
    OBVIOUS
  <2> QED
    BY <2>1, FiniteInstances, FS_Subset, FS_CardinalityType
<1>d. \A u \in Users : IsFiniteSet(E[u]) /\ Cardinality(E[u]) \in Nat
  BY FiniteInstances, FS_Subset, FS_CardinalityType
<1>1. Bad = {}
  <2> SUFFICES ASSUME Bad # {}
               PROVE  FALSE
    OBVIOUS
  <2>1. PICK n \in Bad : \A m \in Bad : n <= m
    BY LeastNumber
  <2>2. PICK s \in SUBSET Users : Cardinality(s) = n /\ ~Good(s)
    BY <2>1
  <2>3. SumOver[s] = Summed(SumOver, s)
    BY SumOverDef
  <2>4. CASE s = {}
    <3>1. All(s) = {}
      BY <2>4
    <3>2. SumOver[s] = 0
      BY <2>3, <2>4 DEF Summed
    <3>3. Cardinality(All(s)) = 0
      BY <3>1, FS_EmptySet
    <3> HIDE DEF All
    <3> QED
      BY <2>2, <3>2, <3>3
  <2>5. CASE s # {}
    <3> DEFINE u == Taken(s)
               r == s \ {u}
    <3>1. /\ u \in Users /\ r \in SUBSET Users /\ Cardinality(r) = Cardinality(s) - 1
          /\ Cardinality(s) \in Nat /\ s = r \cup {u}
      <4>1. /\ Cardinality(s) \in Nat /\ u \in s /\ r \in SUBSET Users
            /\ Cardinality(r) = Cardinality(s) - 1
        BY <2>5, OneTaken
      <4> QED
        BY <4>1
    <3>2. SumOver[s] = Amount(u) + SumOver[r]
      BY <2>3, <2>5 DEF Summed
    <3> HIDE DEF u, r
    <3>3. Good(r)
      <4> HIDE DEF Good
      <4> QED
        BY <1>b, <2>1, <2>2, <3>1
    <3>4. All(s) = All(r) \cup E[u]
      BY <3>1
    <3> HIDE DEF All
    <3>5. Cardinality(All(s)) <= Cardinality(All(r)) + Cardinality(E[u])
      <4>1. IsFiniteSet(All(r)) /\ IsFiniteSet(E[u])
        BY <1>c, <1>d, <3>1
      <4>2. IsFiniteSet(All(r) \cap E[u])
        BY <4>1, FS_Intersection
      <4>3. /\ Cardinality(All(r) \cap E[u]) \in Nat
            /\ Cardinality(All(r)) \in Nat /\ Cardinality(E[u]) \in Nat
        BY <4>1, <4>2, FS_CardinalityType
      <4>4. Cardinality(All(r) \cup E[u])
                = Cardinality(All(r)) + Cardinality(E[u]) - Cardinality(All(r) \cap E[u])
        BY <4>1, FS_Union
      <4> QED
        BY <3>4, <4>3, <4>4
    <3>6. /\ Amount(u) \in Int /\ Cardinality(E[u]) \in Nat /\ Cardinality(E[u]) <= Amount(u)
          /\ Cardinality(All(r)) \in Nat /\ Cardinality(All(s)) \in Nat
      BY <1>a, <1>c, <1>d, <3>1
    <3> QED
      BY <2>2, <3>2, <3>3, <3>5, <3>6
  <2> QED
    BY <2>4, <2>5
<1>2. Good(Users)
  <2> HIDE DEF Good
  <2> QED
    BY <1>1, <1>b
<1> QED
  BY <1>2, TotalIsSum
==============================================================================
