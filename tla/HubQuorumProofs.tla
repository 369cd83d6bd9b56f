-------------------------- MODULE HubQuorumProofs ---------------------------
(***************************************************************************)
(* Facts about the two quorum rules: the counted one for validator sets of *)
(* every size, the stake-weighted one for every distribution of stake over *)
(* the sources, and both for every snapshot an indexer can list.           *)
(*                                                                         *)
(* The stake of a set of sources is a fold over it.  What it computes is   *)
(* shown by the least counterexample: among the subsets of a finite set    *)
(* that a claim fails for one is least by inclusion (LeastSources), and    *)
(* the claim for the smaller ones gives it for that one.                   *)
(***************************************************************************)
EXTENDS MCHubQuorum, FiniteSetTheorems, WellFoundedInduction, TLAPS

\* The size of a quorum of n > 1 keys: a majority, at most all of them, and more
\* than two thirds of them but for its rounding, n = 3f + r (lib/bft_quorum.js).
LEMMA QuorumSize ==
    ASSUME NEW n \in Nat, n > 1
    PROVE  /\ bftQuorum(n) \in 2..n
           /\ 2 * bftQuorum(n) > n
           /\ bftQuorum(n) >= 2 * ((n - 1) \div 3) + 1
  BY DEF bftQuorum, Larger

\* Two counted quorums of one validator set share a key, for sets of every size:
\* what the majority floor of lib/bft_quorum.js is for, since 2f+1 alone is 1 of 2
\* and 1 of 3.
THEOREM CountedQuorumsIntersect ==
    ASSUME NEW M, IsFiniteSet(M), Cardinality(M) > 1,
           NEW A \in SUBSET M, NEW B \in SUBSET M,
           Cardinality(A) >= bftQuorum(Cardinality(M)),
           Cardinality(B) >= bftQuorum(Cardinality(M))
    PROVE  A \cap B # {}
<1> DEFINE n == Cardinality(M)
<1>1. IsFiniteSet(A) /\ IsFiniteSet(B) /\ IsFiniteSet(A \cup B)
  BY FS_Subset, FS_Union
<1>2. n \in Nat /\ Cardinality(A) \in Nat /\ Cardinality(B) \in Nat
      /\ Cardinality(A \cup B) \in Nat
  BY <1>1, FS_CardinalityType
<1>3. Cardinality(A \cup B) <= n
  BY FS_Subset, A \cup B \in SUBSET M
<1>4. 2 * bftQuorum(n) > n /\ bftQuorum(n) \in Nat
  BY <1>2, QuorumSize
<1>5. SUFFICES ASSUME A \cap B = {} PROVE FALSE
  OBVIOUS
<1>6. Cardinality(A \cup B) = Cardinality(A) + Cardinality(B)
  <2>1. Cardinality(A \cap B) = 0
    BY <1>5, FS_EmptySet
  <2>2. Cardinality(A \cup B) = Cardinality(A) + Cardinality(B) - Cardinality(A \cap B)
    BY <1>1, FS_Union
  <2>3. QED
    BY <1>2, <2>1, <2>2
<1>7. QED
  BY <1>2, <1>3, <1>4, <1>6

----------------------------------------------------------------------------
(***************************************************************************)
(* Adding up stake.                                                        *)
(***************************************************************************)

\* Of some subsets of a finite set, one has no smaller one among them: what the
\* inductions over a set of sources below are carried out with.
LEMMA LeastSources ==
    ASSUME NEW S, IsFiniteSet(S), NEW T \in SUBSET SUBSET S, T # {}
    PROVE  \E U \in T : \A V \in T : V \subseteq U => V = U
  <1>1. T \subseteq FiniteSubsetsOf(S)
    BY FS_FiniteSubsetsOfFinite
  <1>2. IsWellFoundedOn(StrictSubsetOrdering(S), FiniteSubsetsOf(S))
    BY FS_StrictSubsetOrderingWellFounded
  <1>3. PICK U \in T : \A V \in T : ~(<<V, U>> \in StrictSubsetOrdering(S))
    BY <1>1, <1>2, WFMin
  <1>4. ASSUME NEW V \in T, V \subseteq U, V # U PROVE FALSE
    <2>1. <<V, U>> \in (SUBSET S) \X (SUBSET S)
      OBVIOUS
    <2>2. <<V, U>> \in StrictSubsetOrdering(S)
      BY <1>4, <2>1 DEF StrictSubsetOrdering
    <2> QED
      BY <1>3, <2>2
  <1> QED
    BY <1>4

\* One source of a set of them.
Pick(T) == CHOOSE x \in T : TRUE

\* f adds up the weights of every subset of S, source by source.
SumsUp(f, sn, S) ==
    f = [T \in SUBSET S |-> IF T = {} THEN 0 ELSE WeightOf(sn, Pick(T)) + f[T \ {Pick(T)}]]

\* The stake of a set of sources is what such a sum gives it.
LEMMA StakeIsSum ==
    ASSUME NEW sn, NEW S
    PROVE  StakeOf(sn, S) = (CHOOSE f : SumsUp(f, sn, S))[S]
  BY DEF StakeOf, MapThenSumSet, MapThenFoldSet, SumsUp, Pick

\* A set that is not empty holds what is picked from it.
LEMMA PickIn ==
    ASSUME NEW T, T # {}
    PROVE  Pick(T) \in T
  BY DEF Pick

\* Two sums agree on every set both of them add up.
LEMMA SumUnique ==
    ASSUME NEW sn, NEW S, IsFiniteSet(S), NEW T \in SUBSET S,
           NEW f, NEW g, SumsUp(f, sn, S), SumsUp(g, sn, T)
    PROVE  f[T] = g[T]
  <1> DEFINE Bad == {V \in SUBSET T : f[V] # g[V]}
  <1>1. SUFFICES ASSUME Bad # {} PROVE FALSE
    OBVIOUS
  <1>2. IsFiniteSet(T)
    BY FS_Subset
  <1>3. PICK U \in Bad : \A V \in Bad : V \subseteq U => V = U
    <2> HIDE DEF Bad
    <2>1. Bad \in SUBSET SUBSET T
      BY DEF Bad
    <2> QED
      BY <1>1, <1>2, <2>1, LeastSources
  <1>4. /\ f[U] = IF U = {} THEN 0 ELSE WeightOf(sn, Pick(U)) + f[U \ {Pick(U)}]
        /\ g[U] = IF U = {} THEN 0 ELSE WeightOf(sn, Pick(U)) + g[U \ {Pick(U)}]
    <2>1. U \in SUBSET S /\ U \in SUBSET T
      OBVIOUS
    <2> QED
      BY <2>1 DEF SumsUp
  <1>5. U # {}
    BY <1>4
  <1>6. Pick(U) \in U
    BY <1>5, PickIn
  <1>7. f[U \ {Pick(U)}] = g[U \ {Pick(U)}]
    BY <1>3, <1>6
  <1> QED
    BY <1>4, <1>7

\* Finitely many sources can be added up.
LEMMA SumExists ==
    ASSUME NEW sn, NEW S, IsFiniteSet(S)
    PROVE  \E f : SumsUp(f, sn, S)
  <1> DEFINE Bad == {V \in SUBSET S : ~\E f : SumsUp(f, sn, V)}
  <1>1. SUFFICES ASSUME Bad # {} PROVE FALSE
    OBVIOUS
  <1>3. PICK U \in Bad : \A V \in Bad : V \subseteq U => V = U
    <2> HIDE DEF Bad
    <2>1. Bad \in SUBSET SUBSET S
      BY DEF Bad
    <2> QED
      BY <1>1, <2>1, LeastSources
  <1>4. ASSUME NEW V \in SUBSET U, V # U
        PROVE  \E g : SumsUp(g, sn, V) /\ StakeOf(sn, V) = g[V]
    <2>1. \E g : SumsUp(g, sn, V)
      BY <1>3, <1>4
    <2>2. SumsUp(CHOOSE g : SumsUp(g, sn, V), sn, V)
      BY <2>1
    <2> QED
      BY <2>2, StakeIsSum
  <1>5. ASSUME NEW V \in SUBSET U, V # U
        PROVE  StakeOf(sn, V) = IF V = {} THEN 0 ELSE WeightOf(sn, Pick(V)) + StakeOf(sn, V \ {Pick(V)})
    <2>1. PICK g : SumsUp(g, sn, V) /\ StakeOf(sn, V) = g[V]
      BY <1>4, <1>5
    <2>2. g[V] = IF V = {} THEN 0 ELSE WeightOf(sn, Pick(V)) + g[V \ {Pick(V)}]
      BY <2>1 DEF SumsUp
    <2>3. CASE V = {}
      BY <2>1, <2>2, <2>3
    <2>4. CASE V # {}
      <3> DEFINE W == V \ {Pick(V)}
      <3>1. Pick(V) \in V
        BY <2>4, PickIn
      <3>2. W \in SUBSET U /\ W # U /\ W \in SUBSET V
        BY <1>5, <3>1
      <3>3. PICK h : SumsUp(h, sn, W) /\ StakeOf(sn, W) = h[W]
        BY <1>4, <3>2
      <3>4. IsFiniteSet(V)
        BY FS_Subset
      <3>5. g[W] = h[W]
        BY <2>1, <3>2, <3>3, <3>4, SumUnique
      <3> QED
        BY <2>1, <2>2, <2>4, <3>3, <3>5
    <2> QED
      BY <2>3, <2>4
  <1> DEFINE F == [V \in SUBSET U |-> IF V = {} THEN 0
                                     ELSE WeightOf(sn, Pick(V)) + StakeOf(sn, V \ {Pick(V)})]
  <1>6. ASSUME NEW V \in SUBSET U, V # {}
        PROVE  F[V \ {Pick(V)}] = StakeOf(sn, V \ {Pick(V)})
    <2>1. Pick(V) \in V
      BY <1>6, PickIn
    <2>2. V \ {Pick(V)} \in SUBSET U /\ V \ {Pick(V)} # U
      BY <2>1
    <2> QED
      BY <1>5, <2>2
  <1>7. SumsUp(F, sn, U)
    BY <1>6 DEF SumsUp
  <1> QED
    BY <1>7

\* Adding up the stake of finitely many sources: nothing for none, and the weight of
\* one of them beside the stake of the rest.
LEMMA StakeStep ==
    ASSUME NEW sn, NEW S, IsFiniteSet(S)
    PROVE  StakeOf(sn, S) = IF S = {} THEN 0 ELSE WeightOf(sn, Pick(S)) + StakeOf(sn, S \ {Pick(S)})
  <1> DEFINE g == CHOOSE f : SumsUp(f, sn, S)
  <1>1. SumsUp(g, sn, S) /\ StakeOf(sn, S) = g[S]
    BY SumExists, StakeIsSum
  <1>2. g[S] = IF S = {} THEN 0 ELSE WeightOf(sn, Pick(S)) + g[S \ {Pick(S)}]
    <2> HIDE DEF g
    <2> QED
      BY <1>1 DEF SumsUp
  <1>3. CASE S # {}
    <2> DEFINE R == S \ {Pick(S)}
    <2> DEFINE h == CHOOSE f : SumsUp(f, sn, R)
    <2>1. IsFiniteSet(R)
      BY FS_Subset
    <2>2. SumsUp(h, sn, R) /\ StakeOf(sn, R) = h[R]
      BY <2>1, SumExists, StakeIsSum
    <2>3. g[R] = h[R]
      <3> HIDE DEF g, h
      <3> QED
        BY <1>1, <2>2, SumUnique
    <2> QED
      BY <1>1, <1>2, <1>3, <2>2, <2>3
  <1> QED
    BY <1>1, <1>2, <1>3

\* The stake of finitely many sources is a number when their weights are.
LEMMA StakeInt ==
    ASSUME NEW sn, NEW S, IsFiniteSet(S), \A x \in S : WeightOf(sn, x) \in Int
    PROVE  StakeOf(sn, S) \in Int
  <1> DEFINE Bad == {V \in SUBSET S : StakeOf(sn, V) \notin Int}
  <1>1. SUFFICES ASSUME Bad # {} PROVE FALSE
    OBVIOUS
  <1>2. PICK U \in Bad : \A V \in Bad : V \subseteq U => V = U
    <2> HIDE DEF Bad
    <2>1. Bad \in SUBSET SUBSET S
      BY DEF Bad
    <2> QED
      BY <1>1, <2>1, LeastSources
  <1>3. IsFiniteSet(U)
    BY FS_Subset
  <1>4. CASE U = {}
    <2>1. StakeOf(sn, U) = 0
      BY <1>3, <1>4, StakeStep
    <2> QED
      BY <2>1
  <1>5. CASE U # {}
    <2>1. Pick(U) \in U
      BY <1>5, PickIn
    <2>2. StakeOf(sn, U \ {Pick(U)}) \in Int /\ WeightOf(sn, Pick(U)) \in Int
      BY <1>2, <2>1
    <2> QED
      BY <1>3, <1>5, <2>2, StakeStep
  <1> QED
    BY <1>4, <1>5

\* Nor is it below zero when none of them is.
LEMMA StakeNat ==
    ASSUME NEW sn, NEW S, IsFiniteSet(S), \A x \in S : WeightOf(sn, x) \in Nat
    PROVE  StakeOf(sn, S) \in Nat
  <1> DEFINE Bad == {V \in SUBSET S : StakeOf(sn, V) \notin Nat}
  <1>1. SUFFICES ASSUME Bad # {} PROVE FALSE
    OBVIOUS
  <1>2. PICK U \in Bad : \A V \in Bad : V \subseteq U => V = U
    <2> HIDE DEF Bad
    <2>1. Bad \in SUBSET SUBSET S
      BY DEF Bad
    <2> QED
      BY <1>1, <2>1, LeastSources
  <1>3. IsFiniteSet(U)
    BY FS_Subset
  <1>4. CASE U = {}
    <2>1. StakeOf(sn, U) = 0
      BY <1>3, <1>4, StakeStep
    <2> QED
      BY <2>1
  <1>5. CASE U # {}
    <2>1. Pick(U) \in U
      BY <1>5, PickIn
    <2>2. StakeOf(sn, U \ {Pick(U)}) \in Nat /\ WeightOf(sn, Pick(U)) \in Nat
      BY <1>2, <2>1
    <2> QED
      BY <1>3, <1>5, <2>2, StakeStep
  <1> QED
    BY <1>4, <1>5

\* The order does not matter: any of the sources can be added last.
LEMMA StakeOfOneMore ==
    ASSUME NEW sn, NEW S, IsFiniteSet(S), \A x \in S : WeightOf(sn, x) \in Int, NEW y \in S
    PROVE  StakeOf(sn, S) = WeightOf(sn, y) + StakeOf(sn, S \ {y})
  <1> DEFINE Holds(V) == \A z \in V : StakeOf(sn, V) = WeightOf(sn, z) + StakeOf(sn, V \ {z})
  <1> DEFINE Bad == {V \in SUBSET S : ~Holds(V)}
  <1>1. SUFFICES ASSUME Bad # {} PROVE FALSE
    OBVIOUS
  <1>2. PICK U \in Bad : \A V \in Bad : V \subseteq U => V = U
    <2> HIDE DEF Bad
    <2>1. Bad \in SUBSET SUBSET S
      BY DEF Bad
    <2> QED
      BY <1>1, <2>1, LeastSources
  <1>3. PICK z \in U : StakeOf(sn, U) # WeightOf(sn, z) + StakeOf(sn, U \ {z})
    OBVIOUS
  <1> DEFINE p == Pick(U)
  <1>4. p \in U
    BY PickIn
  <1>5. IsFiniteSet(U) /\ IsFiniteSet(U \ {p, z})
    BY FS_Subset
  <1>6. StakeOf(sn, U) = WeightOf(sn, p) + StakeOf(sn, U \ {p})
    BY <1>5, StakeStep
  <1>7. z # p
    BY <1>3, <1>6
  <1>8. StakeOf(sn, U \ {p}) = WeightOf(sn, z) + StakeOf(sn, U \ {p, z})
    <2>1. U \ {p} \notin Bad
      BY <1>2, <1>4
    <2>2. Holds(U \ {p}) /\ z \in U \ {p} /\ (U \ {p}) \ {z} = U \ {p, z}
      BY <1>7, <2>1
    <2> HIDE DEF p
    <2> QED
      BY <2>2
  <1>9. StakeOf(sn, U \ {z}) = WeightOf(sn, p) + StakeOf(sn, U \ {p, z})
    <2>1. U \ {z} \notin Bad
      BY <1>2
    <2>2. Holds(U \ {z}) /\ p \in U \ {z} /\ (U \ {z}) \ {p} = U \ {p, z}
      BY <1>4, <1>7, <2>1
    <2> HIDE DEF p
    <2> QED
      BY <2>2
  <1>10. StakeOf(sn, U \ {p, z}) \in Int /\ WeightOf(sn, p) \in Int /\ WeightOf(sn, z) \in Int
    BY <1>4, <1>5, StakeInt
  <1> HIDE DEF p
  <1> QED
    BY <1>3, <1>6, <1>8, <1>9, <1>10

\* The stake of sources of two kinds is the stake of the two together.
LEMMA StakeOfBoth ==
    ASSUME NEW sn, NEW S, IsFiniteSet(S), \A x \in S : WeightOf(sn, x) \in Int,
           NEW A \in SUBSET S, NEW B \in SUBSET S, A \cap B = {}
    PROVE  StakeOf(sn, A \cup B) = StakeOf(sn, A) + StakeOf(sn, B)
  <1> DEFINE Bad == {V \in SUBSET A : StakeOf(sn, V \cup B) # StakeOf(sn, V) + StakeOf(sn, B)}
  <1>1. SUFFICES ASSUME Bad # {} PROVE FALSE
    OBVIOUS
  <1>2. PICK U \in Bad : \A V \in Bad : V \subseteq U => V = U
    <2> HIDE DEF Bad
    <2>1. Bad \in SUBSET SUBSET A /\ IsFiniteSet(A)
      BY FS_Subset DEF Bad
    <2> QED
      BY <1>1, <2>1, LeastSources
  <1>3. IsFiniteSet(U) /\ IsFiniteSet(B) /\ IsFiniteSet(U \cup B)
    BY FS_Subset, U \cup B \in SUBSET S
  <1>4. StakeOf(sn, B) \in Int
    BY <1>3, StakeInt
  <1>5. CASE U = {}
    <2>1. U \cup B = B /\ StakeOf(sn, U) = 0
      BY <1>3, <1>5, StakeStep
    <2> QED
      BY <1>4, <2>1
  <1>6. CASE U # {}
    <2>1. PICK y \in U : TRUE
      BY <1>6
    <2>2. (U \cup B) \ {y} = (U \ {y}) \cup B
      OBVIOUS
    <2>3. StakeOf(sn, U \cup B) = WeightOf(sn, y) + StakeOf(sn, (U \ {y}) \cup B)
      BY <1>3, <2>2, StakeOfOneMore
    <2>4. StakeOf(sn, U) = WeightOf(sn, y) + StakeOf(sn, U \ {y})
      BY <1>3, StakeOfOneMore
    <2>5. StakeOf(sn, (U \ {y}) \cup B) = StakeOf(sn, U \ {y}) + StakeOf(sn, B)
      BY <1>2
    <2>6. StakeOf(sn, U \ {y}) \in Int /\ WeightOf(sn, y) \in Int
      BY <1>3, StakeInt, FS_Subset
    <2> QED
      BY <1>4, <2>3, <2>4, <2>5, <2>6
  <1> QED
    BY <1>5, <1>6

\* Two sets of sources, each with more than two thirds of the stake of all of them,
\* have more than a third of it in common.
LEMMA StakesOverlap ==
    ASSUME NEW sn, NEW S, IsFiniteSet(S), \A x \in S : WeightOf(sn, x) \in Nat,
           NEW A \in SUBSET S, NEW B \in SUBSET S,
           3 * StakeOf(sn, A) > 2 * StakeOf(sn, S), 3 * StakeOf(sn, B) > 2 * StakeOf(sn, S)
    PROVE  3 * StakeOf(sn, A \cap B) > StakeOf(sn, S)
  <1> DEFINE st(X) == StakeOf(sn, X)
  <1>1. \A X \in SUBSET S : st(X) \in Nat
    BY StakeNat, FS_Subset
  <1>2. \A X, Y \in SUBSET S : X \cap Y = {} => st(X \cup Y) = st(X) + st(Y)
    BY StakeOfBoth
  <1> HIDE DEF st
  <1>3. st(A) = st(A \cap B) + st(A \ B)
    <2>1. A = (A \cap B) \cup (A \ B)
      OBVIOUS
    <2> QED
      BY <1>2, <2>1
  <1>4. st(A \cup B) = st(B) + st(A \ B)
    <2>1. A \cup B = B \cup (A \ B)
      OBVIOUS
    <2> QED
      BY <1>2, <2>1
  <1>5. st(S) = st(A \cup B) + st(S \ (A \cup B))
    <2>1. S = (A \cup B) \cup (S \ (A \cup B)) /\ A \cup B \in SUBSET S
      OBVIOUS
    <2> QED
      BY <1>2, <2>1
  <1>6. st(A) \in Nat /\ st(B) \in Nat /\ st(S) \in Nat /\ st(A \cap B) \in Nat
        /\ st(A \ B) \in Nat /\ st(S \ (A \cup B)) \in Nat /\ st(A \cup B) \in Nat
    BY <1>1
  <1>7. 3 * st(A) > 2 * st(S) /\ 3 * st(B) > 2 * st(S)
    BY DEF st
  <1>8. 3 * st(A \cap B) > st(S)
    BY <1>3, <1>4, <1>5, <1>6, <1>7
  <1> QED
    BY <1>8 DEF st

\* Of the places in a list that have some property one is the first and one the last.
LEMMA FirstAndLast ==
    ASSUME NEW n \in Nat, NEW I \in SUBSET (1..n), I # {}
    PROVE  /\ \E i \in I : \A j \in I : i <= j
           /\ \E i \in I : \A j \in I : j <= i
  <1>0. PICK N : N = 1..n
    OBVIOUS
  <1>1. IsFiniteSet(N)
    BY <1>0, FS_Interval
  <1>2. \E i \in I : \A j \in I : i <= j
    <2> DEFINE T == {1..i : i \in I}
    <2>1. T \in SUBSET SUBSET N /\ T # {}
      <3>1. ASSUME NEW i \in I PROVE 1..i \in SUBSET N
        BY <1>0
      <3> QED
        BY <3>1
    <2>2. PICK U \in T : \A V \in T : V \subseteq U => V = U
      <3> HIDE DEF T
      <3> QED
        BY <1>1, <2>1, LeastSources
    <2>3. PICK i \in I : U = 1..i
      OBVIOUS
    <2>4. ASSUME NEW j \in I, j < i PROVE FALSE
      <3>1. 1..j \subseteq 1..i /\ i \in 1..i /\ i \notin 1..j
        BY <2>4
      <3> QED
        BY <2>2, <2>3, <3>1
    <2> QED
      BY <2>4
  <1>3. \E i \in I : \A j \in I : j <= i
    <2> DEFINE T == {i..n : i \in I}
    <2>1. T \in SUBSET SUBSET N /\ T # {}
      <3>1. ASSUME NEW i \in I PROVE i..n \in SUBSET N
        BY <1>0
      <3> QED
        BY <3>1
    <2>2. PICK U \in T : \A V \in T : V \subseteq U => V = U
      <3> HIDE DEF T
      <3> QED
        BY <1>1, <2>1, LeastSources
    <2>3. PICK i \in I : U = i..n
      OBVIOUS
    <2>4. ASSUME NEW j \in I, i < j PROVE FALSE
      <3>1. j..n \subseteq i..n /\ i \in i..n /\ i \notin j..n
        BY <2>4
      <3> QED
        BY <2>2, <2>3, <3>1
    <2> QED
      BY <2>4
  <1> QED
    BY <1>2, <1>3

\* A listed source has a weight or a blank, and a listed key a listed source.
LEMMA ListedWeight ==
    ASSUME NEW sn \in [validators : Seq(ListedValidator), truncated : BOOLEAN]
    PROVE  /\ \A src \in Sources(sn) : WeightOf(sn, src) \in Weights \cup {Blank}
           /\ \A pk \in Pubkeys(sn) : SourceOf(sn, pk) \in Sources(sn)
  <1>1. PICK vs \in Seq(ListedValidator) : vs = sn.validators
    OBVIOUS
  <1>2. Len(vs) \in Nat /\ DOMAIN vs = 1..Len(vs) /\ \A i \in 1..Len(vs) : vs[i] \in ListedValidator
    OBVIOUS
  <1>3. ASSUME NEW src \in Sources(sn) PROVE WeightOf(sn, src) \in Weights \cup {Blank}
    <2> DEFINE I == {i \in 1..Len(vs) : vs[i].source = src}
    <2>1. I # {}
      BY <1>1, <1>2 DEF Sources, Entries
    <2>2. PICK i \in I : \A j \in I : i <= j
      <3> HIDE DEF I
      <3>1. I \in SUBSET (1..Len(vs))
        BY DEF I
      <3> QED
        BY <1>2, <2>1, <3>1, FirstAndLast
    <2> DEFINE First(k) == vs[k].source = src /\ \A j \in 1..(k - 1) : vs[j].source # src
    <2>3. ASSUME NEW j \in 1..(i - 1), vs[j].source = src PROVE FALSE
      <3>1. j \in I /\ j < i
        BY <1>2, <2>3
      <3> QED
        BY <1>2, <2>2, <3>1
    <2>4. i \in DOMAIN vs /\ First(i)
      BY <1>2, <2>3
    <2>5. (CHOOSE k \in DOMAIN vs : First(k)) \in DOMAIN vs
      <3> HIDE DEF First
      <3> QED
        BY <2>4
    <2>6. WeightOf(sn, src) = vs[CHOOSE k \in DOMAIN vs : First(k)].weight
      BY <1>1 DEF WeightOf
    <2> HIDE DEF First
    <2> QED
      BY <1>2, <2>5, <2>6 DEF ListedValidator
  <1>4. ASSUME NEW pk \in Pubkeys(sn) PROVE SourceOf(sn, pk) \in Sources(sn)
    <2> DEFINE I == {i \in 1..Len(vs) : vs[i].pubkey = pk}
    <2>1. I # {}
      BY <1>1, <1>2 DEF Pubkeys, Entries
    <2>2. PICK i \in I : \A j \in I : j <= i
      <3> HIDE DEF I
      <3>1. I \in SUBSET (1..Len(vs))
        BY DEF I
      <3> QED
        BY <1>2, <2>1, <3>1, FirstAndLast
    <2> DEFINE Last(k) == vs[k].pubkey = pk /\ \A j \in (k + 1)..Len(vs) : vs[j].pubkey # pk
    <2>3. ASSUME NEW j \in (i + 1)..Len(vs), vs[j].pubkey = pk PROVE FALSE
      <3>1. j \in I /\ i < j
        BY <1>2, <2>3
      <3> QED
        BY <1>2, <2>2, <3>1
    <2>4. i \in DOMAIN vs /\ Last(i)
      BY <1>2, <2>3
    <2>5. (CHOOSE k \in DOMAIN vs : Last(k)) \in DOMAIN vs
      <3> HIDE DEF Last
      <3> QED
        BY <2>4
    <2>6. SourceOf(sn, pk) = vs[CHOOSE k \in DOMAIN vs : Last(k)].source
      BY <1>1 DEF SourceOf
    <2> HIDE DEF Last
    <2> QED
      BY <1>1, <2>5, <2>6 DEF Sources, Entries
  <1> QED
    BY <1>3, <1>4

\* Any two stake quorums of a snapshot overlap by more than a third of the stake
\* (StakeQuorumsOverlapByAThird).
LEMMA OverlapOfSnapshot ==
    ASSUME snapshot \in [validators : Seq(ListedValidator), truncated : BOOLEAN],
           IsFiniteSet(Sources(snapshot))
    PROVE  StakeQuorumsOverlapByAThird
  <1> SUFFICES ASSUME NEW A \in SignerSets, NEW B \in SignerSets,
                      meetsStakeThreshold(snapshot, A), meetsStakeThreshold(snapshot, B)
               PROVE  3 * StakeOf(snapshot, SourcesOf(A) \cap SourcesOf(B))
                        > StakeOf(snapshot, Sources(snapshot))
    BY DEF StakeQuorumsOverlapByAThird
  <1>1. PICK sn \in [validators : Seq(ListedValidator), truncated : BOOLEAN] : sn = snapshot
    OBVIOUS
  <1>2. \A src \in Sources(sn) : WeightOf(sn, src) \in Nat
    <2>1. ASSUME NEW src \in Sources(sn) PROVE WeightOf(sn, src) \in Nat
      <3>1. WeightOf(sn, src) \in Weights \cup {Blank}
        BY ListedWeight
      <3>2. WeightOf(sn, src) # Blank /\ WeightOf(sn, src) >= 0
        BY <1>1 DEF meetsStakeThreshold, Tallyable
      <3>3. WeightOf(sn, src) \in Int
        BY <3>1, <3>2, WeightsAreNumbers
      <3> QED
        BY <3>2, <3>3
    <2> QED
      BY <2>1
  <1>3. SourcesOf(A) \in SUBSET Sources(sn) /\ SourcesOf(B) \in SUBSET Sources(sn)
    BY <1>1, ListedWeight DEF SourcesOf
  <1>4. /\ 3 * StakeOf(sn, SourcesOf(A)) > 2 * StakeOf(sn, Sources(sn))
        /\ 3 * StakeOf(sn, SourcesOf(B)) > 2 * StakeOf(sn, Sources(sn))
    BY <1>1 DEF meetsStakeThreshold, SignerStake, SourcesOf
  <1>5. IsFiniteSet(Sources(sn))
    BY <1>1
  <1> QED
    BY <1>1, <1>2, <1>3, <1>4, <1>5, StakesOverlap

----------------------------------------------------------------------------
(***************************************************************************)
(* The snapshots that are built entry by entry.                            *)
(***************************************************************************)

\* What they list, and that they list finitely many keys and sources.
SnapshotInv ==
    /\ snapshot \in [validators : Seq(ListedValidator), truncated : BOOLEAN]
    /\ IsFiniteSet(Pubkeys(snapshot))
    /\ IsFiniteSet(Sources(snapshot))

\* The answer before its first entry.
LEMMA EmptySnapshot == QuorumInit => SnapshotInv
  <1> SUFFICES ASSUME QuorumInit PROVE SnapshotInv
    OBVIOUS
  <1>1. snapshot \in [validators : Seq(ListedValidator), truncated : BOOLEAN]
    <2>1. <<>> \in Seq(ListedValidator)
      OBVIOUS
    <2>2. [validators : {<<>>}, truncated : BOOLEAN]
            \subseteq [validators : Seq(ListedValidator), truncated : BOOLEAN]
      BY <2>1, Zenon
    <2> QED
      BY <2>2 DEF QuorumInit
  <1>2. Pubkeys(snapshot) = {} /\ Sources(snapshot) = {}
    BY DEF QuorumInit, Pubkeys, Sources, Entries
  <1> QED
    BY <1>1, <1>2, FS_EmptySet DEF SnapshotInv

\* One more entry, a repeated key or source included.
LEMMA LongerSnapshot == SnapshotInv /\ [AddValidator]_snapshot => SnapshotInv'
  <1> SUFFICES ASSUME SnapshotInv, AddValidator PROVE SnapshotInv'
    BY DEF SnapshotInv, Pubkeys, Sources, Entries
  <1>1. PICK v \in ListedValidator : snapshot' = [snapshot EXCEPT !.validators = Append(@, v)]
    BY DEF AddValidator
  <1>2. PICK vs \in Seq(ListedValidator) : vs = snapshot.validators
    BY DEF SnapshotInv
  <1>3. /\ snapshot' \in [validators : Seq(ListedValidator), truncated : BOOLEAN]
        /\ snapshot'.validators = Append(vs, v)
    BY <1>1, <1>2 DEF SnapshotInv
  <1>4. /\ DOMAIN Append(vs, v) = DOMAIN vs \cup {Len(vs) + 1}
        /\ \A i \in DOMAIN vs : Append(vs, v)[i] = vs[i]
        /\ Append(vs, v)[Len(vs) + 1] = v
    OBVIOUS
  <1>5. Entries(snapshot)' = Entries(snapshot) \cup {v}
    <2>1. Entries(snapshot)' = {Append(vs, v)[i] : i \in DOMAIN Append(vs, v)}
      BY <1>3 DEF Entries
    <2>2. Entries(snapshot) = {vs[i] : i \in DOMAIN vs}
      BY <1>2 DEF Entries
    <2> QED
      BY <1>4, <2>1, <2>2
  <1>6. /\ Pubkeys(snapshot)' = Pubkeys(snapshot) \cup {v.pubkey}
        /\ Sources(snapshot)' = Sources(snapshot) \cup {v.source}
    BY <1>5 DEF Pubkeys, Sources
  <1>7. /\ IsFiniteSet(Pubkeys(snapshot) \cup {v.pubkey})
        /\ IsFiniteSet(Sources(snapshot) \cup {v.source})
    <2>1. IsFiniteSet(Pubkeys(snapshot)) /\ IsFiniteSet(Sources(snapshot))
      BY DEF SnapshotInv
    <2> QED
      BY <2>1, FS_AddElement
  <1>8. IsFiniteSet(Pubkeys(snapshot))' /\ IsFiniteSet(Sources(snapshot))'
    BY <1>6, <1>7
  <1> QED
    BY <1>3, <1>8 DEF SnapshotInv

\* Any two counted quorums of the keys of a snapshot share one (CountQuorumsIntersect),
\* however many entries the snapshot lists and whatever keys they repeat.
THEOREM SnapshotQuorumsIntersect ==
    QuorumInit /\ [][AddValidator]_snapshot => []CountQuorumsIntersect
  <1>1. SnapshotInv => CountQuorumsIntersect
    BY CountedQuorumsIntersect DEF SnapshotInv, CountQuorumsIntersect
  <1> QED
    BY <1>1, EmptySnapshot, LongerSnapshot, PTL

\* Any two stake quorums of a snapshot have more than a third of its stake in common
\* (StakeQuorumsOverlapByAThird), however many entries the snapshot lists, however
\* the stake is spread over the sources and whatever keys and sources repeat
\* (consensus/stake_weighted_quorum.js).
THEOREM SnapshotStakeOverlaps ==
    QuorumInit /\ [][AddValidator]_snapshot => []StakeQuorumsOverlapByAThird
  <1>1. SnapshotInv => StakeQuorumsOverlapByAThird
    BY OverlapOfSnapshot DEF SnapshotInv
  <1> QED
    BY <1>1, EmptySnapshot, LongerSnapshot, PTL
=============================================================================
