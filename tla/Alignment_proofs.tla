--------------------------- MODULE Alignment_proofs ---------------------------
(* Theorems about Alignment, for words and passages of any length: the two    *)
(* dynamic programs find the best of all pairings that do not cross, and a    *)
(* request is judged on what was heard.  Recursions are followed by smallest  *)
(* counterexample: a table whose cells are not all best has a first that is   *)
(* not, and a sum that depends on its order a smallest set where it does.     *)
EXTENDS Alignment, FiniteSetTheorems, NaturalsInduction, TLAPS

-----------------------------------------------------------------------------
(* Smallest counterexamples, and functions defined from the one before.      *)

\* A set of natural numbers has a smallest member.
LEMMA SmallestOf ==
  ASSUME NEW T \in SUBSET Nat, T # {}
  PROVE  \E k \in T : \A j \in T : k <= j
<1>1. PICK k \in T : \A j \in T : <<j, k>> \notin OpToRel(<, Nat)
  BY NatLessThanWellFounded, WFMin
<1>2. \A j \in T : ~(j < k)
  BY <1>1 DEF OpToRel
<1> QED
  BY <1>2

\* A function of n steps in V, and one that follows them.
Steps(n, V) == [1..n -> [V -> V]]

Unrolled(f, n, V, first, next) ==
  f \in [0..n -> V] /\ f[0] = first /\ \A j \in 1..n : f[j] = next[j][f[j - 1]]

\* A function each of whose values follows from the one before exists.
LEMMA Recursion ==
  ASSUME NEW n \in Nat, NEW V, NEW first \in V, NEW next \in Steps(n, V)
  PROVE  \E f : Unrolled(f, n, V, first, next)
<1> DEFINE Good(k) == \E f \in [0..k -> V] :
                        f[0] = first /\ \A j \in 1..k : f[j] = next[j][f[j - 1]]
           Bad == {k \in 0..n : ~Good(k)}
<1>1. SUFFICES Bad = {}
  <2>1. Bad = {} => Good(n)
    <3> HIDE DEF Good
    <3> QED
      OBVIOUS
  <2> QED
    BY <2>1 DEF Unrolled
<1>2. SUFFICES ASSUME Bad # {} PROVE FALSE
  OBVIOUS
<1>3. PICK k \in Bad : \A j \in Bad : k <= j
  <2>1. Bad \subseteq Nat
    OBVIOUS
  <2> HIDE DEF Bad
  <2> QED
    BY <1>2, <2>1, SmallestOf
<1>4. CASE k = 0
  <2> DEFINE g == [j \in 0..0 |-> first]
  <2>1. g \in [0..0 -> V] /\ g[0] = first /\ 1..0 = {}
    OBVIOUS
  <2> HIDE DEF g
  <2>2. Good(0)
    BY <2>1
  <2> QED
    BY <1>4, <2>2
<1>5. CASE k # 0
  <2>1. k \in 1..n /\ k - 1 \in 0..n /\ k - 1 \notin Bad
    BY <1>3, <1>5
  <2>2. PICK f \in [0..(k - 1) -> V] :
               f[0] = first /\ \A j \in 1..(k - 1) : f[j] = next[j][f[j - 1]]
    BY <2>1
  <2> DEFINE g == [j \in 0..k |-> IF j = k THEN next[k][f[k - 1]] ELSE f[j]]
  <2>3. f[k - 1] \in V
    BY <2>1, <2>2
  <2>4. next[k] \in [V -> V]
    BY <2>1 DEF Steps
  <2>5. next[k][f[k - 1]] \in V
    BY <2>3, <2>4
  <2>8. g \in [0..k -> V]
    BY <2>1, <2>2, <2>5
  <2>6. g[0] = first
    BY <2>1, <2>2
  <2>7. \A j \in 1..k : g[j] = next[j][g[j - 1]]
    BY <2>1, <2>2
  <2> HIDE DEF g
  <2>9. Good(k)
    BY <2>8, <2>6, <2>7
  <2> QED
    BY <1>3, <2>9
<1> QED
  BY <1>4, <1>5

\* What holds of the first value, and passes from each to the next, holds of all.
LEMMA StaysIn ==
  ASSUME NEW n \in Nat, NEW V, NEW f, f[0] \in V, \A j \in 1..n : f[j - 1] \in V => f[j] \in V
  PROVE  \A j \in 0..n : f[j] \in V
<1> DEFINE Bad == {j \in 0..n : f[j] \notin V}
<1>1. SUFFICES ASSUME Bad # {} PROVE FALSE
  OBVIOUS
<1>2. PICK k \in Bad : \A j \in Bad : k <= j
  <2>1. Bad \subseteq Nat
    OBVIOUS
  <2> HIDE DEF Bad
  <2> QED
    BY <1>1, <2>1, SmallestOf
<1>3. k # 0 /\ k \in 1..n /\ k - 1 \in 0..n /\ k - 1 \notin Bad
  BY <1>2
<1> QED
  BY <1>2, <1>3

\* The recursion of a sum.
PickOf(s) == CHOOSE x \in s : TRUE
Sums(f, S, g) == g = [s \in SUBSET S |-> IF s = {} THEN 0 ELSE f[PickOf(s)] + g[s \ {PickOf(s)}]]

\* Sums over the subsets of a finite set: the recursion of MapThenFoldSet has a
\* solution that is a number everywhere.
LEMMA SumsExist ==
  ASSUME NEW S, IsFiniteSet(S), NEW f, \A x \in S : f[x] \in Int
  PROVE  \E g \in [SUBSET S -> Int] : Sums(f, S, g)
<1> DEFINE F(g) == [s \in SUBSET S |-> IF s = {} THEN 0 ELSE f[PickOf(s)] + g[s \ {PickOf(s)}]]
           Good(k) == \E g \in [SUBSET S -> Int] :
                        \A s \in SUBSET S : Cardinality(s) <= k => g[s] = F(g)[s]
           Bad == {k \in Nat : ~Good(k)}
<1>1. \A s \in SUBSET S : s # {} => PickOf(s) \in s
  BY DEF PickOf
<1>2. \A s \in SUBSET S : IsFiniteSet(s) /\ Cardinality(s) \in Nat /\ (s # {} => Cardinality(s) > 0)
  <2> SUFFICES ASSUME NEW s \in SUBSET S
               PROVE  IsFiniteSet(s) /\ Cardinality(s) \in Nat /\ (s # {} => Cardinality(s) > 0)
    OBVIOUS
  <2> QED
    BY FS_Subset, FS_CardinalityType, FS_EmptySet
<1>3. \A s \in SUBSET S : s # {} => Cardinality(s \ {PickOf(s)}) = Cardinality(s) - 1
  BY <1>1, <1>2, FS_RemoveElement
<1>4. \A g \in [SUBSET S -> Int] : F(g) \in [SUBSET S -> Int]
  BY <1>1
<1>5. Good(0)
  <2> DEFINE g == [s \in SUBSET S |-> 0]
  <2>1. g \in [SUBSET S -> Int]
    OBVIOUS
  <2>2. ASSUME NEW s \in SUBSET S, Cardinality(s) <= 0 PROVE g[s] = F(g)[s]
    BY <1>2, <2>2
  <2> HIDE DEF g, F
  <2> QED
    BY <2>1, <2>2
<1>6. ASSUME NEW k \in Nat, Good(k) PROVE Good(k + 1)
  <2>1. PICK g \in [SUBSET S -> Int] : \A s \in SUBSET S : Cardinality(s) <= k => g[s] = F(g)[s]
    BY <1>6
  <2> DEFINE h == F(g)
  <2>2. h \in [SUBSET S -> Int]
    BY <1>4
  <2>3. ASSUME NEW s \in SUBSET S, Cardinality(s) <= k + 1 PROVE h[s] = F(h)[s]
    <3>1. CASE s = {}
      BY <3>1
    <3>2. CASE s # {}
      <4>1. s \ {PickOf(s)} \in SUBSET S /\ Cardinality(s \ {PickOf(s)}) <= k
        BY <1>2, <1>3, <2>3, <3>2
      <4>2. g[s \ {PickOf(s)}] = h[s \ {PickOf(s)}]
        <5> HIDE DEF F
        <5> QED
          BY <2>1, <4>1
      <4>3. h[s] = f[PickOf(s)] + g[s \ {PickOf(s)}]
        BY <3>2
      <4>4. F(h)[s] = f[PickOf(s)] + h[s \ {PickOf(s)}]
        <5> HIDE DEF h
        <5> QED
          BY <3>2
      <4> QED
        BY <4>2, <4>3, <4>4
    <3> QED
      BY <3>1, <3>2
  <2> HIDE DEF h, F
  <2> QED
    BY <2>2, <2>3
<1> HIDE DEF Good
<1>7. Bad = {}
  <2> SUFFICES ASSUME Bad # {} PROVE FALSE
    OBVIOUS
  <2>1. PICK k \in Bad : \A j \in Bad : k <= j
    <3>1. Bad \subseteq Nat
      OBVIOUS
    <3> HIDE DEF Bad
    <3> QED
      BY <3>1, SmallestOf
  <2>2. k # 0
    BY <1>5, <2>1
  <2>3. k - 1 \in Nat /\ Good(k - 1) /\ (k - 1) + 1 = k
    BY <2>1, <2>2
  <2> QED
    BY <1>6, <2>1, <2>3
<1>8. Cardinality(S) \in Nat
  BY FS_CardinalityType
<1>9. Good(Cardinality(S))
  BY <1>7, <1>8
<1>10. PICK g \in [SUBSET S -> Int] :
         \A s \in SUBSET S : Cardinality(s) <= Cardinality(S) => g[s] = F(g)[s]
  BY <1>9 DEF Good
<1>11. \A s \in SUBSET S : g[s] = F(g)[s]
  <2> SUFFICES ASSUME NEW s \in SUBSET S PROVE Cardinality(s) <= Cardinality(S)
    BY <1>10
  <2> QED
    BY FS_Subset
<1>12. F(g) \in [SUBSET S -> Int]
  BY <1>4
<1>13. g = F(g)
  <2> HIDE DEF F
  <2> QED
    BY <1>11, <1>12
<1> QED
  BY <1>13 DEF Sums

\* It has no other, whatever larger set it is solved for.
LEMMA SumsAgree ==
  ASSUME NEW S, IsFiniteSet(S), NEW T, S \subseteq T,
         NEW f, NEW g, Sums(f, S, g), NEW h, Sums(f, T, h)
  PROVE  \A s \in SUBSET S : g[s] = h[s]
<1> DEFINE Bad == {s \in FiniteSubsetsOf(S) : g[s] # h[s]}
<1>0. \A s \in SUBSET S : s \in FiniteSubsetsOf(S)
  BY FS_Subset DEF FiniteSubsetsOf
<1>1. SUFFICES ASSUME Bad # {} PROVE FALSE
  BY <1>0
<1>2. PICK s \in Bad : \A t \in Bad : <<t, s>> \notin StrictSubsetOrdering(S)
  BY <1>1, FS_StrictSubsetOrderingWellFounded, WFMin
<1>3. s \in SUBSET S /\ s \in SUBSET T
  BY <1>2 DEF FiniteSubsetsOf
<1> DEFINE t == s \ {PickOf(s)}
<1>4. g[s] = IF s = {} THEN 0 ELSE f[PickOf(s)] + g[t]
  BY <1>3 DEF Sums
<1>5. h[s] = IF s = {} THEN 0 ELSE f[PickOf(s)] + h[t]
  BY <1>3 DEF Sums
<1>6. s # {}
  BY <1>2, <1>4, <1>5
<1>7. PickOf(s) \in s
  BY <1>6 DEF PickOf
<1>8. t \in FiniteSubsetsOf(S) /\ <<t, s>> \in StrictSubsetOrdering(S)
  BY <1>0, <1>3, <1>7 DEF StrictSubsetOrdering
<1>9. g[t] = h[t]
  BY <1>2, <1>8
<1> QED
  BY <1>2, <1>4, <1>5, <1>6, <1>9

\* So SumFunctionOnSet is that solution.
LEMMA SumIs ==
  ASSUME NEW S, IsFiniteSet(S), NEW f, \A x \in S : f[x] \in Int
  PROVE  \E g \in [SUBSET S -> Int] : Sums(f, S, g) /\ SumFunctionOnSet(f, S) = g[S]
<1> DEFINE iter == CHOOSE g : Sums(f, S, g)
<1>1. SumFunctionOnSet(f, S) = iter[S]
  BY DEF SumFunctionOnSet, FoldFunctionOnSet, MapThenFoldSet, Sums, PickOf
<1>2. PICK g \in [SUBSET S -> Int] : Sums(f, S, g)
  BY SumsExist
<1>3. Sums(f, S, iter)
  BY <1>2
<1> HIDE DEF iter
<1>4. iter[S] = g[S]
  BY <1>2, <1>3, SumsAgree
<1> QED
  BY <1>1, <1>2, <1>4

\* Nothing sums to zero.
LEMMA SumOfNone == ASSUME NEW f PROVE SumFunctionOnSet(f, {}) = 0
<1>1. PICK g : Sums(f, {}, g) /\ SumFunctionOnSet(f, {}) = g[{}]
  BY SumIs, FS_EmptySet
<1> QED
  BY <1>1 DEF Sums

\* A sum of numbers is a number.
LEMMA SumIsInt ==
  ASSUME NEW S, IsFiniteSet(S), NEW f, \A x \in S : f[x] \in Int
  PROVE  SumFunctionOnSet(f, S) \in Int
<1>1. PICK g \in [SUBSET S -> Int] : SumFunctionOnSet(f, S) = g[S]
  BY SumIs
<1>2. g[S] \in Int
  OBVIOUS
<1> QED
  BY <1>1, <1>2

\* Any member may be counted last.
LEMMA SumWithout ==
  ASSUME NEW S, IsFiniteSet(S), NEW f, \A x \in S : f[x] \in Int, NEW x \in S
  PROVE  SumFunctionOnSet(f, S) = f[x] + SumFunctionOnSet(f, S \ {x})
<1>1. PICK g \in [SUBSET S -> Int] : Sums(f, S, g) /\ SumFunctionOnSet(f, S) = g[S]
  BY SumIs
<1>2. SumFunctionOnSet(f, S \ {x}) = g[S \ {x}]
  <2> DEFINE R == S \ {x}
  <2>1. IsFiniteSet(R) /\ R \subseteq S
    BY FS_Subset
  <2> HIDE DEF R
  <2>2. PICK h : Sums(f, R, h) /\ SumFunctionOnSet(f, R) = h[R]
    BY <2>1, SumIs
  <2>3. \A s \in SUBSET R : h[s] = g[s]
    <3>1. Sums(f, R, h) /\ Sums(f, S, g) /\ IsFiniteSet(R) /\ R \subseteq S
      BY <1>1, <2>1, <2>2
    <3> QED
      BY ONLY <3>1, SumsAgree
  <2>4. SumFunctionOnSet(f, R) = g[R]
    BY <2>2, <2>3
  <2> QED
    BY <2>4 DEF R
<1> DEFINE Bad == {s \in FiniteSubsetsOf(S) : \E y \in s : g[s] # f[y] + g[s \ {y}]}
<1>3. \A s \in SUBSET S : s \in FiniteSubsetsOf(S)
  BY FS_Subset DEF FiniteSubsetsOf
<1>4. SUFFICES ASSUME Bad # {} PROVE FALSE
  BY <1>1, <1>2, <1>3
<1>5. PICK s \in Bad : \A t \in Bad : <<t, s>> \notin StrictSubsetOrdering(S)
  BY <1>4, FS_StrictSubsetOrderingWellFounded, WFMin
<1>6. s \in SUBSET S
  BY <1>5 DEF FiniteSubsetsOf
<1>7. PICK y \in s : g[s] # f[y] + g[s \ {y}]
  BY <1>5
<1> DEFINE z == PickOf(s)
<1>8. z \in s /\ g[s] = f[z] + g[s \ {z}]
  BY <1>1, <1>6, <1>7 DEF Sums, PickOf
<1> HIDE DEF z
<1>9. z # y
  BY <1>7, <1>8
<1>10. ASSUME NEW u \in s, NEW v \in s, u # v
       PROVE  g[s \ {u}] = f[v] + g[(s \ {u}) \ {v}]
  <2>1. s \ {u} \in FiniteSubsetsOf(S) /\ <<s \ {u}, s>> \in StrictSubsetOrdering(S)
    BY <1>3, <1>6 DEF StrictSubsetOrdering
  <2> QED
    BY <1>5, <1>10, <2>1
<1>11. g[s \ {z}] = f[y] + g[(s \ {z}) \ {y}] /\ g[s \ {y}] = f[z] + g[(s \ {y}) \ {z}]
  BY <1>8, <1>9, <1>10
<1>12. (s \ {z}) \ {y} = (s \ {y}) \ {z}
  OBVIOUS
<1>13. f[y] \in Int /\ f[z] \in Int /\ g[(s \ {y}) \ {z}] \in Int
  BY <1>1, <1>6, <1>8
<1>14. g[s] = f[y] + g[s \ {y}]
  <2> DEFINE rest == g[(s \ {y}) \ {z}]
  <2>1. g[s \ {z}] = f[y] + rest /\ g[s \ {y}] = f[z] + rest /\ rest \in Int
    BY <1>11, <1>12, <1>13
  <2> HIDE DEF rest
  <2>2. f[z] + (f[y] + rest) = f[y] + (f[z] + rest)
    BY <1>13, <2>1
  <2> QED
    BY <1>8, <2>1, <2>2
<1> QED
  BY <1>7, <1>14

-----------------------------------------------------------------------------
(* Pairings that do not cross, and what they are worth.                      *)

\* A pairing is a finite set of pairs.
LEMMA PairingType ==
  ASSUME NEW m \in Nat, NEW n \in Nat, NEW P \in Pairings(m, n)
  PROVE  IsFiniteSet(P) /\ Cardinality(P) \in Nat /\ P \subseteq (1..m) \X (1..n)
<1>1. P \subseteq (1..m) \X (1..n)
  BY DEF Pairings
<1>2. IsFiniteSet((1..m) \X (1..n))
  <2>1. IsFiniteSet(1..m) /\ IsFiniteSet(1..n)
    BY FS_Interval
  <2> QED
    BY <2>1, FS_Product
<1> QED
  BY <1>1, <1>2, FS_Subset, FS_CardinalityType

\* What a pairing is worth is a number.
LEMMA WorthIsInt ==
  ASSUME NEW M \in Nat, NEW N \in Nat, NEW w \in [(1..M) \X (1..N) -> Int], NEW gap \in Int,
         NEW m \in 0..M, NEW n \in 0..N, NEW P \in Pairings(m, n)
  PROVE  SumFunctionOnSet(w, P) \in Int /\ Worth(w, gap, m, n, P) \in Int
<1>1. IsFiniteSet(P) /\ Cardinality(P) \in Nat /\ P \subseteq (1..m) \X (1..n)
  BY PairingType
<1>2. \A p \in P : w[p] \in Int
  <2>1. P \subseteq (1..M) \X (1..N)
    BY <1>1
  <2> QED
    BY <2>1
<1>3. SumFunctionOnSet(w, P) \in Int
  BY <1>1, <1>2, SumIsInt
<1> QED
  BY <1>1, <1>3 DEF Worth

\* Where a side is empty nothing is paired, and all is gaps.
LEMMA NothingToPair ==
  ASSUME NEW m \in Nat, NEW n \in Nat
  PROVE  /\ {} \in Pairings(m, n)
         /\ m = 0 \/ n = 0 => Pairings(m, n) = {{}}
         /\ \A w, gap : gap \in Int => Worth(w, gap, m, n, {}) = gap * (m + n)
<1>1. {} \in Pairings(m, n)
  BY DEF Pairings, Uncrossed
<1>2. ASSUME m = 0 \/ n = 0 PROVE Pairings(m, n) = {{}}
  <2>1. (1..m) \X (1..n) = {}
    BY <1>2
  <2>2. \A P \in Pairings(m, n) : P = {}
    BY <2>1 DEF Pairings
  <2> QED
    BY <1>1, <2>2
<1>3. ASSUME NEW w, NEW gap \in Int PROVE Worth(w, gap, m, n, {}) = gap * (m + n)
  <2>1. Cardinality({}) = 0 /\ m + n - 2 * 0 = m + n /\ gap * (m + n) \in Int
    BY FS_EmptySet
  <2> QED
    BY <2>1, SumOfNone DEF Worth
<1> QED
  BY <1>1, <1>2, <1>3

\* A pairing of fewer is a pairing of more.
LEMMA PairsOfFewer ==
  ASSUME NEW m \in Nat, NEW n \in Nat, NEW i \in 0..m, NEW j \in 0..n
  PROVE  Pairings(i, j) \subseteq Pairings(m, n)
<1>1. (1..i) \X (1..j) \subseteq (1..m) \X (1..n)
  OBVIOUS
<1> QED
  BY <1>1 DEF Pairings

\* A pairing with a pair more, and with one less.
Paired(P, m, n) == P \cup {<<m, n>>}
Unpaired(P, m, n) == P \ {<<m, n>>}

\* The last of both may be paired beside any pairing of the others.
LEMMA OneMorePair ==
  ASSUME NEW m \in Nat \ {0}, NEW n \in Nat \ {0}, NEW P \in Pairings(m - 1, n - 1)
  PROVE  <<m, n>> \notin P /\ Paired(P, m, n) \in Pairings(m, n)
<1>1. P \subseteq (1..(m - 1)) \X (1..(n - 1)) /\ Uncrossed(P)
  BY DEF Pairings
<1>2. \A p \in P : p[1] \in 1..(m - 1) /\ p[2] \in 1..(n - 1)
  BY <1>1
<1>3. <<m, n>> \notin P
  BY <1>2
<1> DEFINE Q == P \cup {<<m, n>>}
<1>4. Q \subseteq (1..m) \X (1..n)
  BY <1>1
<1>5. ASSUME NEW p \in Q, NEW q \in Q, p # q
      PROVE  p[1] # q[1] /\ p[2] # q[2] /\ (p[1] < q[1] => p[2] < q[2])
  <2>1. CASE p \in P /\ q \in P
    BY <1>1, <1>5, <2>1 DEF Uncrossed
  <2>2. CASE p \in P /\ q = <<m, n>>
    BY <1>2, <2>2
  <2>3. CASE p = <<m, n>> /\ q \in P
    BY <1>2, <2>3
  <2> QED
    BY <1>5, <2>1, <2>2, <2>3
<1>6. Uncrossed(Q)
  BY <1>5 DEF Uncrossed
<1> QED
  BY <1>3, <1>4, <1>6 DEF Pairings, Paired

\* The three moves: a pairing pairs the last of both, or leaves one of them out.
LEMMA LastPair ==
  ASSUME NEW m \in Nat \ {0}, NEW n \in Nat \ {0}, NEW P \in Pairings(m, n)
  PROVE  \/ <<m, n>> \in P /\ Unpaired(P, m, n) \in Pairings(m - 1, n - 1)
         \/ P \in Pairings(m - 1, n)
         \/ P \in Pairings(m, n - 1)
<1>1. P \subseteq (1..m) \X (1..n) /\ Uncrossed(P)
  BY DEF Pairings
<1>2. \A p \in P : p[1] \in 1..m /\ p[2] \in 1..n /\ p = <<p[1], p[2]>>
  BY <1>1
<1>3. ASSUME \A p \in P : p[1] # m PROVE P \in Pairings(m - 1, n)
  <2>1. \A p \in P : p[1] \in 1..(m - 1)
    BY <1>2, <1>3
  <2>2. P \subseteq (1..(m - 1)) \X (1..n)
    BY <1>2, <2>1
  <2> QED
    BY <1>1, <2>2 DEF Pairings
<1>4. ASSUME \A p \in P : p[2] # n PROVE P \in Pairings(m, n - 1)
  <2>1. \A p \in P : p[2] \in 1..(n - 1)
    BY <1>2, <1>4
  <2>2. P \subseteq (1..m) \X (1..(n - 1))
    BY <1>2, <2>1
  <2> QED
    BY <1>1, <2>2 DEF Pairings
<1>5. ASSUME NEW p \in P, p[1] = m, NEW q \in P, q[2] = n
      PROVE  <<m, n>> \in P /\ Unpaired(P, m, n) \in Pairings(m - 1, n - 1)
  <2>1. p = q
    BY <1>1, <1>2, <1>5 DEF Uncrossed
  <2>2. <<m, n>> \in P
    BY <1>2, <1>5, <2>1
  <2>3. ASSUME NEW r \in P \ {<<m, n>>} PROVE r \in (1..(m - 1)) \X (1..(n - 1))
    <3>1. r[1] # m /\ r[2] # n
      BY <1>1, <2>2 DEF Uncrossed
    <3>2. r[1] \in 1..(m - 1) /\ r[2] \in 1..(n - 1) /\ r = <<r[1], r[2]>>
      BY <1>2, <3>1
    <3> QED
      BY <3>2
  <2>4. Uncrossed(P \ {<<m, n>>})
    BY <1>1 DEF Uncrossed
  <2>5. P \ {<<m, n>>} \in SUBSET ((1..(m - 1)) \X (1..(n - 1)))
    BY <2>3
  <2> QED
    BY <2>2, <2>4, <2>5 DEF Pairings, Unpaired
<1> QED
  BY <1>3, <1>4, <1>5


\* A gap more.
LEMMA LinearGap ==
  ASSUME NEW gap \in Int, NEW k \in Int
  PROVE  gap * (k + 1) = gap * k + gap /\ gap * k \in Int
OBVIOUS

\* Leaving out the last of the first, a gap more (up).
LEMMA SkipRow ==
  ASSUME NEW M \in Nat, NEW N \in Nat, NEW w \in [(1..M) \X (1..N) -> Int], NEW gap \in Int,
         NEW m \in 1..M, NEW n \in 0..N, NEW P \in Pairings(m - 1, n)
  PROVE  /\ P \in Pairings(m, n)
         /\ Worth(w, gap, m - 1, n, P) \in Int
         /\ Worth(w, gap, m, n, P) = Worth(w, gap, m - 1, n, P) + gap
<1>1. m \in Nat /\ n \in Nat /\ m - 1 \in Nat /\ m - 1 \in 0..M /\ m - 1 \in 0..m /\ n \in 0..n
  OBVIOUS
<1>2. P \in Pairings(m, n)
  BY <1>1, PairsOfFewer
<1>3. SumFunctionOnSet(w, P) \in Int /\ Worth(w, gap, m - 1, n, P) \in Int
  BY <1>1, WorthIsInt
<1>4. Cardinality(P) \in Nat
  BY <1>1, PairingType
<1> DEFINE k == (m - 1) + n - 2 * Cardinality(P)
<1>5. k \in Int /\ m + n - 2 * Cardinality(P) = k + 1
  BY <1>1, <1>4
<1>6. Worth(w, gap, m - 1, n, P) = SumFunctionOnSet(w, P) + gap * k
  BY DEF Worth
<1>7. Worth(w, gap, m, n, P) = SumFunctionOnSet(w, P) + gap * (k + 1)
  BY <1>5 DEF Worth
<1> HIDE DEF k
<1>8. gap * (k + 1) = gap * k + gap /\ gap * k \in Int
  BY <1>5, LinearGap
<1> QED
  BY <1>2, <1>3, <1>6, <1>7, <1>8

\* Leaving out the last of the second, a gap more (left).
LEMMA SkipColumn ==
  ASSUME NEW M \in Nat, NEW N \in Nat, NEW w \in [(1..M) \X (1..N) -> Int], NEW gap \in Int,
         NEW m \in 0..M, NEW n \in 1..N, NEW P \in Pairings(m, n - 1)
  PROVE  /\ P \in Pairings(m, n)
         /\ Worth(w, gap, m, n - 1, P) \in Int
         /\ Worth(w, gap, m, n, P) = Worth(w, gap, m, n - 1, P) + gap
<1>1. m \in Nat /\ n \in Nat /\ n - 1 \in Nat /\ n - 1 \in 0..N /\ n - 1 \in 0..n /\ m \in 0..m
  OBVIOUS
<1>2. P \in Pairings(m, n)
  BY <1>1, PairsOfFewer
<1>3. SumFunctionOnSet(w, P) \in Int /\ Worth(w, gap, m, n - 1, P) \in Int
  BY <1>1, WorthIsInt
<1>4. Cardinality(P) \in Nat
  BY <1>1, PairingType
<1> DEFINE k == m + (n - 1) - 2 * Cardinality(P)
<1>5. k \in Int /\ m + n - 2 * Cardinality(P) = k + 1
  BY <1>1, <1>4
<1>6. Worth(w, gap, m, n - 1, P) = SumFunctionOnSet(w, P) + gap * k
  BY DEF Worth
<1>7. Worth(w, gap, m, n, P) = SumFunctionOnSet(w, P) + gap * (k + 1)
  BY <1>5 DEF Worth
<1> HIDE DEF k
<1>8. gap * (k + 1) = gap * k + gap /\ gap * k \in Int
  BY <1>5, LinearGap
<1> QED
  BY <1>2, <1>3, <1>6, <1>7, <1>8

\* Pairing the last of both, what the pair is worth more (diag).
LEMMA TakePair ==
  ASSUME NEW M \in Nat, NEW N \in Nat, NEW w \in [(1..M) \X (1..N) -> Int], NEW gap \in Int,
         NEW m \in 1..M, NEW n \in 1..N, NEW P \in Pairings(m - 1, n - 1)
  PROVE  /\ Paired(P, m, n) \in Pairings(m, n)
         /\ w[<<m, n>>] \in Int
         /\ Worth(w, gap, m - 1, n - 1, P) \in Int
         /\ Worth(w, gap, m, n, Paired(P, m, n)) = w[<<m, n>>] + Worth(w, gap, m - 1, n - 1, P)
<1>1. m \in Nat \ {0} /\ n \in Nat \ {0} /\ m \in Nat /\ n \in Nat /\ m - 1 \in Nat /\ n - 1 \in Nat
      /\ m - 1 \in 0..M /\ n - 1 \in 0..N /\ m \in 0..M /\ n \in 0..N
  OBVIOUS
<1> DEFINE Q == Paired(P, m, n)
<1>2. <<m, n>> \notin P /\ Q \in Pairings(m, n)
  BY <1>1, OneMorePair
<1>3. SumFunctionOnSet(w, P) \in Int /\ Worth(w, gap, m - 1, n - 1, P) \in Int
  BY <1>1, WorthIsInt
<1>4. PICK p \in Q : p = <<m, n>>
  BY DEF Paired
<1>5. Q \ {p} = P
  BY <1>2, <1>4 DEF Paired
<1> HIDE DEF Q
<1>6. IsFiniteSet(Q) /\ Cardinality(Q) \in Nat /\ Q \subseteq (1..m) \X (1..n)
  BY <1>1, <1>2, PairingType
<1>7. \A q \in Q : w[q] \in Int
  <2>1. Q \subseteq (1..M) \X (1..N)
    BY <1>1, <1>6
  <2> QED
    BY <2>1
<1>8. SumFunctionOnSet(w, Q) = w[p] + SumFunctionOnSet(w, P)
  BY <1>5, <1>6, <1>7, SumWithout
<1>9. Cardinality(P) \in Nat /\ Cardinality(Q) = Cardinality(P) + 1
  <2>1. Cardinality(P) \in Nat
    BY <1>1, PairingType
  <2>2. Cardinality(Q \ {p}) = Cardinality(Q) - 1
    BY <1>6, FS_RemoveElement
  <2>3. Cardinality(Q \ {p}) = Cardinality(P)
    BY <1>5
  <2> QED
    BY <1>6, <2>1, <2>2, <2>3
<1> DEFINE c == Cardinality(P)
           k == (m - 1) + (n - 1) - 2 * c
<1>10. k \in Int /\ m + n - 2 * Cardinality(Q) = k
  <2>1. c \in Nat /\ Cardinality(Q) = c + 1
    BY <1>9
  <2> HIDE DEF c
  <2> QED
    BY <2>1
<1>11. Worth(w, gap, m - 1, n - 1, P) = SumFunctionOnSet(w, P) + gap * k
  BY DEF Worth
<1>12. Worth(w, gap, m, n, Q) = SumFunctionOnSet(w, Q) + gap * k
  BY <1>10 DEF Worth
<1> HIDE DEF k
<1>13. gap * k \in Int /\ w[p] \in Int
  BY <1>7, <1>10
<1>14. Worth(w, gap, m, n, Q) = w[p] + Worth(w, gap, m - 1, n - 1, P)
  BY <1>3, <1>8, <1>11, <1>12, <1>13
<1> QED
  BY <1>2, <1>3, <1>4, <1>13, <1>14 DEF Q

\* Whichever move a pairing ends with, its worth follows from a smaller one's.
LEMMA WorthFromFewer ==
  ASSUME NEW M \in Nat, NEW N \in Nat, NEW w \in [(1..M) \X (1..N) -> Int], NEW gap \in Int,
         NEW m \in 1..M, NEW n \in 1..N, NEW P \in Pairings(m, n)
  PROVE  \/ P \in Pairings(m - 1, n) /\ Worth(w, gap, m, n, P) = Worth(w, gap, m - 1, n, P) + gap
         \/ P \in Pairings(m, n - 1) /\ Worth(w, gap, m, n, P) = Worth(w, gap, m, n - 1, P) + gap
         \/ \E Q \in Pairings(m - 1, n - 1) :
              Worth(w, gap, m, n, P) = w[<<m, n>>] + Worth(w, gap, m - 1, n - 1, Q)
<1>1. m \in Nat \ {0} /\ n \in Nat \ {0} /\ m \in 0..M /\ n \in 0..N
  OBVIOUS
<1>2. CASE P \in Pairings(m - 1, n)
  <2>1. Worth(w, gap, m - 1, n, P) \in Int
    BY <1>1, <1>2, SkipRow
  <2>2. Worth(w, gap, m, n, P) = Worth(w, gap, m - 1, n, P) + gap
    <3>1. n \in 0..N
      OBVIOUS
    <3> QED
      BY <1>2, <3>1, SkipRow
  <2> QED
    BY <1>2, <2>2
<1>3. CASE P \in Pairings(m, n - 1)
  <2>1. Worth(w, gap, m, n - 1, P) \in Int
    BY <1>1, <1>3, SkipColumn
  <2>2. Worth(w, gap, m, n, P) = Worth(w, gap, m, n - 1, P) + gap
    <3>1. m \in 0..M
      OBVIOUS
    <3> QED
      BY <1>3, <3>1, SkipColumn
  <2> QED
    BY <1>3, <2>2
<1>4. CASE <<m, n>> \in P /\ Unpaired(P, m, n) \in Pairings(m - 1, n - 1)
  <2> DEFINE Q == Unpaired(P, m, n)
  <2>1. Paired(Q, m, n) = P
    BY <1>4 DEF Paired, Unpaired
  <2>2. Q \in Pairings(m - 1, n - 1)
    BY <1>4
  <2> HIDE DEF Q
  <2>3. Worth(w, gap, m, n, Paired(Q, m, n)) = w[<<m, n>>] + Worth(w, gap, m - 1, n - 1, Q)
    BY <2>2, TakePair
  <2> QED
    BY <2>1, <2>2, <2>3
<1> QED
  BY <1>1, <1>2, <1>3, <1>4, LastPair

-----------------------------------------------------------------------------
(* A table each cell of which is from its neighbours' least.                 *)

\* The least of three.
LEMMA MinOfThree ==
  ASSUME NEW x \in Int, NEW y \in Int, NEW z \in Int
  PROVE  /\ Min({x, y, z}) \in {x, y, z} /\ Min({x, y, z}) \in Int
         /\ Min({x, y, z}) <= x /\ Min({x, y, z}) <= y /\ Min({x, y, z}) <= z
<1>1. \E v \in {x, y, z} : \A u \in {x, y, z} : v <= u
  OBVIOUS
<1>2. /\ Min({x, y, z}) \in {x, y, z}
      /\ \A u \in {x, y, z} : Min({x, y, z}) <= u
  BY <1>1 DEF Min
<1> QED
  BY <1>2

\* v is the least that a pairing of m and n is worth.
Cheapest(w, gap, m, n, v) ==
  /\ v \in Int
  /\ \E P \in Pairings(m, n) : v = Worth(w, gap, m, n, P)
  /\ \A P \in Pairings(m, n) : v <= Worth(w, gap, m, n, P)

\* The first row and the first column.
LEMMA CheapestEdge ==
  ASSUME NEW m \in Nat, NEW n \in Nat, m = 0 \/ n = 0, NEW w, NEW gap \in Int
  PROVE  Cheapest(w, gap, m, n, gap * (m + n))
<1>1. gap * (m + n) \in Int
  OBVIOUS
<1>2. Pairings(m, n) = {{}} /\ Worth(w, gap, m, n, {}) = gap * (m + n)
  BY NothingToPair
<1> QED
  BY <1>1, <1>2 DEF Cheapest


\* The least of the three neighbours' is least.
LEMMA CheapestStep ==
  ASSUME NEW M \in Nat, NEW N \in Nat, NEW w \in [(1..M) \X (1..N) -> Int], NEW gap \in Int,
         NEW m \in 1..M, NEW n \in 1..N, NEW up, NEW left, NEW diag,
         Cheapest(w, gap, m - 1, n, up), Cheapest(w, gap, m, n - 1, left),
         Cheapest(w, gap, m - 1, n - 1, diag)
  PROVE  Cheapest(w, gap, m, n, Min({up + gap, left + gap, diag + w[<<m, n>>]}))
<1> DEFINE v == Min({up + gap, left + gap, diag + w[<<m, n>>]})
<1>1. m \in 0..M /\ n \in 0..N
  OBVIOUS
<1>2. w[<<m, n>>] \in Int /\ up \in Int /\ left \in Int /\ diag \in Int
  BY DEF Cheapest
<1>3. /\ v \in {up + gap, left + gap, diag + w[<<m, n>>]} /\ v \in Int
      /\ v <= up + gap /\ v <= left + gap /\ v <= diag + w[<<m, n>>]
  <2>1. up + gap \in Int /\ left + gap \in Int /\ diag + w[<<m, n>>] \in Int
    BY <1>2
  <2> QED
    BY <2>1, MinOfThree
<1> HIDE DEF v
<1>4. \E P \in Pairings(m, n) : v = Worth(w, gap, m, n, P)
  <2>1. CASE v = up + gap
    <3>1. PICK P \in Pairings(m - 1, n) : up = Worth(w, gap, m - 1, n, P)
      BY DEF Cheapest
    <3>2. P \in Pairings(m, n) /\ Worth(w, gap, m, n, P) = Worth(w, gap, m - 1, n, P) + gap
      BY <1>1, SkipRow
    <3> QED
      BY <2>1, <3>1, <3>2
  <2>2. CASE v = left + gap
    <3>1. PICK P \in Pairings(m, n - 1) : left = Worth(w, gap, m, n - 1, P)
      BY DEF Cheapest
    <3>2. P \in Pairings(m, n) /\ Worth(w, gap, m, n, P) = Worth(w, gap, m, n - 1, P) + gap
      BY <1>1, SkipColumn
    <3> QED
      BY <2>2, <3>1, <3>2
  <2>3. CASE v = diag + w[<<m, n>>]
    <3>1. PICK P \in Pairings(m - 1, n - 1) : diag = Worth(w, gap, m - 1, n - 1, P)
      BY DEF Cheapest
    <3>2. /\ Paired(P, m, n) \in Pairings(m, n)
          /\ Worth(w, gap, m, n, Paired(P, m, n)) = w[<<m, n>>] + Worth(w, gap, m - 1, n - 1, P)
      BY TakePair
    <3>3. w[<<m, n>>] + diag = diag + w[<<m, n>>]
      BY <1>2
    <3> QED
      BY <2>3, <3>1, <3>2, <3>3
  <2> QED
    BY <1>3, <2>1, <2>2, <2>3
<1>5. ASSUME NEW P \in Pairings(m, n) PROVE v <= Worth(w, gap, m, n, P)
  <2>1. CASE P \in Pairings(m - 1, n) /\ Worth(w, gap, m, n, P) = Worth(w, gap, m - 1, n, P) + gap
    <3>1. up <= Worth(w, gap, m - 1, n, P)
      BY <2>1 DEF Cheapest
    <3>2. Worth(w, gap, m - 1, n, P) \in Int
      BY <1>1, <2>1, SkipRow
    <3> QED
      BY <1>2, <1>3, <2>1, <3>1, <3>2
  <2>2. CASE P \in Pairings(m, n - 1) /\ Worth(w, gap, m, n, P) = Worth(w, gap, m, n - 1, P) + gap
    <3>1. left <= Worth(w, gap, m, n - 1, P)
      BY <2>2 DEF Cheapest
    <3>2. Worth(w, gap, m, n - 1, P) \in Int
      BY <1>1, <2>2, SkipColumn
    <3> QED
      BY <1>2, <1>3, <2>2, <3>1, <3>2
  <2>3. CASE \E Q \in Pairings(m - 1, n - 1) :
               Worth(w, gap, m, n, P) = w[<<m, n>>] + Worth(w, gap, m - 1, n - 1, Q)
    <3>1. PICK Q \in Pairings(m - 1, n - 1) :
               Worth(w, gap, m, n, P) = w[<<m, n>>] + Worth(w, gap, m - 1, n - 1, Q)
      BY <2>3
    <3>2. diag <= Worth(w, gap, m - 1, n - 1, Q)
      BY DEF Cheapest
    <3>3. Worth(w, gap, m - 1, n - 1, Q) \in Int
      BY TakePair
    <3> QED
      BY <1>2, <1>3, <3>1, <3>2, <3>3
  <2> HIDE DEF v
  <2>4. \/ P \in Pairings(m - 1, n) /\ Worth(w, gap, m, n, P) = Worth(w, gap, m - 1, n, P) + gap
        \/ P \in Pairings(m, n - 1) /\ Worth(w, gap, m, n, P) = Worth(w, gap, m, n - 1, P) + gap
        \/ \E Q \in Pairings(m - 1, n - 1) :
              Worth(w, gap, m, n, P) = w[<<m, n>>] + Worth(w, gap, m - 1, n - 1, Q)
    BY WorthFromFewer
  <2> QED
    BY <2>1, <2>2, <2>3, <2>4
<1> QED
  BY <1>3, <1>4, <1>5 DEF Cheapest, v

\* A table as levenshtein fills it, for any costs.
Filled(T, M, N, w, gap) ==
  /\ \A j \in 0..N : T[0][j] = gap * j
  /\ \A i \in 1..M : T[i][0] = gap * i
  /\ \A i \in 1..M, j \in 1..N :
       T[i][j] = Min({T[i - 1][j] + gap, T[i][j - 1] + gap, T[i - 1][j - 1] + w[<<i, j>>]})

\* So every cell is least, by the smallest row and column that is not.
LEMMA CheapestTable ==
  ASSUME NEW M \in Nat, NEW N \in Nat, NEW w \in [(1..M) \X (1..N) -> Int], NEW gap \in Int,
         NEW T, Filled(T, M, N, w, gap)
  PROVE  \A i \in 0..M, j \in 0..N : Cheapest(w, gap, i, j, T[i][j])
<1> DEFINE Good(i, j) == Cheapest(w, gap, i, j, T[i][j])
           BadRow == {i \in 0..M : \E j \in 0..N : ~Good(i, j)}
<1>1. SUFFICES ASSUME BadRow # {} PROVE FALSE
  OBVIOUS
<1>2. PICK i \in BadRow : \A k \in BadRow : i <= k
  <2>1. BadRow \subseteq Nat
    OBVIOUS
  <2> HIDE DEF BadRow
  <2> QED
    BY <1>1, <2>1, SmallestOf
<1> DEFINE Bad == {j \in 0..N : ~Good(i, j)}
<1>3. PICK j \in Bad : \A k \in Bad : j <= k
  <2>1. Bad \subseteq Nat /\ Bad # {}
    BY <1>2
  <2> HIDE DEF Bad
  <2> QED
    BY <2>1, SmallestOf
<1>4. i \in 0..M /\ j \in 0..N /\ i \in Nat /\ j \in Nat /\ ~Good(i, j)
  BY <1>2, <1>3
<1>5. CASE i = 0
  <2>1. T[i][j] = gap * (i + j)
    BY <1>4, <1>5 DEF Filled
  <2> QED
    BY <1>4, <1>5, <2>1, CheapestEdge
<1>6. CASE i # 0 /\ j = 0
  <2>1. T[i][j] = gap * (i + j)
    BY <1>4, <1>6 DEF Filled
  <2> QED
    BY <1>4, <1>6, <2>1, CheapestEdge
<1>7. CASE i # 0 /\ j # 0
  <2>1. i \in 1..M /\ j \in 1..N /\ i - 1 \in 0..M /\ j - 1 \in 0..N
    BY <1>4, <1>7
  <2>2. i - 1 \notin BadRow /\ j - 1 \notin Bad
    BY <1>2, <1>3, <2>1
  <2>3. Good(i - 1, j) /\ Good(i - 1, j - 1) /\ Good(i, j - 1)
    BY <1>4, <2>1, <2>2
  <2>4. Cheapest(w, gap, i, j,
          Min({T[i - 1][j] + gap, T[i][j - 1] + gap, T[i - 1][j - 1] + w[<<i, j>>]}))
    BY <2>1, <2>3, CheapestStep
  <2> QED
    BY <1>4, <2>1, <2>4 DEF Filled
<1> QED
  BY <1>4, <1>5, <1>6, <1>7

-----------------------------------------------------------------------------
(* The table of levenshtein.                                                 *)

\* The cost of a substitution is a number.
LEMMA CostIsInt == \A x, y : substitutionCost(x, y) \in Int
BY DEF substitutionCost

\* A row as levenshtein computes it, and what its recursion says.
EditsRow(a, b, i, n, above) ==
  CHOOSE row : row = [j \in 0..n |->
    IF j = 0 THEN 2 * i
    ELSE Min({above[j] + 2, row[j - 1] + 2, above[j - 1] + substitutionCost(a[i], b[j])})]

RowIs(a, b, i, n, above, r) ==
  /\ r \in [0..n -> Int]
  /\ r[0] = 2 * i
  /\ \A j \in 1..n :
       r[j] = Min({above[j] + 2, r[j - 1] + 2, above[j - 1] + substitutionCost(a[i], b[j])})

\* It has a solution, whose cells are those.
LEMMA RowOfEdits ==
  ASSUME NEW a, NEW b, NEW n \in Nat, NEW i \in Nat, NEW above \in [0..n -> Int]
  PROVE  RowIs(a, b, i, n, above, EditsRow(a, b, i, n, above))
<1> DEFINE r == EditsRow(a, b, i, n, above)
<1> HIDE DEF r
<1>0. \A j \in 1..n : j \in 0..n /\ j - 1 \in 0..n /\ j # 0
  OBVIOUS
<1> DEFINE Cell3(j, v) == Min({above[j] + 2, v + 2, above[j - 1] + substitutionCost(a[i], b[j])})
           IsRow(row) == row = [j \in 0..n |-> IF j = 0 THEN 2 * i ELSE Cell3(j, row[j - 1])]
<1>1. \A j \in 1..n, v \in Int : Cell3(j, v) \in Int
  <2> SUFFICES ASSUME NEW j \in 1..n, NEW v \in Int PROVE Cell3(j, v) \in Int
    OBVIOUS
  <2>1. above[j] \in Int /\ above[j - 1] \in Int /\ substitutionCost(a[i], b[j]) \in Int
    BY CostIsInt
  <2>2. above[j] + 2 \in Int /\ v + 2 \in Int /\ above[j - 1] + substitutionCost(a[i], b[j]) \in Int
    BY <2>1
  <2> QED
    BY <2>2, MinOfThree
<1> HIDE DEF Cell3
<1> DEFINE next == [j \in 1..n |-> [v \in Int |-> Cell3(j, v)]]
<1>2. next \in [1..n -> [Int -> Int]]
  BY <1>1
<1>3. \A j \in 1..n, v \in Int : next[j][v] = Cell3(j, v)
  OBVIOUS
<1> HIDE DEF next
<1>4. PICK f : Unrolled(f, n, Int, 2 * i, next)
  <2> DEFINE V == Int
             first == 2 * i
  <2>1. first \in V /\ next \in Steps(n, V)
    BY <1>2 DEF Steps
  <2> HIDE DEF V, first
  <2>2. \E f : Unrolled(f, n, V, first, next)
    BY <2>1, Recursion
  <2> QED
    BY <2>2 DEF V, first
<1>5. f \in [0..n -> Int] /\ f[0] = 2 * i /\ \A j \in 1..n : f[j] = next[j][f[j - 1]]
  BY <1>4 DEF Unrolled
<1>6. \A j \in 1..n : f[j - 1] \in Int /\ f[j] = Cell3(j, f[j - 1])
  <2>1. \A j \in 1..n : f[j - 1] \in Int
    BY <1>0, <1>5
  <2> QED
    BY <1>3, <1>5, <2>1
<1>7. IsRow(f)
  <2>1. \A j \in 0..n : f[j] = IF j = 0 THEN 2 * i ELSE Cell3(j, f[j - 1])
    BY <1>5, <1>6
  <2> QED
    BY <1>5, <2>1
<1>8. IsRow(r)
  <2>1. r = CHOOSE row : IsRow(row)
    BY DEF Cell3, EditsRow, r
  <2> HIDE DEF IsRow
  <2> QED
    BY <1>7, <2>1
<1>9. r[0] = 2 * i /\ \A j \in 1..n : r[j] = Cell3(j, r[j - 1])
  <2>1. \A j \in 0..n : r[j] = IF j = 0 THEN 2 * i ELSE Cell3(j, r[j - 1])
    BY <1>8
  <2>2. 0 \in 0..n
    OBVIOUS
  <2> HIDE DEF IsRow
  <2> QED
    BY <1>0, <2>1, <2>2
<1>10. \A j \in 0..n : r[j] \in Int
  <2>1. r[0] \in Int
    BY <1>9
  <2>2. \A j \in 1..n : r[j - 1] \in Int => r[j] \in Int
    <3> HIDE DEF IsRow
    <3> QED
      BY <1>1, <1>9
  <2> DEFINE V == Int
  <2> HIDE DEF V
  <2>3. r[0] \in V /\ \A j \in 1..n : r[j - 1] \in V => r[j] \in V
    BY <2>1, <2>2 DEF V
  <2>4. \A j \in 0..n : r[j] \in V
    BY <2>3, StaysIn
  <2> QED
    BY <2>4 DEF V
<1>11. r \in [0..n -> Int]
  <2>1. r = [j \in 0..n |-> r[j]]
    BY <1>8
  <2> QED
    BY <1>10, <2>1
<1> QED
  <2>1. RowIs(a, b, i, n, above, r)
    BY <1>9, <1>11 DEF Cell3, RowIs
  <2> QED
    BY <2>1 DEF r

\* The table of the edits between two words.
EditsTable(a, b, m, n, T) ==
  /\ \A j \in 0..n : T[0][j] = 2 * j
  /\ \A i \in 1..m : T[i][0] = 2 * i
  /\ \A i \in 1..m, j \in 1..n :
       T[i][j] = Min({T[i - 1][j] + 2, T[i][j - 1] + 2,
                      T[i - 1][j - 1] + substitutionCost(a[i], b[j])})

\* And the table has those rows (levenshtein).
LEMMA TableOfEdits ==
  ASSUME NEW a, NEW b, Len(a) \in Nat, Len(b) \in Nat
  PROVE  \E T : levenshtein(a, b) = T[Len(a)][Len(b)] /\ EditsTable(a, b, Len(a), Len(b), T)
<1> DEFINE m == Len(a)
           n == Len(b)
           Next(i, above) == [j \in 0..n |-> EditsRow(a, b, i, n, above)[j]]
           top == [j \in 0..n |-> 2 * j]
           IsTable(T) == T = [i \in 0..m |-> IF i = 0 THEN top ELSE Next(i, T[i - 1])]
           T == CHOOSE t : IsTable(t)
<1>1. levenshtein(a, b) = T[m][n]
  BY DEF levenshtein, EditsRow
<1>2. m \in Nat /\ n \in Nat
  OBVIOUS
<1> HIDE DEF m, n
<1>3. ASSUME NEW i \in 1..m, NEW above \in [0..n -> Int]
      PROVE  RowIs(a, b, i, n, above, Next(i, above))
  <2> DEFINE r == EditsRow(a, b, i, n, above)
  <2>1. RowIs(a, b, i, n, above, r)
    BY <1>2, RowOfEdits
  <2>2. Next(i, above) = r
    <3> HIDE DEF r
    <3>1. [j \in 0..n |-> r[j]] = r
      BY <2>1 DEF RowIs
    <3> QED
      BY <3>1 DEF r
  <2> HIDE DEF r, Next
  <2> QED
    BY <2>1, <2>2
<1>4. top \in [0..n -> Int] /\ \A j \in 0..n : top[j] = 2 * j
  BY <1>2
<1> HIDE DEF Next, top
<1> DEFINE V == [0..n -> Int]
           next == [i \in 1..m |-> [above \in V |-> Next(i, above)]]
<1>5. next \in [1..m -> [V -> V]] /\ \A i \in 1..m, above \in V : next[i][above] = Next(i, above)
  BY <1>3 DEF RowIs
<1> HIDE DEF next
<1>6. PICK f : Unrolled(f, m, V, top, next)
  <2>1. top \in V
    BY <1>4
  <2>2. next \in Steps(m, V)
    BY <1>5 DEF Steps
  <2> HIDE DEF V
  <2> QED
    BY <1>2, <2>1, <2>2, Recursion
<1>7. f \in [0..m -> V] /\ f[0] = top /\ \A i \in 1..m : f[i] = next[i][f[i - 1]]
  BY <1>6 DEF Unrolled
<1>8. \A i \in 1..m : f[i - 1] \in V /\ f[i] = Next(i, f[i - 1])
  <2> HIDE DEF V
  <2>1. \A i \in 1..m : i - 1 \in 0..m
    BY <1>2
  <2>2. \A i \in 1..m : f[i - 1] \in V
    BY <1>7, <2>1
  <2> QED
    BY <1>5, <1>7, <2>2
<1>9. IsTable(f)
  <2>1. \A i \in 0..m : f[i] = IF i = 0 THEN top ELSE Next(i, f[i - 1])
    BY <1>2, <1>7, <1>8
  <2> QED
    BY <1>7, <2>1
<1>10. IsTable(T)
  <2> HIDE DEF IsTable
  <2> QED
    BY <1>9
<1> HIDE DEF T
<1>11. T[0] = top /\ \A i \in 1..m : T[i] = Next(i, T[i - 1])
  <2>1. \A i \in 0..m : T[i] = IF i = 0 THEN top ELSE Next(i, T[i - 1])
    BY <1>10
  <2> QED
    BY <1>2, <2>1
<1>12. \A i \in 0..m : T[i] \in V
  <2>1. T[0] \in V
    BY <1>4, <1>11
  <2>2. \A i \in 1..m : T[i - 1] \in V => T[i] \in V
    BY <1>3, <1>11 DEF RowIs
  <2> HIDE DEF V
  <2> QED
    BY <1>2, <2>1, <2>2, StaysIn
<1>13. \A i \in 1..m : T[i - 1] \in V
  BY <1>2, <1>12
<1>14. \A i \in 1..m : RowIs(a, b, i, n, T[i - 1], T[i])
  BY <1>3, <1>11, <1>13
<1>15. EditsTable(a, b, m, n, T)
  BY <1>4, <1>11, <1>14 DEF EditsTable, RowIs
<1> QED
  BY <1>1, <1>15 DEF m, n

\* The edits counted are those of the cheapest pairing of the letters.
LEMMA EditsAreCheapest ==
  ASSUME NEW a, NEW b, Len(a) \in Nat, Len(b) \in Nat
  PROVE  levenshtein(a, b) = LeastEdits(a, b) /\ levenshtein(a, b) \in Int
<1> DEFINE m == Len(a)
           n == Len(b)
           cost == [p \in (1..m) \X (1..n) |-> substitutionCost(a[p[1]], b[p[2]])]
           worths == {Worth(cost, 2, m, n, P) : P \in Pairings(m, n)}
<1>1. m \in Nat /\ n \in Nat
  OBVIOUS
<1>2. PICK T : levenshtein(a, b) = T[m][n] /\ EditsTable(a, b, m, n, T)
  BY TableOfEdits
<1>3. LeastEdits(a, b) = Min(worths)
  BY DEF LeastEdits
<1> HIDE DEF m, n
<1>4. cost \in [(1..m) \X (1..n) -> Int]
  BY CostIsInt
<1>5. \A i \in 1..m, j \in 1..n : cost[<<i, j>>] = substitutionCost(a[i], b[j])
  OBVIOUS
<1> HIDE DEF cost
<1>6. Cheapest(cost, 2, m, n, T[m][n])
  <2>1. \A i \in 0..m, j \in 0..n : Cheapest(cost, 2, i, j, T[i][j])
    <3>1. (\A j \in 0..n : T[0][j] = 2 * j) /\ \A i \in 1..m : T[i][0] = 2 * i
      BY <1>2 DEF EditsTable
    <3>2. ASSUME NEW i \in 1..m, NEW j \in 1..n
          PROVE  T[i][j] = Min({T[i - 1][j] + 2, T[i][j - 1] + 2, T[i - 1][j - 1] + cost[<<i, j>>]})
      <4>1. T[i][j] = Min({T[i - 1][j] + 2, T[i][j - 1] + 2,
                           T[i - 1][j - 1] + substitutionCost(a[i], b[j])})
        BY <1>2 DEF EditsTable
      <4>2. cost[<<i, j>>] = substitutionCost(a[i], b[j])
        BY <1>5
      <4> QED
        BY <4>1, <4>2
    <3> DEFINE gap == 2
    <3>3. Filled(T, m, n, cost, gap) /\ gap \in Int
      BY <3>1, <3>2 DEF Filled
    <3> HIDE DEF gap
    <3>4. \A i \in 0..m, j \in 0..n : Cheapest(cost, gap, i, j, T[i][j])
      BY <1>1, <1>4, <3>3, CheapestTable
    <3> QED
      BY <3>4 DEF gap
  <2> QED
    BY <1>1, <2>1
<1>7. T[m][n] \in worths /\ \A v \in worths : T[m][n] <= v
  BY <1>6 DEF Cheapest
<1>8. worths \subseteq Int
  <2> SUFFICES ASSUME NEW P \in Pairings(m, n) PROVE Worth(cost, 2, m, n, P) \in Int
    OBVIOUS
  <2>1. m \in 0..m /\ n \in 0..n /\ 2 \in Int
    BY <1>1
  <2> QED
    BY <1>1, <1>4, <2>1, WorthIsInt
<1> HIDE DEF worths
<1>9. Min(worths) \in worths /\ \A v \in worths : Min(worths) <= v
  BY <1>7 DEF Min
<1>10. Min(worths) = T[m][n]
  <2>1. Min(worths) \in Int /\ T[m][n] \in Int
    BY <1>7, <1>8, <1>9
  <2>2. Min(worths) <= T[m][n] /\ T[m][n] <= Min(worths)
    BY <1>7, <1>9
  <2> QED
    BY <2>1, <2>2
<1> QED
  BY <1>2, <1>3, <1>7, <1>8, <1>10

-----------------------------------------------------------------------------
(* A table each cell of which is the best of its neighbours' pairings.       *)

\* The pairs of the cell are worth its score, and no other pairing is worth more.
Dearest(w, gap, m, n, cell) ==
  /\ cell.score \in Int
  /\ cell.pairs \in Pairings(m, n) /\ cell.score = Worth(w, gap, m, n, cell.pairs)
  /\ \A P \in Pairings(m, n) : Worth(w, gap, m, n, P) <= cell.score

\* BestCell is one of the three, and none of them scores more.
LEMMA BestOfThree ==
  ASSUME NEW diag, NEW up, NEW left, diag.score \in Int, up.score \in Int, left.score \in Int
  PROVE  LET best == BestCell(diag, up, left)
         IN  /\ best \in {diag, up, left}
             /\ best.score >= diag.score /\ best.score >= up.score /\ best.score >= left.score
BY DEF BestCell

\* The first row and the first column.
LEMMA DearestEdge ==
  ASSUME NEW m \in Nat, NEW n \in Nat, m = 0 \/ n = 0, NEW w, NEW gap \in Int
  PROVE  Dearest(w, gap, m, n, Cell(gap * (m + n), {}))
<1>1. gap * (m + n) \in Int
  OBVIOUS
<1>2. Pairings(m, n) = {{}} /\ Worth(w, gap, m, n, {}) = gap * (m + n)
  BY NothingToPair
<1> DEFINE cell == Cell(gap * (m + n), {})
<1>3. cell.score = gap * (m + n) /\ cell.pairs = {}
  BY DEF Cell
<1> HIDE DEF cell
<1>4. Dearest(w, gap, m, n, cell)
  BY <1>1, <1>2, <1>3 DEF Dearest
<1> QED
  BY <1>4 DEF cell

\* The best of the three neighbours' is best, with the pairs to show for it.
LEMMA DearestStep ==
  ASSUME NEW M \in Nat, NEW N \in Nat, NEW w \in [(1..M) \X (1..N) -> Int], NEW gap \in Int,
         NEW m \in 1..M, NEW n \in 1..N, NEW up, NEW left, NEW diag,
         Dearest(w, gap, m - 1, n, up), Dearest(w, gap, m, n - 1, left),
         Dearest(w, gap, m - 1, n - 1, diag)
  PROVE  Dearest(w, gap, m, n,
           BestCell(Cell(diag.score + w[<<m, n>>], Paired(diag.pairs, m, n)),
                    Cell(up.score + gap, up.pairs), Cell(left.score + gap, left.pairs)))
<1> DEFINE d == Cell(diag.score + w[<<m, n>>], Paired(diag.pairs, m, n))
           u == Cell(up.score + gap, up.pairs)
           l == Cell(left.score + gap, left.pairs)
           best == BestCell(d, u, l)
<1>1. m \in 0..M /\ n \in 0..N
  OBVIOUS
<1>2. w[<<m, n>>] \in Int /\ up.score \in Int /\ left.score \in Int /\ diag.score \in Int
  BY DEF Dearest
<1>3. /\ d.score = diag.score + w[<<m, n>>] /\ d.pairs = Paired(diag.pairs, m, n)
      /\ u.score = up.score + gap /\ u.pairs = up.pairs
      /\ l.score = left.score + gap /\ l.pairs = left.pairs
  BY DEF Cell
<1> HIDE DEF d, u, l
<1>4. d.score \in Int /\ u.score \in Int /\ l.score \in Int
  BY <1>2, <1>3
<1>5. /\ best \in {d, u, l}
      /\ best.score >= d.score /\ best.score >= u.score /\ best.score >= l.score
  BY <1>4, BestOfThree
<1> HIDE DEF best
<1>6. best.score \in Int
  BY <1>4, <1>5
<1>7. best.pairs \in Pairings(m, n) /\ best.score = Worth(w, gap, m, n, best.pairs)
  <2>1. CASE best = u
    <3> DEFINE P == up.pairs
    <3>1. P \in Pairings(m - 1, n) /\ up.score = Worth(w, gap, m - 1, n, P)
      BY DEF Dearest
    <3> HIDE DEF P
    <3>2. P \in Pairings(m, n) /\ Worth(w, gap, m, n, P) = Worth(w, gap, m - 1, n, P) + gap
      BY <1>1, <3>1, SkipRow
    <3>3. P \in Pairings(m, n) /\ u.score = Worth(w, gap, m, n, P)
      BY <1>3, <3>1, <3>2
    <3> QED
      BY <2>1, <3>3, <1>3 DEF P
  <2>2. CASE best = l
    <3> DEFINE P == left.pairs
    <3>1. P \in Pairings(m, n - 1) /\ left.score = Worth(w, gap, m, n - 1, P)
      BY DEF Dearest
    <3> HIDE DEF P
    <3>2. P \in Pairings(m, n) /\ Worth(w, gap, m, n, P) = Worth(w, gap, m, n - 1, P) + gap
      BY <1>1, <3>1, SkipColumn
    <3>3. P \in Pairings(m, n) /\ l.score = Worth(w, gap, m, n, P)
      BY <1>3, <3>1, <3>2
    <3> QED
      BY <2>2, <3>3, <1>3 DEF P
  <2>3. CASE best = d
    <3> DEFINE P == diag.pairs
    <3>1. P \in Pairings(m - 1, n - 1) /\ diag.score = Worth(w, gap, m - 1, n - 1, P)
      BY DEF Dearest
    <3> HIDE DEF P
    <3>2. /\ Paired(P, m, n) \in Pairings(m, n)
          /\ Worth(w, gap, m, n, Paired(P, m, n)) = w[<<m, n>>] + Worth(w, gap, m - 1, n - 1, P)
      BY <3>1, TakePair
    <3>3. w[<<m, n>>] + diag.score = diag.score + w[<<m, n>>]
      BY <1>2
    <3>4. d.score = Worth(w, gap, m, n, Paired(P, m, n))
      BY <1>3, <3>1, <3>2, <3>3
    <3> QED
      BY <2>3, <3>2, <3>4, <1>3 DEF P
  <2> QED
    BY <1>5, <2>1, <2>2, <2>3
<1>8. ASSUME NEW P \in Pairings(m, n) PROVE Worth(w, gap, m, n, P) <= best.score
  <2>1. CASE P \in Pairings(m - 1, n) /\ Worth(w, gap, m, n, P) = Worth(w, gap, m - 1, n, P) + gap
    <3>1. up.score >= Worth(w, gap, m - 1, n, P)
      BY <2>1 DEF Dearest
    <3>2. Worth(w, gap, m - 1, n, P) \in Int
      BY <1>1, <2>1, SkipRow
    <3> QED
      BY <1>2, <1>3, <1>5, <1>6, <2>1, <3>1, <3>2
  <2>2. CASE P \in Pairings(m, n - 1) /\ Worth(w, gap, m, n, P) = Worth(w, gap, m, n - 1, P) + gap
    <3>1. left.score >= Worth(w, gap, m, n - 1, P)
      BY <2>2 DEF Dearest
    <3>2. Worth(w, gap, m, n - 1, P) \in Int
      BY <1>1, <2>2, SkipColumn
    <3> QED
      BY <1>2, <1>3, <1>5, <1>6, <2>2, <3>1, <3>2
  <2>3. CASE \E Q \in Pairings(m - 1, n - 1) :
               Worth(w, gap, m, n, P) = w[<<m, n>>] + Worth(w, gap, m - 1, n - 1, Q)
    <3>1. PICK Q \in Pairings(m - 1, n - 1) :
               Worth(w, gap, m, n, P) = w[<<m, n>>] + Worth(w, gap, m - 1, n - 1, Q)
      BY <2>3
    <3>2. diag.score >= Worth(w, gap, m - 1, n - 1, Q)
      BY DEF Dearest
    <3>3. Worth(w, gap, m - 1, n - 1, Q) \in Int
      BY TakePair
    <3> QED
      BY <1>2, <1>3, <1>5, <1>6, <3>1, <3>2, <3>3
  <2>4. \/ P \in Pairings(m - 1, n) /\ Worth(w, gap, m, n, P) = Worth(w, gap, m - 1, n, P) + gap
        \/ P \in Pairings(m, n - 1) /\ Worth(w, gap, m, n, P) = Worth(w, gap, m, n - 1, P) + gap
        \/ \E Q \in Pairings(m - 1, n - 1) :
              Worth(w, gap, m, n, P) = w[<<m, n>>] + Worth(w, gap, m - 1, n - 1, Q)
    BY WorthFromFewer
  <2> QED
    BY <2>1, <2>2, <2>3, <2>4
<1>9. Dearest(w, gap, m, n, best)
  BY <1>6, <1>7, <1>8 DEF Dearest
<1> QED
  BY <1>9 DEF best, d, u, l

\* A cell of the table of alignWords, and the table.
CellOf(w, above, before, i, j) ==
  BestCell(Cell(above[j - 1].score + w[<<i, j>>], Paired(above[j - 1].pairs, i, j)),
           Cell(above[j].score + Gap, above[j].pairs), Cell(before.score + Gap, before.pairs))

PairsTable(w, m, n, T) ==
  /\ \A j \in 0..n : T[0][j] = Cell(j * Gap, {})
  /\ \A i \in 1..m : T[i][0] = Cell(i * Gap, {})
  /\ \A i \in 1..m, j \in 1..n : T[i][j] = CellOf(w, T[i - 1], T[i][j - 1], i, j)

\* A gap is a number.
LEMMA GapIsInt == Gap \in Int
BY DEF Gap, ReviewThreshold

\* So every cell is best, by the smallest row and column that is not.
LEMMA DearestTable ==
  ASSUME NEW M \in Nat, NEW N \in Nat, NEW w \in [(1..M) \X (1..N) -> Int],
         NEW T, PairsTable(w, M, N, T)
  PROVE  \A i \in 0..M, j \in 0..N : Dearest(w, Gap, i, j, T[i][j])
<1> DEFINE Good(i, j) == Dearest(w, Gap, i, j, T[i][j])
           BadRow == {i \in 0..M : \E j \in 0..N : ~Good(i, j)}
<1>1. SUFFICES ASSUME BadRow # {} PROVE FALSE
  OBVIOUS
<1>2. PICK i \in BadRow : \A k \in BadRow : i <= k
  <2>1. BadRow \subseteq Nat
    OBVIOUS
  <2> HIDE DEF BadRow
  <2> QED
    BY <1>1, <2>1, SmallestOf
<1> DEFINE Bad == {j \in 0..N : ~Good(i, j)}
<1>3. PICK j \in Bad : \A k \in Bad : j <= k
  <2>1. Bad \subseteq Nat /\ Bad # {}
    BY <1>2
  <2> HIDE DEF Bad
  <2> QED
    BY <2>1, SmallestOf
<1>4. i \in 0..M /\ j \in 0..N /\ i \in Nat /\ j \in Nat /\ ~Good(i, j)
  BY <1>2, <1>3
<1>5. CASE i = 0 \/ j = 0
  <2> DEFINE s == Gap * (i + j)
  <2>1. s = j * Gap \/ j = 0
    BY <1>4, <1>5, GapIsInt
  <2>2. s = i * Gap \/ i = 0
    BY <1>4, <1>5, GapIsInt
  <2>3. i = 0 \/ i \in 1..M
    BY <1>4
  <2> HIDE DEF s
  <2>4. T[i][j] = Cell(s, {})
    <3>1. CASE i = 0
      <4>1. s = j * Gap
        BY <1>4, <3>1, GapIsInt DEF s
      <4> QED
        BY <1>4, <3>1, <4>1 DEF PairsTable
    <3>2. CASE i # 0
      <4>1. s = i * Gap
        BY <2>2, <3>2
      <4> QED
        BY <1>5, <2>3, <3>2, <4>1 DEF PairsTable
    <3> QED
      BY <3>1, <3>2
  <2>5. Dearest(w, Gap, i, j, Cell(s, {}))
    BY <1>4, <1>5, GapIsInt, DearestEdge DEF s
  <2> QED
    BY <1>4, <2>4, <2>5
<1>6. CASE i # 0 /\ j # 0
  <2>1. i \in 1..M /\ j \in 1..N /\ i - 1 \in 0..M /\ j - 1 \in 0..N
    BY <1>4, <1>6
  <2>2. i - 1 \notin BadRow /\ j - 1 \notin Bad
    BY <1>2, <1>3, <2>1
  <2>3. Good(i - 1, j) /\ Good(i - 1, j - 1) /\ Good(i, j - 1)
    BY <1>4, <2>1, <2>2
  <2> HIDE DEF Bad, BadRow
  <2>4. Dearest(w, Gap, i, j, CellOf(w, T[i - 1], T[i][j - 1], i, j))
    BY <2>1, <2>3, GapIsInt, DearestStep DEF CellOf
  <2> QED
    BY <1>4, <2>1, <2>4 DEF PairsTable
<1> QED
  BY <1>4, <1>5, <1>6

-----------------------------------------------------------------------------
(* The table of alignWords.                                                  *)

\* Cells, and a row as pairing computes it.
Cells(m, n) == [score : Int, pairs : SUBSET ((1..m) \X (1..n))]
PairsRow(w, i, n, above) ==
  CHOOSE row : row = [j \in 0..n |->
    IF j = 0 THEN Cell(i * Gap, {}) ELSE CellOf(w, above, row[j - 1], i, j)]

\* A cell is a score and pairs.
LEMMA CellType ==
  ASSUME NEW m \in Nat, NEW n \in Nat, NEW w \in [(1..m) \X (1..n) -> Int],
         NEW i \in 1..m, NEW j \in 1..n,
         NEW above \in [0..n -> Cells(m, n)], NEW before \in Cells(m, n)
  PROVE  CellOf(w, above, before, i, j) \in Cells(m, n)
<1> DEFINE d == Cell(above[j - 1].score + w[<<i, j>>], Paired(above[j - 1].pairs, i, j))
           u == Cell(above[j].score + Gap, above[j].pairs)
           l == Cell(before.score + Gap, before.pairs)
<1>1. above[j - 1] \in Cells(m, n) /\ above[j] \in Cells(m, n)
  <2>1. j - 1 \in 0..n /\ j \in 0..n
    OBVIOUS
  <2> HIDE DEF Cells
  <2> QED
    BY <2>1
<1>2. ASSUME NEW c \in Cells(m, n) PROVE c.score \in Int /\ c.pairs \in SUBSET ((1..m) \X (1..n))
  BY DEF Cells
<1>3. ASSUME NEW s \in Int, NEW P \in SUBSET ((1..m) \X (1..n))
      PROVE  Cell(s, P) \in Cells(m, n) /\ Cell(s, P).score \in Int
  BY DEF Cells, Cell
<1>4. w[<<i, j>>] \in Int /\ <<i, j>> \in (1..m) \X (1..n)
  OBVIOUS
<1>5. d \in Cells(m, n) /\ d.score \in Int
  <2> DEFINE s == above[j - 1].score + w[<<i, j>>]
             P == Paired(above[j - 1].pairs, i, j)
  <2>1. s \in Int
    BY <1>1, <1>2, <1>4
  <2>2. P \in SUBSET ((1..m) \X (1..n))
    BY <1>1, <1>2, <1>4 DEF Paired
  <2> HIDE DEF s, P
  <2>3. Cell(s, P) \in Cells(m, n) /\ Cell(s, P).score \in Int
    BY <1>3, <2>1, <2>2
  <2> QED
    BY <2>3 DEF s, P
<1>6. u \in Cells(m, n) /\ u.score \in Int
  <2>1. above[j].score + Gap \in Int
    BY <1>1, <1>2, GapIsInt
  <2> QED
    BY <1>1, <1>2, <1>3, <2>1
<1>7. l \in Cells(m, n) /\ l.score \in Int
  <2>1. before.score + Gap \in Int
    BY <1>2, GapIsInt
  <2> QED
    BY <1>2, <1>3, <2>1
<1> HIDE DEF d, u, l
<1>8. BestCell(d, u, l) \in {d, u, l}
  BY <1>5, <1>6, <1>7, BestOfThree
<1> QED
  BY <1>5, <1>6, <1>7, <1>8 DEF CellOf, d, u, l

\* What its recursion says.
PairsRowIs(w, i, n, above, V, r) ==
  /\ r \in [0..n -> V]
  /\ r[0] = Cell(i * Gap, {})
  /\ \A j \in 1..n : r[j] = CellOf(w, above, r[j - 1], i, j)

\* A row of the table has the cells that its recursion says.
LEMMA RowOfPairs ==
  ASSUME NEW m \in Nat, NEW n \in Nat, NEW w \in [(1..m) \X (1..n) -> Int],
         NEW i \in 1..m, NEW above \in [0..n -> Cells(m, n)]
  PROVE  PairsRowIs(w, i, n, above, Cells(m, n), PairsRow(w, i, n, above))
<1> DEFINE r == PairsRow(w, i, n, above)
           V == Cells(m, n)
           first == Cell(i * Gap, {})
           IsRow(row) ==
             row = [j \in 0..n |-> IF j = 0 THEN first ELSE CellOf(w, above, row[j - 1], i, j)]
           next == [j \in 1..n |-> [v \in V |-> CellOf(w, above, v, i, j)]]
<1> HIDE DEF r
<1>0. \A j \in 1..n : j \in 0..n /\ j - 1 \in 0..n /\ j # 0
  OBVIOUS
<1>1. \A j \in 1..n, v \in V : CellOf(w, above, v, i, j) \in V
  BY CellType
<1>2. first \in V
  BY GapIsInt DEF Cells, Cell
<1> HIDE DEF V, first
<1>3. next \in Steps(n, V) /\ \A j \in 1..n, v \in V : next[j][v] = CellOf(w, above, v, i, j)
  BY <1>1 DEF Steps
<1> HIDE DEF next
<1>4. PICK f : Unrolled(f, n, V, first, next)
  BY <1>2, <1>3, Recursion
<1>5. f \in [0..n -> V] /\ f[0] = first /\ \A j \in 1..n : f[j] = next[j][f[j - 1]]
  BY <1>4 DEF Unrolled
<1>6. \A j \in 1..n : f[j] = CellOf(w, above, f[j - 1], i, j)
  <2>1. \A j \in 1..n : f[j - 1] \in V
    BY <1>0, <1>5
  <2> QED
    BY <1>3, <1>5, <2>1
<1>7. IsRow(f)
  <2>1. \A j \in 0..n : f[j] = IF j = 0 THEN first ELSE CellOf(w, above, f[j - 1], i, j)
    BY <1>5, <1>6
  <2> QED
    BY <1>5, <2>1
<1>8. IsRow(r)
  <2>1. r = CHOOSE row : IsRow(row)
    BY DEF PairsRow, r, first
  <2> HIDE DEF IsRow
  <2> QED
    BY <1>7, <2>1
<1>9. r[0] = first /\ \A j \in 1..n : r[j] = CellOf(w, above, r[j - 1], i, j)
  <2>1. \A j \in 0..n : r[j] = IF j = 0 THEN first ELSE CellOf(w, above, r[j - 1], i, j)
    BY <1>8
  <2>2. 0 \in 0..n
    OBVIOUS
  <2> HIDE DEF IsRow
  <2> QED
    BY <1>0, <2>1, <2>2
<1>10. \A j \in 0..n : r[j] \in V
  <2> HIDE DEF IsRow
  <2>1. r[0] \in V /\ \A j \in 1..n : r[j - 1] \in V => r[j] \in V
    BY <1>1, <1>2, <1>9
  <2> QED
    BY <2>1, StaysIn
<1>11. r \in [0..n -> V]
  <2>1. r = [j \in 0..n |-> r[j]]
    BY <1>8
  <2> QED
    BY <1>10, <2>1
<1>12. PairsRowIs(w, i, n, above, V, r)
  BY <1>9, <1>11 DEF PairsRowIs, first
<1> QED
  BY <1>12 DEF r, V

\* And the table has those rows (pairing).
LEMMA TableOfPairs ==
  ASSUME NEW m \in Nat, NEW n \in Nat, NEW w \in [(1..m) \X (1..n) -> Int]
  PROVE  \E T : pairing(m, n, w) = T[m][n].pairs /\ PairsTable(w, m, n, T)
<1> DEFINE Next(i, above) == [j \in 0..n |-> PairsRow(w, i, n, above)[j]]
           top == [j \in 0..n |-> Cell(j * Gap, {})]
           IsTable(T) == T = [i \in 0..m |-> IF i = 0 THEN top ELSE Next(i, T[i - 1])]
           T == CHOOSE t : IsTable(t)
           W == Cells(m, n)
           V == [0..n -> W]
           next == [i \in 1..m |-> [above \in V |-> Next(i, above)]]
<1>1. pairing(m, n, w) = T[m][n].pairs
  BY DEF pairing, PairsRow, CellOf, Paired
<1>2. ASSUME NEW i \in 1..m, NEW above \in V
      PROVE  PairsRowIs(w, i, n, above, W, Next(i, above))
  <2> DEFINE r == PairsRow(w, i, n, above)
  <2>1. PairsRowIs(w, i, n, above, W, r)
    BY RowOfPairs
  <2>2. Next(i, above) = r
    <3> HIDE DEF r
    <3>1. [j \in 0..n |-> r[j]] = r
      BY <2>1 DEF PairsRowIs
    <3> QED
      BY <3>1 DEF r
  <2> HIDE DEF r, Next
  <2> QED
    BY <2>1, <2>2
<1>3. top \in V /\ \A j \in 0..n : top[j] = Cell(j * Gap, {})
  BY GapIsInt DEF Cells, Cell
<1> HIDE DEF Next, top, W
<1>4. next \in [1..m -> [V -> V]] /\ \A i \in 1..m, above \in V : next[i][above] = Next(i, above)
  BY <1>2 DEF PairsRowIs
<1> HIDE DEF next
<1>5. PICK f : Unrolled(f, m, V, top, next)
  <2>1. top \in V
    BY <1>3
  <2>2. next \in Steps(m, V)
    BY <1>4 DEF Steps
  <2> HIDE DEF V
  <2> QED
    BY <2>1, <2>2, Recursion
<1>6. f \in [0..m -> V] /\ f[0] = top /\ \A i \in 1..m : f[i] = next[i][f[i - 1]]
  BY <1>5 DEF Unrolled
<1>7. \A i \in 1..m : f[i - 1] \in V /\ f[i] = Next(i, f[i - 1])
  <2> HIDE DEF V
  <2>1. \A i \in 1..m : i - 1 \in 0..m
    OBVIOUS
  <2>2. \A i \in 1..m : f[i - 1] \in V
    BY <1>6, <2>1
  <2> QED
    BY <1>4, <1>6, <2>2
<1>8. IsTable(f)
  <2>1. \A i \in 0..m : f[i] = IF i = 0 THEN top ELSE Next(i, f[i - 1])
    BY <1>6, <1>7
  <2> QED
    BY <1>6, <2>1
<1>9. IsTable(T)
  <2> HIDE DEF IsTable
  <2> QED
    BY <1>8
<1> HIDE DEF T
<1>10. T[0] = top /\ \A i \in 1..m : T[i] = Next(i, T[i - 1])
  <2>1. \A i \in 0..m : T[i] = IF i = 0 THEN top ELSE Next(i, T[i - 1])
    BY <1>9
  <2> QED
    BY <2>1
<1>11. \A i \in 0..m : T[i] \in V
  <2>1. T[0] \in V
    BY <1>3, <1>10
  <2>2. \A i \in 1..m : T[i - 1] \in V => T[i] \in V
    BY <1>2, <1>10 DEF PairsRowIs
  <2> HIDE DEF V
  <2> QED
    BY <2>1, <2>2, StaysIn
<1>12. \A i \in 1..m : PairsRowIs(w, i, n, T[i - 1], W, T[i])
  <2>1. \A i \in 1..m : i - 1 \in 0..m
    OBVIOUS
  <2> QED
    BY <1>2, <1>10, <1>11, <2>1
<1>13. PairsTable(w, m, n, T)
  BY <1>3, <1>10, <1>12 DEF PairsTable, PairsRowIs
<1> QED
  BY <1>1, <1>13

\* The pairing found is uncrossed and no other is worth more.
LEMMA PairingIsDearest ==
  ASSUME NEW m \in Nat, NEW n \in Nat, NEW w \in [(1..m) \X (1..n) -> Int]
  PROVE  /\ pairing(m, n, w) \in Pairings(m, n)
         /\ \A P \in Pairings(m, n) :
              Worth(w, Gap, m, n, P) <= Worth(w, Gap, m, n, pairing(m, n, w))
<1>1. PICK T : pairing(m, n, w) = T[m][n].pairs /\ PairsTable(w, m, n, T)
  BY TableOfPairs
<1>2. \A i \in 0..m, j \in 0..n : Dearest(w, Gap, i, j, T[i][j])
  BY <1>1, DearestTable
<1>3. m \in 0..m /\ n \in 0..n
  OBVIOUS
<1>4. Dearest(w, Gap, m, n, T[m][n])
  BY <1>2, <1>3
<1> QED
  BY <1>1, <1>4 DEF Dearest

-----------------------------------------------------------------------------
(* What alignWords makes of the best pairing.                                *)

\* A similarity is a number (words are sequences, so that their lengths are, and
\* the provers take every length for one).
LEMMA SimilarityIsInt == \A x, y : similarity(x, y) \in Int
<1> SUFFICES ASSUME NEW x, NEW y PROVE similarity(x, y) \in Int
  OBVIOUS
<1> DEFINE na == normalizeArabic(x)
           nb == normalizeArabic(y)
           maxLen == IF Len(na) > Len(nb) THEN Len(na) ELSE Len(nb)
           edits == levenshtein(na, nb)
<1>1. maxLen \in Nat /\ edits \in Int
  BY EditsAreCheapest
<1>2. similarity(x, y) = IF maxLen = 0 THEN Exact ELSE Exact - (Exact \div (2 * maxLen)) * edits
  BY DEF similarity
<1> HIDE DEF maxLen, edits
<1>3. CASE maxLen = 0
  BY <1>2, <1>3 DEF Exact
<1>4. CASE maxLen # 0
  <2>1. Exact \div (2 * maxLen) \in Int
    BY <1>1, <1>4 DEF Exact
  <2>2. (Exact \div (2 * maxLen)) * edits \in Int
    BY <1>1, <2>1
  <2> QED
    BY <1>2, <1>4, <2>2 DEF Exact
<1> QED
  BY <1>3, <1>4

\* A pairing with a pair less.
Dropped(P, p) == P \ {p}

\* A pair dropped: two gaps for what it was worth.
LEMMA WorthOfDrop ==
  ASSUME NEW m \in Nat, NEW n \in Nat, NEW w \in [(1..m) \X (1..n) -> Int], NEW gap \in Int,
         NEW P \in Pairings(m, n), NEW p \in P
  PROVE  /\ Dropped(P, p) \in Pairings(m, n)
         /\ w[p] \in Int /\ Worth(w, gap, m, n, P) \in Int
         /\ Worth(w, gap, m, n, Dropped(P, p)) = Worth(w, gap, m, n, P) - w[p] + 2 * gap
<1> DEFINE Q == Dropped(P, p)
<1>1. Q = P \ {p}
  BY DEF Dropped
<1> HIDE DEF Q
<1>2. IsFiniteSet(P) /\ Cardinality(P) \in Nat /\ P \subseteq (1..m) \X (1..n)
  BY PairingType
<1>3. \A q \in P : w[q] \in Int
  BY <1>2
<1>4. Q \in Pairings(m, n)
  BY <1>1 DEF Pairings, Uncrossed
<1>5. SumFunctionOnSet(w, P) = w[p] + SumFunctionOnSet(w, Q)
  BY <1>1, <1>2, <1>3, SumWithout
<1>6. Cardinality(Q) = Cardinality(P) - 1
  BY <1>1, <1>2, FS_RemoveElement
<1>7. m \in 0..m /\ n \in 0..n
  OBVIOUS
<1>8. SumFunctionOnSet(w, Q) \in Int
  BY <1>4, <1>7, WorthIsInt
<1>9. Worth(w, gap, m, n, P) \in Int
  BY <1>7, WorthIsInt
<1> DEFINE k == m + n - 2 * Cardinality(P)
<1>10. k \in Int /\ m + n - 2 * Cardinality(Q) = (k + 1) + 1
  BY <1>2, <1>6
<1>11. Worth(w, gap, m, n, P) = SumFunctionOnSet(w, P) + gap * k
  BY DEF Worth
<1>12. Worth(w, gap, m, n, Q) = SumFunctionOnSet(w, Q) + gap * ((k + 1) + 1)
  BY <1>10 DEF Worth
<1> HIDE DEF k
<1>13. gap * k \in Int /\ gap * (k + 1) = gap * k + gap /\ gap * ((k + 1) + 1) = gap * (k + 1) + gap
  BY <1>10, LinearGap
<1>14. Worth(w, gap, m, n, Q) = Worth(w, gap, m, n, P) - w[p] + 2 * gap
  <2> DEFINE g == gap * k
             s == SumFunctionOnSet(w, Q)
  <2>1. Worth(w, gap, m, n, Q) = s + ((g + gap) + gap)
    BY <1>12, <1>13
  <2>2. Worth(w, gap, m, n, P) = (w[p] + s) + g
    BY <1>5, <1>11
  <2>3. g \in Int /\ s \in Int /\ w[p] \in Int
    BY <1>3, <1>8, <1>13
  <2> HIDE DEF g, s
  <2> QED
    BY <2>1, <2>2, <2>3
<1> QED
  BY <1>3, <1>4, <1>9, <1>14 DEF Q

\* So the best pairing has no pair below the threshold of two gaps, and the
\* threshold drops nothing from it (alignWords).
LEMMA NoneTooWeak ==
  ASSUME NEW m \in Nat, NEW n \in Nat, NEW w \in [(1..m) \X (1..n) -> Int]
  PROVE  {p \in pairing(m, n, w) : w[p] >= ReviewThreshold} = pairing(m, n, w)
<1> DEFINE P == pairing(m, n, w)
<1>1. /\ P \in Pairings(m, n)
      /\ \A Q \in Pairings(m, n) : Worth(w, Gap, m, n, Q) <= Worth(w, Gap, m, n, P)
  BY PairingIsDearest
<1> HIDE DEF P
<1>2. ASSUME NEW p \in P PROVE w[p] >= ReviewThreshold
  <2> DEFINE Q == Dropped(P, p)
  <2>1. /\ Q \in Pairings(m, n) /\ w[p] \in Int /\ Worth(w, Gap, m, n, P) \in Int
        /\ Worth(w, Gap, m, n, Q) = Worth(w, Gap, m, n, P) - w[p] + 2 * Gap
    BY <1>1, GapIsInt, WorthOfDrop
  <2> HIDE DEF Q
  <2>2. Worth(w, Gap, m, n, P) - w[p] + 2 * Gap <= Worth(w, Gap, m, n, P)
    BY <1>1, <2>1
  <2>3. Gap = 195 /\ ReviewThreshold = 390
    BY DEF Gap, ReviewThreshold
  <2> QED
    BY <2>1, <2>2, <2>3
<1> QED
  BY <1>2 DEF P

\* What alignWords answers is what the best pairing says.
LEMMA AlignsFairly ==
  ASSUME NEW L, NEW written \in Seq(L), NEW spoken \in Seq(L)
  PROVE  FairAlignment(written, spoken)
<1> DEFINE recited == SelectSeq(written, LAMBDA w : ~isNonRecitedMark(w))
           m == Len(recited)
           n == Len(spoken)
           sim == [p \in (1..m) \X (1..n) |-> similarity(recited[p[1]], spoken[p[2]])]
           pairs == {p \in pairing(m, n, sim) : sim[p] >= ReviewThreshold}
           words == [i \in 1..m |->
                      IF \E j \in 1..n : <<i, j>> \in pairs
                      THEN LET j == CHOOSE j \in 1..n : <<i, j>> \in pairs
                           IN  [heard |-> j, status |-> Status(sim[<<i, j>>])]
                      ELSE [heard |-> 0, status |-> "missed"]]
           extra == {j \in 1..n : ~\E i \in 1..m : <<i, j>> \in pairs}
           heard == {i \in 1..m : words[i].heard # 0}
           taken == {<<i, words[i].heard>> : i \in heard}
<1>1. alignWords(written, spoken) = [words |-> words, extra |-> extra]
  BY DEF alignWords
<1>2. m \in Nat /\ n \in Nat
  OBVIOUS
<1>3. sim \in [(1..m) \X (1..n) -> Int]
  BY SimilarityIsInt
<1> HIDE DEF recited, m, n, sim
<1>4. /\ pairs \in Pairings(m, n)
      /\ \A P \in Pairings(m, n) : Worth(sim, Gap, m, n, P) <= Worth(sim, Gap, m, n, pairs)
  <2>1. pairs = pairing(m, n, sim)
    BY <1>2, <1>3, NoneTooWeak
  <2> HIDE DEF pairs
  <2> QED
    BY <1>2, <1>3, <2>1, PairingIsDearest
<1> HIDE DEF pairs
<1>5. pairs \subseteq (1..m) \X (1..n) /\ Uncrossed(pairs)
  BY <1>4 DEF Pairings
<1>6. ASSUME NEW i \in 1..m, NEW j \in 1..n, <<i, j>> \in pairs
      PROVE  i \in heard /\ words[i].heard = j /\ words[i].status = Status(sim[<<i, j>>])
  <2> DEFINE k == CHOOSE k \in 1..n : <<i, k>> \in pairs
  <2>1. k \in 1..n /\ <<i, k>> \in pairs
    BY <1>6
  <2>2. words[i] = [heard |-> k, status |-> Status(sim[<<i, k>>])]
    BY <1>6
  <2> HIDE DEF k, words
  <2>3. k = j
    BY <1>5, <1>6, <2>1 DEF Uncrossed
  <2>4. words[i].heard = j /\ words[i].status = Status(sim[<<i, j>>])
    BY <2>2, <2>3
  <2>5. j # 0
    BY <1>2
  <2> QED
    BY <2>4, <2>5
<1>7. ASSUME NEW i \in 1..m, ~\E j \in 1..n : <<i, j>> \in pairs
      PROVE  i \notin heard /\ words[i].status = "missed"
  <2>1. words[i] = [heard |-> 0, status |-> "missed"]
    BY <1>7
  <2> HIDE DEF words
  <2> QED
    BY <2>1
<1>8. DOMAIN words = 1..m
  OBVIOUS
<1> HIDE DEF words
<1>9. taken = pairs
  <2>1. ASSUME NEW p \in pairs PROVE p \in taken
    <3>1. PICK i \in 1..m, j \in 1..n : p = <<i, j>>
      BY <1>5
    <3>2. i \in heard /\ words[i].heard = j
      BY <1>6, <3>1
    <3> HIDE DEF heard
    <3> QED
      BY <3>1, <3>2
  <2>2. ASSUME NEW i \in heard PROVE <<i, words[i].heard>> \in pairs
    <3>1. i \in 1..m
      BY <2>2
    <3>2. PICK j \in 1..n : <<i, j>> \in pairs
      BY <1>7, <2>2, <3>1
    <3>3. words[i].heard = j
      BY <1>6, <3>1, <3>2
    <3> QED
      BY <3>2, <3>3
  <2> HIDE DEF heard
  <2>3. taken \subseteq pairs
    BY <2>2
  <2> HIDE DEF taken
  <2> QED
    BY <2>1, <2>3
<1>10. extra = (1..n) \ {p[2] : p \in pairs}
  <2>1. ASSUME NEW j \in 1..n
        PROVE  (\E i \in 1..m : <<i, j>> \in pairs) <=> \E p \in pairs : p[2] = j
    <3>1. ASSUME NEW p \in pairs, p[2] = j PROVE \E i \in 1..m : <<i, j>> \in pairs
      <4>1. PICK i \in 1..m, k \in 1..n : p = <<i, k>>
        BY <1>5, <3>1
      <4> QED
        BY <3>1, <4>1
    <3>2. ASSUME NEW i \in 1..m, <<i, j>> \in pairs PROVE \E p \in pairs : p[2] = j
      BY <3>2
    <3> QED
      BY <3>1, <3>2
  <2> QED
    BY <2>1
<1>11. ASSUME NEW i \in 1..m
       PROVE  words[i].status = IF i \in heard THEN Status(sim[<<i, words[i].heard>>]) ELSE "missed"
  <2>1. CASE \E j \in 1..n : <<i, j>> \in pairs
    <3>1. PICK j \in 1..n : <<i, j>> \in pairs
      BY <2>1
    <3>2. i \in heard /\ words[i].heard = j /\ words[i].status = Status(sim[<<i, j>>])
      BY <1>6, <3>1
    <3> HIDE DEF heard
    <3> QED
      BY <3>2
  <2>2. CASE ~\E j \in 1..n : <<i, j>> \in pairs
    <3>1. i \notin heard /\ words[i].status = "missed"
      BY <1>7, <2>2
    <3> HIDE DEF heard
    <3> QED
      BY <3>1
  <2> QED
    BY <2>1, <2>2
<1> HIDE DEF extra
<1> DEFINE result == [words |-> words, extra |-> extra]
<1>12. result.words = words /\ result.extra = extra
  OBVIOUS
<1> HIDE DEF result
<1>13. alignWords(written, spoken) = result
  BY <1>1 DEF result
<1>14. FairAlignment(written, spoken) <=>
         /\ DOMAIN words = 1..m
         /\ taken \in Pairings(m, n)
         /\ extra = (1..n) \ {p[2] : p \in taken}
         /\ \A P \in Pairings(m, n) : Worth(sim, Gap, m, n, P) <= Worth(sim, Gap, m, n, taken)
         /\ \A i \in 1..m :
              words[i].status = IF i \in heard THEN Status(sim[<<i, words[i].heard>>]) ELSE "missed"
  BY <1>8, <1>12, <1>13 DEF FairAlignment, Gap, recited, m, n, sim
<1> QED
  BY <1>4, <1>8, <1>9, <1>10, <1>11, <1>14

\* Edits between two words are counted along the cheapest pairing of their
\* letters that does not cross, for words of any length (levenshtein).
THEOREM FewestEdits ==
  ASSUME NEW L, NEW a \in Seq(L), NEW b \in Seq(L)
  PROVE  levenshtein(a, b) = LeastEdits(a, b)
BY EditsAreCheapest

\* No other pairing of two passages has a larger sum, and none of its pairs is
\* below the threshold, whatever the similarities are (alignWords).
THEOREM BestPairing ==
  ASSUME NEW m \in Nat, NEW n \in Nat, NEW sim \in [(1..m) \X (1..n) -> Int]
  PROVE  /\ pairing(m, n, sim) \in Pairings(m, n)
         /\ \A P \in Pairings(m, n) :
              Worth(sim, Gap, m, n, P) <= Worth(sim, Gap, m, n, pairing(m, n, sim))
         /\ \A p \in pairing(m, n, sim) : sim[p] >= ReviewThreshold
<1>1. {p \in pairing(m, n, sim) : sim[p] >= ReviewThreshold} = pairing(m, n, sim)
  BY NoneTooWeak
<1> QED
  BY <1>1, PairingIsDearest

\* And so is what alignWords answers: its pairs, its verdicts and what it calls
\* extra are those of such a pairing.
THEOREM FairToTheLearner ==
  ASSUME NEW Letter, NEW written \in Seq(Seq(Letter)), NEW spoken \in Seq(Seq(Letter))
  PROVE  FairAlignment(written, spoken)
BY AlignsFairly

-----------------------------------------------------------------------------
(* Judging a request (predictAlignment).                                     *)

\* Words that are all missed weigh nothing: otherwise there would be a smallest
\* set of them that weighs something, and without one of its words it would weigh
\* the same (calculateConfidence).
LEMMA MissedWeighNothing ==
  ASSUME NEW words, IsFiniteSet(DOMAIN words), \A i \in DOMAIN words : words[i].status = "missed"
  PROVE  calculateConfidence(words).weight = 0
<1> DEFINE S == DOMAIN words
           W(i) == CONFIDENCE_WEIGHTS(words[i].status)
           Rec(f) == f = [s \in SUBSET S |-> IF s = {} THEN 0
                               ELSE W(CHOOSE x \in s : TRUE) + f[s \ {CHOOSE x \in s : TRUE}]]
           iter == CHOOSE f : Rec(f)
<1>1. calculateConfidence(words).weight = iter[S]
  BY DEF calculateConfidence, MapThenSumSet, MapThenFoldSet
<1>2. \A i \in S : W(i) = 0
  BY DEF CONFIDENCE_WEIGHTS
<1> HIDE DEF W
<1>3. Rec([s \in SUBSET S |-> 0])
  BY <1>2
<1>4. Rec(iter)
  <2> HIDE DEF Rec
  <2> QED
    BY <1>3
<1> HIDE DEF iter
<1>5. \A s \in FiniteSubsetsOf(S) : iter[s] = 0
  <2> DEFINE Bad == {s \in FiniteSubsetsOf(S) : iter[s] # 0}
  <2>1. SUFFICES ASSUME Bad # {} PROVE FALSE
    OBVIOUS
  <2>2. PICK s \in Bad : \A t \in Bad : <<t, s>> \notin StrictSubsetOrdering(S)
    BY <2>1, FS_StrictSubsetOrderingWellFounded, WFMin
  <2>3. s # {} /\ s \in SUBSET S
    BY <2>2, <1>4 DEF FiniteSubsetsOf
  <2> DEFINE x == CHOOSE y \in s : TRUE
             t == s \ {x}
  <2>4. x \in s
    BY <2>3
  <2> HIDE DEF x
  <2>5. t \in FiniteSubsetsOf(S)
    BY <2>2, FS_Difference DEF FiniteSubsetsOf
  <2>6. <<t, s>> \in StrictSubsetOrdering(S)
    BY <2>3, <2>4 DEF StrictSubsetOrdering
  <2>7. iter[t] = 0
    BY <2>2, <2>5, <2>6
  <2>8. iter[s] = W(x) + iter[t]
    BY <1>4, <2>3 DEF x
  <2> QED
    BY <2>2, <2>7, <2>8, <1>2, <2>4, <2>3
<1> QED
  BY <1>1, <1>5 DEF FiniteSubsetsOf

\* A word that is not heard is called missed, and the words have a number
\* (alignWords).
LEMMA UnheardIsMissed ==
  ASSUME NEW written \in Seq(Written), NEW spoken \in Seq(Spoken)
  PROVE  /\ \E m \in Nat : /\ DOMAIN alignWords(written, spoken).words = 1..m
                           /\ Len(alignWords(written, spoken).words) = m
         /\ \A i \in DOMAIN alignWords(written, spoken).words :
              alignWords(written, spoken).words[i].heard = 0 =>
                alignWords(written, spoken).words[i].status = "missed"
<1> DEFINE recited == SelectSeq(written, LAMBDA w : ~isNonRecitedMark(w))
           m == Len(recited)
           n == Len(spoken)
           sim == [p \in (1..m) \X (1..n) |-> similarity(recited[p[1]], spoken[p[2]])]
           pairs == {p \in pairing(m, n, sim) : sim[p] >= ReviewThreshold}
           Heard(i) == CHOOSE j \in 1..n : <<i, j>> \in pairs
           words == [i \in 1..m |-> IF \E j \in 1..n : <<i, j>> \in pairs
                                    THEN [heard |-> Heard(i), status |-> Status(sim[<<i, Heard(i)>>])]
                                    ELSE [heard |-> 0, status |-> "missed"]]
<1>1. alignWords(written, spoken).words = words
  BY DEF alignWords
<1>2. m \in Nat /\ n \in Nat
  OBVIOUS
<1> HIDE DEF recited, m, n, sim, pairs
<1>3. DOMAIN words = 1..m /\ Len(words) = m
  BY <1>2
<1>4. \A i \in 1..m : words[i].heard = 0 => words[i].status = "missed"
  <2> SUFFICES ASSUME NEW i \in 1..m, words[i].heard = 0 PROVE words[i].status = "missed"
    OBVIOUS
  <2>1. CASE \E j \in 1..n : <<i, j>> \in pairs
    <3>1. Heard(i) \in 1..n
      BY <2>1
    <3>2. words[i].heard = Heard(i)
      BY <2>1
    <3> HIDE DEF words, Heard
    <3>3. Heard(i) # 0
      BY <1>2, <3>1
    <3> QED
      BY <3>2, <3>3
  <2> QED
    BY <2>1
<1> HIDE DEF words
<1> QED
  BY <1>1, <1>2, <1>3, <1>4

\* A request is judged on what was heard, for a passage and a recitation of any
\* length (predictAlignment).
LEMMA RequestJudged ==
  ASSUME NEW q \in Requests, NEW written \in Seq(Written), NEW asr \in Seq(Spoken),
         NEW text \in Seq(Spoken)
  PROVE  Judged(q, written, asr, text)
<1> DEFINE spoken == IF AudioSent(q) THEN asr ELSE text
           aligned == alignWords(written, spoken).words
           answer == predictAlignment(q, written, asr, text)
<1>1. CASE Recognized(q)
  <2>1. answer.words = aligned
    BY <1>1 DEF predictAlignment
  <2>2. answer.reviewStatus = "ai-suggested" =>
          asrAllowed(q) /\ AutoAccepted(calculateConfidence(aligned))
    BY <1>1 DEF predictAlignment
  <2>3. asrAllowed(q) => AuditedAsCalled(q)
    BY DEF asrAllowed, AuditedAsCalled, externalAsr, Requests
  <2>4. AutoAccepted(calculateConfidence(aligned)) => \E i \in DOMAIN aligned : aligned[i].heard # 0
    <3> SUFFICES ASSUME \A i \in DOMAIN aligned : aligned[i].heard = 0
                 PROVE  ~AutoAccepted(calculateConfidence(aligned))
      OBVIOUS
    <3>0. spoken \in Seq(Spoken)
      OBVIOUS
    <3>1. PICK m \in Nat : DOMAIN aligned = 1..m /\ Len(aligned) = m
      BY <3>0, UnheardIsMissed
    <3>2. \A i \in DOMAIN aligned : aligned[i].status = "missed"
      BY <3>0, UnheardIsMissed
    <3>3. IsFiniteSet(DOMAIN aligned)
      BY <3>1, FS_Interval
    <3> HIDE DEF aligned
    <3>4. calculateConfidence(aligned).weight = 0
      BY <3>2, <3>3, MissedWeighNothing
    <3>5. calculateConfidence(aligned).of = m
      BY <3>1 DEF calculateConfidence
    <3> QED
      BY <3>4, <3>5 DEF AutoAccepted
  <2> HIDE DEF answer, aligned
  <2> QED
    BY <1>1, <2>1, <2>2, <2>3, <2>4 DEF Judged, Recognized, answer
<1>2. CASE ~Recognized(q)
  <2>1. answer.reviewStatus = "teacher-review-required"
    BY <1>2 DEF predictAlignment
  <2>2. \A i \in DOMAIN answer.words : answer.words[i].status = "needs-review"
    BY <1>2 DEF predictAlignment
  <2> HIDE DEF answer
  <2> QED
    BY <2>1, <2>2 DEF Judged, answer
<1> QED
  BY <1>1, <1>2
===============================================================================
