----------------------------- MODULE FiniteSums -----------------------------
(***************************************************************************)
(* Facts about least elements, greatest elements and sums over finite sets *)
(* that the proofs of the sweep and of the failover benchmark rest on.     *)
(* Each is an induction, made without an induction rule: among the         *)
(* counterexamples one would be minimal, and that one is none.             *)
(***************************************************************************)
EXTENDS Integers, FiniteSets, FiniteSetsExt, FiniteSetTheorems, WellFoundedInduction, TLAPS

\* Every non-empty family of finite sets has a member that includes no other.
LEMMA MinimalSet ==
  ASSUME NEW F, F # {}, \A A \in F : IsFiniteSet(A)
  PROVE  \E A \in F : \A B \in F : B \subseteq A => B = A
<1>1. PICK S : S = UNION F
  OBVIOUS
<1>2. F \subseteq FiniteSubsetsOf(S)
  BY <1>1 DEF FiniteSubsetsOf
<1>3. \E A \in F : \A B \in F : ~(<<B, A>> \in StrictSubsetOrdering(S))
  BY <1>2, FS_StrictSubsetOrderingWellFounded, WFMin
<1> QED BY <1>2, <1>3 DEF StrictSubsetOrdering, FiniteSubsetsOf

\* Every non-empty set of natural numbers has a least element.
LEMMA LeastNat ==
  ASSUME NEW S \in SUBSET Nat, S # {}
  PROVE  \E m \in S : \A n \in S : m <= n
<1>1. PICK F : F = {0 .. n : n \in S}
  OBVIOUS
<1>2. F # {}
  BY <1>1
<1>3. \A A \in F : IsFiniteSet(A)
  <2>1. \A n \in S : IsFiniteSet(0 .. n)
    BY FS_Interval
  <2> QED BY <1>1, <2>1
<1>4. PICK A \in F : \A B \in F : B \subseteq A => B = A
  BY <1>2, <1>3, MinimalSet
<1>5. PICK m \in S : A = 0 .. m
  BY <1>1
<1>6. ASSUME NEW n \in S, n < m PROVE FALSE
  <2>1. 0 .. n \in F /\ 0 .. n \subseteq 0 .. m
    BY <1>1, <1>6
  <2>2. 0 .. n = 0 .. m
    BY <1>4, <1>5, <2>1
  <2>3. m \in 0 .. m
    OBVIOUS
  <2> QED BY <1>6, <2>2, <2>3
<1> QED BY <1>6

\* Max of a non-empty bounded set of natural numbers is its greatest element.
LEMMA MaxIsGreatest ==
  ASSUME NEW b \in Nat, NEW S \in SUBSET (0 .. b), S # {}
  PROVE  Max(S) \in S /\ \A n \in S : n <= Max(S)
<1>1. PICK U : U = {u \in Nat : \A n \in S : n <= u}
  OBVIOUS
<1>2. b \in U
  BY <1>1
<1>3. PICK m \in U : \A u \in U : m <= u
  BY <1>1, <1>2, LeastNat
<1>4. m \in S
  <2> SUFFICES ASSUME m \notin S PROVE FALSE
    OBVIOUS
  <2>1. \A n \in S : n \in Nat /\ n < m
    BY <1>1, <1>3
  <2>2. PICK n : n \in S
    OBVIOUS
  <2>3. m - 1 \in Nat
    BY <1>1, <2>1, <2>2
  <2>4. m - 1 \in U
    BY <1>1, <2>1, <2>3
  <2> QED BY <1>1, <1>3, <2>4
<1>5. \A n \in S : m >= n
  BY <1>1, <1>3
<1>6. Max(S) \in S /\ \A n \in S : Max(S) >= n
  BY <1>4, <1>5 DEF Max
<1> QED BY <1>6

\* So is Max of a non-empty bounded set of integers.
LEMMA MaxOfIntegers ==
  ASSUME NEW b \in Nat, NEW S \in SUBSET (-b .. b), S # {}
  PROVE  Max(S) \in S /\ \A n \in S : n <= Max(S)
<1>1. PICK U : U = {u \in Nat : \A n \in S : n <= u - b}
  OBVIOUS
<1>2. b + b \in U
  BY <1>1
<1>3. PICK m \in U : \A u \in U : m <= u
  BY <1>1, <1>2, LeastNat
<1>4. m - b \in S
  <2> SUFFICES ASSUME m - b \notin S PROVE FALSE
    OBVIOUS
  <2>1. \A n \in S : n \in Int /\ -b <= n /\ n < m - b
    BY <1>1, <1>3
  <2>2. PICK n : n \in S
    OBVIOUS
  <2>3. m - 1 \in Nat
    BY <1>1, <2>1, <2>2
  <2>4. m - 1 \in U
    BY <1>1, <2>1, <2>3
  <2> QED BY <1>1, <1>3, <2>4
<1>5. \A n \in S : m - b >= n
  BY <1>1, <1>3
<1>6. Max(S) \in S /\ \A n \in S : Max(S) >= n
  BY <1>4, <1>5 DEF Max
<1> QED BY <1>6

\* Min of a non-empty set of natural numbers is its least element.
LEMMA MinIsLeast ==
  ASSUME NEW S \in SUBSET Nat, S # {}
  PROVE  Min(S) \in S /\ \A n \in S : Min(S) <= n
<1>1. PICK m \in S : \A n \in S : m <= n
  BY LeastNat
<1> QED BY <1>1 DEF Min

-----------------------------------------------------------------------------
(***************************************************************************)
(* FoldFunction(+, 0, w) takes the elements of DOMAIN w one by one, in an  *)
(* order that depends on the domain alone.                                 *)
(***************************************************************************)
Pick(s) == CHOOSE x \in s : TRUE
Rest(s) == s \ {Pick(s)}

\* f maps every subset of T to the sum of w over it.
Sums(f, T, w) ==
  f = [s \in SUBSET T |-> IF s = {} THEN 0 ELSE w[Pick(s)] + f[Rest(s)]]

LEMMA RestIsLess == \A s : s # {} => Pick(s) \in s /\ Rest(s) \subseteq s /\ Rest(s) # s
BY DEF Pick, Rest

LEMMA SumsAgree ==
  ASSUME NEW w, NEW T, NEW U, NEW f, NEW g, Sums(f, T, w), Sums(g, U, w),
         NEW A, A \subseteq T, A \subseteq U, IsFiniteSet(A)
  PROVE  f[A] = g[A]
<1> SUFFICES ASSUME f[A] # g[A] PROVE FALSE
  OBVIOUS
<1>1. PICK Bad : Bad = {s \in SUBSET A : f[s] # g[s]}
  OBVIOUS
<1>2. Bad # {} /\ \A s \in Bad : IsFiniteSet(s)
  BY <1>1, FS_Subset
<1>3. PICK s \in Bad : \A r \in Bad : r \subseteq s => r = s
  BY <1>2, MinimalSet
<1>4. s \in SUBSET T /\ s \in SUBSET U /\ f[s] # g[s]
  BY <1>1
<1>5. s # {}
  BY <1>4 DEF Sums
<1>6. Rest(s) \subseteq s /\ Rest(s) # s
  BY <1>5, RestIsLess
<1>7. f[Rest(s)] = g[Rest(s)]
  BY <1>1, <1>3, <1>6
<1>8. f[s] = w[Pick(s)] + f[Rest(s)] /\ g[s] = w[Pick(s)] + g[Rest(s)]
  BY <1>4, <1>5 DEF Sums
<1> QED BY <1>4, <1>7, <1>8

LEMMA SumsExist ==
  ASSUME NEW w, NEW S, IsFiniteSet(S)
  PROVE  \E f : Sums(f, S, w)
<1> SUFFICES ASSUME ~\E f : Sums(f, S, w) PROVE FALSE
  OBVIOUS
<1>1. PICK Bad : Bad = {T \in SUBSET S : ~\E f : Sums(f, T, w)}
  OBVIOUS
<1>2. Bad # {} /\ \A T \in Bad : IsFiniteSet(T)
  BY <1>1, FS_Subset
<1>3. PICK A \in Bad : \A T \in Bad : T \subseteq A => T = A
  BY <1>2, MinimalSet
<1>4. A \in SUBSET S /\ IsFiniteSet(A) /\ ~\E f : Sums(f, A, w)
  BY <1>1, <1>2
<1>5. PICK G : G = [T \in SUBSET A |-> CHOOSE f : Sums(f, T, w)]
  OBVIOUS
<1>6. \A T \in SUBSET A : T # A => Sums(G[T], T, w)
  BY <1>1, <1>3, <1>4, <1>5
<1>7. PICK f : f = [s \in SUBSET A |-> IF s = {} THEN 0 ELSE w[Pick(s)] + G[Rest(s)][Rest(s)]]
  OBVIOUS
<1>8. ASSUME NEW r \in SUBSET A, r # A PROVE f[r] = G[r][r]
  <2>1. CASE r = {}
    <3>1. G[r][r] = 0
      BY <1>6, <1>8, <2>1 DEF Sums
    <3> QED BY <1>7, <2>1, <3>1
  <2>2. CASE r # {}
    <3>1. Rest(r) \subseteq r /\ Rest(r) # r /\ Rest(r) \in SUBSET A /\ Rest(r) # A
      BY <1>8, <2>2, RestIsLess
    <3>2. Sums(G[r], r, w) /\ Sums(G[Rest(r)], Rest(r), w)
      BY <1>6, <1>8, <3>1
    <3>3. IsFiniteSet(Rest(r))
      BY <1>4, <3>1, FS_Subset
    <3>4. G[r][Rest(r)] = G[Rest(r)][Rest(r)]
      BY <3>1, <3>2, <3>3, SumsAgree
    <3>5. G[r][r] = w[Pick(r)] + G[r][Rest(r)]
      BY <2>2, <3>2 DEF Sums
    <3>6. f[r] = w[Pick(r)] + G[Rest(r)][Rest(r)]
      BY <1>7, <2>2
    <3> QED BY <3>4, <3>5, <3>6
  <2> QED BY <2>1, <2>2
<1>9. ASSUME NEW s \in SUBSET A, s # {} PROVE f[s] = w[Pick(s)] + f[Rest(s)]
  <2>1. Rest(s) \in SUBSET A /\ Rest(s) # A
    BY <1>9, RestIsLess
  <2>2. f[Rest(s)] = G[Rest(s)][Rest(s)]
    BY <1>8, <2>1
  <2>3. f[s] = w[Pick(s)] + G[Rest(s)][Rest(s)]
    BY <1>7, <1>9
  <2> QED BY <2>2, <2>3
<1>10. Sums(f, A, w)
  BY <1>7, <1>9 DEF Sums
<1> QED BY <1>4, <1>10

\* The sum of w, as a function of all subsets of its domain.
LEMMA SumUnfolds ==
  ASSUME NEW S, IsFiniteSet(S), NEW w, DOMAIN w = S
  PROVE  \E f : Sums(f, S, w) /\ FoldFunction(+, 0, w) = f[S]
<1>1. PICK f : f = CHOOSE g : Sums(g, S, w)
  OBVIOUS
<1>2. Sums(f, S, w)
  BY <1>1, SumsExist
<1>3. FoldFunction(+, 0, w) = f[S]
  BY <1>1 DEF FoldFunction, FoldFunctionOnSet, MapThenFoldSet, Sums, Pick, Rest
<1> QED BY <1>2, <1>3

LEMMA EmptySum ==
  ASSUME NEW w, DOMAIN w = {}
  PROVE  FoldFunction(+, 0, w) = 0
<1>1. PICK f : Sums(f, {}, w) /\ FoldFunction(+, 0, w) = f[{}]
  BY SumUnfolds, FS_EmptySet
<1> QED BY <1>1 DEF Sums

LEMMA SumsAreNat ==
  ASSUME NEW S, IsFiniteSet(S), NEW w \in [S -> Nat], NEW f, Sums(f, S, w)
  PROVE  \A s \in SUBSET S : f[s] \in Nat
<1> SUFFICES ASSUME NEW t \in SUBSET S, f[t] \notin Nat PROVE FALSE
  OBVIOUS
<1>2. PICK Bad : Bad = {s \in SUBSET S : f[s] \notin Nat}
  OBVIOUS
<1>3. Bad # {} /\ \A s \in Bad : IsFiniteSet(s)
  BY <1>2, FS_Subset
<1>4. PICK s \in Bad : \A r \in Bad : r \subseteq s => r = s
  BY <1>3, MinimalSet
<1>5. s \in SUBSET S /\ f[s] \notin Nat
  BY <1>2
<1>6. s # {}
  BY <1>5 DEF Sums
<1>7. Pick(s) \in S /\ Rest(s) \in SUBSET S /\ Rest(s) \subseteq s /\ Rest(s) # s
  BY <1>5, <1>6, RestIsLess
<1>8. f[Rest(s)] \in Nat
  BY <1>2, <1>4, <1>7
<1>9. f[s] = w[Pick(s)] + f[Rest(s)]
  BY <1>5, <1>6 DEF Sums
<1>10. w[Pick(s)] \in Nat
  BY <1>7
<1> QED BY <1>5, <1>8, <1>9, <1>10

\* A sum of natural numbers is a natural number ...
LEMMA SumOfNats ==
  ASSUME NEW S, IsFiniteSet(S), NEW w \in [S -> Nat]
  PROVE  FoldFunction(+, 0, w) \in Nat
<1>1. PICK f : Sums(f, S, w) /\ FoldFunction(+, 0, w) = f[S]
  BY SumUnfolds
<1>2. \A s \in SUBSET S : f[s] \in Nat
  BY <1>1, SumsAreNat
<1> QED BY <1>1, <1>2

\* ... a positive one if all of them are, and there are any ...
LEMMA SumOfPositives ==
  ASSUME NEW S, IsFiniteSet(S), S # {}, NEW w \in [S -> Nat \ {0}]
  PROVE  FoldFunction(+, 0, w) \in Nat \ {0}
<1>1. PICK f : Sums(f, S, w) /\ FoldFunction(+, 0, w) = f[S]
  BY SumUnfolds
<1>2. w \in [S -> Nat]
  OBVIOUS
<1>3. \A s \in SUBSET S : f[s] \in Nat
  BY <1>1, <1>2, SumsAreNat
<1>4. Pick(S) \in S /\ Rest(S) \in SUBSET S
  BY RestIsLess
<1>5. f[S] = w[Pick(S)] + f[Rest(S)]
  BY <1>1 DEF Sums
<1>6. w[Pick(S)] \in Nat \ {0} /\ f[Rest(S)] \in Nat
  BY <1>3, <1>4
<1>7. f[S] \in Nat \ {0}
  BY <1>5, <1>6
<1> QED BY <1>1, <1>7

\* ... and grows with every one of them.
LEMMA SumIsMonotone ==
  ASSUME NEW S, IsFiniteSet(S), NEW v \in [S -> Nat], NEW w \in [S -> Nat],
         \A x \in S : v[x] <= w[x]
  PROVE  FoldFunction(+, 0, v) <= FoldFunction(+, 0, w)
<1>1. PICK f : Sums(f, S, v) /\ FoldFunction(+, 0, v) = f[S]
  BY SumUnfolds
<1>2. PICK g : Sums(g, S, w) /\ FoldFunction(+, 0, w) = g[S]
  BY SumUnfolds
<1>3. \A s \in SUBSET S : f[s] \in Nat
  BY <1>1, SumsAreNat
<1>4. \A s \in SUBSET S : g[s] \in Nat
  BY <1>2, SumsAreNat
<1> SUFFICES ASSUME ~(f[S] <= g[S]) PROVE FALSE
  BY <1>1, <1>2
<1>5. PICK Bad : Bad = {s \in SUBSET S : ~(f[s] <= g[s])}
  OBVIOUS
<1>6. Bad # {} /\ \A s \in Bad : IsFiniteSet(s)
  BY <1>5, FS_Subset
<1>7. PICK s \in Bad : \A r \in Bad : r \subseteq s => r = s
  BY <1>6, MinimalSet
<1>8. s \in SUBSET S /\ ~(f[s] <= g[s])
  BY <1>5
<1>9. s # {}
  <2>1. f[{}] = 0 /\ g[{}] = 0
    BY <1>1, <1>2 DEF Sums
  <2> QED BY <1>8, <2>1
<1>10. Pick(s) \in S /\ Rest(s) \in SUBSET S /\ Rest(s) \subseteq s /\ Rest(s) # s
  BY <1>8, <1>9, RestIsLess
<1>11. f[Rest(s)] <= g[Rest(s)]
  BY <1>5, <1>7, <1>10
<1>12. f[s] = v[Pick(s)] + f[Rest(s)] /\ g[s] = w[Pick(s)] + g[Rest(s)]
  BY <1>1, <1>2, <1>8, <1>9 DEF Sums
<1>13. f[Rest(s)] \in Nat /\ g[Rest(s)] \in Nat /\ v[Pick(s)] \in Nat /\ w[Pick(s)] \in Nat
  BY <1>3, <1>4, <1>10
<1>14. v[Pick(s)] <= w[Pick(s)]
  BY <1>10
<1> QED BY <1>8, <1>11, <1>12, <1>13, <1>14
=============================================================================
