----------------------------- MODULE SumLemmas -----------------------------
(***************************************************************************)
(* What MapThenSumSet computes over a finite set: the sums by which the    *)
(* modules say that a counter is the total of what its holders have.       *)
(*                                                                         *)
(* The induction is over the subsets of a finite set, by way of a least    *)
(* set that is a counterexample (WFMin): the induction rules of the        *)
(* library have an operator as a parameter, which the provers installed    *)
(* cannot instantiate.                                                     *)
(***************************************************************************)
EXTENDS FiniteSetsExt, FiniteSetTheorems, TLAPS

SumOf(f, S) == MapThenSumSet(LAMBDA x : f[x], S)

Pick(s) == CHOOSE x \in s : TRUE

\* g is the function that the definition of MapThenSumSet recurses with.
SumEq(g, f, S) ==
  g = [s \in SUBSET S |-> IF s = {} THEN 0 ELSE f[Pick(s)] + g[s \ {Pick(s)}]]

SumFun(f, S) == CHOOSE g : SumEq(g, f, S)

\* The definition, unfolded.
LEMMA SumUnfold ==
  ASSUME NEW f, NEW S
  PROVE  SumOf(f, S) = SumFun(f, S)[S]
BY DEF SumOf, MapThenSumSet, MapThenFoldSet, SumFun, SumEq, Pick

\* Every non-empty collection of subsets of a finite set has a least member.
LEMMA LeastSet ==
  ASSUME NEW S, IsFiniteSet(S), NEW Bad \in SUBSET (SUBSET S), Bad # {}
  PROVE  \E T \in Bad : \A U \in Bad : ~(U \subseteq T /\ U # T)
<1>1. IsWellFoundedOn(StrictSubsetOrdering(S), SUBSET S)
  BY FS_StrictSubsetOrderingWellFounded, FS_FiniteSubsetsOfFinite
<1>2. \E T \in Bad : \A U \in Bad : ~(<<U, T>> \in StrictSubsetOrdering(S))
  BY <1>1, WFMin
<1> QED BY <1>2 DEF StrictSubsetOrdering

\* A non-empty set loses the element picked.
LEMMA PickInside ==
  ASSUME NEW s, s # {}
  PROVE  Pick(s) \in s
BY DEF Pick

\* Two functions that obey the equation, also for different sets, agree.
LEMMA SumEqUnique ==
  ASSUME NEW f, NEW S, NEW T, IsFiniteSet(T), NEW g, SumEq(g, f, S), NEW h, SumEq(h, f, T),
         T \subseteq S
  PROVE  \A s \in SUBSET T : g[s] = h[s]
<1> DEFINE Bad == {s \in SUBSET T : g[s] # h[s]}
<1> SUFFICES ASSUME Bad # {} PROVE FALSE
  OBVIOUS
<1>1. PICK s \in Bad : \A U \in Bad : ~(U \subseteq s /\ U # s)
  <2>1. Bad \in SUBSET (SUBSET T)
    OBVIOUS
  <2> HIDE DEF Bad
  <2> QED BY <2>1, LeastSet
<1>2. /\ g[s] = IF s = {} THEN 0 ELSE f[Pick(s)] + g[s \ {Pick(s)}]
      /\ h[s] = IF s = {} THEN 0 ELSE f[Pick(s)] + h[s \ {Pick(s)}]
  BY DEF SumEq
<1>3. s # {}
  BY <1>2
<1>4. s \ {Pick(s)} \in SUBSET T /\ s \ {Pick(s)} # s
  BY <1>3, PickInside
<1>5. g[s \ {Pick(s)}] = h[s \ {Pick(s)}]
  BY <1>1, <1>4
<1> QED BY <1>2, <1>5

\* The recursion is well-defined.
LEMMA SumEqExists ==
  ASSUME NEW f, NEW S, IsFiniteSet(S)
  PROVE  SumEq(SumFun(f, S), f, S)
<1> DEFINE Bad == {T \in SUBSET S : ~ \E g : SumEq(g, f, T)}
<1>1. SUFFICES Bad = {}
  BY <1>1 DEF SumFun
<1> SUFFICES ASSUME Bad # {} PROVE FALSE
  OBVIOUS
<1>2. PICK T \in Bad : \A U \in Bad : ~(U \subseteq T /\ U # T)
  <2>1. Bad \in SUBSET (SUBSET S)
    OBVIOUS
  <2> HIDE DEF Bad
  <2> QED BY <2>1, LeastSet
<1>3. ASSUME NEW U \in SUBSET T, U # T
      PROVE  SumEq(SumFun(f, U), f, U) /\ IsFiniteSet(U)
  <2>1. U \notin Bad
    BY <1>2, <1>3
  <2>2. \E g : SumEq(g, f, U)
    BY <2>1
  <2>3. SumEq(SumFun(f, U), f, U)
    BY <2>2 DEF SumFun
  <2> QED BY <2>3, FS_Subset
<1> DEFINE Rest(s) == s \ {Pick(s)}
<1> DEFINE h == [s \in SUBSET T |-> IF s = {} THEN 0 ELSE f[Pick(s)] + SumFun(f, Rest(s))[Rest(s)]]
<1>4. ASSUME NEW s \in SUBSET T, s # {}
      PROVE  h[Rest(s)] = SumFun(f, Rest(s))[Rest(s)]
  <2> DEFINE u == Rest(s)
  <2>1. u \in SUBSET T /\ u # T
    BY <1>4, PickInside
  <2>2. SumEq(SumFun(f, u), f, u) /\ IsFiniteSet(u)
    BY <1>3, <2>1
  <2>3. SumFun(f, u)[u] = IF u = {} THEN 0 ELSE f[Pick(u)] + SumFun(f, u)[Rest(u)]
    BY <2>2 DEF SumEq
  <2>4. CASE u = {}
    BY <2>1, <2>3, <2>4
  <2>5. CASE u # {}
    <3>1. Rest(u) \in SUBSET T /\ Rest(u) # T /\ Rest(u) \subseteq u
      BY <2>1, <2>5, PickInside
    <3>2. SumEq(SumFun(f, Rest(u)), f, Rest(u)) /\ IsFiniteSet(Rest(u))
      BY <1>3, <3>1
    <3>3. SumFun(f, u)[Rest(u)] = SumFun(f, Rest(u))[Rest(u)]
      <4> HIDE DEF u, Rest
      <4>1. \A s1 \in SUBSET Rest(u) : SumFun(f, u)[s1] = SumFun(f, Rest(u))[s1]
        BY <2>2, <3>1, <3>2, SumEqUnique
      <4> QED BY <4>1
    <3> QED BY <2>1, <2>3, <2>5, <3>3
  <2> QED BY <2>4, <2>5
<1>5. h = [s \in SUBSET T |-> IF s = {} THEN 0 ELSE f[Pick(s)] + h[s \ {Pick(s)}]]
  <2>1. \A s \in SUBSET T : h[s] = IF s = {} THEN 0 ELSE f[Pick(s)] + h[s \ {Pick(s)}]
    BY <1>4
  <2> HIDE DEF h
  <2>2. h = [s \in SUBSET T |-> h[s]]
    BY DEF h
  <2> QED BY <2>1, <2>2
<1>6. SumEq(h, f, T)
  <2> HIDE DEF h
  <2> QED BY <1>5 DEF SumEq
<1> QED BY <1>2, <1>6

\* Whatever obeys the equation is the sum.
LEMMA SumIs ==
  ASSUME NEW f, NEW S, IsFiniteSet(S), NEW g, SumEq(g, f, S)
  PROVE  SumOf(f, S) = g[S]
<1>1. ASSUME NEW h, SumEq(h, f, S), NEW T, T = S
      PROVE  \A s \in SUBSET T : h[s] = g[s]
  <2>1. SumEq(g, f, T) /\ IsFiniteSet(T) /\ T \subseteq S
    BY <1>1
  <2> QED BY <1>1, <2>1, SumEqUnique
<1>2. SumEq(SumFun(f, S), f, S)
  BY SumEqExists
<1>3. SumFun(f, S)[S] = g[S]
  BY <1>1, <1>2
<1> QED BY <1>3, SumUnfold

\* The sum is that of the element picked and of the others.
LEMMA SumStep ==
  ASSUME NEW f, NEW S, IsFiniteSet(S)
  PROVE  SumOf(f, S) = IF S = {} THEN 0 ELSE f[Pick(S)] + SumOf(f, S \ {Pick(S)})
<1> DEFINE R == S \ {Pick(S)}
<1>1. IsFiniteSet(R) /\ R \subseteq S
  BY FS_RemoveElement
<1>2. /\ SumEq(SumFun(f, S), f, S) /\ SumOf(f, S) = SumFun(f, S)[S]
      /\ SumEq(SumFun(f, R), f, R) /\ SumOf(f, R) = SumFun(f, R)[R]
  BY <1>1, SumEqExists, SumUnfold
<1>3. SumFun(f, S)[R] = SumFun(f, R)[R]
  BY <1>1, <1>2, SumEqUnique
<1>4. SumFun(f, S)[S] = IF S = {} THEN 0 ELSE f[Pick(S)] + SumFun(f, S)[R]
  BY <1>2 DEF SumEq
<1> QED BY <1>2, <1>3, <1>4

\* Nothing sums up to zero.
LEMMA SumEmpty ==
  ASSUME NEW f
  PROVE  SumOf(f, {}) = 0
BY FS_EmptySet, SumStep

\* A sum of natural numbers is one.
LEMMA SumNat ==
  ASSUME NEW S, IsFiniteSet(S), NEW f, \A x \in S : f[x] \in Nat
  PROVE  SumOf(f, S) \in Nat
<1> DEFINE Bad == {T \in SUBSET S : SumOf(f, T) \notin Nat}
<1> SUFFICES ASSUME Bad # {} PROVE FALSE
  OBVIOUS
<1>1. PICK T \in Bad : \A U \in Bad : ~(U \subseteq T /\ U # T)
  <2>1. Bad \in SUBSET (SUBSET S)
    OBVIOUS
  <2> HIDE DEF Bad
  <2> QED BY <2>1, LeastSet
<1>2. IsFiniteSet(T)
  BY FS_Subset
<1>3. SumOf(f, T) = IF T = {} THEN 0 ELSE f[Pick(T)] + SumOf(f, T \ {Pick(T)})
  BY <1>2, SumStep
<1>4. T # {}
  BY <1>3
<1>5. Pick(T) \in T
  BY <1>4, PickInside
<1>6. SumOf(f, T \ {Pick(T)}) \in Nat /\ f[Pick(T)] \in Nat
  BY <1>1, <1>5
<1> QED BY <1>3, <1>4, <1>6

\* Any element may be taken out first.
LEMMA SumTake ==
  ASSUME NEW S, IsFiniteSet(S), NEW f, \A x \in S : f[x] \in Nat, NEW y \in S
  PROVE  SumOf(f, S) = f[y] + SumOf(f, S \ {y})
<1> DEFINE Bad == {T \in SUBSET S : \E x \in T : SumOf(f, T) # f[x] + SumOf(f, T \ {x})}
<1> SUFFICES ASSUME Bad # {} PROVE FALSE
  OBVIOUS
<1>1. PICK T \in Bad : \A U \in Bad : ~(U \subseteq T /\ U # T)
  <2>1. Bad \in SUBSET (SUBSET S)
    OBVIOUS
  <2> HIDE DEF Bad
  <2> QED BY <2>1, LeastSet
<1>2. PICK x \in T : SumOf(f, T) # f[x] + SumOf(f, T \ {x})
  OBVIOUS
<1> DEFINE p == Pick(T)
<1>3. IsFiniteSet(T) /\ IsFiniteSet(T \ {x}) /\ IsFiniteSet(T \ {p}) /\ IsFiniteSet((T \ {x}) \ {p})
  BY FS_Subset
<1>4. p \in T /\ SumOf(f, T) = f[p] + SumOf(f, T \ {p})
  BY <1>2, <1>3, SumStep, PickInside
<1>5. x # p
  BY <1>2, <1>4
<1>6. T \ {p} \notin Bad /\ T \ {x} \notin Bad
  BY <1>1, <1>4
<1>7. SumOf(f, T \ {p}) = f[x] + SumOf(f, (T \ {p}) \ {x})
  BY <1>5, <1>6
<1>8. SumOf(f, T \ {x}) = f[p] + SumOf(f, (T \ {x}) \ {p})
  BY <1>4, <1>5, <1>6
<1>9. (T \ {p}) \ {x} = (T \ {x}) \ {p}
  OBVIOUS
<1>10. SumOf(f, (T \ {x}) \ {p}) \in Nat
  BY <1>3, SumNat
<1>11. f[x] \in Nat /\ f[p] \in Nat
  BY <1>4
<1> HIDE DEF Bad, p
<1> QED BY <1>2, <1>4, <1>7, <1>8, <1>9, <1>10, <1>11

\* Equal summands have equal sums.
LEMMA SumSame ==
  ASSUME NEW S, IsFiniteSet(S), NEW f, NEW g, \A x \in S : f[x] = g[x]
  PROVE  SumOf(f, S) = SumOf(g, S)
<1> DEFINE Bad == {T \in SUBSET S : SumOf(f, T) # SumOf(g, T)}
<1> SUFFICES ASSUME Bad # {} PROVE FALSE
  OBVIOUS
<1>1. PICK T \in Bad : \A U \in Bad : ~(U \subseteq T /\ U # T)
  <2>1. Bad \in SUBSET (SUBSET S)
    OBVIOUS
  <2> HIDE DEF Bad
  <2> QED BY <2>1, LeastSet
<1>2. IsFiniteSet(T)
  BY FS_Subset
<1>3. /\ SumOf(f, T) = IF T = {} THEN 0 ELSE f[Pick(T)] + SumOf(f, T \ {Pick(T)})
      /\ SumOf(g, T) = IF T = {} THEN 0 ELSE g[Pick(T)] + SumOf(g, T \ {Pick(T)})
  BY <1>2, SumStep
<1>4. T # {}
  BY <1>3
<1>5. Pick(T) \in T
  BY <1>4, PickInside
<1>6. SumOf(f, T \ {Pick(T)}) = SumOf(g, T \ {Pick(T)}) /\ f[Pick(T)] = g[Pick(T)]
  BY <1>1, <1>5
<1> QED BY <1>3, <1>4, <1>6

\* One summand changes.
LEMMA SumChange ==
  ASSUME NEW S, IsFiniteSet(S), NEW f, NEW g, \A x \in S : f[x] \in Nat, \A x \in S : g[x] \in Nat,
         NEW y \in S, \A x \in S \ {y} : f[x] = g[x]
  PROVE  /\ SumOf(f, S) \in Nat /\ f[y] <= SumOf(f, S)
         /\ SumOf(g, S) = (SumOf(f, S) - f[y]) + g[y]
<1>1. IsFiniteSet(S \ {y})
  BY FS_RemoveElement
<1>2. SumOf(f, S) = f[y] + SumOf(f, S \ {y}) /\ SumOf(g, S) = g[y] + SumOf(g, S \ {y})
  BY SumTake
<1>3. SumOf(f, S \ {y}) = SumOf(g, S \ {y})
  BY <1>1, SumSame
<1>4. SumOf(f, S \ {y}) \in Nat
  BY <1>1, SumNat
<1> QED BY <1>2, <1>3, <1>4

\* A sum of zeros is zero.
LEMMA SumZero ==
  ASSUME NEW S, IsFiniteSet(S), NEW f, \A x \in S : f[x] = 0
  PROVE  SumOf(f, S) = 0
<1> DEFINE Bad == {T \in SUBSET S : SumOf(f, T) # 0}
<1> SUFFICES ASSUME Bad # {} PROVE FALSE
  OBVIOUS
<1>1. PICK T \in Bad : \A U \in Bad : ~(U \subseteq T /\ U # T)
  <2>1. Bad \in SUBSET (SUBSET S)
    OBVIOUS
  <2> HIDE DEF Bad
  <2> QED BY <2>1, LeastSet
<1>2. IsFiniteSet(T)
  BY FS_Subset
<1>3. SumOf(f, T) = IF T = {} THEN 0 ELSE f[Pick(T)] + SumOf(f, T \ {Pick(T)})
  BY <1>2, SumStep
<1>4. T # {}
  BY <1>3
<1>5. Pick(T) \in T
  BY <1>4, PickInside
<1>6. SumOf(f, T \ {Pick(T)}) = 0 /\ f[Pick(T)] = 0
  BY <1>1, <1>5
<1> QED BY <1>3, <1>4, <1>6

-----------------------------------------------------------------------------
(* Counting                                                                 *)

\* Only the elements of T count, when f is zero elsewhere.
LEMMA SumMask ==
  ASSUME NEW S, IsFiniteSet(S), NEW T, T \subseteq S, NEW f, \A x \in S : f[x] \in Nat,
         \A x \in S \ T : f[x] = 0
  PROVE  SumOf(f, S) = SumOf(f, T)
<1> DEFINE Bad == {U \in SUBSET S : SumOf(f, U) # SumOf(f, U \cap T)}
<1>1. SUFFICES Bad = {}
  <2>1. S \in SUBSET S /\ S \cap T = T
    OBVIOUS
  <2> QED BY <1>1, <2>1
<1> SUFFICES ASSUME Bad # {} PROVE FALSE
  OBVIOUS
<1>2. PICK U \in Bad : \A V \in Bad : ~(V \subseteq U /\ V # U)
  <2>1. Bad \in SUBSET (SUBSET S)
    OBVIOUS
  <2> HIDE DEF Bad
  <2> QED BY <2>1, LeastSet
<1>3. U \in SUBSET S /\ SumOf(f, U) # SumOf(f, U \cap T) /\ IsFiniteSet(U) /\ IsFiniteSet(U \cap T)
  BY FS_Subset
<1>4. U # {}
  <2>1. {} \cap T = {}
    OBVIOUS
  <2> QED BY <1>3, <2>1
<1>5. PICK x \in U : TRUE
  BY <1>4
<1> DEFINE V == U \ {x}
<1>6. V \in SUBSET S /\ V \subseteq U /\ V # U
  BY <1>3, <1>5
<1>7. SumOf(f, V) = SumOf(f, V \cap T)
  BY <1>2, <1>6
<1>8. \A y \in U : f[y] \in Nat
  BY <1>3
<1>9. SumOf(f, U) = f[x] + SumOf(f, V)
  BY <1>3, <1>5, <1>8, SumTake
<1>10. IsFiniteSet(V) /\ SumOf(f, V) \in Nat
  <2>1. IsFiniteSet(V) /\ \A y \in V : f[y] \in Nat
    BY <1>3, <1>8, FS_RemoveElement
  <2> HIDE DEF V
  <2> QED BY <2>1, SumNat
<1>11. CASE x \in T
  <2> DEFINE W == U \cap T
  <2>1. x \in W /\ (\A y \in W : f[y] \in Nat) /\ W \ {x} = V \cap T
    BY <1>5, <1>8, <1>11
  <2>2. IsFiniteSet(W)
    BY <1>3
  <2>3. SumOf(f, W) = f[x] + SumOf(f, W \ {x})
    <3> HIDE DEF W
    <3> QED BY <2>1, <2>2, SumTake
  <2> QED BY <1>3, <1>7, <1>9, <2>1, <2>3
<1>12. CASE x \notin T
  <2>1. f[x] = 0 /\ V \cap T = U \cap T
    BY <1>3, <1>5, <1>12
  <2>2. SumOf(f, V) = SumOf(f, U \cap T)
    BY <1>7, <2>1
  <2>3. SumOf(f, U) = SumOf(f, V)
    <3> HIDE DEF V
    <3> QED BY <1>9, <1>10, <2>1
  <2> QED BY <1>3, <2>2, <2>3
<1> QED BY <1>11, <1>12

\* At most one element joins or leaves a finite set.
LEMMA CountChange ==
  ASSUME NEW A, IsFiniteSet(A), NEW B, NEW x, A \ {x} = B \ {x}
  PROVE  /\ IsFiniteSet(B) /\ Cardinality(A) \in Nat /\ Cardinality(B) \in Nat
         /\ x \in A => Cardinality(A) > 0
         /\ Cardinality(B) = (Cardinality(A) - IF x \in A THEN 1 ELSE 0) + IF x \in B THEN 1 ELSE 0
<1>1. IsFiniteSet(A \ {x}) /\ Cardinality(A \ {x}) = IF x \in A THEN Cardinality(A) - 1 ELSE Cardinality(A)
  BY FS_RemoveElement
<1>2. B = A \ {x} \/ B = (A \ {x}) \cup {x}
  OBVIOUS
<1>3. /\ IsFiniteSet((A \ {x}) \cup {x})
      /\ Cardinality((A \ {x}) \cup {x}) = Cardinality(A \ {x}) + 1
  BY <1>1, FS_AddElement
<1>4. Cardinality(A) \in Nat /\ Cardinality(A \ {x}) \in Nat
  BY <1>1, FS_CardinalityType
<1>5. CASE x \in B
  <2>1. B = (A \ {x}) \cup {x}
    BY <1>2, <1>5
  <2> QED BY <1>1, <1>3, <1>4, <1>5, <2>1
<1>6. CASE x \notin B
  <2>1. B = A \ {x}
    BY <1>2, <1>6
  <2> QED BY <1>1, <1>4, <1>6, <2>1
<1> QED BY <1>5, <1>6

\* A non-empty set of natural numbers has a least member.
LEMMA LeastNat ==
  ASSUME NEW S \in SUBSET Nat, S # {}
  PROVE  Min(S) \in S /\ \A y \in S : Min(S) <= y
<1>1. PICK n \in S : TRUE
  OBVIOUS
<1> DEFINE Bad == {0..m : m \in {k \in S : k <= n}}
<1> DEFINE N == 0..n
<1>2. Bad \in SUBSET (SUBSET N) /\ Bad # {}
  BY <1>1
<1>3. IsFiniteSet(N)
  BY <1>1, FS_Interval
<1> HIDE DEF Bad, N
<1>4. PICK T \in Bad : \A U \in Bad : ~(U \subseteq T /\ U # T)
  BY <1>2, <1>3, LeastSet
<1>5. PICK m \in S : m <= n /\ T = 0..m
  BY <1>4 DEF Bad
<1>6. \A y \in S : m <= y
  <2> SUFFICES ASSUME NEW y \in S, y < m PROVE FALSE
    OBVIOUS
  <2>1. 0..y \in Bad
    BY <1>1, <1>5 DEF Bad
  <2>2. 0..y \subseteq T /\ m \in T /\ m \notin 0..y
    BY <1>5
  <2> QED BY <1>4, <2>1, <2>2
<1> QED BY <1>5, <1>6 DEF Min

\* The lesser of two.
LEMMA MinOfTwo ==
  ASSUME NEW a \in Nat, NEW b \in Nat
  PROVE  Min({a, b}) = IF a <= b THEN a ELSE b
<1> DEFINE S == {a, b}
<1>1. S \in SUBSET Nat /\ S # {} /\ \A x : x \in S <=> x = a \/ x = b
  OBVIOUS
<1> HIDE DEF S
<1>2. Min(S) \in S /\ \A y \in S : Min(S) <= y
  BY <1>1, LeastNat
<1>3. Min(S) = IF a <= b THEN a ELSE b
  BY <1>1, <1>2
<1> QED BY <1>3 DEF S
=============================================================================
