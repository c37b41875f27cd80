--------------------------- MODULE MeasuringProofs ---------------------------
(***************************************************************************)
(* Theorems about what the panel measures: its own traffic (Metrics) and   *)
(* the endpoints it probes and learns about (Probing and ScanLearning, as  *)
(* MCMeasuring runs them).  What they have in common comes first:          *)
(* induction over data, and what folds, sums and greatest elements         *)
(* compute.                                                                *)
(*                                                                         *)
(* Metrics: for every number of isolates and of requests, whatever they    *)
(* ask, emit and stream, whatever KV refuses and whenever an isolate is    *)
(* dropped.  The operators of MetricsDocuments and the sums over isolates  *)
(* and requests; the types; then the three inductive invariants: a series  *)
(* that is stored, or that someone will still store, never exceeds what    *)
(* was served (CountedOnce); the flushes of an isolate are paid for by the *)
(* requests it counted and the time that passed (BudgetInv); while nothing *)
(* is lost, what is stored and what is held are all there is (Exact).      *)
(*                                                                         *)
(* Probing: for every list of candidates, every limit, and every order in  *)
(* which workers and connections make progress.  Sets that are listed in   *)
(* an order, what is computed of the attempts and scored; then the         *)
(* invariant of a run (RunInv): each target is with one worker, who notes  *)
(* what became of its connections, or judged by them; and, of a run that   *)
(* has answered, that its report says so.                                  *)
(*                                                                         *)
(* ScanLearning: for every published list, every document earlier weeks    *)
(* left, and every order of scans and reports, those the panel makes       *)
(* itself of any kind.  Lists by an order and filtered lists; that advice  *)
(* which is followed is final; weighted sums, medians, and what is kept of *)
(* a report; then the invariant of the weeks (WeeksTyped): what is         *)
(* remembered is well formed (Remembered, Historic), and a device is asked *)
(* about published addresses only (PlanSound).                             *)
(***************************************************************************)
EXTENDS Metrics, MCMeasuring, Integers, FiniteSets, Functions, FiniteSetsExt, FiniteSetTheorems,
        SequenceTheorems, WellFoundedInduction, TLAPS

-----------------------------------------------------------------------------
(***************************************************************************)
(* Induction over data: over numbers, over the subsets of a finite set and *)
(* along a sequence.  The library's induction theorems take an operator    *)
(* for what is to be proved; here it is a set, the set of what has the     *)
(* property, and the base is WFMin, that a set of numbers has a least one. *)
(* From it follow what a fold computes, sums and greatest elements.        *)
(***************************************************************************)
\* A set of numbers has a least one.
LEMMA Smallest ==
    ASSUME NEW T \in SUBSET Nat, T # {}
    PROVE  \E x \in T : \A y \in T : x <= y
<1> DEFINE R == {p \in Nat \X Nat : p[1] < p[2]}
<1>1. IsWellFoundedOn(R, Nat)
  BY NatLessThanWellFounded DEF OpToRel
<1> HIDE DEF R
<1>2. \E x \in T : \A y \in T : <<y, x>> \notin R
  BY <1>1, WFMin
<1>3. ASSUME NEW x \in T, NEW y \in T, <<y, x>> \notin R
      PROVE  x <= y
  BY <1>3 DEF R
<1> QED BY <1>2, <1>3

\* What holds of zero and of the successor of each number it holds of, holds of all.
LEMMA Induction ==
    ASSUME NEW S, 0 \in S, \A n \in Nat : n \in S => n + 1 \in S
    PROVE  \A n \in Nat : n \in S
<1> SUFFICES ASSUME Nat \ S # {} PROVE FALSE
  OBVIOUS
<1>1. PICK x \in Nat \ S : \A y \in Nat \ S : x <= y
  BY Smallest
<1>2. x # 0 /\ x - 1 \in Nat /\ x - 1 \in S
  BY <1>1
<1>3. (x - 1) + 1 \in S
  BY <1>2
<1> QED BY <1>3

\* What holds of a finite set when it holds of the set without any one of its elements
\* holds of every subset.
LEMMA SetInduction ==
    ASSUME NEW S, IsFiniteSet(S), NEW P,
           \A T \in SUBSET S : (\A x \in T : T \ {x} \in P) => T \in P
    PROVE  \A T \in SUBSET S : T \in P
<1> DEFINE Small == {n \in Nat : \A T \in SUBSET S : Cardinality(T) = n => T \in P}
<1>1. 0 \in Small
  <2>1. \A T \in SUBSET S : Cardinality(T) = 0 => T = {}
    BY FS_Subset, FS_EmptySet
  <2> QED BY <2>1
<1>2. ASSUME NEW n \in Nat, n \in Small
      PROVE  n + 1 \in Small
  <2> SUFFICES ASSUME NEW T \in SUBSET S, Cardinality(T) = n + 1
               PROVE  T \in P
    OBVIOUS
  <2>1. IsFiniteSet(T)
    BY FS_Subset
  <2>2. ASSUME NEW x \in T
        PROVE  T \ {x} \in P
    <3>1. Cardinality(T \ {x}) = Cardinality(T) - 1
      BY <2>1, FS_RemoveElement, Zenon
    <3>2. Cardinality(T \ {x}) = n
      BY <3>1
    <3> QED BY <1>2, <3>2
  <2> QED BY <2>2
<1> HIDE DEF Small
<1>3. \A n \in Nat : n \in Small
  BY <1>1, <1>2, Induction
<1>4. \A T \in SUBSET S : Cardinality(T) \in Nat
  BY FS_Subset, FS_CardinalityType
<1> QED BY <1>3, <1>4 DEF Small

\* A function of the subsets of a finite set may be defined by what an element, chosen by
\* c, adds to its value for the others.
Recursive(S, V, base, G, c) ==
    /\ IsFiniteSet(S)
    /\ base \in V
    /\ G \in [S \X V -> V]
    /\ \A T \in SUBSET S : T # {} => c[T] \in T

Solution(g, S, V, base, G, c) ==
    /\ g \in [SUBSET S -> V]
    /\ \A T \in SUBSET S : g[T] = IF T = {} THEN base ELSE G[<<c[T], g[T \ {c[T]}]>>]

\* There is such a function.
LEMMA Recursion ==
    ASSUME NEW S, NEW V, NEW base, NEW G, NEW c, Recursive(S, V, base, G, c)
    PROVE  \E g : Solution(g, S, V, base, G, c)
<1> DEFINE Def(g, T) == g[T] = IF T = {} THEN base ELSE G[<<c[T], g[T \ {c[T]}]>>]
           Upto(n) == {T \in SUBSET S : Cardinality(T) <= n}
           Small == {n \in Nat : \E g \in [Upto(n) -> V] : \A T \in Upto(n) : Def(g, T)}
<1> USE DEF Recursive
<1>0. \A T \in SUBSET S : IsFiniteSet(T) /\ Cardinality(T) \in Nat
  BY FS_Subset, FS_CardinalityType
<1>1. 0 \in Small
  <2>1. Upto(0) = {{}}
    BY <1>0, FS_EmptySet
  <2>2. \A T \in Upto(0) : Def([U \in Upto(0) |-> base], T)
    BY <2>1
  <2> QED BY <2>2
<1>2. ASSUME NEW n \in Nat, n \in Small
      PROVE  n + 1 \in Small
  <2>1. PICK g \in [Upto(n) -> V] : \A T \in Upto(n) : Def(g, T)
    BY <1>2
  <2> DEFINE h == [T \in Upto(n + 1) |-> IF T \in Upto(n) THEN g[T] ELSE G[<<c[T], g[T \ {c[T]}]>>]]
  <2>2. ASSUME NEW T \in Upto(n + 1), T # {}
        PROVE  c[T] \in S /\ T \ {c[T]} \in Upto(n)
    <3>1. Cardinality(T \ {c[T]}) = Cardinality(T) - 1
      BY <1>0, <2>2, FS_RemoveElement
    <3> QED BY <3>1, <1>0, <2>2
  <2>3. \A T \in Upto(n + 1) \ Upto(n) : T # {}
    <3>1. {} \in Upto(n)
      BY FS_EmptySet
    <3> QED BY <3>1
  <2>4. h \in [Upto(n + 1) -> V]
    BY <2>2, <2>3
  <2>5. Upto(n) \subseteq Upto(n + 1)
    BY <1>0
  <2>6. ASSUME NEW T \in Upto(n + 1)
        PROVE  Def(h, T)
    <3> HIDE DEF Upto
    <3>1. CASE T = {}
      <4>1. T \in Upto(n)
        BY <3>1, FS_EmptySet DEF Upto
      <4> QED BY <4>1, <2>1, <3>1
    <3>2. CASE T # {}
      <4>1. T \ {c[T]} \in Upto(n)
        BY <2>2, <3>2
      <4>2. h[T \ {c[T]}] = g[T \ {c[T]}]
        BY <4>1, <2>5
      <4>3. h[T] = G[<<c[T], g[T \ {c[T]}]>>]
        BY <2>1, <3>2
      <4> QED BY <4>2, <4>3, <3>2
    <3> QED BY <3>1, <3>2
  <2>7. \E e \in [Upto(n + 1) -> V] : \A T \in Upto(n + 1) : Def(e, T)
    <3> HIDE DEF h, Def, Upto
    <3> QED BY <2>4, <2>6
  <2> HIDE DEF h, Def, Upto
  <2> QED BY <2>7
<1> HIDE DEF Small
<1>3. Cardinality(S) \in Small
  BY <1>1, <1>2, <1>0, Induction
<1>4. Upto(Cardinality(S)) = SUBSET S
  <2>1. \A T \in SUBSET S : Cardinality(T) <= Cardinality(S)
    BY FS_Subset
  <2> QED BY <2>1
<1>5. PICK g \in [SUBSET S -> V] : \A T \in SUBSET S : Def(g, T)
  BY <1>3, <1>4 DEF Small
<1>6. Solution(g, S, V, base, G, c)
  BY <1>5 DEF Solution
<1> QED BY <1>6

Chosen(s) == CHOOSE x \in s : TRUE

\* The sum over a set is such a function, at the whole set.
LEMMA SumIsDefined ==
    ASSUME NEW S, IsFiniteSet(S), NEW f, \A x \in S : f[x] \in Int
    PROVE  \E g \in [SUBSET S -> Int] :
             /\ \A T \in SUBSET S : g[T] = IF T = {} THEN 0 ELSE f[Chosen(T)] + g[T \ {Chosen(T)}]
             /\ SumFunctionOnSet(f, S) = g[S]
<1> DEFINE c == [T \in SUBSET S |-> Chosen(T)]
           G == [p \in S \X Int |-> f[p[1]] + p[2]]
           sum == CHOOSE g : g = [T \in SUBSET S |-> IF T = {} THEN 0 ELSE f[CHOOSE x \in T : TRUE] + g[T \ {CHOOSE x \in T : TRUE}]]
<1>1. \A T \in SUBSET S : T # {} => c[T] \in T
  BY DEF Chosen
<1>2. G \in [S \X Int -> Int]
  OBVIOUS
<1>3. PICK g \in [SUBSET S -> Int] : \A T \in SUBSET S :
        g[T] = IF T = {} THEN 0 ELSE G[<<c[T], g[T \ {c[T]}]>>]
  <2> DEFINE V == Int
             zero == 0
  <2>1. Recursive(S, V, zero, G, c)
    <3> HIDE DEF c, G
    <3> QED BY <1>1, <1>2 DEF Recursive
  <2> HIDE DEF c, G, V, zero
  <2>2. PICK g : Solution(g, S, V, zero, G, c)
    BY <2>1, Recursion
  <2> QED BY <2>2 DEF Solution, V, zero
<1>4. \A T \in SUBSET S : g[T] = IF T = {} THEN 0 ELSE f[Chosen(T)] + g[T \ {Chosen(T)}]
  <2> TAKE T \in SUBSET S
  <2>1. CASE T = {}
    BY <2>1, <1>3
  <2>2. CASE T # {}
    <3>1. Chosen(T) \in S /\ g[T \ {Chosen(T)}] \in Int
      BY <1>1, <2>2
    <3>2. g[T] = G[<<Chosen(T), g[T \ {Chosen(T)}]>>]
      BY <1>3, <2>2
    <3> QED BY <3>1, <3>2, <2>2
  <2> QED BY <2>1, <2>2
<1>5. g = [T \in SUBSET S |-> IF T = {} THEN 0 ELSE f[CHOOSE x \in T : TRUE] + g[T \ {CHOOSE x \in T : TRUE}]]
  BY <1>4 DEF Chosen
<1>6. sum = [T \in SUBSET S |-> IF T = {} THEN 0 ELSE f[CHOOSE x \in T : TRUE] + sum[T \ {CHOOSE x \in T : TRUE}]]
  BY <1>5
<1>7. SumFunctionOnSet(f, S) = sum[S]
  BY DEF SumFunctionOnSet, FoldFunctionOnSet, MapThenFoldSet
<1> HIDE DEF sum
<1>8. \A T \in SUBSET S : sum[T] = g[T]
  <2> DEFINE P == {T \in SUBSET S : sum[T] = g[T]}
  <2>1. \A T \in SUBSET S : (\A x \in T : T \ {x} \in P) => T \in P
    <3> TAKE T \in SUBSET S
    <3> HAVE \A x \in T : T \ {x} \in P
    <3>1. sum[T] = IF T = {} THEN 0 ELSE f[Chosen(T)] + sum[T \ {Chosen(T)}]
      BY <1>6 DEF Chosen
    <3>2. T # {} => Chosen(T) \in T
      BY DEF Chosen
    <3> QED BY <3>1, <3>2, <1>4
  <2> HIDE DEF P
  <2>2. \A T \in SUBSET S : T \in P
    BY <2>1, SetInduction
  <2> QED BY <2>2 DEF P
<1> QED BY <1>4, <1>7, <1>8

\* What a sum over a subset is in terms of one function of the subsets.
LEMMA SumsAreDefined ==
    ASSUME NEW S, IsFiniteSet(S), NEW f, \A x \in S : f[x] \in Int
    PROVE  \E g \in [SUBSET S -> Int] :
             /\ \A T \in SUBSET S : g[T] = IF T = {} THEN 0 ELSE f[Chosen(T)] + g[T \ {Chosen(T)}]
             /\ \A T \in SUBSET S : SumFunctionOnSet(f, T) = g[T]
             /\ SumFunctionOnSet(f, S) = g[S]
<1>1. PICK g \in [SUBSET S -> Int] :
             /\ \A T \in SUBSET S : g[T] = IF T = {} THEN 0 ELSE f[Chosen(T)] + g[T \ {Chosen(T)}]
             /\ SumFunctionOnSet(f, S) = g[S]
  BY SumIsDefined
<1>2. ASSUME NEW T \in SUBSET S
      PROVE  SumFunctionOnSet(f, T) = g[T]
  <2>0. IsFiniteSet(T)
    BY FS_Subset
  <2>1. PICK h \in [SUBSET T -> Int] :
             /\ \A U \in SUBSET T : h[U] = IF U = {} THEN 0 ELSE f[Chosen(U)] + h[U \ {Chosen(U)}]
             /\ SumFunctionOnSet(f, T) = h[T]
    BY <2>0, SumIsDefined
  <2> DEFINE P == {U \in SUBSET T : h[U] = g[U]}
  <2>2. \A U \in SUBSET T : (\A x \in U : U \ {x} \in P) => U \in P
    <3>1. \A U \in SUBSET T : U # {} => Chosen(U) \in U
      BY DEF Chosen
    <3> QED BY <3>1, <1>1, <2>1
  <2> HIDE DEF P
  <2>3. \A U \in SUBSET T : U \in P
    BY <2>0, <2>2, SetInduction
  <2> QED BY <2>1, <2>3 DEF P
<1> QED BY <1>1, <1>2

\* The sum over a set is that over the others and what any one of its elements adds.
LEMMA SumRemove ==
    ASSUME NEW S, IsFiniteSet(S), NEW f, \A x \in S : f[x] \in Int
    PROVE  /\ SumFunctionOnSet(f, {}) = 0
           /\ SumFunctionOnSet(f, S) \in Int
           /\ \A x \in S : SumFunctionOnSet(f, S) = f[x] + SumFunctionOnSet(f, S \ {x})
<1>1. PICK g \in [SUBSET S -> Int] :
             /\ \A T \in SUBSET S : g[T] = IF T = {} THEN 0 ELSE f[Chosen(T)] + g[T \ {Chosen(T)}]
             /\ \A T \in SUBSET S : SumFunctionOnSet(f, T) = g[T]
             /\ SumFunctionOnSet(f, S) = g[S]
  BY SumsAreDefined
<1> DEFINE P == {T \in SUBSET S : \A x \in T : g[T] = f[x] + g[T \ {x}]}
<1>2. \A T \in SUBSET S : (\A x \in T : T \ {x} \in P) => T \in P
  <2> SUFFICES ASSUME NEW T \in SUBSET S, \A x \in T : T \ {x} \in P, NEW x \in T
               PROVE  g[T] = f[x] + g[T \ {x}]
    OBVIOUS
  <2> DEFINE c == Chosen(T)
  <2>1. c \in T
    BY DEF Chosen
  <2>2. g[T] = f[c] + g[T \ {c}]
    BY <1>1, <2>1
  <2>3. CASE c = x
    BY <2>2, <2>3
  <2>4. CASE c # x
    <3> HIDE DEF c
    <3>1. g[T \ {c}] = f[x] + g[(T \ {c}) \ {x}]
      BY <2>1, <2>4
    <3>2. g[T \ {x}] = f[c] + g[(T \ {x}) \ {c}]
      BY <2>1, <2>4
    <3>3. (T \ {c}) \ {x} = (T \ {x}) \ {c}
      OBVIOUS
    <3>4. g[(T \ {c}) \ {x}] \in Int /\ f[c] \in Int /\ f[x] \in Int
      BY <2>1
    <3>5. g[T \ {c}] = f[x] + g[(T \ {c}) \ {x}] /\ g[T \ {x}] = f[c] + g[(T \ {c}) \ {x}]
      BY <3>1, <3>2, <3>3
    <3>6. f[c] + (f[x] + g[(T \ {c}) \ {x}]) = f[x] + (f[c] + g[(T \ {c}) \ {x}])
      BY <3>4
    <3> QED BY <2>2, <3>5, <3>6
  <2> QED BY <2>3, <2>4
<1> HIDE DEF P
<1>3. \A T \in SUBSET S : T \in P
  BY <1>2, SetInduction
<1>4. \A x \in S : g[S] = f[x] + g[S \ {x}]
  BY <1>3 DEF P
<1>5. SumFunctionOnSet(f, {}) = g[{}] /\ g[{}] = 0
  BY <1>1
<1>6. SumFunctionOnSet(f, S) = g[S] /\ g[S] \in Int
  BY <1>1
<1>7. \A x \in S : SumFunctionOnSet(f, S \ {x}) = g[S \ {x}]
  BY <1>1
<1> QED BY <1>4, <1>5, <1>6, <1>7

\* Equal terms, equal sums.
LEMMA SumEqual ==
    ASSUME NEW S, IsFiniteSet(S), NEW f, NEW g, \A x \in S : f[x] \in Int /\ g[x] = f[x]
    PROVE  SumFunctionOnSet(f, S) = SumFunctionOnSet(g, S)
<1> DEFINE P == {T \in SUBSET S : SumFunctionOnSet(f, T) = SumFunctionOnSet(g, T)}
<1>1. ASSUME NEW T \in SUBSET S, \A x \in T : T \ {x} \in P
      PROVE  T \in P
  <2>1. IsFiniteSet(T)
    BY FS_Subset
  <2>2. CASE T = {}
    <3>1. SumFunctionOnSet(f, {}) = 0 /\ SumFunctionOnSet(g, {}) = 0
      BY SumRemove
    <3> QED BY <2>2, <3>1
  <2>3. CASE T # {}
    <3>1. PICK x \in T : TRUE
      BY <2>3
    <3>2. SumFunctionOnSet(f, T) = f[x] + SumFunctionOnSet(f, T \ {x})
      BY <2>1, SumRemove
    <3>3. SumFunctionOnSet(g, T) = g[x] + SumFunctionOnSet(g, T \ {x})
      BY <2>1, SumRemove
    <3> QED BY <1>1, <3>2, <3>3
  <2> QED BY <2>2, <2>3
<1> HIDE DEF P
<1>2. \A T \in SUBSET S : T \in P
  BY <1>1, SetInduction
<1> QED BY <1>2 DEF P

\* A sum changes by what one of its terms does.
LEMMA SumChange ==
    ASSUME NEW S, IsFiniteSet(S), NEW f, NEW g, NEW x \in S,
           \A y \in S : f[y] \in Int /\ g[y] \in Int, \A y \in S \ {x} : g[y] = f[y]
    PROVE  SumFunctionOnSet(g, S) = SumFunctionOnSet(f, S) + (g[x] - f[x])
<1>1. IsFiniteSet(S \ {x})
  BY FS_Subset
<1>2. SumFunctionOnSet(f, S \ {x}) = SumFunctionOnSet(g, S \ {x})
  BY <1>1, SumEqual
<1>3. SumFunctionOnSet(f, S) = f[x] + SumFunctionOnSet(f, S \ {x})
  BY SumRemove
<1>4. SumFunctionOnSet(g, S) = g[x] + SumFunctionOnSet(g, S \ {x})
  BY SumRemove
<1>5. SumFunctionOnSet(f, S \ {x}) \in Int
  BY <1>1, SumRemove
<1> QED BY <1>2, <1>3, <1>4, <1>5

\* Greater terms, a greater sum; a sum of what is not negative is at least each term.
LEMMA SumMonotonic ==
    ASSUME NEW S, IsFiniteSet(S), NEW f, NEW g,
           \A x \in S : f[x] \in Int /\ g[x] \in Int /\ f[x] <= g[x]
    PROVE  SumFunctionOnSet(f, S) <= SumFunctionOnSet(g, S)
<1> DEFINE P == {T \in SUBSET S : SumFunctionOnSet(f, T) <= SumFunctionOnSet(g, T)}
<1>1. ASSUME NEW T \in SUBSET S, \A x \in T : T \ {x} \in P
      PROVE  T \in P
  <2>1. IsFiniteSet(T)
    BY FS_Subset
  <2>2. CASE T = {}
    <3>1. SumFunctionOnSet(f, {}) = 0 /\ SumFunctionOnSet(g, {}) = 0
      BY SumRemove
    <3> QED BY <2>2, <3>1
  <2>3. CASE T # {}
    <3>1. PICK x \in T : TRUE
      BY <2>3
    <3>0. IsFiniteSet(T \ {x})
      BY <2>1, FS_Subset
    <3>2. SumFunctionOnSet(f, T) = f[x] + SumFunctionOnSet(f, T \ {x})
      BY <2>1, SumRemove
    <3>3. SumFunctionOnSet(g, T) = g[x] + SumFunctionOnSet(g, T \ {x})
      BY <2>1, SumRemove
    <3>4. SumFunctionOnSet(f, T \ {x}) \in Int /\ SumFunctionOnSet(g, T \ {x}) \in Int
      BY <3>0, SumRemove
    <3> QED BY <1>1, <3>2, <3>3, <3>4
  <2> QED BY <2>2, <2>3
<1> HIDE DEF P
<1>2. \A T \in SUBSET S : T \in P
  BY <1>1, SetInduction
<1> QED BY <1>2 DEF P

\* A sum of natural numbers is one, and is at least each of them.
LEMMA SumOfNaturals ==
    ASSUME NEW S, IsFiniteSet(S), NEW f, \A x \in S : f[x] \in Nat
    PROVE  /\ SumFunctionOnSet(f, S) \in Nat
           /\ \A x \in S : f[x] <= SumFunctionOnSet(f, S)
<1> DEFINE P == {T \in SUBSET S : SumFunctionOnSet(f, T) \in Nat}
<1>1. ASSUME NEW T \in SUBSET S, \A x \in T : T \ {x} \in P
      PROVE  T \in P
  <2>1. IsFiniteSet(T)
    BY FS_Subset
  <2>2. CASE T = {}
    <3>1. SumFunctionOnSet(f, {}) = 0
      BY SumRemove
    <3> QED BY <2>2, <3>1
  <2>3. CASE T # {}
    <3>1. PICK x \in T : TRUE
      BY <2>3
    <3>2. SumFunctionOnSet(f, T) = f[x] + SumFunctionOnSet(f, T \ {x})
      BY <2>1, SumRemove
    <3> QED BY <1>1, <3>2
  <2> QED BY <2>2, <2>3
<1> HIDE DEF P
<1>2. \A T \in SUBSET S : T \in P
  BY <1>1, SetInduction
<1>3. \A T \in SUBSET S : SumFunctionOnSet(f, T) \in Nat
  BY <1>2 DEF P
<1>4. ASSUME NEW x \in S
      PROVE  f[x] <= SumFunctionOnSet(f, S)
  <2>1. SumFunctionOnSet(f, S) = f[x] + SumFunctionOnSet(f, S \ {x})
    BY SumRemove
  <2>2. SumFunctionOnSet(f, S \ {x}) \in Nat
    BY <1>3
  <2> QED BY <2>1, <2>2
<1> QED BY <1>3, <1>4

\* Nothing, any number of times.
LEMMA SumOfZeros ==
    ASSUME NEW S, IsFiniteSet(S), NEW f, \A x \in S : f[x] = 0
    PROVE  SumFunctionOnSet(f, S) = 0
<1> DEFINE P == {T \in SUBSET S : SumFunctionOnSet(f, T) = 0}
<1>1. ASSUME NEW T \in SUBSET S, \A x \in T : T \ {x} \in P
      PROVE  T \in P
  <2>1. IsFiniteSet(T)
    BY FS_Subset
  <2>2. \A x \in T : f[x] \in Int
    OBVIOUS
  <2>3. CASE T = {}
    <3>1. SumFunctionOnSet(f, {}) = 0
      BY <2>1, <2>2, SumRemove
    <3> QED BY <2>3, <3>1
  <2>4. CASE T # {}
    <3>1. PICK x \in T : TRUE
      BY <2>4
    <3>2. SumFunctionOnSet(f, T) = f[x] + SumFunctionOnSet(f, T \ {x})
      BY <2>1, <2>2, SumRemove
    <3> QED BY <1>1, <3>1, <3>2
  <2> QED BY <2>3, <2>4
<1> HIDE DEF P
<1>2. \A T \in SUBSET S : T \in P
  BY <1>1, SetInduction
<1> QED BY <1>2 DEF P

\* A finite set of numbers has a greatest one.
LEMMA GreatestOfSet ==
    ASSUME NEW T \in SUBSET Nat, IsFiniteSet(T), T # {}
    PROVE  \E x \in T : \A y \in T : y <= x
<1> DEFINE P == {U \in SUBSET T : U # {} => \E x \in U : \A y \in U : y <= x}
<1>1. ASSUME NEW U \in SUBSET T, \A x \in U : U \ {x} \in P
      PROVE  U \in P
  <2> SUFFICES ASSUME U # {} PROVE \E x \in U : \A y \in U : y <= x
    OBVIOUS
  <2>1. PICK x \in U : TRUE
    OBVIOUS
  <2>2. CASE U \ {x} = {}
    <3>1. U = {x} /\ x \in Nat
      BY <2>1, <2>2
    <3> QED BY <3>1
  <2>3. CASE U \ {x} # {}
    <3>1. PICK z \in U \ {x} : \A y \in U \ {x} : y <= z
      BY <1>1, <2>1, <2>3
    <3>2. x \in Nat /\ z \in Nat
      BY <3>1
    <3>3. CASE z <= x
      BY <3>1, <3>2, <3>3
    <3>4. CASE ~(z <= x)
      BY <3>1, <3>2, <3>4
    <3> QED BY <3>3, <3>4
  <2> QED BY <2>2, <2>3
<1> HIDE DEF P
<1>2. T \in P
  BY <1>1, SetInduction
<1> QED BY <1>2 DEF P

-----------------------------------------------------------------------------
(***************************************************************************)
(* Folds of a sequence, from the left.                                     *)
(***************************************************************************)
LEMMA Greatest ==
    ASSUME NEW k \in Nat, k # 0
    PROVE  Max(1..k) = k
<1>1. k \in 1..k /\ \A y \in 1..k : k >= y
  OBVIOUS
<1>2. Max(1..k) \in 1..k /\ \A y \in 1..k : Max(1..k) >= y
  BY <1>1 DEF Max
<1> QED BY <1>1, <1>2

\* The greatest of the places of a sequence.
LEMMA GreatestOf ==
    ASSUME NEW n \in Nat, NEW T \in SUBSET (1..n), T # {}
    PROVE  /\ Max(T) \in T
           /\ \A y \in T : Max(T) >= y
<1> DEFINE U == {n - x : x \in T}
<1>0. \A x \in T : x \in Nat /\ x <= n /\ n - x \in U
  OBVIOUS
<1>1. U \in SUBSET Nat /\ U # {}
  <2>1. \A u \in U : u \in Nat
    BY <1>0
  <2>2. PICK x \in T : TRUE
    OBVIOUS
  <2>3. n - x \in U
    BY <2>2
  <2> QED BY <2>1, <2>3
<1>2. PICK u \in U : \A v \in U : u <= v
  BY <1>1, Smallest
<1>3. PICK x \in T : u = n - x
  BY <1>2
<1>4. \A y \in T : x >= y
  <2> TAKE y \in T
  <2>1. n - y \in U
    OBVIOUS
  <2>2. n - x <= n - y
    BY <1>2, <1>3, <2>1
  <2> QED BY <1>0, <2>2
<1> QED BY <1>4 DEF Max

\* What is reached by steps of G from base.
Steppable(n, V, base, G) == n \in Nat /\ base \in V /\ G \in [(1..n) \X V -> V]

Stepped(g, n, V, base, G) ==
    /\ g \in [SUBSET (1..n) -> V]
    /\ \A T \in SUBSET (1..n) : g[T] = IF T = {} THEN base ELSE G[<<Max(T), g[T \ {Max(T)}]>>]

\* Such steps can be taken to the end: the function exists, as what a fold from the left goes through.
LEMMA Steps ==
    ASSUME NEW n, NEW V, NEW base, NEW G, Steppable(n, V, base, G)
    PROVE  \E g : Stepped(g, n, V, base, G)
<1> DEFINE S == 1..n
           c == [T \in SUBSET S |-> Max(T)]
<1>1. Recursive(S, V, base, G, c)
  <2>1. IsFiniteSet(S)
    BY FS_Interval DEF Steppable
  <2>2. \A T \in SUBSET S : T # {} => c[T] \in T
    BY GreatestOf DEF Steppable
  <2> HIDE DEF c
  <2> QED BY <2>1, <2>2 DEF Recursive, Steppable
<1> HIDE DEF c, S
<1>2. PICK g : Solution(g, S, V, base, G, c)
  BY <1>1, Recursion
<1>3. g \in [SUBSET S -> V]
  BY <1>2 DEF Solution
<1>4. ASSUME NEW T \in SUBSET S
      PROVE  g[T] = IF T = {} THEN base ELSE G[<<Max(T), g[T \ {Max(T)}]>>]
  <2>1. g[T] = IF T = {} THEN base ELSE G[<<c[T], g[T \ {c[T]}]>>]
    BY <1>2 DEF Solution
  <2>2. c[T] = Max(T)
    BY DEF c
  <2> QED BY <2>1, <2>2
<1>5. Stepped(g, n, V, base, G)
  BY <1>3, <1>4 DEF S, Stepped
<1> QED BY <1>5



-----------------------------------------------------------------------------
(***************************************************************************)
(* Series.                                                                 *)
(***************************************************************************)
Fields == DOMAIN NoTraffic

TrafficSeries == UNION {[D -> [Fields -> Nat]] : D \in {E \in SUBSET Nat : IsFiniteSet(E)}}

\* An hour without traffic counts nothing.
LEMMA NoTrafficFacts == \A f \in Fields : NoTraffic[f] = 0
BY DEF Fields, NoTraffic

\* What is counted of a request or of a body is a record of numbers.
LEMMA TrafficFacts ==
    \A a, b, c \in Nat : Traffic(a, b, c) \in [Fields -> Nat]
BY DEF Traffic, Fields, NoTraffic

\* What a series is: finitely many hours, each with its traffic.
LEMMA SeriesFacts ==
    ASSUME NEW s \in TrafficSeries
    PROVE  /\ DOMAIN s \subseteq Nat
           /\ IsFiniteSet(DOMAIN s)
           /\ \A h \in DOMAIN s : s[h] \in [Fields -> Nat]
BY DEF TrafficSeries

\* What makes a series of hours.
LEMMA SeriesIntro ==
    ASSUME NEW D \in SUBSET Nat, IsFiniteSet(D), NEW s \in [D -> [Fields -> Nat]]
    PROVE  s \in TrafficSeries
BY DEF TrafficSeries

\* The empty series counts nothing at any hour.
LEMMA NoSeriesFacts ==
    /\ NoSeries \in TrafficSeries
    /\ \A h : \A f \in Fields : At(NoSeries, h)[f] = 0
<1>1. NoSeries \in [{} -> [Fields -> Nat]]
  BY DEF NoSeries
<1>2. NoSeries \in TrafficSeries
  BY <1>1, SeriesIntro, FS_EmptySet
<1>3. DOMAIN NoSeries = {}
  BY DEF NoSeries
<1> QED BY <1>2, <1>3, NoTrafficFacts DEF At

\* Of any hour a series tells numbers, zeros when it has none.
LEMMA AtType ==
    ASSUME NEW s \in TrafficSeries, NEW h
    PROVE  /\ At(s, h) \in [Fields -> Nat]
           /\ \A f \in Fields : At(s, h)[f] \in Nat
<1>1. NoTraffic \in [Fields -> Nat]
  BY DEF Fields, NoTraffic
<1>2. At(s, h) \in [Fields -> Nat]
  BY <1>1, SeriesFacts DEF At
<1> QED BY <1>2

\* Traffic is added field by field.
LEMMA AddFacts ==
    ASSUME NEW a \in [Fields -> Nat], NEW b \in [Fields -> Nat]
    PROVE  /\ Add(a, b) \in [Fields -> Nat]
           /\ \A f \in Fields : Add(a, b)[f] = a[f] + b[f]
BY DEF Add, Fields

\* Two series merged add up, hour by hour.
LEMMA MergeFacts ==
    ASSUME NEW a \in TrafficSeries, NEW b \in TrafficSeries
    PROVE  /\ Merge(a, b) \in TrafficSeries
           /\ DOMAIN Merge(a, b) = DOMAIN a \cup DOMAIN b
           /\ \A h : \A f \in Fields : At(Merge(a, b), h)[f] = At(a, h)[f] + At(b, h)[f]
<1> DEFINE D == DOMAIN a \cup DOMAIN b
<1>1. D \in SUBSET Nat /\ IsFiniteSet(D)
  BY SeriesFacts, FS_Union
<1>2. \A h : Add(At(a, h), At(b, h)) \in [Fields -> Nat]
  BY AtType, AddFacts
<1>3. Merge(a, b) = [h \in D |-> Add(At(a, h), At(b, h))]
  BY DEF Merge
<1>4. Merge(a, b) \in [D -> [Fields -> Nat]]
  BY <1>2, <1>3
<1>5. Merge(a, b) \in TrafficSeries
  BY <1>1, <1>4, SeriesIntro
<1>6. ASSUME NEW h, NEW f \in Fields
      PROVE  At(Merge(a, b), h)[f] = At(a, h)[f] + At(b, h)[f]
  <2>1. CASE h \in D
    <3>1. At(Merge(a, b), h) = Add(At(a, h), At(b, h))
      BY <1>3, <2>1 DEF At
    <3> QED BY <3>1, AtType, AddFacts
  <2>2. CASE h \notin D
    <3>1. At(Merge(a, b), h) = NoTraffic /\ At(a, h) = NoTraffic /\ At(b, h) = NoTraffic
      BY <1>3, <2>2 DEF At
    <3> QED BY <3>1, NoTrafficFacts
  <2> QED BY <2>1, <2>2
<1> QED BY <1>3, <1>5, <1>6

\* Counting adds to one hour and leaves the others as they were.
LEMMA CountFacts ==
    ASSUME NEW s \in TrafficSeries, NEW h \in Nat, NEW t \in [Fields -> Nat]
    PROVE  /\ Count(s, h, t) \in TrafficSeries
           /\ DOMAIN Count(s, h, t) = DOMAIN s \cup {h}
           /\ \A k : \A f \in Fields :
                At(Count(s, h, t), k)[f] = At(s, k)[f] + (IF k = h THEN t[f] ELSE 0)
<1> DEFINE u == [k \in {h} |-> t]
<1>1. u \in TrafficSeries
  <2>1. {h} \in SUBSET Nat /\ IsFiniteSet({h})
    BY FS_Singleton
  <2>2. u \in [{h} -> [Fields -> Nat]]
    OBVIOUS
  <2> HIDE DEF u
  <2> QED BY <2>1, <2>2, SeriesIntro
<1>2. Count(s, h, t) = Merge(s, u)
  BY DEF Count
<1>3. DOMAIN u = {h}
  OBVIOUS
<1>4. \A k : \A f \in Fields : At(u, k)[f] = IF k = h THEN t[f] ELSE 0
  BY NoTrafficFacts DEF At
<1> HIDE DEF u
<1>5. \A k : \A f \in Fields : At(s, k)[f] \in Nat
  BY AtType
<1>6. /\ Merge(s, u) \in TrafficSeries
      /\ DOMAIN Merge(s, u) = DOMAIN s \cup DOMAIN u
      /\ \A k : \A f \in Fields : At(Merge(s, u), k)[f] = At(s, k)[f] + At(u, k)[f]
  BY <1>1, MergeFacts
<1> QED BY <1>2, <1>3, <1>4, <1>6

\* Counting adds to one hour.
LEMMA CountAt ==
    ASSUME NEW s \in TrafficSeries, NEW h \in Nat, NEW t \in [Fields -> Nat], NEW k, NEW f \in Fields
    PROVE  At(Count(s, h, t), k)[f] = At(s, k)[f] + (IF k = h THEN t[f] ELSE 0)
<1>1. \A l : \A g \in Fields :
        At(Count(s, h, t), l)[g] = At(s, l)[g] + (IF l = h THEN t[g] ELSE 0)
  BY CountFacts
<1>2. \A g \in Fields : At(Count(s, h, t), k)[g] = At(s, k)[g] + (IF k = h THEN t[g] ELSE 0)
  BY <1>1, Zenon
<1> QED BY <1>2, Zenon

Later(D, h) == {k \in D : k > h}

\* Dropping the oldest hours counts nothing more.
LEMMA NewestFacts ==
    ASSUME NEW s \in TrafficSeries, NEW n \in Nat
    PROVE  /\ Newest(s, n) \in TrafficSeries
           /\ DOMAIN Newest(s, n) \subseteq DOMAIN s
           /\ \A h : \A f \in Fields : At(Newest(s, n), h)[f] <= At(s, h)[f]
<1> DEFINE D == {h \in DOMAIN s : Cardinality({k \in DOMAIN s : k > h}) < n}
<1>1. D \in SUBSET Nat /\ IsFiniteSet(D) /\ D \subseteq DOMAIN s
  BY SeriesFacts, FS_Subset
<1>2. Newest(s, n) = [h \in D |-> s[h]]
  BY DEF Newest, Restrict
<1> HIDE DEF D
<1>3. Newest(s, n) \in [D -> [Fields -> Nat]]
  BY <1>1, <1>2, SeriesFacts
<1>4. Newest(s, n) \in TrafficSeries
  BY <1>1, <1>3, SeriesIntro
<1>5. ASSUME NEW h, NEW f \in Fields
      PROVE  At(Newest(s, n), h)[f] <= At(s, h)[f]
  <2>1. At(s, h)[f] \in Nat
    BY AtType
  <2>2. CASE h \in D
    BY <1>1, <1>2, <2>1, <2>2 DEF At
  <2>3. CASE h \notin D
    <3>1. At(Newest(s, n), h) = NoTraffic
      BY <1>2, <2>3 DEF At
    <3> QED BY <3>1, <2>1, NoTrafficFacts
  <2> QED BY <2>2, <2>3
<1> QED BY <1>1, <1>2, <1>4, <1>5

-----------------------------------------------------------------------------
(***************************************************************************)
(* The updates of a document, applied one after the other.                 *)
(***************************************************************************)
Applied(key, base, updates) == FoldLeft(LAMBDA document, u : Update(key, document, u), base, updates)

Applicable(key, V, U, base, s) ==
    /\ base \in V
    /\ s \in Seq(U)
    /\ \A d \in V, u \in U : Update(key, d, u) \in V

Stages(a, key, V, base, s) ==
    /\ a \in [0..Len(s) -> V]
    /\ a[0] = base
    /\ \A k \in 1..Len(s) : a[k] = Update(key, a[k - 1], s[k])
    /\ Applied(key, base, s) = a[Len(s)]

\* Updates are applied one by one: the fold is the last of its stages.
LEMMA AppliedSteps ==
    ASSUME NEW key, NEW V, NEW U, NEW base, NEW s, Applicable(key, V, U, base, s)
    PROVE  \E a : Stages(a, key, V, base, s)
<1> DEFINE n == Len(s)
           G == [p \in (1..n) \X V |-> Update(key, p[2], s[p[1]])]
           iter == CHOOSE g : g = [T \in SUBSET DOMAIN s |->
                     IF T = {} THEN base ELSE Update(key, g[T \ {Max(T)}], s[Max(T)])]
<1> USE DEF Applicable
<1>0. n \in Nat /\ DOMAIN s = 1..n /\ \A k \in 1..n : s[k] \in U
  BY LenProperties, ElementOfSeq
<1>1. G \in [(1..n) \X V -> V]
  BY <1>0
<1>2. PICK g \in [SUBSET (1..n) -> V] : \A T \in SUBSET (1..n) :
             g[T] = IF T = {} THEN base ELSE G[<<Max(T), g[T \ {Max(T)}]>>]
  <2> HIDE DEF G, n
  <2>1. Steppable(n, V, base, G)
    BY <1>0, <1>1 DEF Steppable
  <2>2. PICK g : Stepped(g, n, V, base, G)
    BY <2>1, Steps
  <2> QED BY <2>2 DEF Stepped
<1>3. g = [T \in SUBSET DOMAIN s |->
             IF T = {} THEN base ELSE Update(key, g[T \ {Max(T)}], s[Max(T)])]
  <2>1. ASSUME NEW T \in SUBSET (1..n), T # {}
        PROVE  g[T] = Update(key, g[T \ {Max(T)}], s[Max(T)])
    <3>1. Max(T) \in 1..n /\ g[T \ {Max(T)}] \in V
      BY <1>0, <2>1, GreatestOf
    <3>2. g[T] = G[<<Max(T), g[T \ {Max(T)}]>>]
      BY <1>2, <2>1
    <3> QED BY <3>1, <3>2
  <2> QED BY <1>0, <1>2, <2>1
<1>4. iter = [T \in SUBSET DOMAIN s |->
             IF T = {} THEN base ELSE Update(key, iter[T \ {Max(T)}], s[Max(T)])]
  BY <1>3
<1>5. Applied(key, base, s) = iter[DOMAIN s]
  BY DEF Applied, FoldLeft, MapThenFoldSet
<1> HIDE DEF iter
<1> DEFINE a == [k \in 0..n |-> iter[1..k]]
<1>6. iter[{}] = base
  BY <1>4
<1>7. 1..0 = {}
  OBVIOUS
<1>8. a[0] = base
  BY <1>0, <1>6, <1>7
<1>9. ASSUME NEW k \in 1..n
      PROVE  a[k] = Update(key, a[k - 1], s[k])
  <2>1. (1..k) \in SUBSET DOMAIN s /\ 1..k # {}
    <3>1. k \in 1..k /\ \A x \in 1..k : x \in 1..n
      BY <1>0
    <3> QED BY <3>1, <1>0
  <2>2. Max(1..k) = k
    BY Greatest
  <2>3. (1..k) \ {k} = 1..(k - 1)
    OBVIOUS
  <2>4. iter[1..k] = Update(key, iter[(1..k) \ {Max(1..k)}], s[Max(1..k)])
    BY <1>4, <2>1
  <2>5. a[k] = iter[1..k] /\ a[k - 1] = iter[1..(k - 1)]
    BY <1>0
  <2> HIDE DEF a
  <2> QED BY <2>2, <2>3, <2>4, <2>5
<1>10. ASSUME NEW k \in Nat, k <= n => a[k] \in V
       PROVE  k + 1 <= n => a[k + 1] \in V
  <2> SUFFICES ASSUME k + 1 <= n
               PROVE  a[k + 1] \in V
    OBVIOUS
  <2> HIDE DEF a
  <2>1. k + 1 \in 1..n /\ (k + 1) - 1 = k /\ k <= n
    BY <1>0
  <2>2. a[k + 1] = Update(key, a[k], s[k + 1])
    BY <1>9, <2>1
  <2> QED BY <1>0, <1>10, <2>1, <2>2
<1>11. \A k \in 0..n : a[k] \in V
  <2> DEFINE good == {k \in Nat : k <= n => a[k] \in V}
  <2> HIDE DEF a
  <2>1. 0 \in good
    BY <1>8
  <2>2. \A k \in Nat : k \in good => k + 1 \in good
    BY <1>10
  <2> HIDE DEF good
  <2>3. \A k \in Nat : k \in good
    BY <2>1, <2>2, Induction
  <2> QED BY <2>3, <1>0 DEF good
<1>12. a \in [0..n -> V]
  BY <1>11
<1>13. Applied(key, base, s) = a[n]
  BY <1>5, <1>0
<1> HIDE DEF a
<1>14. Stages(a, key, V, base, s)
  BY <1>8, <1>9, <1>12, <1>13 DEF Stages
<1> QED BY <1>14

-----------------------------------------------------------------------------
(***************************************************************************)
(* What a handler emits.                                                   *)
(***************************************************************************)
LEMMA FlattenType ==
    ASSUME NEW U, NEW s \in Seq(Seq(U))
    PROVE  FlattenSeq(s) \in Seq(U)
<1> DEFINE n == Len(s)
           V == Seq(U)
           G == [p \in (1..n) \X V |-> IF p[1] = 1 THEN s[1] ELSE p[2] \o s[p[1]]]
           flatten == CHOOSE g : g = [i \in 1..n |-> IF i = 1 THEN s[i] ELSE g[i - 1] \o s[i]]
<1>0. n \in Nat /\ \A i \in 1..n : s[i] \in V
  BY LenProperties, ElementOfSeq
<1>1. CASE n = 0
  <2>1. s = <<>>
    BY <1>1, EmptySeq
  <2> QED BY <1>1, <2>1 DEF FlattenSeq
<1>2. CASE n # 0
  <2>1. Steppable(n, V, <<>>, G)
    <3>1. \A v \in V, w \in V : v \o w \in V
      BY ConcatProperties
    <3>2. <<>> \in V
      OBVIOUS
    <3> HIDE DEF V, n
    <3>3. G \in [(1..n) \X V -> V]
      BY <1>0, <1>2, <3>1
    <3> QED BY <1>0, <3>2, <3>3 DEF Steppable
  <2> HIDE DEF V
  <2>2. PICK g : Stepped(g, n, V, <<>>, G)
    <3> HIDE DEF G, n
    <3> QED BY <2>1, Steps
  <2> DEFINE h == [i \in 1..n |-> g[1..i]]
  <2>3. ASSUME NEW i \in 1..n
        PROVE  g[1..i] = IF i = 1 THEN s[i] ELSE g[1..(i - 1)] \o s[i]
    <3>1. (1..i) \in SUBSET (1..n) /\ 1..i # {} /\ (1..(i - 1)) \in SUBSET (1..n)
      <4>1. i \in 1..i /\ (\A x \in 1..i : x \in 1..n) /\ \A x \in 1..(i - 1) : x \in 1..n
        BY <1>0
      <4> QED BY <4>1
    <3>2. Max(1..i) = i /\ (1..i) \ {i} = 1..(i - 1)
      BY Greatest
    <3>3. g[1..i] = G[<<i, g[1..(i - 1)]>>]
      BY <2>2, <3>1, <3>2 DEF Stepped
    <3>4. g[1..(i - 1)] \in V
      BY <2>2, <3>1 DEF Stepped
    <3> QED BY <3>3, <3>4
  <2>4. h = [i \in 1..n |-> IF i = 1 THEN s[i] ELSE h[i - 1] \o s[i]]
    <3>1. \A i \in 1..n : i # 1 => i - 1 \in 1..n
      BY <1>0
    <3> QED BY <2>3, <3>1
  <2> HIDE DEF h
  <2>5. flatten = [i \in 1..n |-> IF i = 1 THEN s[i] ELSE flatten[i - 1] \o s[i]]
    BY <2>4
  <2>6. FlattenSeq(s) = flatten[n]
    BY <1>2 DEF FlattenSeq
  <2> HIDE DEF flatten
  <2> DEFINE good == {k \in Nat : k + 1 <= n => flatten[k + 1] \in V}
  <2>7. 0 \in good
    <3>1. 1 \in 1..n /\ 0 + 1 = 1
      BY <1>0, <1>2
    <3>2. flatten[1] = s[1]
      BY <2>5, <3>1
    <3> QED BY <1>0, <3>1, <3>2
  <2>8. ASSUME NEW k \in Nat, k \in good
        PROVE  k + 1 \in good
    <3> SUFFICES ASSUME (k + 1) + 1 <= n
                 PROVE  flatten[(k + 1) + 1] \in V
      OBVIOUS
    <3>1. (k + 1) + 1 \in 1..n /\ (k + 1) + 1 # 1 /\ ((k + 1) + 1) - 1 = k + 1 /\ k + 1 <= n
      BY <1>0
    <3>2. flatten[(k + 1) + 1] = flatten[k + 1] \o s[(k + 1) + 1]
      BY <2>5, <3>1
    <3>3. flatten[k + 1] \in V /\ s[(k + 1) + 1] \in V
      BY <1>0, <2>8, <3>1
    <3> QED BY <3>2, <3>3, ConcatProperties DEF V
  <2> HIDE DEF good
  <2>9. \A k \in Nat : k \in good
    BY <2>7, <2>8, Induction
  <2>10. n - 1 \in Nat /\ (n - 1) + 1 = n
    BY <1>0, <1>2
  <2>11. n - 1 \in good
    BY <2>9, <2>10
  <2>12. flatten[(n - 1) + 1] \in V
    BY <2>10, <2>11 DEF good
  <2> QED BY <2>6, <2>10, <2>12 DEF V
<1> QED BY <1>1, <1>2

\* A finite set, as a sequence.
LEMMA SetToSeqType ==
    ASSUME NEW S, IsFiniteSet(S)
    PROVE  SetToSeq(S) \in Seq(S)
<1>1. Cardinality(S) \in Nat /\ ExistsBijection(1..Cardinality(S), S)
  BY FS_CardinalityType
<1>2. PICK f \in [1..Cardinality(S) -> S] : IsInjective(f)
  BY <1>1 DEF ExistsBijection, Bijection, Injection
<1>3. SetToSeq(S) \in [1..Cardinality(S) -> S]
  BY <1>2 DEF SetToSeq
<1> QED BY <1>1, <1>3, IsASeq

Counted == {"auth.success", "auth.failure", "settings.saves", "settings.rejections", "scanner.probes",
            "scanner.healthy", "warp.refreshes", "panel.updates"}

Increments == [day : Nat, metric : Counted]
Entries    == [kind : Logged, by : Requests]

UpdatesOf(key) == IF key = "metrics" THEN Increments ELSE Entries

\* An event moves finitely many counters, all of them known ones.
LEMMA CountersFacts ==
    \A event : IsFiniteSet(Counters(event)) /\ Counters(event) \subseteq Counted
<1>1. ASSUME NEW a PROVE IsFiniteSet({a})
  BY FS_Singleton
<1>2. IsFiniteSet({})
  BY FS_EmptySet
<1>3. IsFiniteSet({"scanner.probes", "scanner.healthy"})
  <2>1. {"scanner.probes", "scanner.healthy"} = {"scanner.probes"} \cup {"scanner.healthy"}
    OBVIOUS
  <2>2. IsFiniteSet({"scanner.probes"} \cup {"scanner.healthy"})
    <3>1. IsFiniteSet({"scanner.probes"}) /\ IsFiniteSet({"scanner.healthy"})
      BY <1>1
    <3> QED BY <3>1, FS_Union
  <2> QED BY <2>1, <2>2
<1>4. ASSUME NEW event
      PROVE  Counters(event) \in {{}, {"auth.success"}, {"auth.failure"}, {"settings.saves"}, {"settings.rejections"},
               {"scanner.probes", "scanner.healthy"}, {"scanner.probes"}, {"warp.refreshes"}, {"panel.updates"}}
  BY DEF Counters
<1>5. ASSUME NEW event, NEW m \in Counters(event)
      PROVE  m \in Counted
  BY <1>4, <1>5 DEF Counted
<1>6. /\ IsFiniteSet({"auth.success"}) /\ IsFiniteSet({"auth.failure"}) /\ IsFiniteSet({"settings.saves"})
      /\ IsFiniteSet({"settings.rejections"}) /\ IsFiniteSet({"scanner.probes"})
      /\ IsFiniteSet({"warp.refreshes"}) /\ IsFiniteSet({"panel.updates"})
  BY <1>1
<1>7. \A event : IsFiniteSet(Counters(event))
  BY <1>2, <1>3, <1>4, <1>6, Zenon
<1> QED BY <1>5, <1>7

\* What a handler emits is what its documents take.
LEMMA EmittedType ==
    ASSUME NEW key \in Keys, NEW r \in Requests, NEW script \in Scripts, clock \in Nat
    PROVE  Emitted(key, r, script) \in Seq(UpdatesOf(key))
<1>0. script \in Seq(STRING) /\ Len(script) \in Nat /\ DOMAIN script = 1..Len(script)
  BY MetricsAssumption, LenProperties
<1>00. DayOf(clock) \in Nat
  BY RetentionAssumption DEF DayOf
<1>1. ASSUME NEW event \in STRING
      PROVE  Updates(key, r, event) \in Seq(UpdatesOf(key))
  <2>1. CASE key = "metrics"
    <3> DEFINE S == {[day |-> DayOf(clock), metric |-> m] : m \in Counters(event)}
    <3>1. IsFiniteSet(S)
      <4>1. IsFiniteSet(Counters(event))
        BY CountersFacts
      <4> DEFINE f == [m \in Counters(event) |-> [day |-> DayOf(clock), metric |-> m]]
      <4>2. f \in Surjection(Counters(event), S)
        BY DEF Surjection
      <4> HIDE DEF S, f
      <4> QED BY <4>1, <4>2, FS_Surjection DEF ExistsSurjection
    <3>2. S \subseteq Increments
      BY <1>00, CountersFacts DEF Increments
    <3> HIDE DEF S
    <3>3. SetToSeq(S) \in Seq(Increments)
      BY <3>1, <3>2, SetToSeqType, SeqMonotonic
    <3>4. Updates(key, r, event) = SetToSeq(S)
      BY <2>1 DEF Updates, S
    <3> QED BY <2>1, <3>3, <3>4 DEF UpdatesOf
  <2>2. CASE key # "metrics"
    <3>1. CASE event \in Logged
      <4>1. [kind |-> event, by |-> r] \in Entries
        BY <3>1 DEF Entries
      <4>2. Updates(key, r, event) = <<[kind |-> event, by |-> r]>>
        BY <2>2, <3>1 DEF Updates
      <4> HIDE DEF Entries
      <4> QED BY <2>2, <4>1, <4>2 DEF UpdatesOf
    <3>2. CASE event \notin Logged
      BY <2>2, <3>2 DEF Updates, UpdatesOf
    <3> QED BY <3>1, <3>2
  <2> QED BY <2>1, <2>2
<1> DEFINE all == [n \in DOMAIN script |-> Updates(key, r, script[n])]
<1>2. \A n \in DOMAIN script : script[n] \in STRING
  BY <1>0, ElementOfSeq
<1>3. all \in [1..Len(script) -> Seq(UpdatesOf(key))]
  BY <1>0, <1>1, <1>2
<1> HIDE DEF all
<1>4. all \in Seq(Seq(UpdatesOf(key)))
  BY <1>0, <1>3, IsASeq
<1>5. FlattenSeq(all) \in Seq(UpdatesOf(key))
  BY <1>4, FlattenType
<1> QED BY <1>5 DEF Emitted, all

-----------------------------------------------------------------------------
(***************************************************************************)
(* What is kept of a series.                                               *)
(***************************************************************************)
LEMMA KeptDomain ==
    ASSUME NEW D \in SUBSET Nat, IsFiniteSet(D), NEW n \in Nat, NEW N,
           N = {h \in D : Cardinality({k \in D : k > h}) < n}
    PROVE  \A h \in Nat : Cardinality({k \in N : k > h}) >= n <=> Cardinality({k \in D : k > h}) >= n
<1> SUFFICES ASSUME NEW h \in Nat
             PROVE  Cardinality(Later(N, h)) >= n <=> Cardinality(Later(D, h)) >= n
  BY DEF Later
<1>0. N = {k \in D : Cardinality(Later(D, k)) < n}
  BY DEF Later
<1>1. \A k : Later(N, k) \subseteq Later(D, k) /\ Later(D, k) \in SUBSET D
  BY <1>0 DEF Later
<1>2. \A k : IsFiniteSet(Later(D, k)) /\ IsFiniteSet(Later(N, k))
  BY <1>1, FS_Subset
<1>3. \A k : Cardinality(Later(D, k)) \in Nat /\ Cardinality(Later(N, k)) \in Nat
  BY <1>2, FS_CardinalityType
<1>4. Cardinality(Later(N, h)) <= Cardinality(Later(D, h))
  BY <1>1, <1>2, FS_Subset
<1>5. ASSUME Cardinality(Later(D, h)) >= n
      PROVE  Cardinality(Later(N, h)) >= n
  <2>1. CASE Later(D, h) \subseteq N
    <3>1. Later(N, h) = Later(D, h)
      BY <1>0, <2>1 DEF Later
    <3> QED BY <1>5, <3>1
  <2>2. CASE ~(Later(D, h) \subseteq N)
    <3> DEFINE T == Later(D, h) \ N
    <3>1. IsFiniteSet(T) /\ T # {} /\ T \in SUBSET Nat
      BY <1>2, <2>2, FS_Subset DEF Later
    <3>2. PICK k \in T : \A j \in T : j <= k
      BY <3>1, GreatestOfSet
    <3>3. k \in D /\ k > h /\ k \in Nat /\ ~(Cardinality(Later(D, k)) < n)
      BY <1>0, <3>2 DEF Later
    <3>4. Later(D, k) \subseteq Later(N, h)
      <4> SUFFICES ASSUME NEW j \in Later(D, k)
                   PROVE  j \in Later(N, h)
        OBVIOUS
      <4>1. j \in D /\ j > k /\ j > h /\ j \in Nat
        BY <3>3 DEF Later
      <4>2. j \notin T
        BY <3>2, <3>3, <4>1
      <4> QED BY <4>1, <4>2 DEF Later
    <3>5. Cardinality(Later(D, k)) <= Cardinality(Later(N, h))
      BY <1>2, <3>4, FS_Subset
    <3>6. Cardinality(Later(D, k)) \in Nat /\ Cardinality(Later(N, h)) \in Nat
      BY <1>3
    <3> QED BY <3>3, <3>5, <3>6
  <2> QED BY <2>1, <2>2
<1> QED BY <1>3, <1>4, <1>5

\* The newest n of a series are those that n others are not newer than.
LEMMA NewestKeeps ==
    ASSUME NEW s, DOMAIN s \in SUBSET Nat, IsFiniteSet(DOMAIN s), NEW n \in Nat
    PROVE  /\ DOMAIN Newest(s, n) \subseteq DOMAIN s
           /\ \A h \in Nat : Outdated(Newest(s, n), h, n) <=> Outdated(s, h, n)
           /\ \A h \in DOMAIN Newest(s, n) : Newest(s, n)[h] = s[h]
           /\ \A h \in Nat : Outdated(s, h, n) => h \notin DOMAIN Newest(s, n)
           /\ \A h \in DOMAIN s : ~Outdated(s, h, n) => h \in DOMAIN Newest(s, n)
<1> DEFINE N == {h \in DOMAIN s : Cardinality({k \in DOMAIN s : k > h}) < n}
<1>1. Newest(s, n) = [h \in N |-> s[h]]
  BY DEF Newest, Restrict
<1>2. \A h \in Nat : Cardinality({k \in N : k > h}) >= n <=> Cardinality({k \in DOMAIN s : k > h}) >= n
  BY KeptDomain
<1>3. \A h : Cardinality({k \in DOMAIN s : k > h}) \in Nat
  BY FS_Subset, FS_CardinalityType
<1>4. N \subseteq DOMAIN s /\ DOMAIN Newest(s, n) = N
  BY <1>1
<1>5. \A h \in DOMAIN s : h \in N <=> ~Outdated(s, h, n)
  BY <1>3 DEF Outdated
<1>6. \A h \in N : Newest(s, n)[h] = s[h]
  BY <1>1
<1>7. \A h \in Nat : Outdated(Newest(s, n), h, n) <=> Outdated(s, h, n)
  BY <1>2, <1>4 DEF Outdated
<1> HIDE DEF N
<1> QED BY <1>4, <1>5, <1>6, <1>7

-----------------------------------------------------------------------------
(***************************************************************************)
(* Days.                                                                   *)
(***************************************************************************)
Tallies == UNION {[M -> Nat] : M \in SUBSET Counted}

DaySeries == UNION {[D -> Tallies] : D \in {E \in SUBSET Nat : IsFiniteSet(E)}}

\* A series of days has finitely many, each with its tallies.
LEMMA DaySeriesFacts ==
    ASSUME NEW s \in DaySeries
    PROVE  /\ DOMAIN s \in SUBSET Nat
           /\ IsFiniteSet(DOMAIN s)
           /\ \A d \in DOMAIN s : s[d] \in Tallies
BY DEF DaySeries

\* What makes a series of days.
LEMMA DaySeriesIntro ==
    ASSUME NEW D \in SUBSET Nat, IsFiniteSet(D), NEW s \in [D -> Tallies]
    PROVE  s \in DaySeries
BY DEF DaySeries

\* Tallies are numbers of what is counted.
LEMMA TallyFacts ==
    ASSUME NEW t \in Tallies
    PROVE  DOMAIN t \subseteq Counted /\ \A m \in DOMAIN t : t[m] \in Nat
BY DEF Tallies

\* Tallies of known counters.
LEMMA TallyIntro ==
    ASSUME NEW M \in SUBSET Counted, NEW t \in [M -> Nat]
    PROVE  t \in Tallies
BY DEF Tallies

\* A series of days tells a number of any counter of any day.
LEMMA TallyAtType ==
    ASSUME NEW s \in DaySeries, NEW d, NEW m
    PROVE  TallyAt(s, d, m) \in Nat
<1>1. CASE d \in DOMAIN s /\ m \in DOMAIN s[d]
  <2>1. s[d] \in Tallies
    BY <1>1, DaySeriesFacts
  <2>2. s[d][m] \in Nat
    BY <1>1, <2>1, TallyFacts
  <2> QED BY <1>1, <2>2 DEF TallyAt
<1>2. CASE ~(d \in DOMAIN s /\ m \in DOMAIN s[d])
  BY <1>2 DEF TallyAt
<1> QED BY <1>1, <1>2

\* One increment moves one counter of one day.
LEMMA BumpFacts ==
    ASSUME NEW s \in DaySeries, NEW d \in Nat, NEW m \in Counted
    PROVE  /\ Bump(s, d, m) \in DaySeries
           /\ DOMAIN Bump(s, d, m) = DOMAIN s \cup {d}
           /\ \A e, k : TallyAt(Bump(s, d, m), e, k)
                          = TallyAt(s, e, k) + (IF e = d /\ k = m THEN 1 ELSE 0)
<1> DEFINE touched == (IF d \in DOMAIN s THEN DOMAIN s[d] ELSE {}) \cup {m}
           tally == [k \in touched |-> TallyAt(s, d, k) + (IF k = m THEN 1 ELSE 0)]
           D == DOMAIN s \cup {d}
<1>1. Bump(s, d, m) = [k \in D |-> IF k = d THEN tally ELSE s[k]]
  BY DEF Bump
<1>2. touched \in SUBSET Counted
  BY DaySeriesFacts, TallyFacts
<1>3. \A k : TallyAt(s, d, k) \in Nat
  BY TallyAtType
<1>4. tally \in Tallies
  <2> HIDE DEF touched
  <2>1. tally \in [touched -> Nat]
    BY <1>3
  <2> HIDE DEF tally
  <2> QED BY <1>2, <2>1, TallyIntro
<1>5. D \in SUBSET Nat /\ IsFiniteSet(D)
  BY DaySeriesFacts, FS_AddElement
<1>6. Bump(s, d, m) \in DaySeries
  <2> HIDE DEF tally
  <2>1. Bump(s, d, m) \in [D -> Tallies]
    BY <1>1, <1>4, DaySeriesFacts
  <2> HIDE DEF D
  <2> QED BY <1>5, <2>1, DaySeriesIntro
<1>7. ASSUME NEW e, NEW k
      PROVE  TallyAt(Bump(s, d, m), e, k) = TallyAt(s, e, k) + (IF e = d /\ k = m THEN 1 ELSE 0)
  <2>0. TallyAt(s, e, k) \in Nat
    BY TallyAtType
  <2>1. CASE e # d
    <3>1. TallyAt(Bump(s, d, m), e, k) = TallyAt(s, e, k)
      BY <1>1, <2>1 DEF TallyAt
    <3> QED BY <2>0, <2>1, <3>1
  <2>2. CASE e = d
    <3>1. e \in D /\ Bump(s, d, m)[e] = tally
      BY <1>1, <2>2
    <3>2. CASE k \in touched
      <4>1. TallyAt(Bump(s, d, m), e, k) = tally[k]
        BY <1>1, <3>1, <3>2 DEF TallyAt
      <4> QED BY <2>2, <3>2, <4>1
    <3>3. CASE k \notin touched
      <4>1. TallyAt(Bump(s, d, m), e, k) = 0
        BY <1>1, <3>1, <3>3 DEF TallyAt
      <4>2. TallyAt(s, e, k) = 0 /\ k # m
        BY <2>2, <3>3 DEF TallyAt
      <4> QED BY <4>1, <4>2
    <3> QED BY <3>2, <3>3
  <2> QED BY <2>1, <2>2
<1> QED BY <1>1, <1>6, <1>7

\* A day that is not outdated keeps its tallies.
LEMMA NewestDays ==
    ASSUME NEW s \in DaySeries, NEW n \in Nat
    PROVE  /\ Newest(s, n) \in DaySeries
           /\ \A d \in Nat : Outdated(Newest(s, n), d, n) <=> Outdated(s, d, n)
           /\ \A d \in Nat : \A m : ~Outdated(s, d, n) => TallyAt(Newest(s, n), d, m) = TallyAt(s, d, m)
<1> DEFINE D == DOMAIN Newest(s, n)
<1>1. D \subseteq DOMAIN s /\ \A d \in D : Newest(s, n)[d] = s[d]
  BY DaySeriesFacts, NewestKeeps
<1>2. Newest(s, n) \in [D -> Tallies]
  <2>1. Newest(s, n) = [d \in D |-> Newest(s, n)[d]]
    BY DEF Newest, Restrict
  <2>2. \A d \in D : Newest(s, n)[d] \in Tallies
    BY <1>1, DaySeriesFacts
  <2> HIDE DEF D
  <2> QED BY <2>1, <2>2
<1>3. D \in SUBSET Nat /\ IsFiniteSet(D)
  BY <1>1, DaySeriesFacts, FS_Subset
<1>4. Newest(s, n) \in DaySeries
  <2> HIDE DEF D
  <2> QED BY <1>2, <1>3, DaySeriesIntro
<1>5. ASSUME NEW d \in Nat, NEW m, ~Outdated(s, d, n)
      PROVE  TallyAt(Newest(s, n), d, m) = TallyAt(s, d, m)
  <2>1. d \in D <=> d \in DOMAIN s
    BY <1>1, <1>5, DaySeriesFacts, NewestKeeps
  <2> QED BY <1>1, <2>1 DEF TallyAt
<1> QED BY <1>4, <1>5, DaySeriesFacts, NewestKeeps

-----------------------------------------------------------------------------
(***************************************************************************)
(* Documents.                                                              *)
(***************************************************************************)
MetricDocuments == [days : DaySeries, hours : TrafficSeries]

Contents(key) == IF key = "metrics" THEN MetricDocuments ELSE Seq(Entries)

\* The documents of a deployment that has none.
LEMMA EmptyFacts ==
    /\ Empty \in [metrics : MetricDocuments, history : Seq(Entries)]
    /\ Empty.metrics.hours = NoSeries /\ Empty.metrics.days = NoSeries
    /\ Empty.history = <<>>
<1>1. NoSeries \in TrafficSeries
  BY NoSeriesFacts
<1>2. NoSeries \in DaySeries
  <2>1. NoSeries \in [{} -> Tallies] /\ IsFiniteSet({})
    BY FS_EmptySet DEF NoSeries
  <2> QED BY <2>1, DaySeriesIntro
<1> QED BY <1>1, <1>2 DEF Empty, MetricDocuments

\* The log grows by one entry until it is full.
LEMMA AppendEntryFacts ==
    ASSUME NEW s \in Seq(Entries), NEW u \in Entries
    PROVE  /\ AppendEntry(s, u) \in Seq(Entries)
           /\ Len(s) <= KeptEntries => Len(AppendEntry(s, u)) = Smaller(KeptEntries, Len(s) + 1)
<1> DEFINE t == <<u>> \o s
           n == IF Len(s) < KeptEntries THEN Len(s) + 1 ELSE KeptEntries
<1>1. <<u>> \in Seq(Entries) /\ Len(<<u>>) = 1
  OBVIOUS
<1>2. t \in Seq(Entries) /\ Len(t) = Len(s) + 1
  BY <1>1, ConcatProperties
<1>3. Len(s) \in Nat /\ KeptEntries \in Nat /\ n \in 0..(Len(s) + 1)
  BY LenProperties, RetentionAssumption
<1> HIDE DEF t
<1>4. AppendEntry(s, u) = SubSeq(t, 1, n)
  BY DEF AppendEntry, t
<1>5. SubSeq(t, 1, n) \in Seq(Entries) /\ Len(SubSeq(t, 1, n)) = n
  <2> HIDE DEF n
  <2>1. \A i \in 1..n : i \in 1..Len(t)
    BY <1>2, <1>3
  <2>2. \A i \in 1..n : t[i] \in Entries
    BY <1>2, <2>1, ElementOfSeq
  <2> QED BY <1>2, <1>3, <2>2
<1> QED BY <1>3, <1>4, <1>5 DEF Smaller

\* An increment leaves the hours alone and is found in its day, unless the day is outdated.
LEMMA IncrementFacts ==
    ASSUME NEW document \in MetricDocuments, NEW u \in Increments
    PROVE  /\ Increment(document, u) \in MetricDocuments
           /\ Increment(document, u).hours = document.hours
           /\ \A d \in Nat : Outdated(document.days, d, KeptDays) => Outdated(Increment(document, u).days, d, KeptDays)
           /\ \A d \in Nat : \A m : ~Outdated(Increment(document, u).days, d, KeptDays) =>
                TallyAt(Increment(document, u).days, d, m)
                  = TallyAt(document.days, d, m) + (IF u.day = d /\ u.metric = m THEN 1 ELSE 0)
<1> DEFINE b == Bump(document.days, u.day, u.metric)
           D == DOMAIN document.days
<1>1. document.days \in DaySeries /\ u.day \in Nat /\ u.metric \in Counted /\ KeptDays \in Nat
  BY RetentionAssumption DEF MetricDocuments, Increments
<1>2. /\ b \in DaySeries
      /\ DOMAIN b = D \cup {u.day}
      /\ \A e, k : TallyAt(b, e, k) = TallyAt(document.days, e, k) + (IF e = u.day /\ k = u.metric THEN 1 ELSE 0)
  BY <1>1, BumpFacts
<1>3. Increment(document, u) = [document EXCEPT !.days = Newest(b, KeptDays)]
  BY DEF Increment
<1> HIDE DEF b
<1>4. /\ Increment(document, u).days = Newest(b, KeptDays)
      /\ Increment(document, u).hours = document.hours
  BY <1>3 DEF MetricDocuments
<1>5. /\ Newest(b, KeptDays) \in DaySeries
      /\ \A d \in Nat : Outdated(Newest(b, KeptDays), d, KeptDays) <=> Outdated(b, d, KeptDays)
      /\ \A d \in Nat : \A m : ~Outdated(b, d, KeptDays) => TallyAt(Newest(b, KeptDays), d, m) = TallyAt(b, d, m)
  BY <1>1, <1>2, NewestDays
<1>6. Increment(document, u) \in MetricDocuments
  BY <1>3, <1>5 DEF MetricDocuments
<1>7. ASSUME NEW d \in Nat, Outdated(document.days, d, KeptDays)
      PROVE  Outdated(b, d, KeptDays)
  <2>1. {k \in D : k > d} \subseteq {k \in DOMAIN b : k > d}
    BY <1>2
  <2>2. IsFiniteSet({k \in DOMAIN b : k > d})
    BY <1>2, DaySeriesFacts, FS_Subset
  <2>3. /\ Cardinality({k \in D : k > d}) <= Cardinality({k \in DOMAIN b : k > d})
        /\ Cardinality({k \in D : k > d}) \in Nat
        /\ Cardinality({k \in DOMAIN b : k > d}) \in Nat
    BY <2>1, <2>2, FS_Subset, FS_CardinalityType
  <2> QED BY <1>1, <1>7, <2>3 DEF Outdated
<1>8. ASSUME NEW d \in Nat, NEW m, ~Outdated(Increment(document, u).days, d, KeptDays)
      PROVE  TallyAt(Increment(document, u).days, d, m)
               = TallyAt(document.days, d, m) + (IF u.day = d /\ u.metric = m THEN 1 ELSE 0)
  <2>1. TallyAt(Increment(document, u).days, d, m) = TallyAt(b, d, m)
    BY <1>4, <1>5, <1>8
  <2> QED BY <1>2, <2>1
<1> QED BY <1>4, <1>5, <1>6, <1>7, <1>8

\* An update of a document gives a document.
LEMMA UpdateType ==
    ASSUME NEW key \in Keys, NEW d \in Contents(key), NEW u \in UpdatesOf(key)
    PROVE  Update(key, d, u) \in Contents(key)
<1>1. CASE key = "metrics"
  <2>1. d \in MetricDocuments /\ u \in Increments
    BY <1>1 DEF Contents, UpdatesOf
  <2>2. Increment(d, u) \in MetricDocuments
    BY <2>1, IncrementFacts
  <2> QED BY <1>1, <2>2 DEF Contents, Update
<1>2. CASE key # "metrics"
  <2>1. d \in Seq(Entries) /\ u \in Entries
    BY <1>2 DEF Contents, UpdatesOf
  <2>2. AppendEntry(d, u) \in Seq(Entries)
    BY <2>1, AppendEntryFacts
  <2> QED BY <1>2, <2>2 DEF Contents, Update
<1> QED BY <1>1, <1>2

\* So do any number of them.
LEMMA AppliedType ==
    ASSUME NEW key \in Keys, NEW base \in Contents(key), NEW s \in Seq(UpdatesOf(key))
    PROVE  Applied(key, base, s) \in Contents(key)
<1> DEFINE V == Contents(key)
           U == UpdatesOf(key)
<1>1. \A d \in V, u \in U : Update(key, d, u) \in V
  BY UpdateType
<1> HIDE DEF V, U
<1>2. base \in V /\ s \in Seq(U)
  BY DEF V, U
<1>3. PICK a : Stages(a, key, V, base, s)
  <2>1. Applicable(key, V, U, base, s)
    BY <1>1, <1>2 DEF Applicable
  <2> QED BY <2>1, AppliedSteps
<1>4. Len(s) \in 0..Len(s)
  BY <1>2, LenProperties
<1> QED BY <1>3, <1>4 DEF V, Stages

\* How often a counter occurs among increments.
LEMMA TimesFacts ==
    ASSUME NEW s \in Seq(Increments), NEW d, NEW m
    PROVE  /\ Times(s, d, m) \in Nat
           /\ Times(<<>>, d, m) = 0
           /\ Times(s, d, m) = Cardinality({n \in 1..Len(s) : s[n].day = d /\ s[n].metric = m})
<1>1. DOMAIN s = 1..Len(s) /\ Len(s) \in Nat
  BY LenProperties
<1>2. IsFiniteSet(1..Len(s))
  BY <1>1, FS_Interval
<1>3. IsFiniteSet({n \in 1..Len(s) : s[n].day = d /\ s[n].metric = m})
  BY <1>2, FS_Subset
<1>4. {n \in DOMAIN <<>> : <<>>[n].day = d /\ <<>>[n].metric = m} = {}
  OBVIOUS
<1> QED BY <1>1, <1>3, <1>4, FS_CardinalityType, FS_EmptySet DEF Times

\* Increments applied one by one leave the hours alone, and each is found in its day.
LEMMA AppliedMetrics ==
    ASSUME NEW base \in MetricDocuments, NEW s \in Seq(Increments)
    PROVE  /\ Applied("metrics", base, s).hours = base.hours
           /\ \A d \in Nat : Outdated(base.days, d, KeptDays) => Outdated(Applied("metrics", base, s).days, d, KeptDays)
           /\ \A d \in Nat : \A m : ~Outdated(Applied("metrics", base, s).days, d, KeptDays) =>
                TallyAt(Applied("metrics", base, s).days, d, m) = TallyAt(base.days, d, m) + Times(s, d, m)
<1> DEFINE V == MetricDocuments
           n == Len(s)
<1>0. n \in Nat /\ \A k \in 1..n : s[k] \in Increments
  BY LenProperties, ElementOfSeq
<1>1. \A d \in V, u \in Increments : Update("metrics", d, u) \in V /\ Update("metrics", d, u) = Increment(d, u)
  BY IncrementFacts DEF Update
<1>2. PICK a \in [0..n -> V] :
             /\ a[0] = base
             /\ \A k \in 1..n : a[k] = Update("metrics", a[k - 1], s[k])
             /\ Applied("metrics", base, s) = a[n]
  <2>1. Applicable("metrics", V, Increments, base, s)
    BY <1>1 DEF Applicable
  <2> HIDE DEF V
  <2>2. PICK a : Stages(a, "metrics", V, base, s)
    BY <2>1, AppliedSteps
  <2> QED BY <2>2 DEF Stages
<1>3. ASSUME NEW k \in Nat, k + 1 <= n
      PROVE  a[k] \in V /\ a[k + 1] \in V /\ s[k + 1] \in Increments /\ a[k + 1] = Increment(a[k], s[k + 1])
  <2>1. k \in 0..n /\ k + 1 \in 1..n /\ k + 1 \in 0..n /\ (k + 1) - 1 = k
    BY <1>0, <1>3
  <2> QED BY <1>0, <1>1, <1>2, <2>1
<1> HIDE DEF V
<1> DEFINE Sofar(k, d, m) == {j \in 1..k : s[j].day = d /\ s[j].metric = m}
<1>4. \A k \in Nat : \A d, m : IsFiniteSet(Sofar(k, d, m)) /\ Cardinality(Sofar(k, d, m)) \in Nat
  <2> TAKE k \in Nat
  <2>1. IsFiniteSet(1..k)
    BY FS_Interval
  <2> QED BY <2>1, FS_Subset, FS_CardinalityType
<1>5. ASSUME NEW k \in Nat, NEW d, NEW m
      PROVE  Cardinality(Sofar(k + 1, d, m)) = Cardinality(Sofar(k, d, m))
               + (IF s[k + 1].day = d /\ s[k + 1].metric = m THEN 1 ELSE 0)
  <2>1. CASE s[k + 1].day = d /\ s[k + 1].metric = m
    <3>1. Sofar(k + 1, d, m) = Sofar(k, d, m) \cup {k + 1} /\ k + 1 \notin Sofar(k, d, m)
      BY <2>1
    <3> QED BY <1>4, <2>1, <3>1, FS_AddElement
  <2>2. CASE ~(s[k + 1].day = d /\ s[k + 1].metric = m)
    <3>1. Sofar(k + 1, d, m) = Sofar(k, d, m)
      BY <2>2
    <3>2. Cardinality(Sofar(k, d, m)) \in Nat
      BY <1>4
    <3> HIDE DEF Sofar
    <3> QED BY <2>2, <3>1, <3>2
  <2> QED BY <2>1, <2>2
<1> DEFINE Good(k) ==
             /\ a[k].hours = base.hours
             /\ \A d \in Nat : Outdated(base.days, d, KeptDays) => Outdated(a[k].days, d, KeptDays)
             /\ \A d \in Nat : \A m : ~Outdated(a[k].days, d, KeptDays) =>
                  TallyAt(a[k].days, d, m) = TallyAt(base.days, d, m) + Cardinality(Sofar(k, d, m))
           good == {k \in Nat : k <= n => Good(k)}
<1>6. 0 \in good
  <2>1. \A d, m : Cardinality(Sofar(0, d, m)) = 0
    <3>1. \A d, m : Sofar(0, d, m) = {}
      OBVIOUS
    <3> QED BY <3>1, FS_EmptySet
  <2>2. \A d, m : TallyAt(base.days, d, m) \in Nat
    BY TallyAtType DEF MetricDocuments
  <2>3. a[0] = base
    BY <1>2
  <2> HIDE DEF Sofar
  <2> QED BY <2>1, <2>2, <2>3
<1>7. ASSUME NEW k \in Nat, k \in good
      PROVE  k + 1 \in good
  <2> SUFFICES ASSUME k + 1 <= n
               PROVE  Good(k + 1)
    OBVIOUS
  <2>1. Good(k)
    BY <1>0, <1>7
  <2>2. a[k] \in V /\ a[k + 1] \in V /\ s[k + 1] \in Increments /\ a[k + 1] = Increment(a[k], s[k + 1])
    BY <1>3
  <2>3. /\ a[k + 1].hours = a[k].hours
        /\ \A d \in Nat : Outdated(a[k].days, d, KeptDays) => Outdated(a[k + 1].days, d, KeptDays)
        /\ \A d \in Nat : \A m : ~Outdated(a[k + 1].days, d, KeptDays) =>
             TallyAt(a[k + 1].days, d, m)
               = TallyAt(a[k].days, d, m) + (IF s[k + 1].day = d /\ s[k + 1].metric = m THEN 1 ELSE 0)
    <3>1. a[k] \in MetricDocuments /\ s[k + 1] \in Increments
      BY <2>2 DEF V
    <3> DEFINE x == a[k]
               u == s[k + 1]
    <3> HIDE DEF x, u
    <3>2. x \in MetricDocuments /\ u \in Increments /\ a[k + 1] = Increment(x, u)
      BY <2>2, <3>1 DEF x, u
    <3>3. /\ Increment(x, u).hours = x.hours
          /\ \A d \in Nat : Outdated(x.days, d, KeptDays) => Outdated(Increment(x, u).days, d, KeptDays)
          /\ \A d \in Nat : \A m : ~Outdated(Increment(x, u).days, d, KeptDays) =>
               TallyAt(Increment(x, u).days, d, m) = TallyAt(x.days, d, m) + (IF u.day = d /\ u.metric = m THEN 1 ELSE 0)
      <4>1. x \in MetricDocuments /\ u \in Increments
        BY <3>2
      <4> HIDE <1>4, <1>5, <1>6, <1>7, <2>1, <2>2, <3>1
      <4> QED BY <4>1, IncrementFacts
    <3> QED BY <3>2, <3>3 DEF x, u
  <2>4. \A d, m : TallyAt(base.days, d, m) \in Nat
    BY TallyAtType DEF MetricDocuments
  <2> HIDE DEF Sofar
  <2>5. ASSUME NEW d \in Nat, NEW m, ~Outdated(a[k + 1].days, d, KeptDays)
        PROVE  TallyAt(a[k + 1].days, d, m) = TallyAt(base.days, d, m) + Cardinality(Sofar(k + 1, d, m))
    <3>1. TallyAt(a[k].days, d, m) = TallyAt(base.days, d, m) + Cardinality(Sofar(k, d, m))
      BY <2>1, <2>3, <2>5
    <3>2. TallyAt(a[k + 1].days, d, m)
               = TallyAt(a[k].days, d, m) + (IF s[k + 1].day = d /\ s[k + 1].metric = m THEN 1 ELSE 0)
      BY <2>3, <2>5
    <3>3. Cardinality(Sofar(k, d, m)) \in Nat /\ TallyAt(base.days, d, m) \in Nat
      BY <1>4, <2>4
    <3>4. Cardinality(Sofar(k + 1, d, m)) = Cardinality(Sofar(k, d, m))
               + (IF s[k + 1].day = d /\ s[k + 1].metric = m THEN 1 ELSE 0)
      BY <1>5
    <3> QED BY <3>1, <3>2, <3>3, <3>4
  <2> QED BY <2>1, <2>3, <2>5
<1> HIDE DEF good
<1>8. n \in good
  BY <1>0, <1>6, <1>7, Induction
<1>9. Good(n)
  BY <1>0, <1>8 DEF good
<1>10. \A d, m : Times(s, d, m) = Cardinality(Sofar(n, d, m))
  BY TimesFacts
<1> HIDE DEF Sofar
<1> QED BY <1>2, <1>9, <1>10

\* Entries appended one by one: as many as fit.
LEMMA AppliedHistory ==
    ASSUME NEW base \in Seq(Entries), NEW s \in Seq(Entries), Len(base) <= KeptEntries
    PROVE  Len(Applied("history", base, s)) = Smaller(KeptEntries, Len(base) + Len(s))
<1> DEFINE V == Seq(Entries)
           n == Len(s)
<1>0. n \in Nat /\ Len(base) \in Nat /\ KeptEntries \in Nat /\ \A k \in 1..n : s[k] \in Entries
  BY LenProperties, ElementOfSeq, RetentionAssumption
<1>1. \A d \in V, u \in Entries : Update("history", d, u) \in V /\ Update("history", d, u) = AppendEntry(d, u)
  BY AppendEntryFacts DEF Update
<1>2. PICK a \in [0..n -> V] :
             /\ a[0] = base
             /\ \A k \in 1..n : a[k] = Update("history", a[k - 1], s[k])
             /\ Applied("history", base, s) = a[n]
  <2>1. Applicable("history", V, Entries, base, s)
    BY <1>1 DEF Applicable
  <2> HIDE DEF V
  <2>2. PICK a : Stages(a, "history", V, base, s)
    BY <2>1, AppliedSteps
  <2> QED BY <2>2 DEF Stages
<1> DEFINE good == {k \in Nat : k <= n => Len(a[k]) = Smaller(KeptEntries, Len(base) + k)}
<1>3. 0 \in good
  BY <1>0, <1>2 DEF Smaller
<1>4. ASSUME NEW k \in Nat, k \in good
      PROVE  k + 1 \in good
  <2> SUFFICES ASSUME k + 1 <= n
               PROVE  Len(a[k + 1]) = Smaller(KeptEntries, Len(base) + (k + 1))
    OBVIOUS
  <2>1. k \in 0..n /\ k + 1 \in 1..n /\ (k + 1) - 1 = k
    BY <1>0
  <2>2. a[k] \in Seq(Entries) /\ a[k + 1] = AppendEntry(a[k], s[k + 1])
    BY <1>0, <1>1, <1>2, <2>1
  <2>3. Len(a[k]) = Smaller(KeptEntries, Len(base) + k)
    BY <1>4, <2>1
  <2>4. Len(a[k]) <= KeptEntries /\ Len(a[k]) \in Nat
    BY <1>0, <2>3 DEF Smaller
  <2>5. Len(a[k + 1]) = Smaller(KeptEntries, Len(a[k]) + 1)
    BY <1>0, <2>1, <2>2, <2>4, AppendEntryFacts
  <2> QED BY <1>0, <2>3, <2>5 DEF Smaller
<1> HIDE DEF good
<1>5. n \in good
  BY <1>0, <1>3, <1>4, Induction
<1> QED BY <1>0, <1>2, <1>5 DEF good

-----------------------------------------------------------------------------
(***************************************************************************)
(* Sums over the isolates and over the requests.                           *)
(***************************************************************************)
InMemory(mem, h, f) == SumFunctionOnSet([i \in Isolates |-> At(mem[i].hours, h)[f]], Isolates)
UnderWay(hands, h, f) == SumFunctionOnSet([r \in Requests |-> At(hands[r].pending, h)[f]], Requests)

\* What the isolates hold is at least what each one does.
LEMMA InMemoryFacts ==
    ASSUME NEW mem, \A i \in Isolates : mem[i].hours \in TrafficSeries, NEW h, NEW f \in Fields
    PROVE  /\ InMemory(mem, h, f) \in Nat
           /\ \A i \in Isolates : At(mem[i].hours, h)[f] <= InMemory(mem, h, f)
<1> DEFINE s == [i \in Isolates |-> At(mem[i].hours, h)[f]]
<1>1. \A i \in Isolates : s[i] \in Nat /\ s[i] = At(mem[i].hours, h)[f]
  BY AtType
<1>2. InMemory(mem, h, f) = SumFunctionOnSet(s, Isolates)
  BY DEF InMemory
<1> HIDE DEF s
<1>3. IsFiniteSet(Isolates)
  BY MetricsAssumption
<1> QED BY <1>1, <1>2, <1>3, SumOfNaturals

\* It changes as the memory of the isolate that changes.
LEMMA InMemoryChange ==
    ASSUME NEW mem, \A i \in Isolates : mem[i].hours \in TrafficSeries,
           NEW new, \A i \in Isolates : new[i].hours \in TrafficSeries,
           NEW j \in Isolates, \A i \in Isolates \ {j} : new[i].hours = mem[i].hours,
           NEW h, NEW f \in Fields
    PROVE  InMemory(new, h, f) = InMemory(mem, h, f) + (At(new[j].hours, h)[f] - At(mem[j].hours, h)[f])
<1> DEFINE s == [i \in Isolates |-> At(mem[i].hours, h)[f]]
           t == [i \in Isolates |-> At(new[i].hours, h)[f]]
<1>1. \A i \in Isolates : s[i] \in Nat /\ s[i] = At(mem[i].hours, h)[f] /\ t[i] \in Nat /\ t[i] = At(new[i].hours, h)[f]
  BY AtType
<1>2. InMemory(mem, h, f) = SumFunctionOnSet(s, Isolates) /\ InMemory(new, h, f) = SumFunctionOnSet(t, Isolates)
  BY DEF InMemory
<1>3. IsFiniteSet(Isolates)
  BY MetricsAssumption
<1> HIDE DEF s, t
<1>4. \A i \in Isolates \ {j} : t[i] = s[i]
  BY <1>1
<1>5. \A i \in Isolates : s[i] \in Int /\ t[i] \in Int
  BY <1>1
<1>6. SumFunctionOnSet(t, Isolates) = SumFunctionOnSet(s, Isolates) + (t[j] - s[j])
  BY <1>3, <1>4, <1>5, SumChange
<1> QED BY <1>1, <1>2, <1>6

\* What the flushes carry is a number.
LEMMA UnderWayFacts ==
    ASSUME NEW hands, \A r \in Requests : hands[r].pending \in TrafficSeries, NEW h, NEW f \in Fields
    PROVE  UnderWay(hands, h, f) \in Nat
<1> DEFINE s == [r \in Requests |-> At(hands[r].pending, h)[f]]
<1>1. \A r \in Requests : s[r] \in Nat
  BY AtType
<1>2. UnderWay(hands, h, f) = SumFunctionOnSet(s, Requests)
  BY DEF UnderWay
<1> HIDE DEF s
<1>3. IsFiniteSet(Requests)
  BY MetricsAssumption
<1> QED BY <1>1, <1>2, <1>3, SumOfNaturals

\* It changes as what one request carries.
LEMMA UnderWayChange ==
    ASSUME NEW hands, \A r \in Requests : hands[r].pending \in TrafficSeries,
           NEW new, \A r \in Requests : new[r].pending \in TrafficSeries,
           NEW q \in Requests, \A r \in Requests \ {q} : new[r].pending = hands[r].pending,
           NEW h, NEW f \in Fields
    PROVE  UnderWay(new, h, f) = UnderWay(hands, h, f) + (At(new[q].pending, h)[f] - At(hands[q].pending, h)[f])
<1> DEFINE s == [r \in Requests |-> At(hands[r].pending, h)[f]]
           t == [r \in Requests |-> At(new[r].pending, h)[f]]
<1>1. \A r \in Requests : s[r] \in Nat /\ s[r] = At(hands[r].pending, h)[f] /\ t[r] \in Nat /\ t[r] = At(new[r].pending, h)[f]
  BY AtType
<1>2. UnderWay(hands, h, f) = SumFunctionOnSet(s, Requests) /\ UnderWay(new, h, f) = SumFunctionOnSet(t, Requests)
  BY DEF UnderWay
<1>3. IsFiniteSet(Requests)
  BY MetricsAssumption
<1> HIDE DEF s, t
<1>4. \A r \in Requests \ {q} : t[r] = s[r]
  BY <1>1
<1>5. \A r \in Requests : s[r] \in Int /\ t[r] \in Int
  BY <1>1
<1>6. SumFunctionOnSet(t, Requests) = SumFunctionOnSet(s, Requests) + (t[q] - s[q])
  BY <1>3, <1>4, <1>5, SumChange
<1> QED BY <1>1, <1>2, <1>6

ToTally(docs, d, m) == SumFunctionOnSet([r \in Requests |-> Times(docs[r].metrics.updates, d, m)], Requests)
ToLog(docs) == SumFunctionOnSet([r \in Requests |-> Len(docs[r].history.updates)], Requests)

\* The increments yet to be written change as those of one request.
LEMMA ToTallyChange ==
    ASSUME NEW docs, \A r \in Requests : docs[r].metrics.updates \in Seq(Increments),
           NEW new, \A r \in Requests : new[r].metrics.updates \in Seq(Increments),
           NEW q \in Requests, \A r \in Requests \ {q} : new[r].metrics.updates = docs[r].metrics.updates,
           NEW d, NEW m
    PROVE  /\ ToTally(docs, d, m) \in Nat
           /\ ToTally(new, d, m) = ToTally(docs, d, m)
                + (Times(new[q].metrics.updates, d, m) - Times(docs[q].metrics.updates, d, m))
<1> DEFINE s == [r \in Requests |-> Times(docs[r].metrics.updates, d, m)]
           t == [r \in Requests |-> Times(new[r].metrics.updates, d, m)]
<1>1. \A r \in Requests : /\ s[r] \in Nat /\ s[r] = Times(docs[r].metrics.updates, d, m)
                          /\ t[r] \in Nat /\ t[r] = Times(new[r].metrics.updates, d, m)
  BY TimesFacts
<1>2. ToTally(docs, d, m) = SumFunctionOnSet(s, Requests) /\ ToTally(new, d, m) = SumFunctionOnSet(t, Requests)
  BY DEF ToTally
<1>3. IsFiniteSet(Requests)
  BY MetricsAssumption
<1>4. \A r \in Requests \ {q} : t[r] = s[r]
  OBVIOUS
<1> HIDE DEF s, t
<1>5. \A r \in Requests : s[r] \in Int /\ t[r] \in Int
  BY <1>1
<1>6. SumFunctionOnSet(t, Requests) = SumFunctionOnSet(s, Requests) + (t[q] - s[q])
  BY <1>3, <1>4, <1>5, SumChange
<1>7. SumFunctionOnSet(s, Requests) \in Nat
  BY <1>1, <1>3, SumOfNaturals
<1> QED BY <1>1, <1>2, <1>6, <1>7

\* So do the entries.
LEMMA ToLogChange ==
    ASSUME NEW docs, \A r \in Requests : docs[r].history.updates \in Seq(Entries),
           NEW new, \A r \in Requests : new[r].history.updates \in Seq(Entries),
           NEW q \in Requests, \A r \in Requests \ {q} : new[r].history.updates = docs[r].history.updates
    PROVE  /\ ToLog(docs) \in Nat
           /\ ToLog(new) = ToLog(docs) + (Len(new[q].history.updates) - Len(docs[q].history.updates))
<1> DEFINE s == [r \in Requests |-> Len(docs[r].history.updates)]
           t == [r \in Requests |-> Len(new[r].history.updates)]
<1>1. \A r \in Requests : /\ s[r] \in Nat /\ s[r] = Len(docs[r].history.updates)
                          /\ t[r] \in Nat /\ t[r] = Len(new[r].history.updates)
  BY LenProperties
<1>2. ToLog(docs) = SumFunctionOnSet(s, Requests) /\ ToLog(new) = SumFunctionOnSet(t, Requests)
  BY DEF ToLog
<1>3. IsFiniteSet(Requests)
  BY MetricsAssumption
<1>4. \A r \in Requests \ {q} : t[r] = s[r]
  OBVIOUS
<1> HIDE DEF s, t
<1>5. \A r \in Requests : s[r] \in Int /\ t[r] \in Int
  BY <1>1
<1>6. SumFunctionOnSet(t, Requests) = SumFunctionOnSet(s, Requests) + (t[q] - s[q])
  BY <1>3, <1>4, <1>5, SumChange
<1>7. SumFunctionOnSet(s, Requests) \in Nat
  BY <1>1, <1>3, SumOfNaturals
<1> QED BY <1>1, <1>2, <1>6, <1>7

-----------------------------------------------------------------------------
(***************************************************************************)
(* The state.                                                              *)
(***************************************************************************)
TypeOK ==
    /\ stored \in [metrics : MetricDocuments, history : Seq(Entries)]
    /\ clock \in Nat \ {0}
    /\ memory \in [Isolates -> [hours : TrafficSeries, requests : Nat, lastFlushAt : Nat]]
    /\ isolate \in [Requests -> Isolates \cup {None}]
    /\ documents \in [Requests -> [metrics : [base : MetricDocuments \cup {None}, updates : Seq(Increments)],
                                   history : [base : Seq(Entries) \cup {None}, updates : Seq(Entries)]]]
    /\ putting \in [Requests -> SUBSET Keys]
    /\ hand \in [Requests -> [base : MetricDocuments \cup {None}, pending : TrafficSeries]]
    /\ stream \in [Requests -> {None} \cup [hour : Nat, bytes : Nat]]
    /\ served \in TrafficSeries
    /\ DOMAIN published \subseteq Nat
    /\ entries \in Nat
    /\ excused \in BOOLEAN
    /\ writes \in [Isolates -> [requests : Nat, flushes : Nat, since : Nat]]

Control ==
    /\ pc = [r \in Requests |-> pc[r]]
    /\ \A r \in Requests :
      /\ pc[r] # "new" => isolate[r] \in Isolates
      /\ pc[r] \in {"writing", "cleared"} => hand[r].base \in MetricDocuments
      /\ pc[r] \notin {"reading", "writing"} => hand[r].pending = NoSeries
      /\ pc[r] \in {"clearing", "cleared"} => excused
      /\ pc[r] \in {"new", "recording", "settling"} => putting[r] = {}
      /\ \A key \in Keys :
           documents[r][key].updates # <<>> => pc[r] = "settling" \/ key \in putting[r]
      /\ \A key \in putting[r] : documents[r][key].base # None

\* With what a request holds at each of its steps, the types are inductive.
Typed == TypeOK /\ Control

\* At first nothing is counted and all is of its type.
LEMMA InitTyped == Init => Typed
<1> SUFFICES ASSUME Init PROVE Typed
  OBVIOUS
<1> USE DEF Init
<1>1. stored \in [metrics : MetricDocuments, history : Seq(Entries)]
  BY EmptyFacts
<1>2. NoSeries \in TrafficSeries /\ DOMAIN NoSeries = {}
  BY NoSeriesFacts DEF NoSeries
<1>3. memory \in [Isolates -> [hours : TrafficSeries, requests : Nat, lastFlushAt : Nat]]
  BY <1>2 DEF NoMemory
<1>4. documents \in [Requests -> [metrics : [base : MetricDocuments \cup {None}, updates : Seq(Increments)],
                                   history : [base : Seq(Entries) \cup {None}, updates : Seq(Entries)]]]
  <2>1. NoDocument \in [base : MetricDocuments \cup {None}, updates : Seq(Increments)]
    BY DEF NoDocument
  <2>2. NoDocument \in [base : Seq(Entries) \cup {None}, updates : Seq(Entries)]
    BY DEF NoDocument
  <2>3. documents = [r \in Requests |-> [k \in Keys |-> NoDocument]]
    OBVIOUS
  <2> HIDE DEF Init
  <2> QED BY <2>1, <2>2, <2>3 DEF Keys
<1>5. hand \in [Requests -> [base : MetricDocuments \cup {None}, pending : TrafficSeries]]
  BY <1>2 DEF NoHand
<1>6. writes \in [Isolates -> [requests : Nat, flushes : Nat, since : Nat]]
  BY DEF NoWrites
<1>7. TypeOK
  <2>1. isolate \in [Requests -> Isolates \cup {None}] /\ putting \in [Requests -> SUBSET Keys]
    OBVIOUS
  <2>2. stream \in [Requests -> {None} \cup [hour : Nat, bytes : Nat]]
    OBVIOUS
  <2>3. clock \in Nat \ {0} /\ served \in TrafficSeries /\ DOMAIN published \subseteq Nat /\ entries \in Nat /\ excused \in BOOLEAN
    <3>1. clock = 1 /\ served = NoSeries /\ published = NoSeries /\ entries = 0 /\ excused = FALSE
      OBVIOUS
    <3> HIDE DEF Init
    <3>2. clock \in Nat \ {0} /\ entries \in Nat
      BY <3>1
    <3>4. excused \in BOOLEAN
      BY <3>1, Zenon
    <3>3. served \in TrafficSeries /\ DOMAIN published \subseteq Nat
      BY <1>2, <3>1
    <3> QED BY <3>2, <3>3, <3>4
  <2> HIDE DEF Init
  <2> QED BY <1>1, <1>3, <1>4, <1>5, <1>6, <2>1, <2>2, <2>3 DEF TypeOK
<1>8. Control
  BY DEF Control, NoDocument, NoHand
<1> QED BY <1>7, <1>8 DEF Typed

\* The documents of a request, and what KV answers for them.
LEMMA DocumentTypes ==
    ASSUME Typed, NEW r \in Requests, NEW key \in Keys
    PROVE  /\ documents[r][key].base \in Contents(key) \cup {None}
           /\ documents[r][key].updates \in Seq(UpdatesOf(key))
           /\ stored[key] \in Contents(key) /\ Empty[key] \in Contents(key)
           /\ \A a \in Reads(key) : a \in Contents(key)
<1> USE DEF Typed, TypeOK
<1>1. CASE key = "metrics"
  BY <1>1, EmptyFacts DEF Contents, UpdatesOf, Reads
<1>2. CASE key = "history"
  BY <1>2, EmptyFacts DEF Contents, UpdatesOf, Reads
<1> QED BY <1>1, <1>2 DEF Keys

\* One document, replaced.
LEMMA DocumentReplaced ==
    ASSUME Typed, NEW r \in Requests, NEW key \in Keys,
           NEW b \in Contents(key) \cup {None}, NEW u \in Seq(UpdatesOf(key)),
           documents' = [documents EXCEPT ![r][key] = [base |-> b, updates |-> u]]
    PROVE  /\ documents' \in [Requests -> [metrics : [base : MetricDocuments \cup {None}, updates : Seq(Increments)],
                                   history : [base : Seq(Entries) \cup {None}, updates : Seq(Entries)]]]
           /\ documents'[r][key].base = b /\ documents'[r][key].updates = u
           /\ \A q \in Requests, k \in Keys : <<q, k>> # <<r, key>> => documents'[q][k] = documents[q][k]
<1> USE DEF Typed, TypeOK
<1>1. CASE key = "metrics"
  BY <1>1 DEF Contents, UpdatesOf, Keys
<1>2. CASE key = "history"
  BY <1>2 DEF Contents, UpdatesOf, Keys
<1> QED BY <1>1, <1>2 DEF Keys

\* A request that begins keeps the types.
LEMMA BeginTyped ==
    ASSUME Typed, NEW r \in Requests, Begin(r)
    PROVE  Typed'
<1> USE DEF Typed, Begin, GoTo
<1>1. TypeOK'
  BY DEF TypeOK, historyVars
<1>2. r \in Requests /\ \E ask \in {"routed", "recording", "resetting"} : pc' = [pc EXCEPT ![r] = ask]
  BY MetricsAssumption
<1>3. Control'
  BY <1>2 DEF Control, historyVars, TypeOK
<1> QED BY <1>1, <1>3

\* So does publishing an event.
LEMMA PublishTyped ==
    ASSUME Typed, NEW r \in Requests, Publish(r)
    PROVE  Typed'
<1> USE DEF Typed
<1>1. PICK script \in Scripts :
        /\ documents' = [documents EXCEPT ![r] = [k \in Keys |-> [base |-> None, updates |-> Emitted(k, r, script)]]]
        /\ published' = Tallied(published, Emitted("metrics", r, script))
        /\ entries' = entries + Len(Emitted("history", r, script))
  BY DEF Publish
<1>2. clock \in Nat
  BY DEF TypeOK
<1>3. Emitted("metrics", r, script) \in Seq(Increments) /\ Emitted("history", r, script) \in Seq(Entries)
  <2>1. "metrics" \in Keys /\ "history" \in Keys
    BY DEF Keys
  <2>2. Emitted("metrics", r, script) \in Seq(UpdatesOf("metrics")) /\ Emitted("history", r, script) \in Seq(UpdatesOf("history"))
    BY <1>2, <2>1, EmittedType
  <2> QED BY <2>2 DEF UpdatesOf
<1>4. documents' \in [Requests -> [metrics : [base : MetricDocuments \cup {None}, updates : Seq(Increments)],
                                   history : [base : Seq(Entries) \cup {None}, updates : Seq(Entries)]]]
  BY <1>1, <1>3 DEF TypeOK, Keys
<1>5. DOMAIN published' \subseteq Nat
  <2> DEFINE s == Emitted("metrics", r, script)
  <2>1. DOMAIN published' = DOMAIN published \cup {u.day : u \in Range(s)}
    BY <1>1 DEF Tallied
  <2>2. \A u \in Range(s) : u \in Increments
    BY <1>3, LenProperties, ElementOfSeq DEF Range
  <2> HIDE DEF s
  <2> QED BY <2>1, <2>2 DEF TypeOK, Increments
<1>6. entries' \in Nat
  BY <1>1, <1>3, LenProperties DEF TypeOK
<1>7. TypeOK'
  BY <1>4, <1>5, <1>6 DEF TypeOK, Publish, GoTo
<1>8. \A q \in Requests \ {r} : documents'[q] = documents[q]
  BY <1>1 DEF TypeOK
<1>9. pc' = [pc EXCEPT ![r] = "settling"] /\ pc[r] = "recording"
  BY DEF Publish, GoTo
<1>10. Control'
  BY <1>8, <1>9 DEF Control, Publish
<1> QED BY <1>7, <1>10

\* So does loading a document, whose base is then what KV answered.
LEMMA LoadTyped ==
    ASSUME Typed, NEW r \in Requests, NEW key \in Keys, Load(r, key)
    PROVE  /\ Typed'
           /\ documents'[r][key].base \in Reads(key)
           /\ excused' = (excused \/ documents'[r][key].base # stored[key])
           /\ \A q \in Requests, k \in Keys : documents'[q][k].updates = documents[q][k].updates
           /\ \A q \in Requests, k \in Keys : <<q, k>> # <<r, key>> => documents'[q][k] = documents[q][k]
<1> USE DEF Typed
<1>1. PICK answer \in Reads(key) : /\ documents' = [documents EXCEPT ![r][key].base = answer]
                                   /\ excused' = (excused \/ Refused(key, answer))
  BY DEF Load
<1> DEFINE u == documents[r][key].updates
<1>2. answer \in Contents(key) /\ u \in Seq(UpdatesOf(key))
  BY <1>1, DocumentTypes
<1>3. documents' = [documents EXCEPT ![r][key] = [base |-> answer, updates |-> u]]
  <2>1. documents[r][key] = [base |-> documents[r][key].base, updates |-> u]
    <3>1. CASE key = "metrics"
      <4>1. documents[r].metrics \in [base : MetricDocuments \cup {None}, updates : Seq(Increments)]
        BY DEF TypeOK
      <4> QED BY <3>1, <4>1
    <3>2. CASE key = "history"
      <4>1. documents[r].history \in [base : Seq(Entries) \cup {None}, updates : Seq(Entries)]
        BY DEF TypeOK
      <4> QED BY <3>2, <4>1
    <3> QED BY <3>1, <3>2 DEF Keys
  <2>2. [documents[r][key] EXCEPT !.base = answer] = [base |-> answer, updates |-> u]
    BY <2>1
  <2>3. documents' = [documents EXCEPT ![r] = [documents[r] EXCEPT ![key] = [documents[r][key] EXCEPT !.base = answer]]]
    BY <1>1
  <2> QED BY <2>2, <2>3
<1> HIDE DEF u
<1>4. /\ documents' \in [Requests -> [metrics : [base : MetricDocuments \cup {None}, updates : Seq(Increments)],
                                   history : [base : Seq(Entries) \cup {None}, updates : Seq(Entries)]]]
      /\ documents'[r][key].base = answer /\ documents'[r][key].updates = u
      /\ \A q \in Requests, k \in Keys : <<q, k>> # <<r, key>> => documents'[q][k] = documents[q][k]
  BY <1>2, <1>3, DocumentReplaced
<1>5. TypeOK'
  <2>1. excused' \in BOOLEAN
    BY <1>1 DEF TypeOK
  <2> QED BY <1>4, <2>1 DEF TypeOK, Load
<1>6. \A q \in Requests, k \in Keys : documents'[q][k].updates = documents[q][k].updates
  BY <1>4 DEF u
<1>7. \A q \in Requests : \A k \in putting[q] : documents'[q][k].base # None
  <2>1. putting[r] = {}
    BY DEF Load, Control
  <2>2. \A q \in Requests : \A k \in putting[q] : k \in Keys /\ q # r
    BY <2>1 DEF TypeOK
  <2> QED BY <1>4, <2>2 DEF Control
<1>8. Control'
  <2>1. UNCHANGED <<pc, isolate, hand, putting>> /\ (excused => excused')
    BY <1>1 DEF Load
  <2> QED BY <1>6, <1>7, <2>1 DEF Control
<1>9. documents'[r][key].base \in Reads(key) /\ excused' = (excused \/ documents'[r][key].base # stored[key])
  BY <1>1, <1>4 DEF Refused
<1> QED BY <1>4, <1>5, <1>6, <1>8, <1>9

\* So does the beginning of a flush.
LEMMA FlushTyped ==
    ASSUME Typed, NEW r \in Requests, Flush(r)
    PROVE  Typed'
<1> USE DEF Typed
<1> DEFINE dirty == {k \in Keys : documents[r][k].updates # <<>>}
<1>1. /\ pc[r] = "settling" /\ Settled(r)
      /\ putting' = [putting EXCEPT ![r] = dirty]
      /\ pc' = [pc EXCEPT ![r] = IF dirty = {} THEN "routed" ELSE "flushing"]
      /\ UNCHANGED <<stored, clock, memory, isolate, documents, hand, stream, historyVars>>
  BY DEF Flush, GoTo
<1>2. TypeOK'
  BY <1>1 DEF TypeOK, historyVars
<1>3. \A k \in dirty : documents[r][k].base # None
  BY <1>1 DEF Settled, Awaited
<1>4. dirty # {} => pc'[r] = "flushing"
  BY <1>1 DEF Control
<1>5. pc'[r] \in {"routed", "flushing"} /\ \A q \in Requests \ {r} : pc'[q] = pc[q] /\ putting'[q] = putting[q]
  BY <1>1 DEF Control, TypeOK
<1>6. putting'[r] = dirty
  BY <1>1 DEF TypeOK
<1> HIDE DEF dirty
<1>7. \A k \in Keys : documents[r][k].updates # <<>> => k \in dirty
  BY DEF dirty
<1>8. Control'
  BY <1>1, <1>3, <1>5, <1>6, <1>7 DEF Control, historyVars
<1> QED BY <1>2, <1>8

\* So does its put, which ends with the document and leaves the others.
LEMMA PutTyped ==
    ASSUME Typed, NEW r \in Requests, NEW key \in Keys, Put(r, key) \/ PutRefused(r, key)
    PROVE  /\ Typed'
           /\ \A q \in Requests, k \in Keys : <<q, k>> # <<r, key>> => documents'[q][k] = documents[q][k]
           /\ documents'[r][key] = NoDocument
           /\ documents[r][key].base \in Contents(key) /\ documents[r][key].updates \in Seq(UpdatesOf(key))
           /\ \/ /\ stored'[key] = Applied(key, documents[r][key].base, documents[r][key].updates)
                 /\ \A k \in Keys \ {key} : stored'[k] = stored[k]
                 /\ excused' = (excused \/ documents[r][key].base # stored[key])
              \/ stored' = stored /\ excused'
<1> USE DEF Typed
<1>1. /\ key \in putting[r]
      /\ putting' = [putting EXCEPT ![r] = @ \ {key}]
      /\ documents' = [documents EXCEPT ![r][key] = NoDocument]
      /\ UNCHANGED <<clock, memory, isolate, hand, stream, served, published, entries, writes>>
      /\ excused => excused'
      /\ excused' \in BOOLEAN
  BY DEF Put, PutRefused, TypeOK
<1>2. pc' = [pc EXCEPT ![r] = pc'[r]] /\ (pc'[r] = pc[r] \/ (pc[r] = "flushing" /\ pc'[r] = "routed"))
  <2>0. pc = [q \in Requests |-> pc[q]]
    BY DEF Control
  <2>1. CASE Put(r, key)
    <3>1. pc' = [pc EXCEPT ![r] = IF @ = "flushing" /\ putting[r] = {key} THEN "routed" ELSE @]
      BY <2>1 DEF Put
    <3>2. pc'[r] = IF pc[r] = "flushing" /\ putting[r] = {key} THEN "routed" ELSE pc[r]
      BY <2>0, <3>1, Zenon
    <3> QED BY <3>1, <3>2
  <2>2. CASE PutRefused(r, key)
    <3>1. pc' = [pc EXCEPT ![r] = IF @ = "flushing" THEN "routed" ELSE @]
      BY <2>2 DEF PutRefused
    <3>2. pc'[r] = IF pc[r] = "flushing" THEN "routed" ELSE pc[r]
      BY <2>0, <3>1, Zenon
    <3> QED BY <3>1, <3>2
  <2> QED BY <2>1, <2>2
<1>3. None \in Contents(key) \cup {None} /\ <<>> \in Seq(UpdatesOf(key))
  OBVIOUS
<1>4. documents' = [documents EXCEPT ![r][key] = [base |-> None, updates |-> <<>>]]
  BY <1>1 DEF NoDocument
<1>5. /\ documents' \in [Requests -> [metrics : [base : MetricDocuments \cup {None}, updates : Seq(Increments)],
                                   history : [base : Seq(Entries) \cup {None}, updates : Seq(Entries)]]]
      /\ documents'[r][key].base = None /\ documents'[r][key].updates = <<>>
      /\ \A q \in Requests, k \in Keys : <<q, k>> # <<r, key>> => documents'[q][k] = documents[q][k]
  BY <1>3, <1>4, DocumentReplaced
<1>6. stored' \in [metrics : MetricDocuments, history : Seq(Entries)]
  <2>1. CASE Put(r, key)
    <3>1. stored' = [stored EXCEPT ![key] = Applied(key, documents[r][key].base, documents[r][key].updates)]
      BY <2>1 DEF Put, Cached, Applied
    <3>2. documents[r][key].base \in Contents(key) /\ documents[r][key].updates \in Seq(UpdatesOf(key))
      BY <1>1, DocumentTypes DEF Control
    <3>3. Applied(key, documents[r][key].base, documents[r][key].updates) \in Contents(key)
      BY <3>2, AppliedType
    <3> QED BY <3>1, <3>3 DEF TypeOK, Contents, Keys
  <2>2. CASE PutRefused(r, key)
    BY <2>2 DEF PutRefused, TypeOK
  <2> QED BY <2>1, <2>2
<1>7. TypeOK'
  <2>1. putting' \in [Requests -> SUBSET Keys]
    BY <1>1 DEF TypeOK
  <2> QED BY <1>1, <1>5, <1>6, <2>1 DEF TypeOK
<1>8. documents'[r][key] = NoDocument
  BY <1>1 DEF TypeOK, Keys
<1>9. Control'
  <2>1. pc' = [q \in Requests |-> pc'[q]] /\ \A q \in Requests \ {r} : pc'[q] = pc[q]
    BY <1>2 DEF Control
  <2>2. pc[r] \notin {"new", "recording", "settling"} /\ pc'[r] \notin {"new", "recording", "settling"}
    BY <1>1, <1>2 DEF Control
  <2>3. /\ putting'[r] = putting[r] \ {key}
        /\ \A q \in Requests \ {r} : putting'[q] = putting[q]
    BY <1>1 DEF TypeOK
  <2>4. \A q \in Requests : \A k \in Keys :
           documents'[q][k].updates # <<>> => pc'[q] = "settling" \/ k \in putting'[q]
    <3> SUFFICES ASSUME NEW q \in Requests, NEW k \in Keys, documents'[q][k].updates # <<>>
                 PROVE  pc'[q] = "settling" \/ k \in putting'[q]
      OBVIOUS
    <3>1. <<q, k>> # <<r, key>> /\ documents'[q][k] = documents[q][k]
      BY <1>5
    <3>2. pc[q] = "settling" \/ k \in putting[q]
      BY <3>1 DEF Control
    <3>3. CASE q = r
      BY <2>2, <2>3, <3>1, <3>2, <3>3
    <3>4. CASE q # r
      BY <2>1, <2>3, <3>2, <3>4
    <3> QED BY <3>3, <3>4
  <2>5. \A q \in Requests : \A k \in putting'[q] : documents'[q][k].base # None
    <3> SUFFICES ASSUME NEW q \in Requests, NEW k \in putting'[q]
                 PROVE  documents'[q][k].base # None
      OBVIOUS
    <3>1. k \in putting[q] /\ k \in Keys /\ <<q, k>> # <<r, key>>
      BY <2>3 DEF TypeOK
    <3> QED BY <1>5, <3>1 DEF Control
  <2>6. \A q \in Requests : /\ isolate'[q] = isolate[q] /\ hand'[q] = hand[q]
    BY <1>1
  <2>7. \A q \in Requests : /\ pc'[q] # "new" => isolate'[q] \in Isolates
                            /\ pc'[q] \in {"writing", "cleared"} => hand'[q].base \in MetricDocuments
                            /\ pc'[q] \notin {"reading", "writing"} => hand'[q].pending = NoSeries
                            /\ pc'[q] \in {"clearing", "cleared"} => excused'
    BY <1>1, <1>2, <2>1, <2>6 DEF Control
  <2>8. \A q \in Requests : pc'[q] \in {"new", "recording", "settling"} => putting'[q] = {}
    BY <2>1, <2>2, <2>3 DEF Control
  <2> QED BY <2>1, <2>4, <2>5, <2>7, <2>8 DEF Control
<1>10. documents[r][key].base \in Contents(key) /\ documents[r][key].updates \in Seq(UpdatesOf(key))
  BY <1>1, DocumentTypes DEF Control
<1>11. \/ /\ stored'[key] = Applied(key, documents[r][key].base, documents[r][key].updates)
          /\ \A k \in Keys \ {key} : stored'[k] = stored[k]
          /\ excused' = (excused \/ documents[r][key].base # stored[key])
       \/ stored' = stored /\ excused'
  <2>1. CASE Put(r, key)
    <3>1. stored' = [stored EXCEPT ![key] = Applied(key, documents[r][key].base, documents[r][key].updates)]
      BY <2>1 DEF Put, Cached, Applied
    <3>2. DOMAIN stored = Keys
      BY DEF TypeOK, Keys
    <3>3. excused' = (excused \/ documents[r][key].base # stored[key])
      BY <2>1 DEF Put
    <3> QED BY <3>1, <3>2, <3>3
  <2>2. CASE PutRefused(r, key)
    BY <2>2 DEF PutRefused
  <2> QED BY <2>1, <2>2
<1> QED BY <1>5, <1>7, <1>8, <1>9, <1>10, <1>11

\* A request that goes to a step outside its platform, and no document changes.
LEMMA ControlStep ==
    ASSUME Typed, NEW r \in Requests, NEW step,
           pc' = [pc EXCEPT ![r] = step], pc[r] \notin {"new", "settling"},
           step \notin {"new", "recording", "settling"},
           UNCHANGED <<isolate, documents, putting>>, excused => excused',
           \A q \in Requests \ {r} : hand'[q] = hand[q],
           step \in {"writing", "cleared"} => hand'[r].base \in MetricDocuments,
           step \notin {"reading", "writing"} => hand'[r].pending = NoSeries,
           step \in {"clearing", "cleared"} => excused'
    PROVE  Control'
<1> USE DEF Typed, Control
<1>1. pc' = [q \in Requests |-> pc'[q]] /\ pc'[r] = step /\ \A q \in Requests \ {r} : pc'[q] = pc[q]
  OBVIOUS
<1>2. \A q \in Requests : /\ pc'[q] # "new" => isolate'[q] \in Isolates
                          /\ pc'[q] \in {"writing", "cleared"} => hand'[q].base \in MetricDocuments
                          /\ pc'[q] \notin {"reading", "writing"} => hand'[q].pending = NoSeries
                          /\ pc'[q] \in {"clearing", "cleared"} => excused'
  BY <1>1
<1>3. \A q \in Requests : pc'[q] \in {"new", "recording", "settling"} => putting'[q] = {}
  BY <1>1
<1>4. \A q \in Requests : \A key \in Keys :
           documents'[q][key].updates # <<>> => pc'[q] = "settling" \/ key \in putting'[q]
  BY <1>1
<1>5. \A q \in Requests : \A key \in putting'[q] : documents'[q][key].base # None
  OBVIOUS
<1> HIDE DEF Typed
<1> QED BY <1>1, <1>2, <1>3, <1>4, <1>5

\* What a read of the metrics answers is a metrics document.
LEMMA ReadsMetrics ==
    ASSUME Typed, NEW answer \in Reads("metrics")
    PROVE  answer \in MetricDocuments
<1>1. answer = stored.metrics \/ answer = Empty.metrics
  BY DEF Reads
<1> QED BY <1>1, EmptyFacts DEF Typed, TypeOK

\* What a request holds, replaced.
LEMMA HandReplaced ==
    ASSUME Typed, NEW r \in Requests, NEW b \in MetricDocuments \cup {None}, NEW p \in TrafficSeries,
           hand' = [hand EXCEPT ![r] = [base |-> b, pending |-> p]]
    PROVE  /\ hand' \in [Requests -> [base : MetricDocuments \cup {None}, pending : TrafficSeries]]
           /\ hand'[r].base = b /\ hand'[r].pending = p
           /\ \A q \in Requests \ {r} : hand'[q] = hand[q]
BY DEF Typed, TypeOK

\* Replacing the base leaves what is pending.
LEMMA HandBase ==
    ASSUME Typed, NEW r \in Requests, NEW b
    PROVE  [hand EXCEPT ![r].base = b] = [hand EXCEPT ![r] = [base |-> b, pending |-> hand[r].pending]]
<1>1. hand[r] \in [base : MetricDocuments \cup {None}, pending : TrafficSeries]
  BY DEF Typed, TypeOK
<1>2. [hand[r] EXCEPT !.base = b] = [base |-> b, pending |-> hand[r].pending]
  BY <1>1
<1>3. [hand EXCEPT ![r].base = b] = [hand EXCEPT ![r] = [hand[r] EXCEPT !.base = b]]
  OBVIOUS
<1> QED BY <1>2, <1>3

\* Clearing the traffic forgets the hours of one isolate.
LEMMA ClearMemoryTyped ==
    ASSUME Typed, NEW r \in Requests, ClearMemory(r)
    PROVE  /\ Typed'
           /\ \A i \in Isolates \ {isolate[r]} : memory'[i] = memory[i]
           /\ isolate[r] \in Isolates /\ memory'[isolate[r]].hours = NoSeries
<1> DEFINE i == isolate[r]
<1>1. i \in Isolates
  BY DEF ClearMemory, Typed, Control
<1>2. memory' = [memory EXCEPT ![i] = [memory[i] EXCEPT !.hours = NoSeries, !.requests = 0]]
  BY DEF ClearMemory
<1>3. memory[i] \in [hours : TrafficSeries, requests : Nat, lastFlushAt : Nat]
  BY <1>1 DEF Typed, TypeOK
<1>4. [memory[i] EXCEPT !.hours = NoSeries, !.requests = 0] \in [hours : TrafficSeries, requests : Nat, lastFlushAt : Nat]
  BY <1>3, NoSeriesFacts
<1> HIDE DEF i
<1>5. memory' \in [Isolates -> [hours : TrafficSeries, requests : Nat, lastFlushAt : Nat]]
  BY <1>1, <1>2, <1>4 DEF Typed, TypeOK
<1>6. memory'[i].hours = NoSeries /\ \A j \in Isolates \ {i} : memory'[j] = memory[j]
  BY <1>1, <1>2, <1>3 DEF Typed, TypeOK
<1>7. TypeOK'
  <2>1. excused' \in BOOLEAN
    BY DEF ClearMemory
  <2> QED BY <1>5, <2>1 DEF ClearMemory, GoTo, TypeOK, Typed
<1>8. Control'
  <2>1. /\ pc' = [pc EXCEPT ![r] = "clearing"] /\ pc[r] = "resetting"
        /\ UNCHANGED <<isolate, documents, putting, hand>> /\ excused'
    BY DEF ClearMemory, GoTo
  <2>2. hand'[r].pending = NoSeries
    BY <2>1 DEF Typed, Control
  <2> QED BY <2>1, <2>2, ControlStep
<1> QED BY <1>1, <1>6, <1>7, <1>8 DEF Typed, i

\* Clearing reads the document.
LEMMA ClearReadTyped ==
    ASSUME Typed, NEW r \in Requests, ClearRead(r)
    PROVE  Typed' /\ hand'[r].pending = hand[r].pending /\ \A q \in Requests \ {r} : hand'[q] = hand[q]
<1>1. PICK answer \in Reads("metrics") : hand' = [hand EXCEPT ![r].base = answer]
  BY DEF ClearRead
<1>2. answer \in MetricDocuments
  BY ReadsMetrics
<1>3. hand[r].pending = NoSeries /\ excused /\ hand[r].pending \in TrafficSeries
  BY DEF ClearRead, Typed, Control, TypeOK
<1>4. hand' = [hand EXCEPT ![r] = [base |-> answer, pending |-> hand[r].pending]]
  BY <1>1, HandBase
<1>5. /\ hand' \in [Requests -> [base : MetricDocuments \cup {None}, pending : TrafficSeries]]
      /\ hand'[r].base = answer /\ hand'[r].pending = hand[r].pending
      /\ \A q \in Requests \ {r} : hand'[q] = hand[q]
  BY <1>2, <1>3, <1>4, HandReplaced
<1>6. TypeOK'
  BY <1>5 DEF ClearRead, GoTo, historyVars, TypeOK, Typed
<1>7. Control'
  <2>1. /\ pc' = [pc EXCEPT ![r] = "cleared"] /\ pc[r] = "clearing"
        /\ UNCHANGED <<isolate, documents, putting, excused>>
    BY DEF ClearRead, GoTo, historyVars
  <2> QED BY <1>2, <1>3, <1>5, <2>1, ControlStep
<1> QED BY <1>5, <1>6, <1>7 DEF Typed

\* Clearing puts it without hours, or is refused.
LEMMA ClearPutTyped ==
    ASSUME Typed, NEW r \in Requests, ClearPut(r)
    PROVE  /\ Typed'
           /\ hand'[r].pending = NoSeries /\ \A q \in Requests \ {r} : hand'[q] = hand[q]
           /\ stored'.metrics.hours = NoSeries \/ stored' = stored
<1>1. hand' = [hand EXCEPT ![r] = [base |-> None, pending |-> NoSeries]]
  BY DEF ClearPut, NoHand
<1>2. /\ hand' \in [Requests -> [base : MetricDocuments \cup {None}, pending : TrafficSeries]]
      /\ hand'[r].pending = NoSeries
      /\ \A q \in Requests \ {r} : hand'[q] = hand[q]
  BY <1>1, NoSeriesFacts, HandReplaced
<1>3. hand[r].base \in MetricDocuments
  BY DEF ClearPut, Typed, Control
<1>4. stored' \in [metrics : MetricDocuments, history : Seq(Entries)] /\ (stored'.metrics.hours = NoSeries \/ stored' = stored)
  <2>1. CASE UNCHANGED stored
    BY <2>1 DEF Typed, TypeOK
  <2>2. CASE stored' = [stored EXCEPT !.metrics = [hand[r].base EXCEPT !.hours = NoSeries]]
    <3>1. [hand[r].base EXCEPT !.hours = NoSeries] \in MetricDocuments
      BY <1>3, NoSeriesFacts DEF MetricDocuments
    <3>2. [hand[r].base EXCEPT !.hours = NoSeries].hours = NoSeries
      BY <1>3 DEF MetricDocuments
    <3> QED BY <2>2, <3>1, <3>2 DEF Typed, TypeOK
  <2> QED BY <2>1, <2>2 DEF ClearPut
<1>5. TypeOK'
  BY <1>2, <1>4 DEF ClearPut, GoTo, historyVars, TypeOK, Typed
<1>6. Control'
  <2>1. /\ pc' = [pc EXCEPT ![r] = "routed"] /\ pc[r] = "cleared"
        /\ UNCHANGED <<isolate, documents, putting, excused>>
    BY DEF ClearPut, GoTo, historyVars
  <2> QED BY <1>2, <2>1, ControlStep
<1> QED BY <1>2, <1>4, <1>5, <1>6 DEF Typed

\* A flush of the traffic reads the document.
LEMMA FlushReadTyped ==
    ASSUME Typed, NEW r \in Requests, FlushRead(r)
    PROVE  /\ Typed'
           /\ hand'[r].pending = hand[r].pending /\ \A q \in Requests \ {r} : hand'[q] = hand[q]
           /\ hand'[r].base \in Reads("metrics")
<1>1. PICK answer \in Reads("metrics") : /\ hand' = [hand EXCEPT ![r].base = answer]
                                         /\ excused' = (excused \/ Refused("metrics", answer))
  BY DEF FlushRead
<1>2. answer \in MetricDocuments
  BY ReadsMetrics
<1>3. hand[r].pending \in TrafficSeries
  BY DEF Typed, TypeOK
<1>4. hand' = [hand EXCEPT ![r] = [base |-> answer, pending |-> hand[r].pending]]
  BY <1>1, HandBase
<1>5. /\ hand' \in [Requests -> [base : MetricDocuments \cup {None}, pending : TrafficSeries]]
      /\ hand'[r].base = answer /\ hand'[r].pending = hand[r].pending
      /\ \A q \in Requests \ {r} : hand'[q] = hand[q]
  BY <1>2, <1>3, <1>4, HandReplaced
<1>6. TypeOK'
  <2>1. excused' \in BOOLEAN
    BY <1>1 DEF Typed, TypeOK
  <2> QED BY <1>5, <2>1 DEF FlushRead, GoTo, TypeOK, Typed
<1>7. Control'
  <2>1. /\ pc' = [pc EXCEPT ![r] = "writing"] /\ pc[r] = "reading"
        /\ UNCHANGED <<isolate, documents, putting>> /\ (excused => excused')
    BY <1>1 DEF FlushRead, GoTo
  <2> QED BY <1>2, <1>3, <1>5, <2>1, ControlStep
<1> QED BY <1>1, <1>5, <1>6, <1>7 DEF Typed

\* A flush of the traffic puts it with what is pending, or is refused.
LEMMA FlushPutTyped ==
    ASSUME Typed, NEW r \in Requests, FlushPut(r)
    PROVE  /\ Typed'
           /\ hand'[r].pending = NoSeries /\ \A q \in Requests \ {r} : hand'[q] = hand[q]
           /\ hand[r].base \in MetricDocuments /\ hand[r].pending \in TrafficSeries
           /\ \/ /\ stored'.metrics.hours = MergeHours(hand[r].base.hours, hand[r].pending)
                 /\ stored'.metrics.days = hand[r].base.days
                 /\ stored'.history = stored.history
                 /\ excused' = (excused \/ hand[r].base # stored.metrics)
              \/ stored' = stored /\ excused'
<1>1. hand' = [hand EXCEPT ![r] = [base |-> None, pending |-> NoSeries]]
  BY DEF FlushPut, NoHand
<1>2. /\ hand' \in [Requests -> [base : MetricDocuments \cup {None}, pending : TrafficSeries]]
      /\ hand'[r].pending = NoSeries
      /\ \A q \in Requests \ {r} : hand'[q] = hand[q]
  BY <1>1, NoSeriesFacts, HandReplaced
<1>3. hand[r].base \in MetricDocuments /\ hand[r].pending \in TrafficSeries
  BY DEF FlushPut, Typed, Control, TypeOK
<1> DEFINE b == hand[r].base
           new == [b EXCEPT !.hours = MergeHours(@, hand[r].pending)]
<1>4. MergeHours(b.hours, hand[r].pending) \in TrafficSeries
  <2>1. b.hours \in TrafficSeries
    BY <1>3 DEF MetricDocuments
  <2>2. Merge(b.hours, hand[r].pending) \in TrafficSeries
    BY <1>3, <2>1, MergeFacts
  <2> QED BY <2>2, NewestFacts, RetentionAssumption DEF MergeHours
<1>5. /\ new \in MetricDocuments
      /\ new.hours = MergeHours(b.hours, hand[r].pending)
      /\ new.days = b.days
  BY <1>3, <1>4 DEF MetricDocuments
<1>6. \/ stored' = [stored EXCEPT !.metrics = new] /\ excused' = (excused \/ b # stored.metrics)
      \/ stored' = stored /\ excused' = TRUE
  BY DEF FlushPut
<1> HIDE DEF new
<1>7. stored' \in [metrics : MetricDocuments, history : Seq(Entries)]
  BY <1>5, <1>6 DEF Typed, TypeOK
<1>8. TypeOK'
  <2>1. excused' \in BOOLEAN
    BY <1>6 DEF Typed, TypeOK
  <2> QED BY <1>2, <1>7, <2>1 DEF FlushPut, GoTo, TypeOK, Typed
<1>9. Control'
  <2>1. /\ pc' = [pc EXCEPT ![r] = "done"] /\ pc[r] = "writing"
        /\ UNCHANGED <<isolate, documents, putting>> /\ (excused => excused')
    BY <1>6 DEF FlushPut, GoTo
  <2> QED BY <1>2, <2>1, ControlStep
<1>10. stored' = [stored EXCEPT !.metrics = new] =>
         stored'.metrics = new /\ stored'.history = stored.history
  BY DEF Typed, TypeOK
<1> QED BY <1>2, <1>3, <1>5, <1>6, <1>8, <1>9, <1>10 DEF Typed

Accumulators == [hours : TrafficSeries, requests : Nat, lastFlushAt : Nat]

OneRequest == Traffic(1, 0, Upload)

Measured(m) == [m EXCEPT !.hours = Count(@, clock, OneRequest), !.requests = @ + 1]

\* A request counts in natural numbers.
LEMMA OneRequestFacts == OneRequest \in [Fields -> Nat] /\ Upload \in Nat
BY MetricsAssumption, TrafficFacts DEF OneRequest

\* A request counted is one more in its hour and in the threshold.
LEMMA MeasuredFacts ==
    ASSUME Typed, NEW m \in Accumulators
    PROVE  /\ Measured(m) \in Accumulators
           /\ Measured(m).hours = Count(m.hours, clock, OneRequest)
           /\ Measured(m).requests = m.requests + 1
           /\ Measured(m).lastFlushAt = m.lastFlushAt
<1>1. Count(m.hours, clock, OneRequest) \in TrafficSeries
  <2>1. m.hours \in TrafficSeries /\ clock \in Nat
    BY DEF Accumulators, Typed, TypeOK
  <2> QED BY <2>1, OneRequestFacts, CountFacts
<1> DEFINE a == Count(m.hours, clock, OneRequest)
           n == m.requests + 1
<1>2. Measured(m) = [m EXCEPT !.hours = a, !.requests = n]
  BY DEF Measured
<1>3. a \in TrafficSeries /\ n \in Nat
  BY <1>1 DEF Accumulators
<1> HIDE DEF a, n
<1>4. /\ Measured(m) \in Accumulators
      /\ Measured(m).hours = a
      /\ Measured(m).requests = n
      /\ Measured(m).lastFlushAt = m.lastFlushAt
  BY <1>2, <1>3 DEF Accumulators
<1> QED BY <1>4 DEF a, n

\* What measureRequest does: it counts, and either takes the accumulator or leaves it.
LEMMA MeasureEffect ==
    ASSUME Typed, NEW r \in Requests, Measure(r)
    PROVE  /\ isolate[r] \in Isolates
           /\ hand[r].pending = NoSeries
           /\ served' = Count(served, clock, OneRequest)
           /\ memory[isolate[r]] \in Accumulators
           /\ LET i == isolate[r]
                  m == Measured(memory[i]) IN
              /\ \/ /\ Due(m)
                    /\ hand' = [hand EXCEPT ![r] = [base |-> hand[r].base, pending |-> m.hours]]
                    /\ memory' = [memory EXCEPT ![i] = Taken(m)]
                    /\ pc' = [pc EXCEPT ![r] = "reading"]
                 \/ /\ ~Due(m)
                    /\ hand' = hand
                    /\ memory' = [memory EXCEPT ![i] = m]
                    /\ pc' = [pc EXCEPT ![r] = "done"]
              /\ writes' = [writes EXCEPT ![i] =
                   [requests |-> writes[i].requests + 1,
                    flushes  |-> writes[i].flushes + (IF Due(m) THEN 1 ELSE 0),
                    since    |-> IF writes[i].since = 0 THEN clock ELSE writes[i].since]]
           /\ stream' \in [Requests -> {None} \cup [hour : Nat, bytes : Nat]]
           /\ pc[r] = "routed"
           /\ UNCHANGED <<stored, clock, isolate, documents, putting, published, entries, excused>>
<1>1. isolate[r] \in Isolates /\ hand[r].pending = NoSeries
  BY DEF Measure, Typed, Control
<1>2. memory[isolate[r]] \in Accumulators
  BY <1>1 DEF Typed, TypeOK, Accumulators
<1>3. ASSUME NEW p
      PROVE  [hand EXCEPT ![r].pending = p] = [hand EXCEPT ![r] = [base |-> hand[r].base, pending |-> p]]
  <2>1. hand[r] \in [base : MetricDocuments \cup {None}, pending : TrafficSeries]
    BY DEF Typed, TypeOK
  <2>2. [hand[r] EXCEPT !.pending = p] = [base |-> hand[r].base, pending |-> p]
    BY <2>1
  <2>3. [hand EXCEPT ![r].pending = p] = [hand EXCEPT ![r] = [hand[r] EXCEPT !.pending = p]]
    OBVIOUS
  <2> QED BY <2>2, <2>3
<1>4. stream' \in [Requests -> {None} \cup [hour : Nat, bytes : Nat]]
  <2>1. PICK bytes \in Bodies : stream' = [stream EXCEPT ![r] = IF bytes = 0 THEN None ELSE [hour |-> clock, bytes |-> bytes]]
    BY DEF Measure
  <2>2. bytes \in Nat /\ clock \in Nat
    BY MetricsAssumption DEF Typed, TypeOK
  <2> QED BY <2>1, <2>2 DEF Typed, TypeOK
<1>5. served' = Count(served, clock, OneRequest)
  BY DEF Measure, OneRequest
<1>6. pc[r] = "routed" /\ UNCHANGED <<stored, clock, isolate, documents, putting, published, entries, excused>>
  BY DEF Measure
<1>7. writes' = [writes EXCEPT ![isolate[r]] =
                   [requests |-> writes[isolate[r]].requests + 1,
                    flushes  |-> writes[isolate[r]].flushes + (IF Due(Measured(memory[isolate[r]])) THEN 1 ELSE 0),
                    since    |-> IF writes[isolate[r]].since = 0 THEN clock ELSE writes[isolate[r]].since]]
  BY DEF Measure, Measured, OneRequest
<1>8. IF Due(Measured(memory[isolate[r]]))
        THEN /\ hand' = [hand EXCEPT ![r].pending = Measured(memory[isolate[r]]).hours]
             /\ memory' = [memory EXCEPT ![isolate[r]] = Taken(Measured(memory[isolate[r]]))]
             /\ pc' = [pc EXCEPT ![r] = "reading"]
        ELSE /\ memory' = [memory EXCEPT ![isolate[r]] = Measured(memory[isolate[r]])]
             /\ pc' = [pc EXCEPT ![r] = "done"]
             /\ UNCHANGED hand
  BY DEF Measure, Measured, OneRequest, GoTo
<1> QED BY <1>1, <1>2, <1>3, <1>4, <1>5, <1>6, <1>7, <1>8

\* Measuring a request adds to its isolate, and takes what is to be flushed.
LEMMA MeasureTyped ==
    ASSUME Typed, NEW r \in Requests, Measure(r)
    PROVE  /\ Typed'
           /\ \A j \in Isolates \ {isolate[r]} : memory'[j] = memory[j]
           /\ \A q \in Requests \ {r} : hand'[q] = hand[q]
           /\ LET i == isolate[r]
                  m == Measured(memory[i]) IN
              \/ hand'[r].pending = m.hours /\ memory'[i] = Taken(m) /\ pc'[r] = "reading"
              \/ hand' = hand /\ memory'[i] = m
<1> DEFINE i == isolate[r]
           m == Measured(memory[i])
<1>1. /\ i \in Isolates /\ hand[r].pending = NoSeries
      /\ served' = Count(served, clock, OneRequest)
      /\ memory[i] \in Accumulators
      /\ \/ /\ hand' = [hand EXCEPT ![r] = [base |-> hand[r].base, pending |-> m.hours]]
            /\ memory' = [memory EXCEPT ![i] = Taken(m)]
            /\ pc' = [pc EXCEPT ![r] = "reading"]
         \/ /\ hand' = hand
            /\ memory' = [memory EXCEPT ![i] = m]
            /\ pc' = [pc EXCEPT ![r] = "done"]
      /\ \E n \in Nat : writes' = [writes EXCEPT ![i] =
           [requests |-> writes[i].requests + 1, flushes |-> writes[i].flushes + n,
            since |-> IF writes[i].since = 0 THEN clock ELSE writes[i].since]]
      /\ stream' \in [Requests -> {None} \cup [hour : Nat, bytes : Nat]]
      /\ pc[r] = "routed"
      /\ UNCHANGED <<stored, clock, isolate, documents, putting, published, entries, excused>>
  BY MeasureEffect
<1>2. m \in Accumulators
  BY <1>1, MeasuredFacts
<1>3. clock \in Nat
  BY DEF Typed, TypeOK
<1>4. Taken(m) \in Accumulators
  BY <1>3, NoSeriesFacts DEF Taken, Accumulators
<1>5. hand[r].base \in MetricDocuments \cup {None} /\ m.hours \in TrafficSeries
  BY <1>2 DEF Typed, TypeOK, Accumulators
<1> HIDE DEF m, i
<1>6. /\ memory' \in [Isolates -> Accumulators]
      /\ \A j \in Isolates \ {i} : memory'[j] = memory[j]
      /\ memory' = [memory EXCEPT ![i] = m] => memory'[i] = m
      /\ memory' = [memory EXCEPT ![i] = Taken(m)] => memory'[i] = Taken(m)
  <2>1. memory \in [Isolates -> Accumulators]
    BY DEF Typed, TypeOK, Accumulators
  <2>2. ASSUME NEW x \in Accumulators, memory' = [memory EXCEPT ![i] = x]
        PROVE  /\ memory' \in [Isolates -> Accumulators]
               /\ \A j \in Isolates \ {i} : memory'[j] = memory[j]
               /\ memory'[i] = x
    BY <1>1, <2>1, <2>2
  <2>3. \A x \in Accumulators : memory' = [memory EXCEPT ![i] = x] =>
          /\ memory' \in [Isolates -> Accumulators]
          /\ \A j \in Isolates \ {i} : memory'[j] = memory[j]
          /\ memory'[i] = x
    BY <2>2
  <2>4. memory' = [memory EXCEPT ![i] = m] \/ memory' = [memory EXCEPT ![i] = Taken(m)]
    BY <1>1
  <2> QED BY <1>2, <1>4, <2>3, <2>4
<1>7. /\ hand' \in [Requests -> [base : MetricDocuments \cup {None}, pending : TrafficSeries]]
      /\ \A q \in Requests \ {r} : hand'[q] = hand[q]
      /\ \/ hand' = hand
         \/ hand'[r].pending = m.hours /\ hand' = [hand EXCEPT ![r] = [base |-> hand[r].base, pending |-> m.hours]]
  <2>1. CASE hand' = hand
    BY <2>1 DEF Typed, TypeOK
  <2>2. CASE hand' = [hand EXCEPT ![r] = [base |-> hand[r].base, pending |-> m.hours]]
    BY <1>5, <2>2, HandReplaced
  <2> QED BY <1>1, <2>1, <2>2
<1>8. served' \in TrafficSeries
  BY <1>1, <1>3, OneRequestFacts, CountFacts DEF Typed, TypeOK
<1>9. writes' \in [Isolates -> [requests : Nat, flushes : Nat, since : Nat]]
  BY <1>1, <1>3 DEF Typed, TypeOK
<1>10. TypeOK'
  BY <1>1, <1>6, <1>7, <1>8, <1>9 DEF Typed, TypeOK, Accumulators
<1>11. Control'
  <2>1. CASE pc' = [pc EXCEPT ![r] = "reading"]
    BY <1>1, <1>7, <2>1, ControlStep
  <2>2. CASE hand' = hand /\ pc' = [pc EXCEPT ![r] = "done"]
    BY <1>1, <2>2, ControlStep
  <2> QED BY <1>1, <2>1, <2>2
<1>12. pc' = [pc EXCEPT ![r] = "reading"] => pc'[r] = "reading"
  BY DEF Typed, Control
<1>13. \/ hand'[r].pending = m.hours /\ memory'[i] = Taken(m) /\ pc'[r] = "reading"
       \/ hand' = hand /\ memory'[i] = m
  <2>1. hand' = [hand EXCEPT ![r] = [base |-> hand[r].base, pending |-> m.hours]] => hand'[r].pending = m.hours
    BY DEF Typed, TypeOK
  <2> QED BY <1>1, <1>6, <1>12, <2>1
<1> QED BY <1>6, <1>7, <1>10, <1>11, <1>13 DEF Typed, m, i

SentTraffic(r) == Traffic(0, stream[r].bytes, 0)

\* A stream that ends adds its bytes to the hour it is of.
LEMMA SentTyped ==
    ASSUME Typed, NEW r \in Requests, Sent(r)
    PROVE  /\ Typed'
           /\ isolate[r] \in Isolates
           /\ stream[r].hour \in Nat /\ SentTraffic(r) \in [Fields -> Nat]
           /\ memory[isolate[r]] \in Accumulators
           /\ memory'[isolate[r]] = [memory[isolate[r]] EXCEPT !.hours = Count(@, stream[r].hour, SentTraffic(r))]
           /\ \A j \in Isolates \ {isolate[r]} : memory'[j] = memory[j]
           /\ served' = Count(served, stream[r].hour, SentTraffic(r))
<1> DEFINE i == isolate[r]
           t == SentTraffic(r)
<1>1. i \in Isolates /\ pc[r] = "done"
  BY DEF Sent, Typed, Control
<1>2. stream[r] \in [hour : Nat, bytes : Nat]
  BY DEF Sent, Typed, TypeOK
<1>3. t \in [Fields -> Nat] /\ stream[r].hour \in Nat
  BY <1>2, TrafficFacts DEF SentTraffic
<1>4. /\ memory' = [memory EXCEPT ![i].hours = Count(@, stream[r].hour, t)]
      /\ served' = Count(served, stream[r].hour, t)
      /\ stream' = [stream EXCEPT ![r] = None]
      /\ UNCHANGED <<stored, clock, pc, isolate, documents, putting, hand, published, entries, excused, writes>>
  BY DEF Sent, SentTraffic
<1>5. memory[i] \in Accumulators
  BY <1>1 DEF Typed, TypeOK, Accumulators
<1> DEFINE a == Count(memory[i].hours, stream[r].hour, t)
<1>6. a \in TrafficSeries
  BY <1>3, <1>5, CountFacts DEF Accumulators
<1>7. memory' = [memory EXCEPT ![i] = [memory[i] EXCEPT !.hours = a]]
  BY <1>4
<1>8. [memory[i] EXCEPT !.hours = a] \in Accumulators
  <2> HIDE DEF a, i
  <2> QED BY <1>5, <1>6 DEF Accumulators
<1>9. served' \in TrafficSeries
  BY <1>3, <1>4, CountFacts DEF Typed, TypeOK
<1> HIDE DEF a, i, t
<1>10. /\ memory' \in [Isolates -> Accumulators]
       /\ memory'[i] = [memory[i] EXCEPT !.hours = a]
       /\ \A j \in Isolates \ {i} : memory'[j] = memory[j]
  BY <1>1, <1>7, <1>8 DEF Typed, TypeOK, Accumulators
<1>11. TypeOK'
  <2>1. stream' \in [Requests -> {None} \cup [hour : Nat, bytes : Nat]]
    BY <1>4 DEF Typed, TypeOK
  <2> QED BY <1>4, <1>9, <1>10, <2>1 DEF Typed, TypeOK, Accumulators
<1>12. Control'
  BY <1>4 DEF Typed, Control
<1> QED BY <1>1, <1>3, <1>4, <1>5, <1>10, <1>11, <1>12 DEF Typed, i, a, t

\* An isolate that is dropped has forgotten its hours.
LEMMA EvictTyped ==
    ASSUME Typed, NEW i \in Isolates, Evict(i)
    PROVE  /\ Typed'
           /\ memory'[i].hours = NoSeries /\ \A j \in Isolates \ {i} : memory'[j] = memory[j]
           /\ excused' = (excused \/ memory[i].hours # NoSeries)
<1>1. /\ memory' = [memory EXCEPT ![i] = NoMemory]
      /\ stream' = [r \in Requests |-> IF isolate[r] = i THEN None ELSE stream[r]]
      /\ writes' = [writes EXCEPT ![i] = NoWrites]
      /\ excused' = (excused \/ memory[i].hours # NoSeries)
      /\ UNCHANGED <<stored, clock, pc, isolate, documents, putting, hand, served, published, entries>>
  BY DEF Evict
<1>2. NoMemory \in Accumulators /\ NoMemory.hours = NoSeries
  BY NoSeriesFacts DEF NoMemory, Accumulators
<1>3. memory' \in [Isolates -> Accumulators] /\ memory'[i] = NoMemory /\ \A j \in Isolates \ {i} : memory'[j] = memory[j]
  BY <1>1, <1>2 DEF Typed, TypeOK, Accumulators
<1>4. writes' \in [Isolates -> [requests : Nat, flushes : Nat, since : Nat]]
  BY <1>1 DEF Typed, TypeOK, NoWrites
<1>5. stream' \in [Requests -> {None} \cup [hour : Nat, bytes : Nat]]
  BY <1>1 DEF Typed, TypeOK
<1>6. TypeOK'
  <2>1. excused' \in BOOLEAN
    BY <1>1 DEF Typed, TypeOK
  <2> QED BY <1>1, <1>3, <1>4, <1>5, <2>1 DEF Typed, TypeOK, Accumulators
<1>7. Control'
  <2>1. excused => excused'
    BY <1>1
  <2> QED BY <1>1, <2>1 DEF Typed, Control
<1> QED BY <1>1, <1>2, <1>3, <1>6, <1>7 DEF Typed

\* Time that passes keeps the types.
LEMMA TickTyped ==
    ASSUME Typed, Tick \/ UNCHANGED vars
    PROVE  Typed' /\ clock' >= clock
<1>1. UNCHANGED <<stored, memory, requestVars, historyVars>> /\ (clock' = clock + 1 \/ clock' = clock)
  BY DEF Tick, vars
<1>2. TypeOK'
  BY <1>1 DEF Typed, TypeOK, requestVars, historyVars
<1>3. Control'
  BY <1>1 DEF Typed, Control, requestVars, historyVars
<1> QED BY <1>1, <1>2, <1>3 DEF Typed, TypeOK

\* No step breaks the types or the control of a request.
LEMMA NextTyped ==
    ASSUME Typed, [Next]_vars
    PROVE  Typed'
<1>1. ASSUME NEW r \in Requests, Begin(r) PROVE Typed'
  BY <1>1, BeginTyped
<1>2. ASSUME NEW r \in Requests, Record(r) PROVE Typed'
  <2>1. CASE Publish(r)
    BY <2>1, PublishTyped
  <2>2. CASE Flush(r)
    BY <2>2, FlushTyped
  <2>3. ASSUME NEW key \in Keys, Load(r, key) PROVE Typed'
    BY <2>3, LoadTyped
  <2>4. ASSUME NEW key \in Keys, Put(r, key) \/ PutRefused(r, key) PROVE Typed'
    BY <2>4, PutTyped
  <2> QED BY <1>2, <2>1, <2>2, <2>3, <2>4 DEF Record
<1>3. ASSUME NEW r \in Requests, ClearMemory(r) PROVE Typed'
  BY <1>3, ClearMemoryTyped
<1>4. ASSUME NEW r \in Requests, ClearRead(r) PROVE Typed'
  BY <1>4, ClearReadTyped
<1>5. ASSUME NEW r \in Requests, ClearPut(r) PROVE Typed'
  BY <1>5, ClearPutTyped
<1>6. ASSUME NEW r \in Requests, Measure(r) PROVE Typed'
  BY <1>6, MeasureTyped
<1>7. ASSUME NEW r \in Requests, FlushRead(r) PROVE Typed'
  BY <1>7, FlushReadTyped
<1>8. ASSUME NEW r \in Requests, FlushPut(r) PROVE Typed'
  BY <1>8, FlushPutTyped
<1>9. ASSUME NEW r \in Requests, Sent(r) PROVE Typed'
  BY <1>9, SentTyped
<1>10. ASSUME NEW i \in Isolates, Evict(i) PROVE Typed'
  BY <1>10, EvictTyped
<1>11. CASE Tick \/ UNCHANGED vars
  BY <1>11, TickTyped
<1> QED BY <1>1, <1>2, <1>3, <1>4, <1>5, <1>6, <1>7, <1>8, <1>9, <1>10, <1>11 DEF Next

-----------------------------------------------------------------------------
(***************************************************************************)
(* What is held.                                                           *)
(***************************************************************************)
Total(mem, hands, h, f) == InMemory(mem, h, f) + UnderWay(hands, h, f)

\* What is held of an hour is a number, at least what each isolate holds.
LEMMA TotalFacts ==
    ASSUME Typed, NEW h, NEW f \in Fields
    PROVE  /\ Total(memory, hand, h, f) \in Nat
           /\ InMemory(memory, h, f) \in Nat /\ UnderWay(hand, h, f) \in Nat
           /\ At(served, h)[f] \in Nat /\ At(stored.metrics.hours, h)[f] \in Nat
           /\ \A i \in Isolates : /\ At(memory[i].hours, h)[f] \in Nat
                                  /\ At(memory[i].hours, h)[f] <= Total(memory, hand, h, f)
           /\ \A r \in Requests : At(hand[r].pending, h)[f] \in Nat
<1>1. \A i \in Isolates : memory[i].hours \in TrafficSeries
  BY DEF Typed, TypeOK
<1>2. \A r \in Requests : hand[r].pending \in TrafficSeries
  BY DEF Typed, TypeOK
<1>3. /\ InMemory(memory, h, f) \in Nat
      /\ \A i \in Isolates : At(memory[i].hours, h)[f] <= InMemory(memory, h, f)
  BY <1>1, InMemoryFacts
<1>4. UnderWay(hand, h, f) \in Nat
  BY <1>2, UnderWayFacts
<1>5. served \in TrafficSeries /\ stored.metrics.hours \in TrafficSeries
  BY DEF Typed, TypeOK, MetricDocuments
<1> QED BY <1>1, <1>2, <1>3, <1>4, <1>5, AtType DEF Total

\* The memory of one isolate and the hand of one request changed.
LEMMA TotalChange ==
    ASSUME Typed, Typed', NEW i \in Isolates, NEW r \in Requests,
           \A j \in Isolates \ {i} : memory'[j].hours = memory[j].hours,
           \A q \in Requests \ {r} : hand'[q].pending = hand[q].pending,
           NEW h, NEW f \in Fields
    PROVE  Total(memory', hand', h, f) = Total(memory, hand, h, f)
             + (At(memory'[i].hours, h)[f] - At(memory[i].hours, h)[f])
             + (At(hand'[r].pending, h)[f] - At(hand[r].pending, h)[f])
<1>1. \A j \in Isolates : memory[j].hours \in TrafficSeries /\ memory'[j].hours \in TrafficSeries
  BY DEF Typed, TypeOK
<1>2. \A q \in Requests : hand[q].pending \in TrafficSeries /\ hand'[q].pending \in TrafficSeries
  BY DEF Typed, TypeOK
<1> DEFINE new == memory'
           nhand == hand'
<1> HIDE DEF new, nhand
<1>3. InMemory(new, h, f) = InMemory(memory, h, f) + (At(new[i].hours, h)[f] - At(memory[i].hours, h)[f])
  BY <1>1, InMemoryChange DEF new
<1>4. UnderWay(nhand, h, f) = UnderWay(hand, h, f) + (At(nhand[r].pending, h)[f] - At(hand[r].pending, h)[f])
  BY <1>2, UnderWayChange DEF nhand
<1>5. /\ InMemory(memory, h, f) \in Nat /\ UnderWay(hand, h, f) \in Nat
      /\ At(memory[i].hours, h)[f] \in Nat /\ At(hand[r].pending, h)[f] \in Nat
  BY TotalFacts
<1>6. At(new[i].hours, h)[f] \in Nat /\ At(nhand[r].pending, h)[f] \in Nat
  BY <1>1, <1>2, AtType DEF new, nhand
<1>7. Total(new, nhand, h, f) = Total(memory, hand, h, f)
             + (At(new[i].hours, h)[f] - At(memory[i].hours, h)[f])
             + (At(nhand[r].pending, h)[f] - At(hand[r].pending, h)[f])
  BY <1>3, <1>4, <1>5, <1>6 DEF Total
<1> QED BY <1>7 DEF new, nhand

\* Nothing held changed.
LEMMA TotalSame ==
    ASSUME Typed, Typed',
           \A i \in Isolates : memory'[i].hours = memory[i].hours,
           \A r \in Requests : hand'[r].pending = hand[r].pending,
           NEW h, NEW f \in Fields
    PROVE  Total(memory', hand', h, f) = Total(memory, hand, h, f)
<1> DEFINE s == [i \in Isolates |-> At(memory[i].hours, h)[f]]
           t == [i \in Isolates |-> At(memory'[i].hours, h)[f]]
           u == [r \in Requests |-> At(hand[r].pending, h)[f]]
           v == [r \in Requests |-> At(hand'[r].pending, h)[f]]
<1>1. s = t /\ u = v
  OBVIOUS
<1>2. /\ InMemory(memory, h, f) = SumFunctionOnSet(s, Isolates)
      /\ InMemory(memory', h, f) = SumFunctionOnSet(t, Isolates)
      /\ UnderWay(hand, h, f) = SumFunctionOnSet(u, Requests)
      /\ UnderWay(hand', h, f) = SumFunctionOnSet(v, Requests)
  BY DEF InMemory, UnderWay
<1> QED BY <1>1, <1>2 DEF Total

\* The actions that neither count traffic nor move what is counted.
Quiet ==
    /\ \A i \in Isolates : memory'[i].hours = memory[i].hours
    /\ \A r \in Requests : hand'[r].pending = hand[r].pending
    /\ served' = served

\* Which those are.
LEMMA QuietSteps ==
    ASSUME Typed
    PROVE  /\ \A r \in Requests : Begin(r) \/ Record(r) \/ ClearRead(r) \/ ClearPut(r) \/ FlushRead(r) => Quiet
           /\ Tick \/ UNCHANGED vars => Quiet
<1>1. ASSUME NEW r \in Requests, Begin(r) PROVE Quiet
  BY <1>1 DEF Begin, Quiet, historyVars
<1>2. ASSUME NEW r \in Requests, Record(r) PROVE Quiet
  BY <1>2 DEF Record, Publish, Load, Flush, Put, PutRefused, Quiet, historyVars
<1>3. ASSUME NEW r \in Requests, ClearRead(r) PROVE Quiet
  BY <1>3, ClearReadTyped DEF ClearRead, Quiet, historyVars
<1>4. ASSUME NEW r \in Requests, ClearPut(r) PROVE Quiet
  <2>1. hand[r].pending = NoSeries
    BY <1>4 DEF ClearPut, Typed, Control
  <2>2. hand'[r].pending = NoSeries /\ \A q \in Requests \ {r} : hand'[q] = hand[q]
    BY <1>4, ClearPutTyped
  <2>3. memory' = memory /\ served' = served
    BY <1>4 DEF ClearPut, historyVars
  <2> QED BY <2>1, <2>2, <2>3 DEF Quiet
<1>5. ASSUME NEW r \in Requests, FlushRead(r) PROVE Quiet
  <2>1. hand'[r].pending = hand[r].pending /\ \A q \in Requests \ {r} : hand'[q] = hand[q]
    BY <1>5, FlushReadTyped
  <2>2. memory' = memory /\ served' = served
    BY <1>5 DEF FlushRead
  <2> QED BY <2>1, <2>2 DEF Quiet
<1>6. ASSUME Tick \/ UNCHANGED vars PROVE Quiet
  BY <1>6 DEF Tick, vars, requestVars, historyVars, Quiet
<1> QED BY <1>1, <1>2, <1>3, <1>4, <1>5, <1>6

\* What is counted is held as well.
LEMMA Counting ==
    ASSUME Typed, NEW r \in Requests, Measure(r) \/ Sent(r), NEW h, NEW f \in Fields
    PROVE  At(served', h)[f] + Total(memory, hand, h, f) = At(served, h)[f] + Total(memory', hand', h, f)
<1>0. Typed'
  BY MeasureTyped, SentTyped
<1>1. CASE Measure(r)
  <2> DEFINE i == isolate[r]
             m == Measured(memory[i])
  <2>1. /\ i \in Isolates /\ hand[r].pending = NoSeries
        /\ served' = Count(served, clock, OneRequest)
        /\ memory[i] \in Accumulators
    BY <1>1, MeasureEffect
  <2>2. /\ \A j \in Isolates \ {i} : memory'[j] = memory[j]
        /\ \A q \in Requests \ {r} : hand'[q] = hand[q]
        /\ \/ hand'[r].pending = m.hours /\ memory'[i] = Taken(m)
           \/ hand' = hand /\ memory'[i] = m
    BY <1>1, MeasureTyped
  <2>3. m.hours = Count(memory[i].hours, clock, OneRequest)
    BY <2>1, MeasuredFacts
  <2>4. Taken(m).hours = NoSeries
    BY DEF Taken
  <2> DEFINE n == IF h = clock THEN OneRequest[f] ELSE 0
  <2>5. n \in Nat
    BY OneRequestFacts
  <2>6. At(m.hours, h)[f] = At(memory[i].hours, h)[f] + n /\ At(served', h)[f] = At(served, h)[f] + n
    <3>1. memory[i].hours \in TrafficSeries /\ served \in TrafficSeries /\ clock \in Nat
      BY <2>1 DEF Typed, TypeOK, Accumulators
    <3>2. OneRequest \in [Fields -> Nat]
      BY OneRequestFacts
    <3>3. At(Count(memory[i].hours, clock, OneRequest), h)[f] = At(memory[i].hours, h)[f] + n
      BY <3>1, <3>2, CountAt
    <3>4. At(Count(served, clock, OneRequest), h)[f] = At(served, h)[f] + n
      BY <3>1, <3>2, CountAt
    <3> QED BY <2>1, <2>3, <3>3, <3>4
  <2> HIDE DEF i, m, n
  <2>7. Total(memory', hand', h, f) = Total(memory, hand, h, f)
             + (At(memory'[i].hours, h)[f] - At(memory[i].hours, h)[f])
             + (At(hand'[r].pending, h)[f] - At(hand[r].pending, h)[f])
    BY <1>0, <2>1, <2>2, TotalChange
  <2>8. At(NoSeries, h)[f] = 0
    BY NoSeriesFacts
  <2>9. /\ At(served, h)[f] \in Nat /\ Total(memory, hand, h, f) \in Nat
        /\ At(memory[i].hours, h)[f] \in Nat
    BY <2>1, TotalFacts
  <2>10. CASE hand'[r].pending = m.hours /\ memory'[i] = Taken(m)
    <3>1. At(memory'[i].hours, h)[f] = 0 /\ At(hand[r].pending, h)[f] = 0
          /\ At(hand'[r].pending, h)[f] = At(memory[i].hours, h)[f] + n
      BY <2>1, <2>4, <2>6, <2>8, <2>10
    <3> QED BY <2>5, <2>6, <2>7, <2>9, <3>1
  <2>11. CASE hand' = hand /\ memory'[i] = m
    <3>1. At(memory'[i].hours, h)[f] = At(memory[i].hours, h)[f] + n /\ At(hand[r].pending, h)[f] = 0
          /\ At(hand'[r].pending, h)[f] = 0
      BY <2>1, <2>6, <2>8, <2>11
    <3> QED BY <2>5, <2>6, <2>7, <2>9, <3>1
  <2> QED BY <2>2, <2>10, <2>11
<1>2. CASE Sent(r)
  <2> DEFINE i == isolate[r]
             t == SentTraffic(r)
  <2>1. /\ i \in Isolates /\ stream[r].hour \in Nat /\ t \in [Fields -> Nat]
        /\ memory[i] \in Accumulators
        /\ memory'[i] = [memory[i] EXCEPT !.hours = Count(@, stream[r].hour, t)]
        /\ \A j \in Isolates \ {i} : memory'[j] = memory[j]
        /\ served' = Count(served, stream[r].hour, t)
    BY <1>2, SentTyped
  <2>2. hand' = hand
    BY <1>2 DEF Sent
  <2>3. memory'[i].hours = Count(memory[i].hours, stream[r].hour, t)
    <3> DEFINE a == Count(memory[i].hours, stream[r].hour, t)
    <3>1. memory'[i] = [memory[i] EXCEPT !.hours = a]
      BY <2>1
    <3> HIDE DEF a, i
    <3>2. memory'[i].hours = a
      BY <2>1, <3>1 DEF Accumulators
    <3> QED BY <3>2 DEF a
  <2> DEFINE n == IF h = stream[r].hour THEN t[f] ELSE 0
  <2> HIDE DEF i, t
  <2>5. n \in Nat
    BY <2>1
  <2>6. At(memory'[i].hours, h)[f] = At(memory[i].hours, h)[f] + n /\ At(served', h)[f] = At(served, h)[f] + n
    <3>1. memory[i].hours \in TrafficSeries /\ served \in TrafficSeries
      BY <2>1 DEF Typed, TypeOK, Accumulators
    <3>3. At(Count(memory[i].hours, stream[r].hour, t), h)[f] = At(memory[i].hours, h)[f] + n
      BY <2>1, <3>1, CountAt
    <3>4. At(Count(served, stream[r].hour, t), h)[f] = At(served, h)[f] + n
      BY <2>1, <3>1, CountAt
    <3> QED BY <2>1, <2>3, <3>3, <3>4
  <2> HIDE DEF n
  <2>7. Total(memory', hand', h, f) = Total(memory, hand, h, f)
             + (At(memory'[i].hours, h)[f] - At(memory[i].hours, h)[f])
             + (At(hand'[r].pending, h)[f] - At(hand[r].pending, h)[f])
    <3>1. \A q \in Requests \ {r} : hand'[q].pending = hand[q].pending
      BY <2>2
    <3>2. \A j \in Isolates \ {i} : memory'[j].hours = memory[j].hours
      BY <2>1
    <3>3. i \in Isolates
      BY <2>1
    <3> HIDE <2>1
    <3> QED BY <1>0, <3>1, <3>2, <3>3, TotalChange
  <2>8. /\ At(served, h)[f] \in Nat /\ Total(memory, hand, h, f) \in Nat
        /\ At(memory[i].hours, h)[f] \in Nat /\ At(hand[r].pending, h)[f] \in Nat
    BY <2>1, TotalFacts
  <2> QED BY <2>2, <2>5, <2>6, <2>7, <2>8
<1> QED BY <1>1, <1>2

\* A flush that ends no longer carries what it carried.
LEMMA Landing ==
    ASSUME Typed, NEW r \in Requests, FlushPut(r), NEW h, NEW f \in Fields
    PROVE  /\ served' = served
           /\ At(hand[r].pending, h)[f] \in Nat
           /\ Total(memory', hand', h, f) + At(hand[r].pending, h)[f] = Total(memory, hand, h, f)
<1>1. Typed' /\ hand'[r].pending = NoSeries /\ \A q \in Requests \ {r} : hand'[q] = hand[q]
  BY FlushPutTyped
<1>2. memory' = memory /\ served' = served
  BY DEF FlushPut
<1>3. isolate[r] \in Isolates
  BY DEF FlushPut, Typed, Control
<1>4. At(NoSeries, h)[f] = 0
  BY NoSeriesFacts
<1>5. /\ Total(memory, hand, h, f) \in Nat /\ At(hand[r].pending, h)[f] \in Nat
      /\ At(memory[isolate[r]].hours, h)[f] \in Nat
  BY <1>3, TotalFacts
<1>6. Total(memory', hand', h, f) = Total(memory, hand, h, f)
             + (At(memory'[isolate[r]].hours, h)[f] - At(memory[isolate[r]].hours, h)[f])
             + (At(hand'[r].pending, h)[f] - At(hand[r].pending, h)[f])
  BY <1>1, <1>2, <1>3, TotalChange
<1> QED BY <1>1, <1>2, <1>4, <1>5, <1>6

\* The counts of an isolate that is dropped or cleared are lost.
LEMMA Losing ==
    ASSUME Typed, Typed', NEW i \in Isolates, memory'[i].hours = NoSeries,
           \A j \in Isolates \ {i} : memory'[j] = memory[j], hand' = hand,
           NEW h, NEW f \in Fields
    PROVE  Total(memory', hand', h, f) + At(memory[i].hours, h)[f] = Total(memory, hand, h, f)
<1>1. CASE Requests = {}
  <2>1. UnderWay(hand', h, f) = UnderWay(hand, h, f)
    BY DEF UnderWay
  <2>2. \A j \in Isolates : memory[j].hours \in TrafficSeries /\ memory'[j].hours \in TrafficSeries
    BY DEF Typed, TypeOK
  <2> DEFINE new == memory'
  <2> HIDE DEF new
  <2>3. InMemory(new, h, f) = InMemory(memory, h, f) + (At(new[i].hours, h)[f] - At(memory[i].hours, h)[f])
    BY <2>2, InMemoryChange DEF new
  <2>4. At(new[i].hours, h)[f] = 0
    BY NoSeriesFacts DEF new
  <2>5. InMemory(memory, h, f) \in Nat /\ UnderWay(hand, h, f) \in Nat /\ At(memory[i].hours, h)[f] \in Nat
    BY TotalFacts
  <2> QED BY <2>1, <2>3, <2>4, <2>5 DEF Total, new
<1>2. CASE Requests # {}
  <2>1. PICK r \in Requests : TRUE
    BY <1>2
  <2>2. Total(memory', hand', h, f) = Total(memory, hand, h, f)
             + (At(memory'[i].hours, h)[f] - At(memory[i].hours, h)[f])
             + (At(hand'[r].pending, h)[f] - At(hand[r].pending, h)[f])
    BY <2>1, TotalChange
  <2>3. At(memory'[i].hours, h)[f] = 0
    BY NoSeriesFacts
  <2>4. /\ Total(memory, hand, h, f) \in Nat /\ At(memory[i].hours, h)[f] \in Nat
        /\ At(hand[r].pending, h)[f] \in Nat
    BY TotalFacts
  <2> QED BY <2>2, <2>3, <2>4
<1> QED BY <1>1, <1>2


-----------------------------------------------------------------------------
(***************************************************************************)
(* No traffic is counted twice.                                            *)
(***************************************************************************)
\* A series that may be stored: with what is held it is no more than what was served.
Within(series, mem, hands, srv) ==
    \A h \in Nat : \A f \in Fields : At(series, h)[f] + Total(mem, hands, h, f) <= At(srv, h)[f]

\* The hours of rz:metrics as they are stored, and as those who will put them have read them.
Copies ==
    {stored.metrics.hours, NoSeries}
    \cup {hand[r].base.hours : r \in {q \in Requests : pc[q] = "writing"}}
    \cup {documents[r].metrics.base.hours : r \in {q \in Requests : documents[q].metrics.base # None}}

\* NothingCountedTwice for each of them, not only for the one that is stored: the first
\* part of the inductive invariant.
CountedOnce == \A s \in Copies : Within(s, memory, hand, served)

\* All of them are series.
LEMMA CopiesType ==
    ASSUME Typed
    PROVE  Copies \subseteq TrafficSeries
<1>1. stored.metrics.hours \in TrafficSeries /\ NoSeries \in TrafficSeries
  BY NoSeriesFacts DEF Typed, TypeOK, MetricDocuments
<1>2. \A r \in Requests : pc[r] = "writing" => hand[r].base.hours \in TrafficSeries
  BY DEF Typed, Control, MetricDocuments
<1>3. \A r \in Requests : documents[r].metrics.base # None => documents[r].metrics.base.hours \in TrafficSeries
  BY DEF Typed, TypeOK, MetricDocuments
<1> QED BY <1>1, <1>2, <1>3 DEF Copies

\* What KV answers is one of them.
LEMMA ReadsHours ==
    ASSUME Typed, NEW answer \in Reads("metrics")
    PROVE  answer.hours \in Copies
<1>1. answer = stored.metrics \/ answer = Empty.metrics
  BY DEF Reads
<1> QED BY <1>1, EmptyFacts DEF Copies

\* Room is never lost.
LEMMA RoomKept ==
    ASSUME Typed, [Next]_vars, NEW h, NEW f \in Fields
    PROVE  At(served, h)[f] + Total(memory', hand', h, f) <= At(served', h)[f] + Total(memory, hand, h, f)
<1>0. Typed'
  BY NextTyped
<1>1. /\ At(served, h)[f] \in Nat /\ Total(memory, hand, h, f) \in Nat
      /\ \A i \in Isolates : At(memory[i].hours, h)[f] \in Nat
  BY TotalFacts
<1>2. Total(memory', hand', h, f) \in Nat /\ At(served', h)[f] \in Nat
  <2>1. \A i \in Isolates : memory'[i].hours \in TrafficSeries
    BY <1>0 DEF Typed, TypeOK
  <2>2. \A r \in Requests : hand'[r].pending \in TrafficSeries
    BY <1>0 DEF Typed, TypeOK
  <2>3. InMemory(memory', h, f) \in Nat
    BY <2>1, InMemoryFacts
  <2>4. UnderWay(hand', h, f) \in Nat
    BY <2>2, UnderWayFacts
  <2>5. served' \in TrafficSeries
    BY <1>0 DEF Typed, TypeOK
  <2> QED BY <2>3, <2>4, <2>5, AtType DEF Total
<1>3. ASSUME Quiet PROVE At(served, h)[f] + Total(memory', hand', h, f) <= At(served', h)[f] + Total(memory, hand, h, f)
  BY <1>0, <1>1, <1>3, TotalSame DEF Quiet
<1>4. ASSUME NEW r \in Requests, Measure(r) \/ Sent(r)
      PROVE  At(served, h)[f] + Total(memory', hand', h, f) <= At(served', h)[f] + Total(memory, hand, h, f)
  BY <1>1, <1>2, <1>4, Counting
<1>5. ASSUME NEW r \in Requests, FlushPut(r)
      PROVE  At(served, h)[f] + Total(memory', hand', h, f) <= At(served', h)[f] + Total(memory, hand, h, f)
  BY <1>1, <1>2, <1>5, Landing
<1>6. ASSUME NEW r \in Requests, ClearMemory(r)
      PROVE  At(served, h)[f] + Total(memory', hand', h, f) <= At(served', h)[f] + Total(memory, hand, h, f)
  <2>1. hand' = hand /\ served' = served
    BY <1>6 DEF ClearMemory
  <2> QED BY <1>0, <1>1, <1>2, <1>6, <2>1, ClearMemoryTyped, Losing
<1>7. ASSUME NEW i \in Isolates, Evict(i)
      PROVE  At(served, h)[f] + Total(memory', hand', h, f) <= At(served', h)[f] + Total(memory, hand, h, f)
  <2>1. hand' = hand /\ served' = served
    BY <1>7 DEF Evict
  <2> QED BY <1>0, <1>1, <1>2, <1>7, <2>1, EvictTyped, Losing
<1>8. CASE Tick \/ UNCHANGED vars
  BY <1>3, <1>8, QuietSteps
<1>9. ASSUME NEW r \in Requests, Begin(r) \/ Record(r) \/ ClearRead(r) \/ ClearPut(r) \/ FlushRead(r)
      PROVE  Quiet
  BY <1>9, QuietSteps
<1> QED BY <1>3, <1>4, <1>5, <1>6, <1>7, <1>8, <1>9 DEF Next

\* So a series that may be stored may be stored after any step.
LEMMA WithinKept ==
    ASSUME Typed, [Next]_vars, NEW s \in TrafficSeries, Within(s, memory, hand, served)
    PROVE  Within(s, memory', hand', served')
<1> SUFFICES ASSUME NEW h \in Nat, NEW f \in Fields
             PROVE  At(s, h)[f] + Total(memory', hand', h, f) <= At(served', h)[f]
  BY DEF Within
<1>1. At(s, h)[f] + Total(memory, hand, h, f) <= At(served, h)[f]
  BY DEF Within
<1>2. At(served, h)[f] + Total(memory', hand', h, f) <= At(served', h)[f] + Total(memory, hand, h, f)
  BY RoomKept
<1>3. At(s, h)[f] \in Nat /\ At(served, h)[f] \in Nat /\ Total(memory, hand, h, f) \in Nat
  BY AtType, TotalFacts
<1>4. Typed'
  BY NextTyped
<1>5. Total(memory', hand', h, f) \in Nat /\ At(served', h)[f] \in Nat
  <2>1. \A i \in Isolates : memory'[i].hours \in TrafficSeries
    BY <1>4 DEF Typed, TypeOK
  <2>2. \A r \in Requests : hand'[r].pending \in TrafficSeries
    BY <1>4 DEF Typed, TypeOK
  <2>3. InMemory(memory', h, f) \in Nat
    BY <2>1, InMemoryFacts
  <2>4. UnderWay(hand', h, f) \in Nat
    BY <2>2, UnderWayFacts
  <2>5. served' \in TrafficSeries
    BY <1>4 DEF Typed, TypeOK
  <2> QED BY <2>3, <2>4, <2>5, AtType DEF Total
<1> QED BY <1>1, <1>2, <1>3, <1>5

\* Whoever reads the key takes what is stored, and whoever puts it stores what it has.
LEMMA CopiesStep ==
    ASSUME Typed, [Next]_vars, \A r \in Requests : ~FlushPut(r)
    PROVE  Copies' \subseteq Copies
<1> DEFINE Same == /\ stored'.metrics.hours \in Copies
                   /\ \A r \in Requests : pc'[r] = "writing" => pc[r] = "writing" /\ hand'[r].base = hand[r].base
                   /\ \A r \in Requests : documents'[r].metrics.base # None =>
                        documents'[r].metrics.base.hours \in Copies
<1>0. /\ stored.metrics.hours \in Copies /\ NoSeries \in Copies
      /\ \A r \in Requests : pc[r] = "writing" => hand[r].base.hours \in Copies
      /\ \A r \in Requests : documents[r].metrics.base # None => documents[r].metrics.base.hours \in Copies
  BY DEF Copies
<1>1. ASSUME /\ stored'.metrics.hours \in Copies
             /\ \A r \in Requests : pc'[r] = "writing" => hand'[r].base.hours \in Copies
             /\ \A r \in Requests : documents'[r].metrics.base # None => documents'[r].metrics.base.hours \in Copies
      PROVE  Copies' \subseteq Copies
  BY <1>0, <1>1 DEF Copies
<1> DEFINE pcs == pc = [r \in Requests |-> pc[r]]
<1>2. pcs
  BY DEF Typed, Control
<1>3. ASSUME NEW r \in Requests, Begin(r) PROVE Copies' \subseteq Copies
  <2>1. pc' = [pc EXCEPT ![r] = pc'[r]] /\ pc'[r] # "writing"
    <3>1. \E ask \in {"routed", "recording", "resetting"} : pc' = [pc EXCEPT ![r] = ask]
      BY <1>3, MetricsAssumption DEF Begin, GoTo
    <3> QED BY <1>2, <3>1
  <2>2. \A q \in Requests : pc'[q] = "writing" => pc[q] = "writing"
    BY <1>2, <2>1
  <2>3. UNCHANGED <<stored, hand, documents>>
    BY <1>3 DEF Begin
  <2> QED BY <1>0, <1>1, <2>2, <2>3
<1>4. ASSUME NEW r \in Requests, Record(r) PROVE Copies' \subseteq Copies
  <2>0. hand' = hand /\ \A q \in Requests : pc'[q] = "writing" => pc[q] = "writing"
    <3>1. hand' = hand
      BY <1>4 DEF Record, Publish, Load, Flush, Put, PutRefused
    <3>2. \A q \in Requests : pc'[q] = "writing" => pc[q] = "writing"
      <4>1. CASE Publish(r) \/ Flush(r)
        BY <1>2, <4>1 DEF Publish, Flush, GoTo
      <4>2. ASSUME NEW key \in Keys, Load(r, key)
            PROVE  \A q \in Requests : pc'[q] = "writing" => pc[q] = "writing"
        BY <4>2 DEF Load
      <4>3. ASSUME NEW key \in Keys, Put(r, key)
            PROVE  \A q \in Requests : pc'[q] = "writing" => pc[q] = "writing"
        <5>1. pc' = [pc EXCEPT ![r] = IF @ = "flushing" /\ putting[r] = {key} THEN "routed" ELSE @]
          BY <4>3 DEF Put
        <5>2. pc' = [pc EXCEPT ![r] = IF pc[r] = "flushing" /\ putting[r] = {key} THEN "routed" ELSE pc[r]]
          BY <5>1, Zenon
        <5> QED BY <1>2, <5>2
      <4>4. ASSUME NEW key \in Keys, PutRefused(r, key)
            PROVE  \A q \in Requests : pc'[q] = "writing" => pc[q] = "writing"
        <5>1. pc' = [pc EXCEPT ![r] = IF @ = "flushing" THEN "routed" ELSE @]
          BY <4>4 DEF PutRefused
        <5>2. pc' = [pc EXCEPT ![r] = IF pc[r] = "flushing" THEN "routed" ELSE pc[r]]
          BY <5>1, Zenon
        <5> QED BY <1>2, <5>2
      <4> QED BY <1>4, <4>1, <4>2, <4>3, <4>4 DEF Record
    <3> QED BY <3>1, <3>2
  <2>1. CASE Publish(r)
    <3>1. stored' = stored
      BY <2>1 DEF Publish
    <3>2. PICK script \in Scripts :
            documents' = [documents EXCEPT ![r] = [k \in Keys |-> [base |-> None, updates |-> Emitted(k, r, script)]]]
      BY <2>1 DEF Publish
    <3>3. documents'[r].metrics.base = None /\ \A q \in Requests \ {r} : documents'[q] = documents[q]
      BY <3>2 DEF Typed, TypeOK, Keys
    <3> QED BY <1>0, <1>1, <2>0, <3>1, <3>3
  <2>2. CASE Flush(r)
    <3>1. stored' = stored /\ documents' = documents
      BY <2>2 DEF Flush
    <3> QED BY <1>0, <1>1, <2>0, <3>1
  <2>3. ASSUME NEW key \in Keys, Load(r, key) PROVE Copies' \subseteq Copies
    <3>1. stored' = stored
      BY <2>3 DEF Load
    <3>2. /\ documents'[r][key].base \in Reads(key)
          /\ \A q \in Requests, k \in Keys : <<q, k>> # <<r, key>> => documents'[q][k] = documents[q][k]
      BY <2>3, LoadTyped
    <3>3. key = "metrics" => documents'[r].metrics.base.hours \in Copies
      BY <3>2, ReadsHours
    <3>4. \A q \in Requests : <<q, "metrics">> # <<r, key>> => documents'[q].metrics = documents[q].metrics
      BY <3>2 DEF Keys
    <3>5. ASSUME NEW q \in Requests, documents'[q].metrics.base # None
          PROVE  documents'[q].metrics.base.hours \in Copies
      BY <1>0, <3>3, <3>4, <3>5
    <3> QED BY <1>0, <1>1, <2>0, <3>1, <3>5
  <2>4. ASSUME NEW key \in Keys, Put(r, key) \/ PutRefused(r, key) PROVE Copies' \subseteq Copies
    <3>1. /\ \A q \in Requests, k \in Keys : <<q, k>> # <<r, key>> => documents'[q][k] = documents[q][k]
          /\ documents'[r][key] = NoDocument
          /\ documents[r][key].base \in Contents(key) /\ documents[r][key].updates \in Seq(UpdatesOf(key))
          /\ \/ /\ stored'[key] = Applied(key, documents[r][key].base, documents[r][key].updates)
                /\ \A k \in Keys \ {key} : stored'[k] = stored[k]
             \/ stored' = stored
      BY <2>4, PutTyped
    <3>2. \A q \in Requests : documents'[q].metrics = documents[q].metrics \/ documents'[q].metrics.base = None
      BY <3>1 DEF Keys, NoDocument
    <3>3. stored'.metrics.hours \in Copies
      <4>1. CASE key = "metrics" /\ stored'[key] = Applied(key, documents[r][key].base, documents[r][key].updates)
        <5>1. documents[r].metrics.base \in MetricDocuments /\ documents[r].metrics.updates \in Seq(Increments)
          BY <3>1, <4>1 DEF Contents, UpdatesOf
        <5>2. stored'.metrics.hours = documents[r].metrics.base.hours
          BY <4>1, <5>1, AppliedMetrics
        <5>3. documents[r].metrics.base # None
          <6>1. key \in putting[r]
            BY <2>4 DEF Put, PutRefused
          <6> QED BY <4>1, <6>1 DEF Typed, Control
        <5> QED BY <1>0, <5>2, <5>3
      <4>2. CASE key # "metrics" \/ stored' = stored
        <5>1. stored'.metrics = stored.metrics
          BY <3>1, <4>2 DEF Keys
        <5> QED BY <1>0, <5>1
      <4> QED BY <3>1, <4>1, <4>2
    <3> QED BY <1>0, <1>1, <2>0, <3>2, <3>3
  <2> QED BY <1>4, <2>1, <2>2, <2>3, <2>4 DEF Record
<1>5. ASSUME NEW r \in Requests, ClearMemory(r) PROVE Copies' \subseteq Copies
  <2>1. UNCHANGED <<stored, hand, documents>> /\ pc' = [pc EXCEPT ![r] = "clearing"]
    BY <1>5 DEF ClearMemory, GoTo
  <2>2. \A q \in Requests : pc'[q] = "writing" => pc[q] = "writing"
    BY <1>2, <2>1
  <2> QED BY <1>0, <1>1, <2>1, <2>2
<1>6. ASSUME NEW r \in Requests, ClearRead(r) PROVE Copies' \subseteq Copies
  <2>1. UNCHANGED <<stored, documents>> /\ pc' = [pc EXCEPT ![r] = "cleared"]
    BY <1>6 DEF ClearRead, GoTo
  <2>2. \A q \in Requests : pc'[q] = "writing" => pc[q] = "writing" /\ q # r
    BY <1>2, <2>1
  <2>3. \A q \in Requests \ {r} : hand'[q] = hand[q]
    BY <1>6, ClearReadTyped
  <2> QED BY <1>0, <1>1, <2>1, <2>2, <2>3
<1>7. ASSUME NEW r \in Requests, ClearPut(r) PROVE Copies' \subseteq Copies
  <2>1. UNCHANGED documents /\ pc' = [pc EXCEPT ![r] = "routed"]
    BY <1>7 DEF ClearPut, GoTo
  <2>2. \A q \in Requests : pc'[q] = "writing" => pc[q] = "writing" /\ q # r
    BY <1>2, <2>1
  <2>3. /\ \A q \in Requests \ {r} : hand'[q] = hand[q]
        /\ stored'.metrics.hours = NoSeries \/ stored' = stored
    BY <1>7, ClearPutTyped
  <2> QED BY <1>0, <1>1, <2>1, <2>2, <2>3
<1>8. ASSUME NEW r \in Requests, Measure(r) PROVE Copies' \subseteq Copies
  <2>1. /\ UNCHANGED <<stored, documents>>
        /\ pc' = [pc EXCEPT ![r] = "reading"] \/ pc' = [pc EXCEPT ![r] = "done"]
    BY <1>8, MeasureEffect
  <2>2. \A q \in Requests : pc'[q] = "writing" => pc[q] = "writing" /\ q # r
    BY <1>2, <2>1
  <2>3. \A q \in Requests \ {r} : hand'[q] = hand[q]
    BY <1>8, MeasureTyped
  <2> QED BY <1>0, <1>1, <2>1, <2>2, <2>3
<1>9. ASSUME NEW r \in Requests, FlushRead(r) PROVE Copies' \subseteq Copies
  <2>1. UNCHANGED <<stored, documents>> /\ pc' = [pc EXCEPT ![r] = "writing"]
    BY <1>9 DEF FlushRead, GoTo
  <2>2. \A q \in Requests : pc'[q] = "writing" => pc[q] = "writing" \/ q = r
    BY <1>2, <2>1
  <2>3. hand'[r].base \in Reads("metrics") /\ \A q \in Requests \ {r} : hand'[q] = hand[q]
    BY <1>9, FlushReadTyped
  <2>4. hand'[r].base.hours \in Copies
    BY <2>3, ReadsHours
  <2>5. \A q \in Requests : pc'[q] = "writing" => hand'[q].base.hours \in Copies
    BY <1>0, <2>2, <2>3, <2>4
  <2> QED BY <1>0, <1>1, <2>1, <2>5
<1>10. ASSUME NEW r \in Requests, Sent(r) PROVE Copies' \subseteq Copies
  BY <1>0, <1>1, <1>10 DEF Sent
<1>11. ASSUME NEW i \in Isolates, Evict(i) PROVE Copies' \subseteq Copies
  BY <1>0, <1>1, <1>11 DEF Evict
<1>12. CASE Tick \/ UNCHANGED vars
  BY <1>0, <1>1, <1>12 DEF Tick, vars, requestVars
<1> QED BY <1>3, <1>4, <1>5, <1>6, <1>7, <1>8, <1>9, <1>10, <1>11, <1>12 DEF Next

\* What a flush stores: no more than the series it read and what it added.
LEMMA MergedHours ==
    ASSUME NEW a \in TrafficSeries, NEW b \in TrafficSeries
    PROVE  /\ MergeHours(a, b) \in TrafficSeries
           /\ \A h : \A f \in Fields : At(MergeHours(a, b), h)[f] <= At(a, h)[f] + At(b, h)[f]
<1> DEFINE m == Merge(a, b)
<1>1. m \in TrafficSeries /\ \A h : \A f \in Fields : At(m, h)[f] = At(a, h)[f] + At(b, h)[f]
  BY MergeFacts
<1>2. KeptHours \in Nat
  BY RetentionAssumption
<1> HIDE DEF m
<1>3. Newest(m, KeptHours) \in TrafficSeries /\ \A h : \A f \in Fields : At(Newest(m, KeptHours), h)[f] <= At(m, h)[f]
  BY <1>1, <1>2, NewestFacts
<1>4. MergeHours(a, b) = Newest(m, KeptHours)
  BY DEF MergeHours, m
<1> QED BY <1>1, <1>3, <1>4

\* A flush that lands stores what it carried, and carries it no more.
LEMMA CountedOnceLands ==
    ASSUME Typed, CountedOnce, NEW r \in Requests, FlushPut(r), [Next]_vars
    PROVE  CountedOnce'
<1> DEFINE base == hand[r].base.hours
           pending == hand[r].pending
<1>1. /\ hand[r].base \in MetricDocuments /\ pending \in TrafficSeries
      /\ \A q \in Requests \ {r} : hand'[q] = hand[q]
      /\ stored'.metrics.hours = MergeHours(base, pending) \/ stored' = stored
  BY FlushPutTyped
<1>2. base \in TrafficSeries
  BY <1>1 DEF MetricDocuments
<1>3. Within(base, memory, hand, served)
  BY DEF FlushPut, CountedOnce, Copies
<1>4. Within(MergeHours(base, pending), memory', hand', served')
  <2> SUFFICES ASSUME NEW h \in Nat, NEW f \in Fields
               PROVE  At(MergeHours(base, pending), h)[f] + Total(memory', hand', h, f) <= At(served', h)[f]
    BY DEF Within
  <2>1. At(base, h)[f] + Total(memory, hand, h, f) <= At(served, h)[f]
    BY <1>3 DEF Within
  <2>2. /\ served' = served
        /\ At(pending, h)[f] \in Nat
        /\ Total(memory', hand', h, f) + At(pending, h)[f] = Total(memory, hand, h, f)
    BY Landing
  <2> DEFINE merged == MergeHours(base, pending)
             left == Total(memory', hand', h, f)
  <2>3. merged \in TrafficSeries /\ At(merged, h)[f] <= At(base, h)[f] + At(pending, h)[f]
    BY <1>1, <1>2, MergedHours
  <2>4. At(merged, h)[f] \in Nat /\ At(base, h)[f] \in Nat
    BY <1>2, <2>3, AtType
  <2>5. left \in Nat
    <3>1. Typed'
      BY NextTyped
    <3>2. \A i \in Isolates : memory'[i].hours \in TrafficSeries
      BY <3>1 DEF Typed, TypeOK
    <3>3. \A q \in Requests : hand'[q].pending \in TrafficSeries
      BY <3>1 DEF Typed, TypeOK
    <3> QED BY <3>2, <3>3, InMemoryFacts, UnderWayFacts DEF Total
  <2>6. At(served, h)[f] \in Nat /\ Total(memory, hand, h, f) \in Nat
    BY TotalFacts
  <2> HIDE DEF merged, left, base, pending
  <2>7. left + At(pending, h)[f] = Total(memory, hand, h, f)
    BY <2>2 DEF left, pending
  <2>8. At(merged, h)[f] + left <= At(served, h)[f]
    BY <2>1, <2>2, <2>3, <2>4, <2>5, <2>6, <2>7
  <2> QED BY <2>2, <2>8 DEF merged, left
<1>5. Copies' \subseteq Copies \cup {MergeHours(base, pending)}
  <2>1. pc' = [pc EXCEPT ![r] = "done"] /\ documents' = documents
    BY DEF FlushPut, GoTo
  <2>2. \A q \in Requests : pc'[q] = "writing" => pc[q] = "writing" /\ q # r
    BY <2>1 DEF Typed, Control
  <2>3. stored'.metrics.hours \in Copies \cup {MergeHours(base, pending)}
    BY <1>1 DEF Copies
  <2>4. \A q \in Requests : pc'[q] = "writing" => hand'[q].base.hours \in Copies
    BY <1>1, <2>2 DEF Copies
  <2>5. \A q \in Requests : documents'[q].metrics.base # None => documents'[q].metrics.base.hours \in Copies
    BY <2>1 DEF Copies
  <2>6. NoSeries \in Copies
    BY DEF Copies
  <2> HIDE DEF base, pending
  <2> QED BY <2>3, <2>4, <2>5, <2>6 DEF Copies
<1> HIDE DEF base, pending
<1>6. \A s \in Copies : Within(s, memory', hand', served')
  BY CopiesType, WithinKept DEF CountedOnce
<1> QED BY <1>4, <1>5, <1>6 DEF CountedOnce

\* No step counts anything twice.
LEMMA CountedOnceKept ==
    ASSUME Typed, CountedOnce, [Next]_vars
    PROVE  CountedOnce'
<1>1. CASE \E r \in Requests : FlushPut(r)
  BY <1>1, CountedOnceLands
<1>2. CASE \A r \in Requests : ~FlushPut(r)
  <2>1. Copies' \subseteq Copies
    BY <1>2, CopiesStep
  <2>2. \A s \in Copies : Within(s, memory', hand', served')
    BY CopiesType, WithinKept DEF CountedOnce
  <2> QED BY <2>1, <2>2 DEF CountedOnce
<1> QED BY <1>1, <1>2

\* At first nothing is counted.
LEMMA InitCounted == Init => CountedOnce
<1> SUFFICES ASSUME Init, NEW s \in Copies, NEW h \in Nat, NEW f \in Fields
             PROVE  At(s, h)[f] + Total(memory, hand, h, f) <= At(served, h)[f]
  BY DEF CountedOnce, Within
<1>1. s = NoSeries
  <2>1. stored.metrics.hours = NoSeries
    BY EmptyFacts DEF Init
  <2>2. \A r \in Requests : pc[r] # "writing" /\ documents[r].metrics.base = None
    BY DEF Init, NoDocument, Keys
  <2> QED BY <2>1, <2>2 DEF Copies
<1>2. \A k : At(NoSeries, k)[f] = 0
  BY NoSeriesFacts
<1>3. InMemory(memory, h, f) = 0
  <2> DEFINE s0 == [i \in Isolates |-> At(memory[i].hours, h)[f]]
  <2>1. \A i \in Isolates : s0[i] = 0
    BY <1>2 DEF Init, NoMemory
  <2>2. IsFiniteSet(Isolates)
    BY MetricsAssumption
  <2>3. InMemory(memory, h, f) = SumFunctionOnSet(s0, Isolates)
    BY DEF InMemory
  <2> HIDE DEF s0
  <2> QED BY <2>1, <2>2, <2>3, SumOfZeros
<1>4. UnderWay(hand, h, f) = 0
  <2> DEFINE s0 == [r \in Requests |-> At(hand[r].pending, h)[f]]
  <2>1. \A r \in Requests : s0[r] = 0
    BY <1>2 DEF Init, NoHand
  <2>2. IsFiniteSet(Requests)
    BY MetricsAssumption
  <2>3. UnderWay(hand, h, f) = SumFunctionOnSet(s0, Requests)
    BY DEF UnderWay
  <2> HIDE DEF s0
  <2> QED BY <2>1, <2>2, <2>3, SumOfZeros
<1> QED BY <1>1, <1>2, <1>3, <1>4 DEF Total, Init

\* What the panel shows, the sum of what is stored and of what one isolate holds, is bounded as well.
LEMMA CountedOnceIsEnough ==
    ASSUME Typed, CountedOnce
    PROVE  NothingCountedTwice
<1>1. ASSUME NEW h \in Hours, NEW f \in Fields
      PROVE  /\ At(stored.metrics.hours, h)[f] + Total(memory, hand, h, f) <= At(served, h)[f]
             /\ Held(h)[f] = Total(memory, hand, h, f)
  <2>1. h \in Nat
    BY <1>1 DEF Hours
  <2> QED BY <2>1 DEF CountedOnce, Copies, Within, Held, Total, InMemory, UnderWay, Fields
<1>2. ASSUME NEW h \in Hours
      PROVE  AtMost(Add(At(stored.metrics.hours, h), Held(h)), At(served, h))
  BY <1>1 DEF AtMost, Add, Fields
<1>3. ASSUME NEW h \in Hours, NEW i \in Isolates
      PROVE  AtMost(At(TrafficSnapshot(i), h), At(served, h))
  <2> DEFINE a == stored.metrics.hours
             b == memory[i].hours
  <2>1. a \in TrafficSeries /\ b \in TrafficSeries
    BY DEF Typed, TypeOK, MetricDocuments
  <2>2. \A f \in Fields : At(MergeHours(a, b), h)[f] <= At(a, h)[f] + At(b, h)[f]
    BY <2>1, MergedHours
  <2>3. At(MergeHours(a, b), h) \in [Fields -> Nat]
    BY <2>1, MergedHours, AtType
  <2>4. \A f \in Fields : At(a, h)[f] + Total(memory, hand, h, f) <= At(served, h)[f]
    BY <1>1
  <2>5. \A f \in Fields : /\ At(b, h)[f] <= Total(memory, hand, h, f)
                          /\ At(a, h)[f] \in Nat /\ At(b, h)[f] \in Nat
                          /\ Total(memory, hand, h, f) \in Nat /\ At(served, h)[f] \in Nat
    BY TotalFacts
  <2>6. TrafficSnapshot(i) = MergeHours(a, b)
    BY DEF TrafficSnapshot
  <2> HIDE DEF a, b
  <2>7. \A f \in Fields : At(MergeHours(a, b), h)[f] \in Nat
    BY <2>3
  <2>8. \A f \in Fields : At(MergeHours(a, b), h)[f] <= At(served, h)[f]
    BY <2>2, <2>4, <2>5, <2>7
  <2> QED BY <2>3, <2>6, <2>8 DEF AtMost
<1> QED BY <1>2, <1>3 DEF NothingCountedTwice


-----------------------------------------------------------------------------
(***************************************************************************)
(* The write budget.                                                       *)
(***************************************************************************)
\* The flushes but the first: a of them for the requests counted, b for the time passed.
Accounted(w, m) ==
    \E a, b \in Nat : /\ w.flushes <= 1 + a + b
                      /\ a * FlushRequests <= w.requests - m.requests
                      /\ b * FlushInterval <= m.lastFlushAt - w.since

InBudget(w, m, now) ==
    /\ m.requests <= w.requests
    /\ m.lastFlushAt <= now
    /\ w.since <= now
    /\ w.since = 0 <=> w.requests = 0
    /\ w.since = 0 => m.lastFlushAt = 0
    /\ m.lastFlushAt = 0 => w.flushes = 0
    /\ m.lastFlushAt # 0 => w.since <= m.lastFlushAt /\ Accounted(w, m)

\* The accounts of each isolate: the inductive form of WriteBudget.
BudgetInv == \A i \in Isolates : InBudget(writes[i], memory[i], clock)

Records == [requests : Nat, flushes : Nat, since : Nat]

\* What fits so often is at most the quotient.
LEMMA AtMostQuotient ==
    ASSUME NEW a \in Nat, NEW n \in Nat, NEW d \in Nat \ {0}, a * d <= n
    PROVE  a <= n \div d
<1> DEFINE q == n \div d
           r == n % d
<1>1. q \in Int /\ r \in 0..(d - 1) /\ n = d * q + r
  OBVIOUS
<1> HIDE DEF q, r
<1>2. CASE a > q
  <2>1. a - q - 1 \in Nat
    BY <1>1, <1>2
  <2>2. (a - q - 1) * d \in Nat
    BY <2>1
  <2>3. (a - q - 1) * d = a * d - d * q - d
    BY <1>1
  <2> QED BY <1>1, <2>2, <2>3
<1>3. CASE ~(a > q)
  BY <1>1, <1>3 DEF q
<1> QED BY <1>2, <1>3

\* A quotient of natural numbers is one.
LEMMA QuotientNatural ==
    ASSUME NEW n \in Nat, NEW d \in Nat \ {0}
    PROVE  n \div d \in Nat
BY AtMostQuotient

\* The budget follows from the accounts.
LEMMA BudgetIsEnough ==
    ASSUME Typed, BudgetInv
    PROVE  WriteBudget
<1> SUFFICES ASSUME NEW i \in Isolates
             PROVE  writes[i].flushes <= 1 + writes[i].requests \div FlushRequests + (clock - writes[i].since) \div FlushInterval
  BY DEF WriteBudget
<1> DEFINE w == writes[i]
           m == memory[i]
           x == w.requests \div FlushRequests
           y == (clock - w.since) \div FlushInterval
<1>1. w \in Records /\ m \in Accumulators /\ clock \in Nat
  BY DEF Typed, TypeOK, Records, Accumulators
<1>2. InBudget(w, m, clock)
  BY DEF BudgetInv
<1>3. w.requests \in Nat /\ w.flushes \in Nat /\ w.since \in Nat /\ clock - w.since \in Nat
      /\ m.requests \in Nat /\ m.lastFlushAt \in Nat
  BY <1>1, <1>2 DEF Records, Accumulators, InBudget
<1>4. FlushRequests \in Nat \ {0} /\ FlushInterval \in Nat \ {0}
  BY MetricsAssumption
<1>5. x \in Nat /\ y \in Nat
  BY <1>3, <1>4, QuotientNatural
<1>6. CASE m.lastFlushAt = 0
  <2>1. w.flushes = 0
    BY <1>2, <1>6 DEF InBudget
  <2> HIDE DEF x, y, w
  <2>2. w.flushes <= 1 + x + y
    BY <1>5, <2>1
  <2> QED BY <2>2 DEF x, y, w
<1>7. CASE m.lastFlushAt # 0
  <2>1. PICK a, b \in Nat : /\ w.flushes <= 1 + a + b
                            /\ a * FlushRequests <= w.requests - m.requests
                            /\ b * FlushInterval <= m.lastFlushAt - w.since
    BY <1>2, <1>7 DEF InBudget, Accounted
  <2>2. a * FlushRequests \in Nat /\ b * FlushInterval \in Nat
    BY <1>4
  <2>3. m.lastFlushAt <= clock
    BY <1>2 DEF InBudget
  <2>4. a * FlushRequests <= w.requests /\ b * FlushInterval <= clock - w.since
    <3> DEFINE p == a * FlushRequests
               q == b * FlushInterval
    <3> HIDE DEF p, q
    <3>1. p \in Nat /\ q \in Nat /\ p <= w.requests - m.requests /\ q <= m.lastFlushAt - w.since
      BY <2>1, <2>2 DEF p, q
    <3>2. p <= w.requests /\ q <= clock - w.since
      BY <1>1, <1>3, <2>3, <3>1
    <3> QED BY <3>2 DEF p, q
  <2>5. a <= x /\ b <= y
    BY <1>3, <1>4, <2>4, AtMostQuotient
  <2> HIDE DEF x, y, w
  <2>6. w.flushes <= 1 + x + y
    <3>1. w.flushes \in Nat
      BY <1>3
    <3>2. w.flushes <= 1 + a + b
      BY <2>1
    <3> QED BY <1>5, <2>5, <3>1, <3>2
  <2> QED BY <2>6 DEF x, y, w
<1> QED BY <1>6, <1>7

\* At first nothing was flushed.
LEMMA InitInBudget == Init => BudgetInv
<1> SUFFICES ASSUME Init, NEW i \in Isolates
             PROVE  InBudget(writes[i], memory[i], clock)
  BY DEF BudgetInv
<1>1. writes[i] = NoWrites /\ memory[i] = NoMemory /\ clock = 1
  BY DEF Init
<1> QED BY <1>1 DEF NoWrites, NoMemory, InBudget

\* One more request is counted, and flushed or not.
LEMMA OneMore ==
    ASSUME NEW w \in Records, NEW m \in Accumulators, NEW now \in Nat \ {0}, InBudget(w, m, now),
           NEW new \in Records, NEW n \in Accumulators,
           new.requests = w.requests + 1,
           new.since = IF w.since = 0 THEN now ELSE w.since,
           \/ /\ n.requests = 0 /\ n.lastFlushAt = now /\ new.flushes = w.flushes + 1
              /\ m.requests + 1 >= FlushRequests \/ m.lastFlushAt = 0 \/ now - m.lastFlushAt >= FlushInterval
           \/ n.requests = m.requests + 1 /\ n.lastFlushAt = m.lastFlushAt /\ new.flushes = w.flushes
    PROVE  InBudget(new, n, now)
<1>0. /\ w.requests \in Nat /\ w.flushes \in Nat /\ w.since \in Nat
      /\ m.requests \in Nat /\ m.lastFlushAt \in Nat
      /\ new.requests \in Nat /\ new.flushes \in Nat /\ new.since \in Nat
      /\ n.requests \in Nat /\ n.lastFlushAt \in Nat
  BY DEF Records, Accumulators
<1>1. /\ m.requests <= w.requests /\ m.lastFlushAt <= now /\ w.since <= now
      /\ w.since = 0 => m.lastFlushAt = 0
      /\ m.lastFlushAt = 0 => w.flushes = 0
      /\ m.lastFlushAt # 0 => w.since <= m.lastFlushAt /\ Accounted(w, m)
  BY DEF InBudget
<1>2. /\ n.requests <= new.requests /\ n.lastFlushAt <= now /\ new.since <= now
      /\ new.since # 0 /\ new.requests # 0
      /\ n.lastFlushAt = 0 => new.flushes = 0
      /\ n.lastFlushAt # 0 => new.since <= n.lastFlushAt
  BY <1>0, <1>1
<1>3. FlushRequests \in Nat \ {0} /\ FlushInterval \in Nat \ {0}
  BY MetricsAssumption
<1>4. ASSUME n.lastFlushAt # 0
      PROVE  Accounted(new, n)
  <2>1. CASE m.lastFlushAt = 0
    <3>1. new.flushes <= 1 + 0 + 0 /\ n.lastFlushAt = now /\ new.since <= now /\ n.requests <= new.requests
      BY <1>0, <1>1, <1>2, <1>4, <2>1
    <3>2. 0 * FlushRequests = 0 /\ 0 * FlushInterval = 0
      BY <1>3
    <3>3. 0 <= new.requests - n.requests /\ 0 <= n.lastFlushAt - new.since
      BY <1>0, <3>1
    <3> QED BY <3>1, <3>2, <3>3 DEF Accounted
  <2>2. CASE m.lastFlushAt # 0
    <3>1. PICK a, b \in Nat : /\ w.flushes <= 1 + a + b
                              /\ a * FlushRequests <= w.requests - m.requests
                              /\ b * FlushInterval <= m.lastFlushAt - w.since
      BY <1>1, <2>2 DEF Accounted
    <3>2. new.since = w.since
      BY <1>0, <1>1, <2>2
    <3> DEFINE p == a * FlushRequests
               q == b * FlushInterval
    <3>3. p \in Nat /\ q \in Nat /\ (a + 1) * FlushRequests = p + FlushRequests /\ (b + 1) * FlushInterval = q + FlushInterval
      BY <1>3
    <3>4. p <= w.requests - m.requests /\ q <= m.lastFlushAt - w.since
      BY <3>1
    <3> HIDE DEF p, q
    <3>5. CASE n.requests = m.requests + 1 /\ n.lastFlushAt = m.lastFlushAt /\ new.flushes = w.flushes
      <4>1. p <= new.requests - n.requests /\ q <= n.lastFlushAt - new.since /\ new.flushes <= 1 + a + b
        BY <1>0, <3>1, <3>2, <3>3, <3>4, <3>5
      <4> QED BY <4>1 DEF Accounted, p, q
    <3>6. CASE n.requests = 0 /\ n.lastFlushAt = now /\ new.flushes = w.flushes + 1 /\ m.requests + 1 >= FlushRequests
      <4>1. /\ p + FlushRequests <= new.requests - n.requests /\ q <= n.lastFlushAt - new.since
            /\ new.flushes <= 1 + (a + 1) + b
        BY <1>0, <1>1, <1>3, <3>1, <3>2, <3>3, <3>4, <3>6
      <4>2. (a + 1) * FlushRequests <= new.requests - n.requests
        BY <3>3, <4>1
      <4>3. a + 1 \in Nat /\ b * FlushInterval <= n.lastFlushAt - new.since
        BY <4>1 DEF q
      <4> QED BY <4>1, <4>2, <4>3 DEF Accounted
    <3>7. CASE n.requests = 0 /\ n.lastFlushAt = now /\ new.flushes = w.flushes + 1 /\ now - m.lastFlushAt >= FlushInterval
      <4>1. /\ p <= new.requests - n.requests /\ q + FlushInterval <= n.lastFlushAt - new.since
            /\ new.flushes <= 1 + a + (b + 1)
        BY <1>0, <1>1, <1>3, <3>1, <3>2, <3>3, <3>4, <3>7
      <4>2. (b + 1) * FlushInterval <= n.lastFlushAt - new.since
        BY <3>3, <4>1
      <4>3. b + 1 \in Nat /\ a * FlushRequests <= new.requests - n.requests
        BY <4>1 DEF p
      <4> QED BY <4>1, <4>2, <4>3 DEF Accounted
    <3> QED BY <2>2, <3>5, <3>6, <3>7
  <2> QED BY <2>1, <2>2
<1> QED BY <1>2, <1>4 DEF InBudget

\* Nothing counted, nothing flushed, and time may pass.
LEMMA NoMore ==
    ASSUME NEW w \in Records, NEW m \in Accumulators, NEW now \in Nat, InBudget(w, m, now),
           NEW n \in Accumulators, n.lastFlushAt = m.lastFlushAt, n.requests = m.requests \/ n.requests = 0,
           NEW later \in Nat, now <= later
    PROVE  InBudget(w, n, later)
<1>0. /\ w.requests \in Nat /\ w.flushes \in Nat /\ w.since \in Nat
      /\ m.requests \in Nat /\ m.lastFlushAt \in Nat /\ n.requests \in Nat /\ n.lastFlushAt \in Nat
  BY DEF Records, Accumulators
<1>1. n.requests <= m.requests
  BY <1>0
<1>2. ASSUME Accounted(w, m) PROVE Accounted(w, n)
  <2>1. PICK a, b \in Nat : /\ w.flushes <= 1 + a + b
                            /\ a * FlushRequests <= w.requests - m.requests
                            /\ b * FlushInterval <= m.lastFlushAt - w.since
    BY <1>2 DEF Accounted
  <2>2. a * FlushRequests \in Nat
    BY MetricsAssumption
  <2> DEFINE p == a * FlushRequests
  <2> HIDE DEF p
  <2>3. p <= w.requests - m.requests /\ p \in Nat
    BY <2>1, <2>2 DEF p
  <2>4. p <= w.requests - n.requests
    BY <1>0, <1>1, <2>3
  <2>5. a * FlushRequests <= w.requests - n.requests
    BY <2>4 DEF p
  <2> QED BY <2>1, <2>5 DEF Accounted
<1> QED BY <1>0, <1>1, <1>2 DEF InBudget

\* No step breaks the accounts of an isolate.
LEMMA BudgetKept ==
    ASSUME Typed, BudgetInv, [Next]_vars
    PROVE  BudgetInv'
<1>0. Typed'
  BY NextTyped
<1> SUFFICES ASSUME NEW i \in Isolates
             PROVE  InBudget(writes'[i], memory'[i], clock')
  BY DEF BudgetInv
<1>1. /\ writes[i] \in Records /\ memory[i] \in Accumulators /\ clock \in Nat \ {0}
      /\ writes'[i] \in Records /\ memory'[i] \in Accumulators /\ clock' \in Nat \ {0}
  BY <1>0 DEF Typed, TypeOK, Records, Accumulators
<1>2. InBudget(writes[i], memory[i], clock)
  BY DEF BudgetInv
<1>3. ASSUME /\ writes'[i] = writes[i]
             /\ memory'[i].lastFlushAt = memory[i].lastFlushAt
             /\ memory'[i].requests = memory[i].requests \/ memory'[i].requests = 0
             /\ clock' >= clock
      PROVE  InBudget(writes'[i], memory'[i], clock')
  BY <1>1, <1>2, <1>3, NoMore
<1>4. ASSUME NEW r \in Requests, Measure(r) PROVE InBudget(writes'[i], memory'[i], clock')
  <2> DEFINE j == isolate[r]
             m == Measured(memory[j])
  <2>1. /\ j \in Isolates /\ memory[j] \in Accumulators /\ clock' = clock
        /\ \/ Due(m) /\ memory' = [memory EXCEPT ![j] = Taken(m)]
           \/ ~Due(m) /\ memory' = [memory EXCEPT ![j] = m]
        /\ writes' = [writes EXCEPT ![j] =
             [requests |-> writes[j].requests + 1,
              flushes  |-> writes[j].flushes + (IF Due(m) THEN 1 ELSE 0),
              since    |-> IF writes[j].since = 0 THEN clock ELSE writes[j].since]]
    BY <1>4, MeasureEffect
  <2>2. m.requests = memory[j].requests + 1 /\ m.lastFlushAt = memory[j].lastFlushAt /\ m \in Accumulators
    BY <2>1, MeasuredFacts
  <2> HIDE DEF j, m
  <2>3. CASE i # j
    <3>1. writes'[i] = writes[i] /\ memory'[i] = memory[i]
      BY <2>1, <2>3 DEF Typed, TypeOK
    <3> QED BY <1>1, <1>3, <2>1, <3>1
  <2>4. CASE i = j
    <3>1. /\ writes'[i].requests = writes[i].requests + 1
          /\ writes'[i].flushes = writes[i].flushes + (IF Due(m) THEN 1 ELSE 0)
          /\ writes'[i].since = IF writes[i].since = 0 THEN clock ELSE writes[i].since
      BY <2>1, <2>4 DEF Typed, TypeOK
    <3>2. \/ /\ memory'[i].requests = 0 /\ memory'[i].lastFlushAt = clock /\ writes'[i].flushes = writes[i].flushes + 1
             /\ memory[i].requests + 1 >= FlushRequests \/ memory[i].lastFlushAt = 0 \/ clock - memory[i].lastFlushAt >= FlushInterval
          \/ /\ memory'[i].requests = memory[i].requests + 1 /\ memory'[i].lastFlushAt = memory[i].lastFlushAt
             /\ writes'[i].flushes = writes[i].flushes
      <4>1. CASE Due(m) /\ memory' = [memory EXCEPT ![j] = Taken(m)]
        <5>1. memory'[i] = Taken(m)
          BY <2>4, <4>1 DEF Typed, TypeOK
        <5>2. memory'[i].requests = 0 /\ memory'[i].lastFlushAt = clock
          BY <5>1 DEF Taken
        <5> QED BY <2>2, <2>4, <3>1, <4>1, <5>2 DEF Due
      <4>2. CASE ~Due(m) /\ memory' = [memory EXCEPT ![j] = m]
        <5>1. memory'[i] = m
          BY <2>4, <4>2 DEF Typed, TypeOK
        <5>2. writes'[i].flushes = writes[i].flushes
          BY <1>1, <3>1, <4>2 DEF Records
        <5> QED BY <2>2, <2>4, <5>1, <5>2
      <4> QED BY <2>1, <4>1, <4>2
    <3>3. InBudget(writes'[i], memory'[i], clock)
      BY <1>1, <1>2, <3>1, <3>2, OneMore
    <3> QED BY <2>1, <3>3
  <2> QED BY <2>3, <2>4
<1>5. ASSUME NEW r \in Requests, ClearMemory(r) PROVE InBudget(writes'[i], memory'[i], clock')
  <2>1. /\ memory' = [memory EXCEPT ![isolate[r]] = [memory[isolate[r]] EXCEPT !.hours = NoSeries, !.requests = 0]]
        /\ UNCHANGED <<clock, writes>>
    BY <1>5 DEF ClearMemory
  <2>2. isolate[r] \in Isolates
    BY <1>5, ClearMemoryTyped
  <2>3. \/ memory'[i] = memory[i]
        \/ memory'[i].requests = 0 /\ memory'[i].lastFlushAt = memory[i].lastFlushAt
    <3>1. CASE i = isolate[r]
      <4>1. memory'[i] = [memory[i] EXCEPT !.hours = NoSeries, !.requests = 0]
        BY <2>1, <3>1 DEF Typed, TypeOK
      <4> QED BY <1>1, <4>1 DEF Accumulators
    <3>2. CASE i # isolate[r]
      BY <2>1, <3>2 DEF Typed, TypeOK
    <3> QED BY <3>1, <3>2
  <2> QED BY <1>1, <1>3, <2>1, <2>3
<1>6. ASSUME NEW r \in Requests, Sent(r) PROVE InBudget(writes'[i], memory'[i], clock')
  <2>1. UNCHANGED <<clock, writes>>
    BY <1>6 DEF Sent
  <2> DEFINE j == isolate[r]
             a == Count(memory[j].hours, stream[r].hour, SentTraffic(r))
  <2>2. /\ j \in Isolates /\ memory[j] \in Accumulators
        /\ memory'[j] = [memory[j] EXCEPT !.hours = a]
        /\ \A k \in Isolates \ {j} : memory'[k] = memory[k]
    BY <1>6, SentTyped
  <2> HIDE DEF j, a
  <2>3. memory'[i].requests = memory[i].requests /\ memory'[i].lastFlushAt = memory[i].lastFlushAt
    BY <2>2 DEF Accumulators
  <2> QED BY <1>1, <1>3, <2>1, <2>3
<1>7. ASSUME NEW j \in Isolates, Evict(j) PROVE InBudget(writes'[i], memory'[i], clock')
  <2>1. /\ memory' = [memory EXCEPT ![j] = NoMemory] /\ writes' = [writes EXCEPT ![j] = NoWrites] /\ clock' = clock
    BY <1>7 DEF Evict
  <2>2. CASE i = j
    <3>1. memory'[i] = NoMemory /\ writes'[i] = NoWrites
      BY <2>1, <2>2 DEF Typed, TypeOK
    <3> QED BY <1>1, <2>1, <3>1 DEF NoMemory, NoWrites, InBudget
  <2>3. CASE i # j
    <3>1. memory'[i] = memory[i] /\ writes'[i] = writes[i]
      BY <2>1, <2>3 DEF Typed, TypeOK
    <3> QED BY <1>1, <1>3, <2>1, <3>1
  <2> QED BY <2>2, <2>3
<1>8. CASE Tick \/ UNCHANGED vars
  <2>1. UNCHANGED <<memory, writes>>
    BY <1>8 DEF Tick, vars, historyVars
  <2> QED BY <1>3, <1>8, <2>1, TickTyped
<1>9. ASSUME NEW r \in Requests, Begin(r) \/ Record(r) \/ ClearRead(r) \/ ClearPut(r) \/ FlushRead(r) \/ FlushPut(r)
      PROVE  InBudget(writes'[i], memory'[i], clock')
  <2>1. UNCHANGED <<clock, memory, writes>>
    BY <1>9 DEF Begin, Record, Publish, Load, Flush, Put, PutRefused, ClearRead, ClearPut, FlushRead, FlushPut, historyVars
  <2> QED BY <1>1, <1>3, <2>1
<1> QED BY <1>4, <1>5, <1>6, <1>7, <1>8, <1>9 DEF Next


-----------------------------------------------------------------------------
(***************************************************************************)
(* What is counted is exact while nothing excuses a loss.                  *)
(***************************************************************************)
\* Each hour still retained is stored, or held elsewhere, exactly as it was served.
HoursExact(hours, mem, hands, srv) ==
    \A h \in Nat :
      IF Outdated(hours, h, KeptHours)
        THEN h \notin DOMAIN hours
        ELSE \A f \in Fields : At(hours, h)[f] + Total(mem, hands, h, f) = At(srv, h)[f]

DaysExact(days, docs, pub) ==
    \A d \in Nat : \A m :
      ~Outdated(days, d, KeptDays) => TallyAt(days, d, m) + ToTally(docs, d, m) = TallyAt(pub, d, m)

LogExact(log, docs, made) ==
    /\ ToLog(docs) <= made
    /\ Len(log) = Smaller(KeptEntries, made - ToLog(docs))

\* The second part of the inductive invariant of CountsAreHonest.
Exact ==
    ~excused => /\ HoursExact(stored.metrics.hours, memory, hand, served)
                /\ DaysExact(stored.metrics.days, documents, published)
                /\ LogExact(stored.history, documents, entries)

\* An excuse stays.
LEMMA ExcusedStays ==
    ASSUME Typed, [Next]_vars, excused
    PROVE  excused'
<1>1. ASSUME NEW r \in Requests, Begin(r) PROVE excused'
  BY <1>1 DEF Begin, historyVars
<1>2. ASSUME NEW r \in Requests, Record(r) PROVE excused'
  BY <1>2 DEF Record, Publish, Load, Flush, Put, PutRefused, historyVars
<1>3. ASSUME NEW r \in Requests, ClearMemory(r) \/ ClearRead(r) \/ ClearPut(r) PROVE excused'
  BY <1>3 DEF ClearMemory, ClearRead, ClearPut, historyVars
<1>4. ASSUME NEW r \in Requests, Measure(r) \/ FlushRead(r) \/ FlushPut(r) \/ Sent(r) PROVE excused'
  BY <1>4 DEF Measure, FlushRead, FlushPut, Sent
<1>5. ASSUME NEW i \in Isolates, Evict(i) PROVE excused'
  BY <1>5 DEF Evict
<1>6. CASE Tick \/ UNCHANGED vars
  BY <1>6 DEF Tick, vars, historyVars
<1> QED BY <1>1, <1>2, <1>3, <1>4, <1>5, <1>6 DEF Next


\* The hours: a step that is not the end of a flush keeps the balance.
LEMMA BalanceKept ==
    ASSUME Typed, [Next]_vars, ~excused', \A r \in Requests : ~FlushPut(r)
    PROVE  /\ stored'.metrics.hours = stored.metrics.hours
           /\ \A h \in Nat : \A f \in Fields :
                At(served', h)[f] + Total(memory, hand, h, f) = At(served, h)[f] + Total(memory', hand', h, f)
<1>0. Typed' /\ ~excused
  BY NextTyped, ExcusedStays
<1> DEFINE Balanced == \A h \in Nat : \A f \in Fields :
                At(served', h)[f] + Total(memory, hand, h, f) = At(served, h)[f] + Total(memory', hand', h, f)
           Kept == stored'.metrics.hours = stored.metrics.hours
<1>1. ASSUME Quiet PROVE Balanced
  <2> SUFFICES ASSUME NEW h \in Nat, NEW f \in Fields
               PROVE  At(served', h)[f] + Total(memory, hand, h, f) = At(served, h)[f] + Total(memory', hand', h, f)
    OBVIOUS
  <2>1. Total(memory', hand', h, f) = Total(memory, hand, h, f)
    BY <1>0, <1>1, TotalSame DEF Quiet
  <2> QED BY <1>1, <2>1 DEF Quiet
<1>2. ASSUME NEW r \in Requests, Begin(r) \/ Record(r) \/ ClearRead(r) \/ ClearPut(r) \/ FlushRead(r)
      PROVE  Balanced
  BY <1>1, <1>2, QuietSteps
<1>3. ASSUME NEW r \in Requests, Begin(r) \/ ClearRead(r) \/ FlushRead(r) \/ Measure(r) \/ Sent(r)
      PROVE  Kept
  BY <1>3 DEF Begin, ClearRead, FlushRead, Measure, Sent
<1>4. ASSUME NEW r \in Requests, Record(r) PROVE Kept
  <2>1. CASE Publish(r) \/ Flush(r)
    BY <2>1 DEF Publish, Flush
  <2>2. ASSUME NEW key \in Keys, Load(r, key) PROVE Kept
    BY <2>2 DEF Load
  <2>3. ASSUME NEW key \in Keys, Put(r, key) \/ PutRefused(r, key) PROVE Kept
    <3>1. /\ documents[r][key].base \in Contents(key) /\ documents[r][key].updates \in Seq(UpdatesOf(key))
          /\ stored'[key] = Applied(key, documents[r][key].base, documents[r][key].updates)
          /\ \A k \in Keys \ {key} : stored'[k] = stored[k]
          /\ documents[r][key].base = stored[key]
      BY <2>3, PutTyped
    <3>2. CASE key = "metrics"
      <4>1. documents[r].metrics.base \in MetricDocuments /\ documents[r].metrics.updates \in Seq(Increments)
        BY <3>1, <3>2 DEF Contents, UpdatesOf
      <4>2. stored'.metrics.hours = documents[r].metrics.base.hours
        BY <3>1, <3>2, <4>1, AppliedMetrics
      <4> QED BY <3>1, <3>2, <4>2
    <3>3. CASE key # "metrics"
      BY <3>1, <3>3 DEF Keys
    <3> QED BY <3>2, <3>3
  <2> QED BY <1>4, <2>1, <2>2, <2>3 DEF Record
<1>5. ASSUME NEW r \in Requests, ClearPut(r) PROVE Kept
  <2>1. excused
    BY <1>5 DEF ClearPut, Typed, Control
  <2> QED BY <1>0, <2>1
<1>6. ASSUME NEW r \in Requests, ClearMemory(r) PROVE Kept
  BY <1>6 DEF ClearMemory
<1>7. ASSUME NEW r \in Requests, ClearMemory(r) PROVE Balanced
  BY <1>7 DEF ClearMemory
<1>8. ASSUME NEW r \in Requests, Measure(r) \/ Sent(r) PROVE Balanced
  BY <1>8, Counting
<1>9. ASSUME NEW i \in Isolates, Evict(i) PROVE Kept /\ Balanced
  <2>1. /\ memory'[i].hours = NoSeries /\ \A j \in Isolates \ {i} : memory'[j] = memory[j]
        /\ memory[i].hours = NoSeries
    BY <1>9, EvictTyped
  <2>2. stored' = stored /\ served' = served /\ hand' = hand
    BY <1>9 DEF Evict
  <2>3. \A j \in Isolates : memory'[j].hours = memory[j].hours
    BY <2>1
  <2>4. Quiet
    BY <2>2, <2>3 DEF Quiet
  <2> QED BY <1>1, <2>2, <2>4
<1>10. ASSUME Tick \/ UNCHANGED vars PROVE Kept /\ Balanced
  <2>1. Kept
    BY <1>10 DEF Tick, vars
  <2>2. Balanced
    BY <1>1, <1>10, QuietSteps
  <2> QED BY <2>1, <2>2
<1> HIDE DEF Balanced, Kept
<1>11. ASSUME NEW r \in Requests,
              \/ Begin(r) \/ Record(r) \/ ClearMemory(r) \/ ClearRead(r) \/ ClearPut(r)
              \/ Measure(r) \/ FlushRead(r) \/ Sent(r)
       PROVE  Kept /\ Balanced
  BY <1>2, <1>3, <1>4, <1>5, <1>6, <1>7, <1>8, <1>11
<1>12. Kept /\ Balanced
  BY <1>1, <1>9, <1>10, <1>11 DEF Next
<1> QED BY <1>12 DEF Kept, Balanced

\* An hour outdated in a series is outdated in a longer one.
LEMMA LaterOfMore ==
    ASSUME NEW s, NEW t, IsFiniteSet(DOMAIN t), DOMAIN s \subseteq DOMAIN t, NEW h, NEW n \in Nat,
           Outdated(s, h, n)
    PROVE  Outdated(t, h, n)
<1> DEFINE A == {k \in DOMAIN s : k > h}
           B == {k \in DOMAIN t : k > h}
<1>1. A \subseteq B /\ IsFiniteSet(B)
  BY FS_Subset
<1>2. Cardinality(A) <= Cardinality(B) /\ Cardinality(A) \in Nat /\ Cardinality(B) \in Nat
  BY <1>1, FS_Subset, FS_CardinalityType
<1>3. Cardinality(A) >= n
  BY DEF Outdated
<1> HIDE DEF A, B
<1>4. Cardinality(B) >= n
  BY <1>2, <1>3
<1> QED BY <1>4 DEF Outdated, B

\* The hours stay exact: a flush that read what is stored adds what it carried.
LEMMA HoursKept ==
    ASSUME Typed, [Next]_vars, ~excused', HoursExact(stored.metrics.hours, memory, hand, served)
    PROVE  HoursExact(stored'.metrics.hours, memory', hand', served')
<1>0. Typed'
  BY NextTyped
<1>t. ASSUME NEW h, NEW f \in Fields
      PROVE  Total(memory', hand', h, f) \in Nat /\ At(served', h)[f] \in Nat
  <2>1. \A i \in Isolates : memory'[i].hours \in TrafficSeries
    BY <1>0 DEF Typed, TypeOK
  <2>2. \A r \in Requests : hand'[r].pending \in TrafficSeries
    BY <1>0 DEF Typed, TypeOK
  <2>3. InMemory(memory', h, f) \in Nat
    BY <2>1, InMemoryFacts
  <2>4. UnderWay(hand', h, f) \in Nat
    BY <2>2, UnderWayFacts
  <2>5. served' \in TrafficSeries
    BY <1>0 DEF Typed, TypeOK
  <2> QED BY <2>3, <2>4, <2>5, AtType DEF Total
<1>1. CASE \A r \in Requests : ~FlushPut(r)
  <2>1. stored'.metrics.hours = stored.metrics.hours
    BY <1>1, BalanceKept
  <2>2. ASSUME NEW h \in Nat, NEW f \in Fields,
               At(stored.metrics.hours, h)[f] + Total(memory, hand, h, f) = At(served, h)[f]
        PROVE  At(stored.metrics.hours, h)[f] + Total(memory', hand', h, f) = At(served', h)[f]
    <3>1. At(served', h)[f] + Total(memory, hand, h, f) = At(served, h)[f] + Total(memory', hand', h, f)
      BY <1>1, BalanceKept
    <3>2. /\ At(served, h)[f] \in Nat /\ At(stored.metrics.hours, h)[f] \in Nat /\ Total(memory, hand, h, f) \in Nat
      BY TotalFacts
    <3> QED BY <1>t, <2>2, <3>1, <3>2
  <2> QED BY <2>1, <2>2 DEF HoursExact
<1>2. ASSUME NEW r \in Requests, FlushPut(r)
      PROVE  HoursExact(stored'.metrics.hours, memory', hand', served')
  <2> DEFINE s == stored.metrics.hours
             p == hand[r].pending
             m == Merge(s, p)
             kept == stored'.metrics.hours
  <2>1. p \in TrafficSeries /\ kept = MergeHours(s, p)
    <3>1. /\ hand[r].pending \in TrafficSeries
          /\ stored'.metrics.hours = MergeHours(hand[r].base.hours, hand[r].pending)
          /\ hand[r].base = stored.metrics
      BY <1>2, FlushPutTyped
    <3> QED BY <3>1
  <2>2. s \in TrafficSeries
    BY DEF Typed, TypeOK, MetricDocuments
  <2>3. /\ m \in TrafficSeries /\ DOMAIN m = DOMAIN s \cup DOMAIN p
        /\ \A h : \A f \in Fields : At(m, h)[f] = At(s, h)[f] + At(p, h)[f]
    BY <2>1, <2>2, MergeFacts
  <2>4. kept = Newest(m, KeptHours) /\ KeptHours \in Nat
    BY <2>1, RetentionAssumption DEF MergeHours
  <2>5. DOMAIN m \in SUBSET Nat /\ IsFiniteSet(DOMAIN m)
    BY <2>3, SeriesFacts
  <2> HIDE DEF m, kept
  <2>6. /\ \A h \in Nat : Outdated(kept, h, KeptHours) <=> Outdated(m, h, KeptHours)
        /\ \A h \in DOMAIN kept : kept[h] = m[h]
        /\ \A h \in Nat : Outdated(m, h, KeptHours) => h \notin DOMAIN kept
        /\ \A h \in DOMAIN m : ~Outdated(m, h, KeptHours) => h \in DOMAIN kept
        /\ DOMAIN kept \subseteq DOMAIN m
    BY <2>4, <2>5, NewestKeeps
  <2> SUFFICES ASSUME NEW h \in Nat
               PROVE  IF Outdated(kept, h, KeptHours)
                        THEN h \notin DOMAIN kept
                        ELSE \A f \in Fields : At(kept, h)[f] + Total(memory', hand', h, f) = At(served', h)[f]
    BY DEF HoursExact, kept
  <2>7. CASE Outdated(kept, h, KeptHours)
    BY <2>6, <2>7
  <2>8. CASE ~Outdated(kept, h, KeptHours)
    <3>1. At(kept, h) = At(m, h)
      BY <2>6, <2>8 DEF At
    <3>2. ~Outdated(s, h, KeptHours)
      BY <2>3, <2>4, <2>5, <2>6, <2>8, LaterOfMore
    <3>3. \A f \in Fields : At(s, h)[f] + Total(memory, hand, h, f) = At(served, h)[f]
      BY <3>2 DEF HoursExact
    <3> SUFFICES ASSUME NEW f \in Fields
                 PROVE  At(kept, h)[f] + Total(memory', hand', h, f) = At(served', h)[f]
      BY <2>8
    <3>4. /\ served' = served /\ At(p, h)[f] \in Nat
          /\ Total(memory', hand', h, f) + At(p, h)[f] = Total(memory, hand, h, f)
      BY <1>2, Landing
    <3>5. At(kept, h)[f] = At(s, h)[f] + At(p, h)[f]
      BY <2>3, <3>1
    <3>6. At(s, h)[f] + Total(memory, hand, h, f) = At(served, h)[f]
      BY <3>3
    <3>7. At(s, h)[f] \in Nat /\ At(served, h)[f] \in Nat /\ Total(memory, hand, h, f) \in Nat
      BY TotalFacts
    <3>8. Total(memory', hand', h, f) \in Nat
      BY <1>t
    <3> QED BY <3>4, <3>5, <3>6, <3>7, <3>8
  <2> QED BY <2>7, <2>8
<1> QED BY <1>1, <1>2


-----------------------------------------------------------------------------
(***************************************************************************)
(* The days, and the log.                                                  *)
(***************************************************************************)
\* An addition of all of it adds each counter as often as it occurs.
LEMMA TalliedFacts ==
    ASSUME NEW days, NEW s \in Seq(Increments), NEW d, NEW m
    PROVE  TallyAt(Tallied(days, s), d, m) = TallyAt(days, d, m) + Times(s, d, m)
<1> DEFINE of(e) == (IF e \in DOMAIN days THEN DOMAIN days[e] ELSE {}) \cup {u.metric : u \in Range(s)}
           D == DOMAIN days \cup {u.day : u \in Range(s)}
           t == Tallied(days, s)
<1>1. t = [e \in D |-> [k \in of(e) |-> TallyAt(days, e, k) + Times(s, e, k)]]
  BY DEF Tallied
<1>2. DOMAIN s = 1..Len(s) /\ Range(s) = {s[n] : n \in 1..Len(s)}
  BY LenProperties DEF Range
<1>3. CASE d \in D /\ m \in of(d)
  <2>1. DOMAIN t = D /\ t[d] = [k \in of(d) |-> TallyAt(days, d, k) + Times(s, d, k)]
    BY <1>1, <1>3
  <2> HIDE DEF t, D, of
  <2>2. d \in DOMAIN t /\ m \in DOMAIN t[d] /\ t[d][m] = TallyAt(days, d, m) + Times(s, d, m)
    BY <1>3, <2>1
  <2>3. TallyAt(t, d, m) = TallyAt(days, d, m) + Times(s, d, m)
    BY <2>2 DEF TallyAt
  <2> QED BY <2>3 DEF t
<1>4. CASE ~(d \in D /\ m \in of(d))
  <2>1. TallyAt(days, d, m) = 0
    BY <1>4 DEF TallyAt
  <2>2. {n \in 1..Len(s) : s[n].day = d /\ s[n].metric = m} = {}
    BY <1>2, <1>4
  <2>3. Times(s, d, m) = 0
    BY <2>2, TimesFacts, FS_EmptySet
  <2>4. ~(d \in DOMAIN t /\ m \in DOMAIN t[d])
    BY <1>1, <1>4
  <2>5. TallyAt(t, d, m) = 0
    <3> HIDE DEF t
    <3> QED BY <2>4 DEF TallyAt
  <2> QED BY <2>1, <2>3, <2>5
<1> QED BY <1>3, <1>4

\* The updates a step leaves alone are still to be written.
LEMMA ToTallySame ==
    ASSUME NEW docs, NEW new, \A r \in Requests : new[r].metrics.updates = docs[r].metrics.updates
    PROVE  \A d, m : ToTally(new, d, m) = ToTally(docs, d, m)
<1> SUFFICES ASSUME NEW d, NEW m PROVE ToTally(new, d, m) = ToTally(docs, d, m)
  OBVIOUS
<1>1. [r \in Requests |-> Times(new[r].metrics.updates, d, m)] = [r \in Requests |-> Times(docs[r].metrics.updates, d, m)]
  OBVIOUS
<1> QED BY <1>1 DEF ToTally

\* And so are the entries.
LEMMA ToLogSame ==
    ASSUME NEW docs, NEW new, \A r \in Requests : new[r].history.updates = docs[r].history.updates
    PROVE  ToLog(new) = ToLog(docs)
<1>1. [r \in Requests |-> Len(new[r].history.updates)] = [r \in Requests |-> Len(docs[r].history.updates)]
  OBVIOUS
<1> QED BY <1>1 DEF ToLog

\* What is yet to be written is increments and entries.
LEMMA UpdatesTypes ==
    ASSUME Typed
    PROVE  \A r \in Requests : /\ documents[r].metrics.updates \in Seq(Increments)
                               /\ documents[r].history.updates \in Seq(Entries)
BY DEF Typed, TypeOK

\* What a request publishes is counted at once, and written later.
LEMMA PublishEffect ==
    ASSUME Typed, NEW r \in Requests, Publish(r)
    PROVE  /\ stored' = stored
           /\ documents[r].metrics.updates = <<>> /\ documents[r].history.updates = <<>>
           /\ \A q \in Requests \ {r} : documents'[q] = documents[q]
           /\ documents'[r].metrics.updates \in Seq(Increments)
           /\ documents'[r].history.updates \in Seq(Entries)
           /\ published' = Tallied(published, documents'[r].metrics.updates)
           /\ entries' = entries + Len(documents'[r].history.updates)
<1>1. PICK script \in Scripts :
        /\ documents' = [documents EXCEPT ![r] = [k \in Keys |-> [base |-> None, updates |-> Emitted(k, r, script)]]]
        /\ published' = Tallied(published, Emitted("metrics", r, script))
        /\ entries' = entries + Len(Emitted("history", r, script))
  BY DEF Publish
<1>2. /\ documents'[r].metrics.updates = Emitted("metrics", r, script)
      /\ documents'[r].history.updates = Emitted("history", r, script)
      /\ \A q \in Requests \ {r} : documents'[q] = documents[q]
  BY <1>1 DEF Typed, TypeOK, Keys
<1>3. documents[r].metrics.updates = <<>> /\ documents[r].history.updates = <<>>
  <2>1. pc[r] = "recording" /\ putting[r] = {}
    BY DEF Publish, Typed, Control
  <2>2. \A key \in Keys : documents[r][key].updates = <<>>
    BY <2>1 DEF Typed, Control
  <2> QED BY <2>2 DEF Keys
<1>4. stored' = stored
  BY DEF Publish
<1>5. Typed'
  BY PublishTyped
<1>6. documents'[r].metrics.updates \in Seq(Increments) /\ documents'[r].history.updates \in Seq(Entries)
  BY <1>5 DEF Typed, TypeOK
<1> QED BY <1>1, <1>2, <1>3, <1>4, <1>6

\* A put that nothing excuses writes the updates of its request to what is stored.
LEMMA PutEffect ==
    ASSUME Typed, NEW r \in Requests, NEW key \in Keys, Put(r, key) \/ PutRefused(r, key), ~excused'
    PROVE  /\ stored[key] \in Contents(key) /\ documents[r][key].updates \in Seq(UpdatesOf(key))
           /\ stored'[key] = Applied(key, stored[key], documents[r][key].updates)
           /\ \A k \in Keys \ {key} : stored'[k] = stored[k]
           /\ documents'[r][key].updates = <<>>
           /\ \A q \in Requests, k \in Keys : <<q, k>> # <<r, key>> => documents'[q][k] = documents[q][k]
           /\ published' = published /\ entries' = entries
<1>1. published' = published /\ entries' = entries
  BY DEF Put, PutRefused
<1>2. /\ \A q \in Requests, k \in Keys : <<q, k>> # <<r, key>> => documents'[q][k] = documents[q][k]
      /\ documents'[r][key] = NoDocument
      /\ documents[r][key].base \in Contents(key) /\ documents[r][key].updates \in Seq(UpdatesOf(key))
      /\ \/ /\ stored'[key] = Applied(key, documents[r][key].base, documents[r][key].updates)
            /\ \A k \in Keys \ {key} : stored'[k] = stored[k]
            /\ excused' = (excused \/ documents[r][key].base # stored[key])
         \/ stored' = stored /\ excused'
  BY PutTyped
<1>3. documents[r][key].base = stored[key] /\ stored'[key] = Applied(key, documents[r][key].base, documents[r][key].updates)
      /\ \A k \in Keys \ {key} : stored'[k] = stored[k]
  BY <1>2
<1>4. documents'[r][key].updates = <<>>
  BY <1>2 DEF NoDocument
<1> QED BY <1>1, <1>2, <1>3, <1>4

\* Every other step that nothing excuses leaves both as they are.
LEMMA OthersKeep ==
    ASSUME Typed, [Next]_vars, ~excused',
           \A r \in Requests : ~Publish(r) /\ \A key \in Keys : ~Put(r, key) /\ ~PutRefused(r, key)
    PROVE  /\ stored'.metrics.days = stored.metrics.days /\ stored'.history = stored.history
           /\ \A r \in Requests, k \in Keys : documents'[r][k].updates = documents[r][k].updates
           /\ published' = published /\ entries' = entries
<1> DEFINE Same == /\ stored'.metrics.days = stored.metrics.days /\ stored'.history = stored.history
                   /\ \A r \in Requests, k \in Keys : documents'[r][k].updates = documents[r][k].updates
                   /\ published' = published /\ entries' = entries
<1>1. ASSUME NEW r \in Requests, Begin(r) \/ Flush(r) \/ ClearMemory(r) \/ ClearRead(r) \/ Measure(r) \/ FlushRead(r) \/ Sent(r)
      PROVE  Same
  BY <1>1 DEF Begin, Flush, ClearMemory, ClearRead, Measure, FlushRead, Sent, historyVars
<1>2. ASSUME NEW r \in Requests, NEW key \in Keys, Load(r, key) PROVE Same
  <2>1. \A q \in Requests, k \in Keys : documents'[q][k].updates = documents[q][k].updates
    BY <1>2, LoadTyped
  <2>2. stored' = stored /\ published' = published /\ entries' = entries
    BY <1>2 DEF Load
  <2> QED BY <2>1, <2>2
<1>3. ASSUME NEW r \in Requests, ClearPut(r) PROVE Same
  <2>1. excused
    BY <1>3 DEF ClearPut, Typed, Control
  <2> QED BY <2>1, ExcusedStays
<1>4. ASSUME NEW r \in Requests, FlushPut(r) PROVE Same
  <2>1. stored'.metrics.days = stored.metrics.days /\ stored'.history = stored.history
    BY <1>4, FlushPutTyped
  <2>2. documents' = documents /\ published' = published /\ entries' = entries
    BY <1>4 DEF FlushPut
  <2> QED BY <2>1, <2>2
<1>5. ASSUME NEW i \in Isolates, Evict(i) PROVE Same
  BY <1>5 DEF Evict
<1>6. ASSUME Tick \/ UNCHANGED vars PROVE Same
  BY <1>6 DEF Tick, vars, requestVars, historyVars
<1> HIDE DEF Same
<1>7. ASSUME NEW r \in Requests, Record(r) PROVE Same
  BY <1>1, <1>2, <1>7 DEF Record
<1>8. Same
  BY <1>1, <1>3, <1>4, <1>5, <1>6, <1>7 DEF Next
<1> QED BY <1>8 DEF Same

\* The days stay exact: what a request published is found in its day once it is written.
LEMMA DaysKept ==
    ASSUME Typed, [Next]_vars, ~excused', DaysExact(stored.metrics.days, documents, published)
    PROVE  DaysExact(stored'.metrics.days, documents', published')
<1> DEFINE docs == documents'
<1>0. Typed'
  BY NextTyped
<1>t. /\ \A r \in Requests : documents[r].metrics.updates \in Seq(Increments)
      /\ \A r \in Requests : docs[r].metrics.updates \in Seq(Increments)
  BY <1>0 DEF Typed, TypeOK
<1>n. \A d, m : TallyAt(stored.metrics.days, d, m) \in Nat
  <2>1. stored.metrics.days \in DaySeries
    BY DEF Typed, TypeOK, MetricDocuments
  <2> QED BY <2>1, TallyAtType
<1>1. ASSUME NEW r \in Requests, Publish(r)
      PROVE  DaysExact(stored'.metrics.days, docs, published')
  <2> DEFINE s == docs[r].metrics.updates
  <2>1. /\ stored' = stored /\ documents[r].metrics.updates = <<>>
        /\ \A q \in Requests \ {r} : docs[q] = documents[q]
        /\ s \in Seq(Increments)
        /\ published' = Tallied(published, s)
    BY <1>1, PublishEffect
  <2> HIDE DEF docs, s
  <2> SUFFICES ASSUME NEW d \in Nat, NEW m, ~Outdated(stored.metrics.days, d, KeptDays)
               PROVE  TallyAt(stored.metrics.days, d, m) + ToTally(docs, d, m) = TallyAt(published', d, m)
    BY <2>1 DEF DaysExact
  <2>2. TallyAt(stored.metrics.days, d, m) + ToTally(documents, d, m) = TallyAt(published, d, m)
    BY DEF DaysExact
  <2>3. \A q \in Requests \ {r} : docs[q].metrics.updates = documents[q].metrics.updates
    BY <2>1
  <2>4. /\ ToTally(documents, d, m) \in Nat
        /\ ToTally(docs, d, m) = ToTally(documents, d, m)
             + (Times(docs[r].metrics.updates, d, m) - Times(documents[r].metrics.updates, d, m))
    BY <1>t, <2>3, ToTallyChange
  <2>5. Times(documents[r].metrics.updates, d, m) = 0 /\ Times(s, d, m) \in Nat
    BY <2>1, TimesFacts
  <2>6. TallyAt(published', d, m) = TallyAt(published, d, m) + Times(s, d, m)
    <3> DEFINE pub == published'
    <3>1. pub = Tallied(published, s)
      BY <2>1
    <3> HIDE DEF pub
    <3>2. TallyAt(pub, d, m) = TallyAt(published, d, m) + Times(s, d, m)
      BY <2>1, <3>1, TalliedFacts
    <3> QED BY <3>2 DEF pub
  <2>7. TallyAt(stored.metrics.days, d, m) \in Nat
    BY <1>n
  <2>8. TallyAt(published, d, m) \in Nat
    BY <2>2, <2>4, <2>7
  <2>9. docs[r].metrics.updates = s
    BY DEF s
  <2> QED BY <2>2, <2>4, <2>5, <2>6, <2>7, <2>8, <2>9
<1>2. ASSUME NEW r \in Requests, NEW key \in Keys, Put(r, key) \/ PutRefused(r, key)
      PROVE  DaysExact(stored'.metrics.days, docs, published')
  <2>1. /\ stored[key] \in Contents(key) /\ documents[r][key].updates \in Seq(UpdatesOf(key))
        /\ stored'[key] = Applied(key, stored[key], documents[r][key].updates)
        /\ \A k \in Keys \ {key} : stored'[k] = stored[k]
        /\ docs[r][key].updates = <<>>
        /\ \A q \in Requests, k \in Keys : <<q, k>> # <<r, key>> => docs[q][k] = documents[q][k]
        /\ published' = published
    BY <1>2, PutEffect
  <2> HIDE DEF docs
  <2>2. CASE key # "metrics"
    <3>1. stored'.metrics = stored.metrics /\ \A q \in Requests : docs[q].metrics.updates = documents[q].metrics.updates
      BY <2>1, <2>2 DEF Keys
    <3>2. \A d, m : ToTally(docs, d, m) = ToTally(documents, d, m)
      BY <3>1, ToTallySame
    <3> QED BY <2>1, <3>1, <3>2 DEF DaysExact
  <2>3. CASE key = "metrics"
    <3> DEFINE s == documents[r].metrics.updates
               base == stored.metrics
               new == Applied("metrics", base, s)
    <3>1. base \in MetricDocuments /\ s \in Seq(Increments) /\ stored'.metrics = new
      BY <2>1, <2>3 DEF Contents, UpdatesOf
    <3>2. /\ \A d \in Nat : Outdated(base.days, d, KeptDays) => Outdated(new.days, d, KeptDays)
          /\ \A d \in Nat : \A m : ~Outdated(new.days, d, KeptDays) =>
               TallyAt(new.days, d, m) = TallyAt(base.days, d, m) + Times(s, d, m)
      BY <3>1, AppliedMetrics
    <3> HIDE DEF new
    <3> SUFFICES ASSUME NEW d \in Nat, NEW m, ~Outdated(new.days, d, KeptDays)
                 PROVE  TallyAt(new.days, d, m) + ToTally(docs, d, m) = TallyAt(published, d, m)
      BY <2>1, <3>1 DEF DaysExact
    <3>3. TallyAt(base.days, d, m) + ToTally(documents, d, m) = TallyAt(published, d, m)
      BY <3>2 DEF DaysExact
    <3>4. TallyAt(new.days, d, m) = TallyAt(base.days, d, m) + Times(s, d, m)
      BY <3>2
    <3>5. \A q \in Requests \ {r} : docs[q].metrics.updates = documents[q].metrics.updates
      BY <2>1 DEF Keys
    <3>6. /\ ToTally(documents, d, m) \in Nat
          /\ ToTally(docs, d, m) = ToTally(documents, d, m)
               + (Times(docs[r].metrics.updates, d, m) - Times(documents[r].metrics.updates, d, m))
      BY <1>t, <3>5, ToTallyChange
    <3>7. Times(docs[r].metrics.updates, d, m) = 0 /\ Times(s, d, m) \in Nat
      <4>1. docs[r].metrics.updates = <<>>
        BY <2>1, <2>3
      <4>2. Times(<<>>, d, m) = 0 /\ Times(s, d, m) \in Nat
        BY <3>1, TimesFacts
      <4> QED BY <4>1, <4>2
    <3>8. TallyAt(base.days, d, m) \in Nat
      BY <1>n
    <3> QED BY <3>3, <3>4, <3>6, <3>7, <3>8
  <2> QED BY <2>2, <2>3
<1>3. ASSUME \A r \in Requests : ~Publish(r) /\ \A key \in Keys : ~Put(r, key) /\ ~PutRefused(r, key)
      PROVE  DaysExact(stored'.metrics.days, docs, published')
  <2>1. /\ stored'.metrics.days = stored.metrics.days
        /\ \A r \in Requests, k \in Keys : docs[r][k].updates = documents[r][k].updates
        /\ published' = published
    BY <1>3, OthersKeep
  <2>2. \A r \in Requests : docs[r].metrics.updates = documents[r].metrics.updates
    BY <2>1 DEF Keys
  <2> HIDE DEF docs
  <2>3. \A d, m : ToTally(docs, d, m) = ToTally(documents, d, m)
    BY <2>2, ToTallySame
  <2> QED BY <2>1, <2>3 DEF DaysExact
<1> QED BY <1>1, <1>2, <1>3

\* The log misses no entry before it is full.
LEMMA LogKept ==
    ASSUME Typed, [Next]_vars, ~excused', LogExact(stored.history, documents, entries)
    PROVE  LogExact(stored'.history, documents', entries')
<1> DEFINE docs == documents'
<1>0. Typed'
  BY NextTyped
<1>t. /\ \A r \in Requests : documents[r].history.updates \in Seq(Entries)
      /\ \A r \in Requests : docs[r].history.updates \in Seq(Entries)
  BY <1>0 DEF Typed, TypeOK
<1>n. /\ entries \in Nat /\ stored.history \in Seq(Entries) /\ KeptEntries \in Nat /\ Len(stored.history) \in Nat
      /\ ToLog(documents) <= entries /\ Len(stored.history) = Smaller(KeptEntries, entries - ToLog(documents))
  BY RetentionAssumption, LenProperties DEF Typed, TypeOK, LogExact
<1>1. ASSUME NEW r \in Requests, Publish(r)
      PROVE  LogExact(stored'.history, docs, entries')
  <2> DEFINE n == Len(docs[r].history.updates)
  <2>1. /\ stored' = stored /\ documents[r].history.updates = <<>>
        /\ \A q \in Requests \ {r} : docs[q] = documents[q]
        /\ entries' = entries + n
    BY <1>1, PublishEffect
  <2>2. n \in Nat
    BY <1>t, LenProperties
  <2> HIDE DEF docs
  <2>3. \A q \in Requests \ {r} : docs[q].history.updates = documents[q].history.updates
    BY <2>1
  <2>4. /\ ToLog(documents) \in Nat
        /\ ToLog(docs) = ToLog(documents) + (Len(docs[r].history.updates) - Len(documents[r].history.updates))
    BY <1>t, <2>3, ToLogChange
  <2>5. Len(documents[r].history.updates) = 0
    BY <2>1
  <2> HIDE DEF n
  <2>6. ToLog(docs) = ToLog(documents) + n
    BY <2>2, <2>4, <2>5 DEF n
  <2>7. entries' - ToLog(docs) = entries - ToLog(documents) /\ ToLog(docs) <= entries'
    BY <1>n, <2>1, <2>2, <2>4, <2>6
  <2> QED BY <1>n, <2>1, <2>7 DEF LogExact
<1>2. ASSUME NEW r \in Requests, NEW key \in Keys, Put(r, key) \/ PutRefused(r, key)
      PROVE  LogExact(stored'.history, docs, entries')
  <2>1. /\ stored[key] \in Contents(key) /\ documents[r][key].updates \in Seq(UpdatesOf(key))
        /\ stored'[key] = Applied(key, stored[key], documents[r][key].updates)
        /\ \A k \in Keys \ {key} : stored'[k] = stored[k]
        /\ docs[r][key].updates = <<>>
        /\ \A q \in Requests, k \in Keys : <<q, k>> # <<r, key>> => docs[q][k] = documents[q][k]
        /\ entries' = entries
    BY <1>2, PutEffect
  <2> HIDE DEF docs
  <2>2. CASE key # "history"
    <3>1. stored'.history = stored.history /\ \A q \in Requests : docs[q].history.updates = documents[q].history.updates
      BY <2>1, <2>2 DEF Keys
    <3>2. ToLog(docs) = ToLog(documents)
      BY <3>1, ToLogSame
    <3> QED BY <2>1, <3>1, <3>2 DEF LogExact
  <2>3. CASE key = "history"
    <3> DEFINE s == documents[r].history.updates
    <3>1. s \in Seq(Entries) /\ stored'.history = Applied("history", stored.history, s)
      BY <2>1, <2>3 DEF Contents, UpdatesOf
    <3>2. Len(s) \in Nat /\ Len(stored.history) <= KeptEntries
      BY <1>n, <3>1, LenProperties DEF Smaller
    <3>3. Len(stored'.history) = Smaller(KeptEntries, Len(stored.history) + Len(s))
      BY <1>n, <3>1, <3>2, AppliedHistory
    <3>4. \A q \in Requests \ {r} : docs[q].history.updates = documents[q].history.updates
      BY <2>1 DEF Keys
    <3>5. /\ ToLog(documents) \in Nat
          /\ ToLog(docs) = ToLog(documents) + (Len(docs[r].history.updates) - Len(documents[r].history.updates))
      BY <1>t, <3>4, ToLogChange
    <3>6. Len(docs[r].history.updates) = 0
      BY <2>1, <2>3
    <3> HIDE DEF s
    <3>7. ToLog(docs) = ToLog(documents) - Len(s)
      BY <3>2, <3>5, <3>6 DEF s
    <3>8. ToLog(docs) <= entries' /\ entries' - ToLog(docs) = entries - ToLog(documents) + Len(s)
      <4>1. entries' = entries
        BY <2>1
      <4>2. ToLog(documents) \in Nat
        BY <3>5
      <4> HIDE DEF docs
      <4> QED BY <1>n, <3>2, <3>7, <4>1, <4>2
    <3>9. Smaller(KeptEntries, Smaller(KeptEntries, entries - ToLog(documents)) + Len(s))
            = Smaller(KeptEntries, entries - ToLog(documents) + Len(s))
      BY <1>n, <3>2, <3>5 DEF Smaller
    <3>10. Len(stored'.history) = Smaller(KeptEntries, entries' - ToLog(docs))
      BY <1>n, <3>3, <3>8, <3>9
    <3> QED BY <3>8, <3>10 DEF LogExact
  <2> QED BY <2>2, <2>3
<1>3. ASSUME \A r \in Requests : ~Publish(r) /\ \A key \in Keys : ~Put(r, key) /\ ~PutRefused(r, key)
      PROVE  LogExact(stored'.history, docs, entries')
  <2>1. /\ stored'.history = stored.history
        /\ \A r \in Requests, k \in Keys : docs[r][k].updates = documents[r][k].updates
        /\ entries' = entries
    BY <1>3, OthersKeep
  <2>2. \A r \in Requests : docs[r].history.updates = documents[r].history.updates
    BY <2>1 DEF Keys
  <2> HIDE DEF docs
  <2>3. ToLog(docs) = ToLog(documents)
    BY <2>2, ToLogSame
  <2> QED BY <2>1, <2>3 DEF LogExact
<1> QED BY <1>1, <1>2, <1>3

\* At first nothing is stored, and nothing was served.
LEMMA InitExact == Init => Exact
<1> SUFFICES ASSUME Init PROVE Exact
  OBVIOUS
<1>1. Init => Typed /\ CountedOnce
  BY InitTyped, InitCounted
<1>2. stored.metrics.hours = NoSeries /\ stored.metrics.days = NoSeries /\ stored.history = <<>> /\ served = NoSeries
  BY EmptyFacts DEF Init
<1>3. \A h \in Nat : \A f \in Fields : At(NoSeries, h)[f] + Total(memory, hand, h, f) = At(NoSeries, h)[f]
  <2> SUFFICES ASSUME NEW h \in Nat, NEW f \in Fields
               PROVE  At(NoSeries, h)[f] + Total(memory, hand, h, f) = At(NoSeries, h)[f]
    OBVIOUS
  <2>1. At(NoSeries, h)[f] + Total(memory, hand, h, f) <= At(served, h)[f]
    BY <1>1, <1>2 DEF CountedOnce, Copies, Within
  <2>2. At(NoSeries, h)[f] = 0
    BY NoSeriesFacts
  <2>3. Total(memory, hand, h, f) \in Nat
    BY <1>1, TotalFacts
  <2> QED BY <1>2, <2>1, <2>2, <2>3
<1>4. HoursExact(NoSeries, memory, hand, served)
  BY <1>2, <1>3 DEF HoursExact, NoSeries
<1>5. \A r \in Requests : documents[r].metrics.updates = <<>> /\ documents[r].history.updates = <<>>
  BY DEF Init, NoDocument, Keys
<1>6. \A d, m : ToTally(documents, d, m) = 0
  <2> SUFFICES ASSUME NEW d, NEW m PROVE ToTally(documents, d, m) = 0
    OBVIOUS
  <2> DEFINE s == [r \in Requests |-> Times(documents[r].metrics.updates, d, m)]
  <2>1. \A r \in Requests : s[r] = 0
    <3>1. <<>> \in Seq(Increments)
      OBVIOUS
    <3>2. Times(<<>>, d, m) = 0
      BY <3>1, TimesFacts
    <3> QED BY <1>5, <3>2
  <2>2. ToTally(documents, d, m) = SumFunctionOnSet(s, Requests) /\ IsFiniteSet(Requests)
    BY MetricsAssumption DEF ToTally
  <2> HIDE DEF s
  <2> QED BY <2>1, <2>2, SumOfZeros
<1>7. ToLog(documents) = 0
  <2> DEFINE s == [r \in Requests |-> Len(documents[r].history.updates)]
  <2>1. \A r \in Requests : s[r] = 0
    BY <1>5
  <2>2. ToLog(documents) = SumFunctionOnSet(s, Requests) /\ IsFiniteSet(Requests)
    BY MetricsAssumption DEF ToLog
  <2> HIDE DEF s
  <2> QED BY <2>1, <2>2, SumOfZeros
<1>8. DaysExact(NoSeries, documents, published)
  BY <1>6 DEF DaysExact, Init, TallyAt, NoSeries
<1>9. LogExact(<<>>, documents, entries)
  BY <1>7, RetentionAssumption DEF LogExact, Init, Smaller
<1> QED BY <1>2, <1>4, <1>8, <1>9 DEF Exact

\* No step loses what nothing excuses.
LEMMA ExactKept ==
    ASSUME Typed, Exact, [Next]_vars
    PROVE  Exact'
<1>1. CASE excused'
  BY <1>1 DEF Exact
<1>2. CASE ~excused'
  <2>1. ~excused
    BY <1>2, ExcusedStays
  <2>2. /\ HoursExact(stored'.metrics.hours, memory', hand', served')
        /\ DaysExact(stored'.metrics.days, documents', published')
        /\ LogExact(stored'.history, documents', entries')
    BY <1>2, <2>1, HoursKept, DaysKept, LogKept DEF Exact
  <2> QED BY <2>2 DEF Exact
<1> QED BY <1>1, <1>2

\* While nothing excuses a loss, what is stored and held is what was served.
LEMMA ExactIsEnough ==
    ASSUME Typed, Exact
    PROVE  UncontestedIsExact
<1> SUFFICES ASSUME ~excused
             PROVE  LET hours == stored.metrics.hours
                        days  == stored.metrics.days IN
                    /\ \A h \in Hours :
                         IF Outdated(hours, h, KeptHours)
                           THEN h \notin DOMAIN hours
                           ELSE Add(At(hours, h), Held(h)) = At(served, h)
                    /\ \A d \in DOMAIN published : \A m \in DOMAIN published[d] :
                         ~Outdated(days, d, KeptDays) =>
                           TallyAt(days, d, m) + Unwritten(d, m) = published[d][m]
                    /\ Len(stored.history) = Smaller(KeptEntries, entries - Unlogged)
  BY DEF UncontestedIsExact
<1>1. ASSUME NEW h \in Hours
      PROVE  IF Outdated(stored.metrics.hours, h, KeptHours)
               THEN h \notin DOMAIN stored.metrics.hours
               ELSE Add(At(stored.metrics.hours, h), Held(h)) = At(served, h)
  <2>1. h \in Nat
    BY <1>1 DEF Hours
  <2>2. CASE Outdated(stored.metrics.hours, h, KeptHours)
    BY <2>1, <2>2 DEF Exact, HoursExact
  <2>3. CASE ~Outdated(stored.metrics.hours, h, KeptHours)
    <3>1. \A f \in Fields : At(stored.metrics.hours, h)[f] + Total(memory, hand, h, f) = At(served, h)[f]
      BY <2>1, <2>3 DEF Exact, HoursExact
    <3>2. \A f \in Fields : Held(h)[f] = Total(memory, hand, h, f)
      BY DEF Held, Total, InMemory, UnderWay, Fields
    <3>3. At(served, h) \in [Fields -> Nat]
      BY AtType DEF Typed, TypeOK
    <3>4. Add(At(stored.metrics.hours, h), Held(h)) = [f \in Fields |-> At(stored.metrics.hours, h)[f] + Held(h)[f]]
      BY DEF Add, Fields
    <3>5. At(served, h) = [f \in Fields |-> At(served, h)[f]]
      BY <3>3
    <3>6. \A f \in Fields : At(stored.metrics.hours, h)[f] + Held(h)[f] = At(served, h)[f]
      BY <3>1, <3>2
    <3> QED BY <2>3, <3>4, <3>5, <3>6
  <2> QED BY <2>2, <2>3
<1>2. ASSUME NEW d \in DOMAIN published, NEW m \in DOMAIN published[d], ~Outdated(stored.metrics.days, d, KeptDays)
      PROVE  TallyAt(stored.metrics.days, d, m) + Unwritten(d, m) = published[d][m]
  <2>1. d \in Nat
    BY <1>2 DEF Typed, TypeOK
  <2>2. TallyAt(stored.metrics.days, d, m) + ToTally(documents, d, m) = TallyAt(published, d, m)
    BY <1>2, <2>1 DEF Exact, DaysExact
  <2> QED BY <1>2, <2>2 DEF ToTally, Unwritten, TallyAt
<1>3. Len(stored.history) = Smaller(KeptEntries, entries - Unlogged)
  BY DEF Exact, LogExact, ToLog, Unlogged
<1> QED BY <1>1, <1>2, <1>3

-----------------------------------------------------------------------------
\* The type invariant and the control of a request, for any number of requests and isolates:
\* each variable keeps its type, a request that will put a document holds one it has read,
\* nothing is carried outside a flush, and an update not yet written belongs to a request
\* that will still try to.
THEOREM MetricsTypeCorrect == Spec => []Typed
<1>1. Init => Typed
  BY InitTyped
<1>2. Typed /\ [Next]_vars => Typed'
  BY NextTyped
<1> QED BY <1>1, <1>2, PTL DEF Spec

\* No traffic is counted twice, in what is stored, held, carried and shown, and while
\* nothing is lost every hour, day and log entry is exact (traffic.ts, platform/record.ts,
\* analytics and history services), for any number of requests and isolates.
THEOREM CountsStayHonest == Spec => []CountsAreHonest
<1>1. Init => Typed /\ CountedOnce /\ Exact
  BY InitTyped, InitCounted, InitExact
<1>2. Typed /\ CountedOnce /\ Exact /\ [Next]_vars => (Typed /\ CountedOnce /\ Exact)'
  BY NextTyped, CountedOnceKept, ExactKept
<1>3. Typed /\ CountedOnce /\ Exact => CountsAreHonest
  BY CountedOnceIsEnough, ExactIsEnough DEF CountsAreHonest
<1> QED BY <1>1, <1>2, <1>3, PTL DEF Spec

\* However many requests an isolate counts, and however long it lives, it starts no more
\* flushes than its thresholds allow (traffic.ts, due), even when every put is refused.
THEOREM WritesStayInBudget == Spec => []WriteBudget
<1>1. Init => Typed /\ BudgetInv
  BY InitTyped, InitInBudget
<1>2. Typed /\ BudgetInv /\ [Next]_vars => (Typed /\ BudgetInv)'
  BY NextTyped, BudgetKept
<1>3. Typed /\ BudgetInv => WriteBudget
  BY BudgetIsEnough
<1> QED BY <1>1, <1>2, <1>3, PTL DEF Spec

-----------------------------------------------------------------------------
(***************************************************************************)
(* The members of a finite set in an order.                                *)
(***************************************************************************)
StrictOrder(R, S) ==
    /\ \A a \in S : <<a, a>> \notin R
    /\ \A a, b, c \in S : <<a, b>> \in R /\ <<b, c>> \in R => <<a, c>> \in R
    /\ \A a, b \in S : a # b => <<a, b>> \in R \/ <<b, a>> \in R

\* The numbers up to n are n.
LEMMA UpToFacts ==
    ASSUME NEW n \in Nat
    PROVE  IsFiniteSet(1..n) /\ Cardinality(1..n) = n
<1>1. 1 \in Int /\ n \in Int
  OBVIOUS
<1>2. IsFiniteSet(1..n) /\ Cardinality(1..n) = IF 1 > n THEN 0 ELSE n - 1 + 1
  BY <1>1, FS_Interval
<1> QED BY <1>2

\* Each place in the order is that of one member, and no other.
LEMMA Placing ==
    ASSUME NEW S, IsFiniteSet(S), NEW R, StrictOrder(R, S)
    PROVE  \A k \in 1..Cardinality(S) :
             \E a \in S : Cardinality({b \in S : <<b, a>> \in R}) = k - 1
<1> DEFINE n == Cardinality(S)
           Under(a) == {b \in S : <<b, a>> \in R}
           place == [a \in S |-> Cardinality(Under(a)) + 1]
<1>0. n \in Nat
  BY FS_CardinalityType
<1>1. ASSUME NEW a \in S
      PROVE  IsFiniteSet(Under(a)) /\ Cardinality(Under(a)) \in Nat /\ Cardinality(Under(a)) < n
  <2>1. Under(a) \in SUBSET S /\ a \notin Under(a)
    BY DEF StrictOrder
  <2> HIDE DEF Under
  <2>2. IsFiniteSet(Under(a)) /\ Cardinality(Under(a)) <= n /\ Cardinality(Under(a)) # n
    BY <2>1, FS_Subset
  <2> QED BY <1>0, <2>2, FS_CardinalityType
<1>2. ASSUME NEW a \in S, NEW b \in S, <<a, b>> \in R
      PROVE  Cardinality(Under(a)) < Cardinality(Under(b))
  <2>1. Under(a) \in SUBSET Under(b) /\ a \in Under(b) /\ a \notin Under(a)
    BY <1>2 DEF StrictOrder
  <2> HIDE DEF Under
  <2>2. Cardinality(Under(a)) <= Cardinality(Under(b)) /\ Cardinality(Under(b)) # Cardinality(Under(a))
    BY <1>1, <2>1, FS_Subset
  <2> QED BY <1>1, <2>2
<1>3. \A a, b \in S : Cardinality(Under(a)) = Cardinality(Under(b)) => a = b
  <2> SUFFICES ASSUME NEW a \in S, NEW b \in S, a # b
               PROVE  Cardinality(Under(a)) # Cardinality(Under(b))
    OBVIOUS
  <2>1. <<a, b>> \in R \/ <<b, a>> \in R
    BY DEF StrictOrder
  <2> HIDE DEF Under
  <2> QED BY <1>1, <1>2, <2>1
<1> HIDE DEF Under
<1>4. place \in Injection(S, 1..n)
  <2>1. place \in [S -> 1..n]
    BY <1>0, <1>1
  <2>2. \A a, b \in S : place[a] = place[b] => a = b
    BY <1>1, <1>3
  <2> HIDE DEF place
  <2> QED BY <2>1, <2>2 DEF Injection, IsInjective
<1>5. IsFiniteSet(1..n) /\ Cardinality(1..n) = n
  BY <1>0, UpToFacts
<1>6. place \in Surjection(S, 1..n)
  BY <1>4, <1>5, FS_Injection
<1>7. ASSUME NEW k \in 1..n
      PROVE  \E a \in S : Cardinality(Under(a)) = k - 1
  <2>1. \E a \in S : place[a] = k
    BY <1>6 DEF Surjection
  <2>2. PICK a \in S : Cardinality(Under(a)) + 1 = k
    BY <2>1
  <2> QED BY <1>1, <2>2
<1> QED BY <1>7 DEF Under

\* f lists the members of S, each once.
ListsAll(f, S) ==
    /\ f \in [1..Cardinality(S) -> S]
    /\ \A k, l \in 1..Cardinality(S) : f[k] = f[l] => k = l
    /\ S = {f[k] : k \in 1..Cardinality(S)}

\* The list of the members by their places.
Listing(S, R) ==
    [k \in 1..Cardinality(S) |-> CHOOSE a \in S : Cardinality({b \in S : <<b, a>> \in R}) = k - 1]

\* The list of a set in an order is of all its members, each once.
LEMMA InOrder ==
    ASSUME NEW S, IsFiniteSet(S), NEW R, StrictOrder(R, S)
    PROVE  ListsAll(Listing(S, R), S)
<1> DEFINE n == Cardinality(S)
           Under(a) == Cardinality({b \in S : <<b, a>> \in R})
           f == Listing(S, R)
<1>0. n \in Nat /\ IsFiniteSet(1..n) /\ Cardinality(1..n) = n
  BY FS_CardinalityType, UpToFacts
<1>1. ASSUME NEW k \in 1..n
      PROVE  f[k] \in S /\ Under(f[k]) = k - 1
  <2>1. \E a \in S : Under(a) = k - 1
    BY Placing
  <2>2. f[k] = CHOOSE a \in S : Under(a) = k - 1
    BY DEF Listing
  <2> HIDE DEF Under
  <2> QED BY <2>1, <2>2
<1> HIDE DEF Under
<1>2. f \in [1..n -> S]
  BY <1>1 DEF Listing
<1> HIDE DEF f
<1>3. \A k, l \in 1..n : f[k] = f[l] => k = l
  <2> SUFFICES ASSUME NEW k \in 1..n, NEW l \in 1..n, f[k] = f[l]
               PROVE  k = l
    OBVIOUS
  <2>1. k - 1 = l - 1
    BY <1>1
  <2> QED BY <2>1
<1>4. f \in Injection(1..n, S)
  BY <1>2, <1>3 DEF Injection, IsInjective
<1>5. f \in Surjection(1..n, S)
  BY <1>0, <1>4, FS_Injection
<1>6. \A a \in S : \E k \in 1..n : f[k] = a
  BY <1>5 DEF Surjection
<1>7. S = {f[k] : k \in 1..n}
  <2>1. \A k \in 1..n : f[k] \in S
    BY <1>2
  <2> QED BY <2>1, <1>6
<1> QED BY <1>0, <1>2, <1>3, <1>7 DEF ListsAll, f

-----------------------------------------------------------------------------
(***************************************************************************)
(* What is computed of the attempts.                                       *)
(***************************************************************************)
Attempts == Seq([ok : BOOLEAN, ms : Nat])

\* A quotient is at most what its numerator allows.
LEMMA QuotientAtMost ==
    ASSUME NEW a \in Nat, NEW n \in Int, NEW d \in Nat \ {0}, n <= a * d
    PROVE  n \div d \in Int /\ n \div d <= a
<1> DEFINE q == n \div d
           r == n % d
<1>1. q \in Int /\ r \in 0..(d - 1) /\ n = d * q + r
  OBVIOUS
<1> HIDE DEF q, r
<1>2. CASE q > a
  <2>1. q - a - 1 \in Nat
    BY <1>1, <1>2
  <2>2. (q - a - 1) * d \in Nat
    BY <2>1
  <2>3. (q - a - 1) * d = d * q - a * d - d
    BY <1>1
  <2>4. d * q <= a * d
    BY <1>1
  <2> QED BY <1>1, <2>2, <2>3, <2>4
<1>3. CASE ~(q > a)
  BY <1>1, <1>3 DEF q
<1> QED BY <1>2, <1>3

\* A set that holds the first of some numbers is left at one of them, or not before the last.
LEMMA Crossing ==
    ASSUME NEW a \in Nat, NEW b \in Nat, a <= b, NEW T, a \in T
    PROVE  \E x \in a..b : x \in T /\ (x < b => x + 1 \notin T)
<1> DEFINE U == T \cap (a..b)
<1>1. U \in SUBSET Nat /\ U # {} /\ IsFiniteSet(U)
  <2>1. a \in U
    OBVIOUS
  <2>2. IsFiniteSet(a..b) /\ U \in SUBSET (a..b)
    BY FS_Interval
  <2>3. IsFiniteSet(U)
    BY <2>2, FS_Subset
  <2>4. \A x \in a..b : x \in Nat
    OBVIOUS
  <2> QED BY <2>1, <2>3, <2>4
<1>2. PICK x \in U : \A y \in U : y <= x
  BY <1>1, GreatestOfSet
<1>3. ASSUME x < b, x + 1 \in T
      PROVE  FALSE
  <2>1. x + 1 \in U
    BY <1>3
  <2>2. x + 1 <= x
    BY <1>2, <2>1
  <2> QED BY <2>2
<1> QED BY <1>2, <1>3

\* The root is found, and it is a number.
LEMMA RootType ==
    ASSUME NEW n \in Nat, NEW bound \in Nat, NEW v \in Int
    PROVE  RoundedRoot(n, bound)[v] \in Nat
<1> DEFINE AtLeast(j) == j = 0 \/ (2*j - 1) * n * (2*j - 1) * n <= 400 * v
           last == bound \div 32
           coarse == CHOOSE c \in 0..last : AtLeast(32 * c) /\ (c < last => ~AtLeast(32 * c + 32))
           root == CHOOSE j \in (32 * coarse)..(32 * coarse + 31) :
                     AtLeast(j) /\ (j < 32 * coarse + 31 => ~AtLeast(j + 1))
           T == {j \in Nat : AtLeast(j)}
           C == {c \in Nat : 32 * c \in T}
<1>1. RoundedRoot(n, bound)[v] = root
  BY DEF RoundedRoot
<1>2. last \in Nat
  BY QuotientNatural
<1> HIDE DEF last
<1>3. 0 \in C /\ \A j \in Nat : j \in T <=> AtLeast(j)
  <2>1. 32 * 0 = 0
    OBVIOUS
  <2> QED BY <2>1
<1> HIDE DEF T, AtLeast
<1>4. \A c \in Nat : c \in C <=> 32 * c \in T
  OBVIOUS
<1> HIDE DEF C
<1>5. PICK k \in 0..last : k \in C /\ (k < last => k + 1 \notin C)
  <2>1. 0 \in Nat /\ 0 <= last
    BY <1>2
  <2>2. \E x \in 0..last : x \in C /\ (x < last => x + 1 \notin C)
    BY <1>2, <1>3, <2>1, Crossing
  <2> QED BY <2>2
<1>6. AtLeast(32 * k) /\ (k < last => ~AtLeast(32 * k + 32))
  <2>1. 32 * (k + 1) = 32 * k + 32
    BY <1>2
  <2>2. AtLeast(32 * k)
    BY <1>2, <1>3, <1>4, <1>5
  <2>3. ASSUME k < last
        PROVE  ~AtLeast(32 * k + 32)
    <3>1. 32 * (k + 1) \notin T
      BY <1>2, <1>4, <1>5, <2>3
    <3> QED BY <1>2, <1>3, <2>1, <3>1
  <2> QED BY <2>2, <2>3
<1>7. coarse \in 0..last /\ AtLeast(32 * coarse)
  BY <1>6
<1> HIDE DEF coarse
<1>8. 32 * coarse \in Nat /\ 32 * coarse \in T
  BY <1>2, <1>3, <1>7
<1>9. PICK j \in (32 * coarse)..(32 * coarse + 31) : j \in T /\ (j < 32 * coarse + 31 => j + 1 \notin T)
  <2> DEFINE low == 32 * coarse
             high == 32 * coarse + 31
  <2>1. low \in Nat /\ high \in Nat /\ low <= high /\ low \in T
    BY <1>8
  <2> HIDE DEF low, high
  <2>2. \E x \in low..high : x \in T /\ (x < high => x + 1 \notin T)
    BY <2>1, Crossing
  <2> QED BY <2>2 DEF low, high
<1>10. AtLeast(j) /\ (j < 32 * coarse + 31 => ~AtLeast(j + 1))
  BY <1>3, <1>8, <1>9
<1>11. root \in (32 * coarse)..(32 * coarse + 31)
  BY <1>10
<1> HIDE DEF root
<1> QED BY <1>1, <1>8, <1>11

Answered(records) == {k \in 1..Len(records) : records[k].ok}

\* The attempts that were answered can be counted.
LEMMA AnsweredFacts ==
    ASSUME NEW records \in Attempts
    PROVE  /\ Len(records) \in Nat
           /\ \A k \in 1..Len(records) : records[k].ok \in BOOLEAN /\ records[k].ms \in Nat
           /\ IsFiniteSet(Answered(records))
           /\ Cardinality(Answered(records)) \in Nat
<1>1. Len(records) \in Nat /\ \A k \in 1..Len(records) : records[k] \in [ok : BOOLEAN, ms : Nat]
  BY LenProperties, ElementOfSeq DEF Attempts
<1>2. IsFiniteSet(1..Len(records)) /\ Answered(records) \in SUBSET (1..Len(records))
  BY <1>1, UpToFacts DEF Answered
<1>3. IsFiniteSet(Answered(records))
  BY <1>2, FS_Subset
<1> QED BY <1>1, <1>3, FS_CardinalityType

\* What a result tells: how many answered, of how many, and what they took when some did.
LEMMA ResultFacts ==
    ASSUME NEW reason, NEW records \in Attempts
    PROVE  /\ Result(reason, records).blocked = reason
           /\ Result(reason, records).successes = Cardinality(Answered(records))
           /\ Result(reason, records).total = Len(records)
           /\ Cardinality(Answered(records)) # 0 => Result(reason, records).mean \in Nat
           /\ Result(reason, records).jitter \in Nat \cup {Null}
<1> DEFINE times == Answered(records)
           n == Cardinality(times)
           ms == [k \in times |-> records[k].ms]
           squares == [k \in times |-> records[k].ms * records[k].ms]
           sum == SumOf(ms)
           v == n * SumOf(squares) - sum * sum
           range == {records[k].ms : k \in times}
           bound == 5 * (Max(range) - Min(range))
           r == Result(reason, records)
<1>1. r = [blocked |-> reason, successes |-> n, total |-> Len(records),
           mean |-> IF n = 0 THEN Null ELSE RoundDiv(10 * sum, n),
           jitter |-> IF n < 2 THEN Null ELSE RoundedRoot(n, bound)[v]]
  BY DEF Result, Answered
<1>2. n \in Nat /\ IsFiniteSet(times) /\ \A k \in times : records[k].ms \in Nat
  BY AnsweredFacts DEF Answered
<1>3. sum \in Nat /\ SumOf(squares) \in Nat
  <2>1. \A k \in times : ms[k] \in Nat /\ squares[k] \in Nat
    BY <1>2
  <2>2. SumFunctionOnSet(ms, times) \in Nat /\ SumFunctionOnSet(squares, times) \in Nat
    <3> HIDE DEF ms, squares, times
    <3> QED BY <1>2, <2>1, SumOfNaturals
  <2> QED BY <2>2 DEF SumOf
<1>4. range \in SUBSET Nat
  BY <1>2
<1> HIDE DEF sum, r, times
<1>5. n # 0 => RoundDiv(10 * sum, n) \in Nat
  <2> SUFFICES ASSUME n # 0 PROVE (2 * (10 * sum) + n) \div (2 * n) \in Nat
    BY DEF RoundDiv
  <2>1. 2 * (10 * sum) + n \in Nat /\ 2 * n \in Nat \ {0}
    BY <1>2, <1>3
  <2> QED BY <2>1, QuotientNatural
<1>6. v \in Int
  BY <1>2, <1>3
<1>7. n # 0 => bound \in Nat
  <2> SUFFICES ASSUME n # 0 PROVE Max(range) - Min(range) \in Nat
    OBVIOUS
  <2>1. times # {}
    BY FS_EmptySet
  <2>2. range # {} /\ IsFiniteSet(range)
    <3>1. IsFiniteSet(range)
      <4>1. ms \in Surjection(times, range)
        BY DEF Surjection
      <4> QED BY <1>2, <4>1, FS_Surjection
    <3> QED BY <2>1, <3>1
  <2> HIDE DEF range
  <2>3. \E x \in range : \A y \in range : y <= x
    BY <1>4, <2>2, GreatestOfSet
  <2>4. \E x \in range : \A y \in range : x <= y
    BY <1>4, <2>2, Smallest
  <2>5. Max(range) \in range /\ \A y \in range : Max(range) >= y
    <3>1. \E x \in range : \A y \in range : x >= y
      BY <1>4, <2>3
    <3> QED BY <3>1 DEF Max
  <2>6. Min(range) \in range /\ \A y \in range : Min(range) <= y
    BY <2>4 DEF Min
  <2>7. Max(range) \in Nat /\ Min(range) \in Nat /\ Min(range) <= Max(range)
    BY <1>4, <2>5, <2>6
  <2> QED BY <2>7
<1> HIDE DEF v, bound
<1>8. n >= 2 => RoundedRoot(n, bound)[v] \in Nat
  BY <1>2, <1>6, <1>7, RootType
<1>9. r.blocked = reason /\ r.successes = n /\ r.total = Len(records)
  BY <1>1
<1>10. n # 0 => r.mean \in Nat
  BY <1>1, <1>5
<1>11. r.jitter \in Nat \cup {Null}
  BY <1>1, <1>2, <1>8
<1> QED BY <1>9, <1>10, <1>11 DEF r, times

-----------------------------------------------------------------------------
(***************************************************************************)
(* Scores.                                                                 *)
(***************************************************************************)
\* A result with an answer.
Scorable(r) ==
    /\ r.successes \in Nat \ {0}
    /\ r.total \in Nat \ {0}
    /\ r.mean \in Nat
    /\ r.jitter \in Nat \cup {Null}

\* Each part of a score is at most its weight, and reliability at most half of its own
\* when no more than half of the attempts were answered.
LEMMA PartsBounded ==
    ASSUME NEW r, Scorable(r)
    PROVE  /\ ReliabilityPart(r) \in Int
           /\ 2 * r.successes <= r.total => ReliabilityPart(r) <= 30000
           /\ LatencyPart(r) \in Int /\ LatencyPart(r) <= 25000
           /\ StabilityPart(r) \in Int /\ StabilityPart(r) <= 15000
<1> USE DEF Scorable
<1>1. /\ ReliabilityPart(r) \in Int
      /\ 2 * r.successes <= r.total => ReliabilityPart(r) <= 30000
  <2>1. (60000 * r.successes) \div r.total \in Int
    OBVIOUS
  <2>2. ASSUME 2 * r.successes <= r.total
        PROVE  (60000 * r.successes) \div r.total <= 30000
    <3>1. 60000 * r.successes \in Int /\ 60000 * r.successes <= 30000 * r.total
      BY <2>2
    <3> QED BY <3>1, QuotientAtMost
  <2> QED BY <2>1, <2>2 DEF ReliabilityPart
<1>2. LatencyPart(r) \in Int /\ LatencyPart(r) <= 25000
  BY DEF LatencyPart, Excellent, Unusable
<1>3. StabilityPart(r) \in Int /\ StabilityPart(r) <= 15000
  <2>1. CASE r.mean = 0
    BY <2>1 DEF StabilityPart
  <2>2. CASE r.mean # 0 /\ r.jitter = Null
    BY <2>2 DEF StabilityPart
  <2>3. CASE r.mean # 0 /\ r.jitter # Null
    <3> DEFINE least == Min({r.jitter, r.mean})
    <3>1. least \in Nat
      <4>1. {r.jitter, r.mean} \in SUBSET Nat /\ {r.jitter, r.mean} # {}
        BY <2>3
      <4>2. \E x \in {r.jitter, r.mean} : \A y \in {r.jitter, r.mean} : x <= y
        BY <4>1, Smallest
      <4>3. least \in {r.jitter, r.mean}
        BY <4>2 DEF Min
      <4> QED BY <4>1, <4>3
    <3>2. StabilityPart(r) = (15000 * (r.mean - least)) \div r.mean
      BY <2>3 DEF StabilityPart
    <3> HIDE DEF least
    <3>3. 15000 * (r.mean - least) \in Int /\ 15000 * (r.mean - least) <= 15000 * r.mean
      BY <3>1
    <3> QED BY <2>3, <3>2, <3>3, QuotientAtMost
  <2> QED BY <2>1, <2>2, <2>3
<1> QED BY <1>1, <1>2, <1>3

\* Half of the attempts are not enough for good.
LEMMA ScoreFacts ==
    ASSUME NEW r, Scorable(r)
    PROVE  /\ Score(r) \in Int
           /\ 2 * r.successes <= r.total => Score(r) < 750
<1> DEFINE parts == ReliabilityPart(r) + LatencyPart(r) + StabilityPart(r)
<1>1. parts \in Int /\ (2 * r.successes <= r.total => parts <= 70000)
  BY PartsBounded
<1>2. Score(r) = (2 * parts + 100) \div 200
  BY DEF Score, RoundDiv, Scorable
<1> HIDE DEF parts
<1>3. (2 * parts + 100) \div 200 \in Int
  BY <1>1
<1>4. parts <= 70000 => (2 * parts + 100) \div 200 < 750
  BY <1>1
<1> QED BY <1>1, <1>2, <1>3, <1>4

-----------------------------------------------------------------------------
(***************************************************************************)
(* The lists that are made of sets.                                        *)
(***************************************************************************)
\* Places are listed from the first to the last.
LEMMA PlacesFacts ==
    ASSUME NEW S \in SUBSET Nat, IsFiniteSet(S)
    PROVE  ListsAll(Places(S), S)
<1> DEFINE R == {p \in Nat \X Nat : p[1] < p[2]}
           f == Places(S)
<1>1. StrictOrder(R, S)
  BY DEF StrictOrder
<1>2. \A a \in S : {b \in S : b < a} = {b \in S : <<b, a>> \in R}
  OBVIOUS
<1> HIDE DEF R
<1>3. f = Listing(S, R)
  <2>1. f = [k \in 1..Cardinality(S) |->
               CHOOSE a \in S : Cardinality({b \in S : b < a}) = k - 1]
    BY DEF Places, Ordered
  <2>2. ASSUME NEW k
        PROVE  (CHOOSE a \in S : Cardinality({b \in S : b < a}) = k - 1)
                 = CHOOSE a \in S : Cardinality({b \in S : <<b, a>> \in R}) = k - 1
    BY <1>2
  <2> QED BY <2>1, <2>2 DEF Listing
<1> HIDE DEF f
<1>4. ListsAll(Listing(S, R), S)
  BY <1>1, InOrder
<1> QED BY <1>3, <1>4 DEF f

\* What has been scored, and with an answer, is in an order.
Comparable(S) ==
    /\ \A a \in S : /\ a.score \in Int /\ a.latency \in Nat
                    /\ a.target \in Indices /\ targets[a.target].id \in Nat
    /\ \A a, b \in S : targets[a.target].id = targets[b.target].id => a = b

\* A ranking is of all that was scored, each once.
LEMMA RankFacts ==
    ASSUME NEW S, IsFiniteSet(S), Comparable(S)
    PROVE  ListsAll(Rank(S), S)
<1> DEFINE R == {p \in S \X S : Before(p[1], p[2])}
           f == Rank(S)
<1>1. StrictOrder(R, S)
  <2>1. \A a \in S : <<a, a>> \notin R
    BY DEF Comparable, Before
  <2>2. ASSUME NEW a \in S, NEW b \in S, NEW c \in S, <<a, b>> \in R, <<b, c>> \in R
        PROVE  <<a, c>> \in R
    BY <2>2 DEF Comparable, Before
  <2>3. ASSUME NEW a \in S, NEW b \in S, a # b
        PROVE  <<a, b>> \in R \/ <<b, a>> \in R
    BY <2>3 DEF Comparable, Before
  <2> QED BY <2>1, <2>2, <2>3 DEF StrictOrder
<1>2. \A a \in S : {b \in S : Before(b, a)} = {b \in S : <<b, a>> \in R}
  OBVIOUS
<1> HIDE DEF R
<1>3. f = Listing(S, R)
  <2>1. f = [k \in 1..Cardinality(S) |->
               CHOOSE a \in S : Cardinality({b \in S : Before(b, a)}) = k - 1]
    BY DEF Rank, Ordered
  <2>2. ASSUME NEW k
        PROVE  (CHOOSE a \in S : Cardinality({b \in S : Before(b, a)}) = k - 1)
                 = CHOOSE a \in S : Cardinality({b \in S : <<b, a>> \in R}) = k - 1
    BY <1>2
  <2> QED BY <2>1, <2>2 DEF Listing
<1> HIDE DEF f
<1>4. ListsAll(Listing(S, R), S)
  BY <1>1, InOrder
<1> QED BY <1>3, <1>4 DEF f

\* The lesser of two.
LEMMA MinOfTwo ==
    ASSUME NEW a \in Int, NEW b \in Int
    PROVE  Min({a, b}) = IF a <= b THEN a ELSE b
<1> DEFINE m == IF a <= b THEN a ELSE b
<1>1. m \in {a, b} /\ \A y \in {a, b} : m <= y
  OBVIOUS
<1>2. Min({a, b}) \in {a, b} /\ \A y \in {a, b} : Min({a, b}) <= y
  BY <1>1 DEF Min
<1> QED BY <1>2

\* The greater of two.
LEMMA MaxOfTwo ==
    ASSUME NEW a \in Int, NEW b \in Int
    PROVE  Max({a, b}) = IF a >= b THEN a ELSE b
<1> DEFINE m == IF a >= b THEN a ELSE b
<1>1. m \in {a, b} /\ \A y \in {a, b} : m >= y
  OBVIOUS
<1>2. Max({a, b}) \in {a, b} /\ \A y \in {a, b} : Max({a, b}) >= y
  BY <1>1 DEF Max
<1> QED BY <1>2

\* What is probed can be told apart by its numbers: nothing is probed twice.
LEMMA ToTargetsFacts ==
    ASSUME NEW q \in Lists
    PROVE  /\ ToTargets(q) \in Seq(Candidates)
           /\ \A i, j \in 1..Len(ToTargets(q)) : ToTargets(q)[i].id = ToTargets(q)[j].id => i = j
<1> DEFINE fresh == {i \in 1..Len(q) :
                       /\ Trim(q[i]) # Blank
                       /\ \A j \in 1..(i - 1) : Trim(q[j]) # Trim(q[i])}
           n == Min({Cardinality(fresh), MaxTargets})
           place == Places(fresh)
           out == ToTargets(q)
<1>1. out = [k \in 1..n |-> Trim(q[place[k]])]
  BY DEF ToTargets
<1>2. Len(q) \in Nat /\ \A i \in 1..Len(q) : q[i] \in [address : Candidates \cup {Blank}, padded : BOOLEAN]
  BY ProbingAssumption, LenProperties, ElementOfSeq
<1>3. /\ fresh \in SUBSET Nat /\ IsFiniteSet(fresh)
      /\ \A i \in fresh : i \in 1..Len(q) /\ Trim(q[i]) \in Candidates
      /\ \A i, j \in fresh : Trim(q[i]) = Trim(q[j]) => i = j
  <2>1. IsFiniteSet(1..Len(q)) /\ fresh \in SUBSET (1..Len(q))
    BY <1>2, FS_Interval
  <2>2. IsFiniteSet(fresh)
    BY <2>1, FS_Subset
  <2>3. \A i \in fresh : i \in Nat /\ i \in 1..Len(q) /\ Trim(q[i]) \in Candidates
    BY <1>2 DEF Trim
  <2>4. ASSUME NEW i \in fresh, NEW j \in fresh, i < j
        PROVE  Trim(q[i]) # Trim(q[j])
    BY <2>3, <2>4
  <2> HIDE DEF fresh
  <2>5. \A i, j \in fresh : Trim(q[i]) = Trim(q[j]) => i = j
    BY <2>3, <2>4
  <2> QED BY <2>2, <2>3, <2>5
<1>4. \A i, j \in fresh : Trim(q[i]).id = Trim(q[j]).id => i = j
  <2> SUFFICES ASSUME NEW i \in fresh, NEW j \in fresh, Trim(q[i]).id = Trim(q[j]).id
               PROVE  Trim(q[i]) = Trim(q[j])
    BY <1>3
  <2>1. q[i].address # Blank /\ q[j].address # Blank
    BY <1>3, ProbingAssumption DEF Trim
  <2> QED BY <1>3, <2>1, ProbingAssumption DEF Trim
<1> HIDE DEF fresh, out
<1>5. ListsAll(place, fresh)
  BY <1>3, PlacesFacts
<1> HIDE DEF place
<1>6. n \in Nat /\ \A k \in 1..n : k \in 1..Cardinality(fresh) /\ place[k] \in fresh
  <2>1. Cardinality(fresh) \in Nat /\ MaxTargets \in Nat
    BY <1>3, FS_CardinalityType, ProbingAssumption
  <2>2. n \in Nat /\ n <= Cardinality(fresh)
    BY <2>1, MinOfTwo
  <2> HIDE DEF n
  <2> QED BY <1>5, <2>1, <2>2 DEF ListsAll
<1> HIDE DEF n
<1>7. \A k \in 1..n : out[k] \in Candidates
  BY <1>1, <1>3, <1>6
<1>8. out \in Seq(Candidates) /\ Len(out) = n
  <2>1. out \in [1..n -> Candidates]
    BY <1>1, <1>7
  <2> QED BY <1>6, <2>1
<1>9. \A i, j \in 1..n : out[i].id = out[j].id => i = j
  <2> SUFFICES ASSUME NEW i \in 1..n, NEW j \in 1..n, out[i].id = out[j].id
               PROVE  i = j
    OBVIOUS
  <2>1. place[i] = place[j]
    BY <1>1, <1>4, <1>6
  <2> QED BY <1>5, <1>6, <2>1 DEF ListsAll
<1> QED BY <1>8, <1>9 DEF out

-----------------------------------------------------------------------------
(***************************************************************************)
(* A run: what holds while the pool works, and when it has answered.       *)
(***************************************************************************)
WorkerSteps == {"idle", "connecting", "opening", "closing", "done"}

Fates == {"pending", "opened", "refused", "late"}

Busy(w) == worker[w].at \in {"connecting", "opening", "closing"}

\* Nothing is connected to.
NotProbed(a) == a.form = "junk" \/ Reason(a) # Null

RunTyped ==
    /\ targets \in Seq(Candidates)
    /\ \A i, j \in Indices : targets[i].id = targets[j].id => i = j
    /\ attempts \in Nat \ {0}
    /\ next \in Nat \ {0}
    /\ worker \in [1..Concurrency -> [at : WorkerSteps, target : Nat, records : Seq([ok : BOOLEAN, ms : Nat])]]
    /\ sockets \subseteq {w \in 1..Concurrency : Busy(w)}
    /\ fate \in [Indices -> Seq(Fates)]
    /\ DOMAIN results = Indices

\* What a worker x noted of its target is what became of the connections.
Underway(x, became) ==
    LET n == Len(x.records) IN
    /\ Len(became) = n + (IF x.at = "opening" THEN 1 ELSE 0)
    /\ IF x.at = "closing" THEN n \in 1..attempts ELSE n < attempts
    /\ \A k \in 1..n : x.records[k].ok <=> became[k] = "opened"
    /\ x.at = "opening" => became[n + 1] # "opened"

\* The target has its result, and what that says is what happened.
Judged(i) ==
    LET r == results[i] IN
    /\ r.successes = Opened(i)
    /\ (fate[i] = <<>>) <=> NotProbed(targets[i])
    /\ (r.blocked # Null) <=> (targets[i].form # "junk" /\ NotProbed(targets[i]))
    /\ r.blocked = Null => r.total = attempts
    /\ r.successes # 0 => r.mean \in Nat /\ r.jitter \in Nat \cup {Null}

\* Each target is with one worker or judged, from the first to the next.
Handed ==
    /\ \A w \in 1..Concurrency : Busy(w) =>
         LET i == worker[w].target IN
         /\ w \in Workers
         /\ i \in Indices /\ i < next /\ ~NotProbed(targets[i])
         /\ Underway(worker[w], fate[i])
    /\ \A v, w \in 1..Concurrency :
         Busy(v) /\ Busy(w) /\ worker[v].target = worker[w].target => v = w
    /\ \A w \in 1..Concurrency : worker[w].at = "done" => next > Len(targets)
    /\ \A i \in Indices :
         IF i < next THEN (\E w \in 1..Concurrency : Busy(w) /\ worker[w].target = i) \/ Judged(i)
                     ELSE fate[i] = <<>>

Finished == targets = <<>> \/ \A w \in Workers : worker[w].at = "done"

Reported == report # Null => Finished /\ ReportTruthful /\ UnreliableNeverGood

\* The inductive form of RunIsSound.
RunInv == RunTyped /\ Handed /\ Reported /\ (report = Null => summary = Null)

\* What Handed says of a worker that is busy.
LEMMA BusyFacts ==
    ASSUME RunTyped, Handed, NEW w \in 1..Concurrency, Busy(w)
    PROVE  /\ w \in Workers /\ worker[w].at \in WorkerSteps
           /\ worker[w].target \in Indices /\ worker[w].target < next
           /\ ~NotProbed(targets[worker[w].target])
           /\ worker[w].records \in Attempts
           /\ Underway(worker[w], fate[worker[w].target])
           /\ fate[worker[w].target] \in Seq(Fates)
BY DEF RunTyped, Handed, Attempts

\* A busy worker keeps the run from being finished.
LEMMA NotFinished ==
    ASSUME RunInv, NEW w \in 1..Concurrency, Busy(w)
    PROVE  report = Null
<1>1. w \in Workers /\ worker[w].target \in Indices
  BY BusyFacts DEF RunInv
<1>2. targets # <<>>
  BY <1>1 DEF Indices
<1> QED BY <1>1, <1>2 DEF RunInv, Reported, Finished, Busy

\* A busy worker that stays so may change what it and its target are at, and its socket.
LEMMA OwnStep ==
    ASSUME RunTyped, Handed, NEW w \in 1..Concurrency, Busy(w), NEW x, NEW f,
           UNCHANGED <<inputVars, next, results>>,
           x \in [at : {"connecting", "opening", "closing"}, target : {worker[w].target}, records : Attempts],
           worker' = [worker EXCEPT ![w] = x],
           f \in Seq(Fates), fate' = [fate EXCEPT ![worker[w].target] = f],
           Underway(x, f), sockets' \subseteq sockets \cup {w}
    PROVE  RunTyped' /\ Handed'
<1> DEFINE t == worker[w].target
<1>1. /\ targets' = targets /\ attempts' = attempts /\ next' = next /\ results' = results
      /\ Indices' = Indices /\ Workers' = Workers
  BY DEF inputVars, Indices, Workers
<1>2. /\ w \in Workers /\ t \in Indices /\ t \in Nat /\ t < next /\ ~NotProbed(targets[t])
  BY BusyFacts DEF RunTyped
<1>3. /\ worker \in [1..Concurrency -> [at : WorkerSteps, target : Nat, records : Attempts]]
      /\ fate \in [Indices -> Seq(Fates)]
  BY DEF RunTyped, Attempts
<1>4. /\ worker'[w] = x /\ \A v \in 1..Concurrency : v # w => worker'[v] = worker[v]
      /\ fate'[t] = f /\ \A i \in Indices : i # t => fate'[i] = fate[i]
  BY <1>2, <1>3
<1>5. /\ Busy(w)' /\ worker'[w].target = t
      /\ \A v \in 1..Concurrency : v # w => (Busy(v)' <=> Busy(v))
      /\ \A v \in 1..Concurrency : worker'[v].target = worker[v].target
  BY <1>4 DEF Busy
<1>6. \A v \in 1..Concurrency : Busy(v) /\ v # w => worker[v].target # t
  BY DEF Handed
<1>7. RunTyped'
  <2>1. worker' \in [1..Concurrency -> [at : WorkerSteps, target : Nat, records : Attempts]]
    <3>1. x \in [at : WorkerSteps, target : Nat, records : Attempts]
      BY <1>2 DEF WorkerSteps
    <3> QED BY <1>3, <3>1
  <2>2. fate' \in [Indices -> Seq(Fates)]
    BY <1>3
  <2>3. sockets' \subseteq {v \in 1..Concurrency : Busy(v)'}
    BY <1>5 DEF RunTyped
  <2> QED BY <1>1, <2>1, <2>2, <2>3 DEF RunTyped, Attempts
<1>8. ASSUME NEW v \in 1..Concurrency, Busy(v)'
      PROVE  /\ v \in Workers /\ worker'[v].target \in Indices /\ worker'[v].target < next
             /\ ~NotProbed(targets[worker'[v].target])
             /\ Underway(worker'[v], fate'[worker'[v].target])
  <2>1. CASE v = w
    BY <1>2, <1>4, <1>5, <2>1
  <2>2. CASE v # w
    <3>1. Busy(v) /\ worker'[v] = worker[v] /\ worker[v].target # t
      BY <1>4, <1>5, <1>6, <1>8, <2>2
    <3> HIDE DEF Busy
    <3>2. worker[v].target \in Indices
      BY <3>1, BusyFacts
    <3> QED BY <1>4, <3>1, <3>2, BusyFacts
  <2> QED BY <2>1, <2>2
<1>9. ASSUME NEW u \in 1..Concurrency, NEW v \in 1..Concurrency,
             Busy(u)', Busy(v)', worker'[u].target = worker'[v].target
      PROVE  u = v
  BY <1>5, <1>9 DEF Handed
<1>10. ASSUME NEW v \in 1..Concurrency, worker'[v].at = "done"
       PROVE  next > Len(targets)
  BY <1>4, <1>10 DEF Handed
<1>11. ASSUME NEW i \in Indices
       PROVE  IF i < next THEN (\E v \in 1..Concurrency : Busy(v)' /\ worker'[v].target = i) \/ Judged(i)'
                          ELSE fate'[i] = <<>>
  <2>1. CASE i = t
    BY <1>2, <1>5, <2>1
  <2>2. CASE i # t
    <3>1. fate'[i] = fate[i]
      BY <1>4, <2>2
    <3>2. Judged(i)' <=> Judged(i)
      BY <1>1, <3>1 DEF Judged, Opened
    <3>3. IF i < next THEN (\E v \in 1..Concurrency : Busy(v) /\ worker[v].target = i) \/ Judged(i)
                      ELSE fate[i] = <<>>
      BY DEF Handed
    <3>4. ASSUME NEW v \in 1..Concurrency, Busy(v), worker[v].target = i
          PROVE  Busy(v)' /\ worker'[v].target = i
      BY <1>5, <2>2, <3>4
    <3> QED BY <3>1, <3>2, <3>3, <3>4
  <2> QED BY <2>1, <2>2
<1>12. ASSUME NEW v \in 1..Concurrency, Busy(v)'
       PROVE  Underway(worker[v], fate[worker[v].target])'
  <2>1. Underway(worker'[v], fate'[worker'[v].target])
    BY <1>8, <1>12
  <2> QED BY <1>1, <2>1 DEF Underway
<1>13. Handed'
  <2> HIDE DEF t
  <2>1. \A v \in 1..Concurrency : Busy(v)' =>
          /\ v \in Workers' /\ worker'[v].target \in Indices' /\ worker'[v].target < next'
          /\ ~NotProbed(targets'[worker'[v].target])
          /\ Underway(worker[v], fate[worker[v].target])'
    BY <1>1, <1>8, <1>12
  <2>2. \A v \in 1..Concurrency : worker'[v].at = "done" => next' > Len(targets')
    BY <1>1, <1>10
  <2>3. \A i \in Indices' :
          IF i < next' THEN (\E v \in 1..Concurrency : Busy(v)' /\ worker'[v].target = i) \/ Judged(i)'
                       ELSE fate'[i] = <<>>
    BY <1>1, <1>11
  <2>4. \A u, v \in 1..Concurrency : Busy(u)' /\ Busy(v)' /\ worker'[u].target = worker'[v].target => u = v
    BY <1>9
  <2> QED BY <2>1, <2>2, <2>3, <2>4 DEF Handed
<1> QED BY <1>7, <1>13

\* What is appended comes last, and changes nothing before it.
LEMMA AppendFacts ==
    ASSUME NEW S, NEW b \in Seq(S), NEW e \in S
    PROVE  /\ Len(b) \in Nat
           /\ Append(b, e) \in Seq(S) /\ Len(Append(b, e)) = Len(b) + 1
           /\ Append(b, e)[Len(b) + 1] = e
           /\ \A k \in 1..Len(b) : Append(b, e)[k] = b[k]
BY AppendProperties, LenProperties

\* What a worker is at, of its target, when an attempt has come to something.
Noted(x, record) == [at |-> "closing", target |-> x.target, records |-> Append(x.records, record)]

\* An attempt that was under way and is settled.
LEMMA AttemptSettled ==
    ASSUME RunTyped, NEW x, x \in [at : {"opening"}, target : Nat, records : Attempts],
           NEW before \in Seq(Fates), Underway(x, before),
           NEW record \in [ok : BOOLEAN, ms : Nat], NEW f \in Seq(Fates),
           Len(f) = Len(before), \A k \in 1..(Len(before) - 1) : f[k] = before[k],
           record.ok <=> f[Len(before)] = "opened"
    PROVE  /\ Noted(x, record) \in [at : {"closing"}, target : {x.target}, records : Attempts]
           /\ Underway(Noted(x, record), f)
<1> DEFINE y == Noted(x, record)
           n == Len(x.records)
<1>1. /\ n \in Nat /\ attempts \in Nat /\ n < attempts /\ Len(before) = n + 1
      /\ \A k \in 1..n : x.records[k].ok <=> before[k] = "opened"
  BY LenProperties DEF Underway, RunTyped, Attempts
<1>2. /\ Append(x.records, record) \in Attempts
      /\ Len(Append(x.records, record)) = n + 1
      /\ \A k \in 1..n : Append(x.records, record)[k] = x.records[k]
      /\ Append(x.records, record)[n + 1] = record
  BY AppendProperties DEF Attempts
<1>3. y = [at |-> "closing", target |-> x.target, records |-> Append(x.records, record)]
  BY DEF Noted
<1>4. y \in [at : {"closing"}, target : {x.target}, records : Attempts]
  BY <1>2, <1>3
<1>5. y.at = "closing" /\ y.records = Append(x.records, record)
  BY <1>3
<1> HIDE DEF y
<1>6. \A k \in 1..(n + 1) : y.records[k].ok <=> f[k] = "opened"
  <2> TAKE k \in 1..(n + 1)
  <2>1. CASE k = n + 1
    BY <1>1, <1>2, <1>5, <2>1
  <2>2. CASE k # n + 1
    <3>1. k \in 1..n /\ k \in 1..(Len(before) - 1)
      BY <1>1, <2>2
    <3> QED BY <1>1, <1>2, <1>5, <3>1
  <2> QED BY <2>1, <2>2
<1>7. Underway(y, f)
  <2>1. Len(y.records) = n + 1 /\ n + 1 \in 1..attempts /\ Len(f) = n + 1
    BY <1>1, <1>2, <1>5
  <2> QED BY <1>5, <1>6, <2>1 DEF Underway
<1> QED BY <1>4, <1>7 DEF y

\* The steps of a worker that is at a target and stays there.
PoolKept == UNCHANGED <<inputVars, next, results, reportVars>>

\* A connection is begun.
LEMMA ConnectKeeps ==
    ASSUME RunTyped, Handed, NEW w \in 1..Concurrency, Connect(w)
    PROVE  Busy(w) /\ PoolKept /\ RunTyped' /\ Handed'
<1> DEFINE t == worker[w].target
           x == [worker[w] EXCEPT !.at = "opening"]
           f == Append(fate[t], "pending")
<1>1. Busy(w) /\ PoolKept
  BY DEF Connect, Busy, PoolKept
<1>2. /\ worker[w] \in [at : WorkerSteps, target : Nat, records : Attempts] /\ worker[w].at = "connecting"
      /\ Underway(worker[w], fate[t]) /\ fate[t] \in Seq(Fates)
  BY <1>1, BusyFacts DEF Connect, RunTyped, Attempts
<1>3. /\ x = [at |-> "opening", target |-> t, records |-> worker[w].records]
      /\ x \in [at : {"connecting", "opening", "closing"}, target : {t}, records : Attempts]
  BY <1>2
<1>4. /\ f \in Seq(Fates) /\ Len(f) = Len(fate[t]) + 1 /\ Len(fate[t]) \in Nat
      /\ f[Len(fate[t]) + 1] = "pending" /\ \A k \in 1..Len(fate[t]) : f[k] = fate[t][k]
  <2>1. "pending" \in Fates
    BY DEF Fates
  <2> QED BY <1>2, <2>1, AppendFacts
<1>5. Underway(x, f)
  BY <1>2, <1>3, <1>4 DEF Underway
<1>6. /\ worker' = [worker EXCEPT ![w] = x]
      /\ fate' = [fate EXCEPT ![t] = f]
      /\ sockets' \subseteq sockets \cup {w}
      /\ UNCHANGED <<inputVars, next, results>>
  BY DEF Connect
<1> HIDE DEF x, f, t
<1>7. RunTyped' /\ Handed'
  BY <1>1, <1>3, <1>5, <1>4, <1>6, OwnStep DEF t
<1> QED BY <1>1, <1>7

\* When the attempt is settled, whatever its connection became.
LEMMA SettleKeeps ==
    ASSUME RunTyped, Handed, NEW w \in 1..Concurrency, worker[w].at = "opening", PoolKept,
           NEW record \in [ok : BOOLEAN, ms : Nat], Settle(w, record), UNCHANGED sockets,
           NEW f \in Seq(Fates), fate' = [fate EXCEPT ![worker[w].target] = f],
           Len(f) = Len(fate[worker[w].target]),
           \A k \in 1..(Len(f) - 1) : f[k] = fate[worker[w].target][k],
           record.ok <=> f[Len(f)] = "opened"
    PROVE  Busy(w) /\ PoolKept /\ RunTyped' /\ Handed'
<1> DEFINE t == worker[w].target
           x == Noted(worker[w], record)
<1>1. Busy(w)
  BY DEF Busy
<1>2. /\ worker[w] \in [at : WorkerSteps, target : Nat, records : Attempts]
      /\ Underway(worker[w], fate[t]) /\ fate[t] \in Seq(Fates)
  BY <1>1, BusyFacts DEF RunTyped, Attempts
<1>3. /\ worker[w] \in [at : {"opening"}, target : Nat, records : Attempts]
  BY <1>2
<1>4. /\ x \in [at : {"closing"}, target : {t}, records : Attempts]
      /\ Underway(x, f)
  <2> HIDE DEF t, x
  <2>1. t = worker[w].target
    BY DEF t
  <2>2. /\ Len(f) = Len(fate[t])
        /\ \A k \in 1..(Len(fate[t]) - 1) : f[k] = fate[t][k]
        /\ record.ok <=> f[Len(fate[t])] = "opened"
    BY DEF t
  <2>3. /\ Noted(worker[w], record) \in [at : {"closing"}, target : {worker[w].target}, records : Attempts]
        /\ Underway(Noted(worker[w], record), f)
    BY <1>2, <1>3, <2>2, AttemptSettled
  <2> QED BY <2>1, <2>3 DEF x
<1>5. x \in [at : {"connecting", "opening", "closing"}, target : {t}, records : Attempts]
  BY <1>4
<1>6. worker' = [worker EXCEPT ![w] = x]
  BY DEF Settle, Noted
<1>7. sockets' \subseteq sockets \cup {w} /\ UNCHANGED <<inputVars, next, results>>
  BY DEF PoolKept
<1> HIDE DEF x
<1>8. RunTyped' /\ Handed'
  BY <1>1, <1>4, <1>5, <1>6, <1>7, OwnStep
<1> QED BY <1>1, <1>8

\* Only the last is replaced.
LEMMA LastChanged ==
    ASSUME NEW b \in Seq(Fates), Len(b) # 0, NEW e \in Fates
    PROVE  /\ [b EXCEPT ![Len(b)] = e] \in Seq(Fates)
           /\ Len([b EXCEPT ![Len(b)] = e]) = Len(b)
           /\ [b EXCEPT ![Len(b)] = e][Len(b)] = e
           /\ \A k \in 1..(Len(b) - 1) : [b EXCEPT ![Len(b)] = e][k] = b[k]
<1> DEFINE n == Len(b)
           c == [b EXCEPT ![n] = e]
<1>1. n \in Nat \ {0} /\ b \in [1..n -> Fates]
  BY LenProperties
<1> HIDE DEF n
<1>2. c \in [1..n -> Fates] /\ c[n] = e /\ \A k \in 1..(n - 1) : c[k] = b[k]
  BY <1>1
<1> HIDE DEF c
<1>3. c \in Seq(Fates) /\ Len(c) = n
  BY <1>1, <1>2 DEF n
<1> QED BY <1>2, <1>3 DEF c, n

\* The connection an attempt is waiting for has not been answered in time yet.
LEMMA OpeningFacts ==
    ASSUME RunTyped, Handed, NEW w \in 1..Concurrency, worker[w].at = "opening"
    PROVE  /\ worker[w].target \in Indices
           /\ fate \in [Indices -> Seq(Fates)]
           /\ fate[worker[w].target] \in Seq(Fates)
           /\ Len(fate[worker[w].target]) \in Nat \ {0}
           /\ fate[worker[w].target][Len(fate[worker[w].target])] # "opened"
<1>1. Busy(w)
  BY DEF Busy
<1>2. Len(worker[w].records) \in Nat
  BY <1>1, BusyFacts, LenProperties DEF Attempts
<1>3. Underway(worker[w], fate[worker[w].target])
  BY <1>1, BusyFacts
<1>4. Len(fate[worker[w].target]) = Len(worker[w].records) + 1
  BY <1>3 DEF Underway
<1>5. fate[worker[w].target][Len(worker[w].records) + 1] # "opened"
  BY <1>3 DEF Underway
<1> QED BY <1>1, <1>2, <1>4, <1>5, BusyFacts DEF RunTyped

\* A connection is opened, refused or given up.
LEMMA AnswerKeeps ==
    ASSUME RunTyped, Handed, NEW w \in 1..Concurrency,
           Refuses(w) \/ TimesOut(w) \/ \E ms \in Latencies : Opens(w, ms)
    PROVE  Busy(w) /\ PoolKept /\ RunTyped' /\ Handed'
<1> DEFINE t == worker[w].target
           b == fate[t]
<1>0. worker[w].at = "opening" /\ PoolKept /\ UNCHANGED sockets
  BY DEF Refuses, TimesOut, Opens, PoolKept
<1>1. /\ t \in Indices /\ fate \in [Indices -> Seq(Fates)]
      /\ b \in Seq(Fates) /\ Len(b) \in Nat \ {0} /\ b[Len(b)] # "opened"
  BY <1>0, OpeningFacts
<1>2. Failed \in [ok : BOOLEAN, ms : Nat] /\ Failed.ok = FALSE
  BY DEF Failed
<1>3. "opened" \in Fates /\ "refused" \in Fates
  BY DEF Fates
<1>4. CASE Refuses(w)
  <2> DEFINE f == [b EXCEPT ![Len(b)] = "refused"]
  <2>1. fate' = [fate EXCEPT ![t] = f] /\ Settle(w, Failed)
    BY <1>4 DEF Refuses, NoteFate
  <2>2. /\ f \in Seq(Fates) /\ Len(f) = Len(b) /\ f[Len(b)] = "refused"
        /\ \A k \in 1..(Len(b) - 1) : f[k] = b[k]
    BY <1>1, <1>3, LastChanged
  <2> HIDE DEF f
  <2>3. /\ \A k \in 1..(Len(f) - 1) : f[k] = fate[worker[w].target][k]
        /\ Failed.ok <=> f[Len(f)] = "opened"
    BY <1>2, <2>2
  <2> QED BY <1>0, <1>2, <2>1, <2>2, <2>3, SettleKeeps
<1>5. CASE TimesOut(w)
  <2>1. fate' = [fate EXCEPT ![t] = b] /\ Settle(w, Failed)
    BY <1>1, <1>5 DEF TimesOut
  <2>2. /\ \A k \in 1..(Len(b) - 1) : b[k] = fate[worker[w].target][k]
        /\ Failed.ok <=> b[Len(b)] = "opened"
    BY <1>1, <1>2
  <2>3. b \in Seq(Fates) /\ Len(b) = Len(fate[worker[w].target])
    BY <1>1
  <2> HIDE DEF b
  <2> QED BY <1>0, <1>2, <2>1, <2>2, <2>3, SettleKeeps
<1>6. CASE \E ms \in Latencies : Opens(w, ms)
  <2>0. PICK ms \in Latencies : Opens(w, ms)
    BY <1>6
  <2> DEFINE f == [b EXCEPT ![Len(b)] = "opened"]
             record == [ok |-> TRUE, ms |-> ms]
  <2>1. fate' = [fate EXCEPT ![t] = f] /\ Settle(w, record)
    BY <2>0 DEF Opens, NoteFate
  <2>2. /\ f \in Seq(Fates) /\ Len(f) = Len(b) /\ f[Len(b)] = "opened"
        /\ \A k \in 1..(Len(b) - 1) : f[k] = b[k]
    BY <1>1, <1>3, LastChanged
  <2>3. record \in [ok : BOOLEAN, ms : Nat] /\ record.ok = TRUE
    <3>1. ms \in Nat
      BY <2>0, ProbingAssumption
    <3> QED BY <3>1
  <2> HIDE DEF f, record
  <2>4. /\ \A k \in 1..(Len(f) - 1) : f[k] = fate[worker[w].target][k]
        /\ record.ok <=> f[Len(f)] = "opened"
    BY <2>2, <2>3
  <2> QED BY <1>0, <2>1, <2>2, <2>3, <2>4, SettleKeeps
<1> QED BY <1>4, <1>5, <1>6

\* A call to connect throws.
LEMMA ThrowsKeeps ==
    ASSUME RunTyped, Handed, NEW w \in 1..Concurrency, Throws(w)
    PROVE  Busy(w) /\ PoolKept /\ RunTyped' /\ Handed'
<1> DEFINE t == worker[w].target
           x == [at |-> "opening", target |-> t, records |-> worker[w].records]
           f == Append(fate[t], "refused")
           y == Noted(worker[w], Failed)
<1>1. Busy(w) /\ PoolKept
  BY DEF Throws, Busy, PoolKept
<1>2. /\ worker[w].at = "connecting" /\ t \in Nat /\ worker[w].records \in Attempts
      /\ Underway(worker[w], fate[t]) /\ fate[t] \in Seq(Fates)
  <2>1. t \in Indices
    BY <1>1, BusyFacts
  <2> QED BY <1>1, <2>1, BusyFacts DEF Throws, Indices
<1>3. x \in [at : {"opening"}, target : Nat, records : Attempts]
  BY <1>2
<1>4. /\ f \in Seq(Fates) /\ Len(f) = Len(fate[t]) + 1 /\ Len(fate[t]) \in Nat
      /\ f[Len(fate[t]) + 1] = "refused" /\ \A k \in 1..Len(fate[t]) : f[k] = fate[t][k]
  <2>1. "refused" \in Fates
    BY DEF Fates
  <2> QED BY <1>2, <2>1, AppendFacts
<1>5. Underway(x, f)
  BY <1>2, <1>3, <1>4 DEF Underway
<1>6. Failed \in [ok : BOOLEAN, ms : Nat] /\ Failed.ok = FALSE
  BY DEF Failed
<1>7. y = Noted(x, Failed) /\ x.target = t
  BY DEF Noted
<1>8. /\ worker' = [worker EXCEPT ![w] = y]
      /\ fate' = [fate EXCEPT ![t] = f]
      /\ sockets' \subseteq sockets \cup {w}
      /\ UNCHANGED <<inputVars, next, results>>
  BY DEF Throws, Settle, Noted
<1> HIDE DEF x, f, y
<1>9. Failed.ok <=> f[Len(f)] = "opened"
  BY <1>4, <1>6
<1>10. y \in [at : {"closing"}, target : {t}, records : Attempts] /\ Underway(y, f)
  <2>1. \A k \in 1..(Len(f) - 1) : f[k] = f[k]
    OBVIOUS
  <2>2. /\ Noted(x, Failed) \in [at : {"closing"}, target : {x.target}, records : Attempts]
        /\ Underway(Noted(x, Failed), f)
    BY <1>3, <1>4, <1>5, <1>6, <1>9, <2>1, AttemptSettled
  <2> QED BY <1>7, <2>2
<1>11. y \in [at : {"connecting", "opening", "closing"}, target : {t}, records : Attempts]
  BY <1>10
<1>12. RunTyped' /\ Handed'
  <2> HIDE DEF t
  <2> QED BY <1>1, <1>4, <1>8, <1>10, <1>11, OwnStep DEF t
<1> QED BY <1>1, <1>12

\* A connection opens after it was given up: nothing its worker noted is changed.
LEMMA OpensLateKeeps ==
    ASSUME RunTyped, Handed, NEW w \in 1..Concurrency, OpensLate(w)
    PROVE  Busy(w) /\ PoolKept /\ RunTyped' /\ Handed'
<1> DEFINE t == worker[w].target
           x == worker[w]
           b == fate[t]
           f == [b EXCEPT ![Len(b)] = "late"]
<1>1. Busy(w) /\ PoolKept
  BY DEF OpensLate, Busy, PoolKept
<1>2. /\ x.at = "closing" /\ t \in Indices /\ x.records \in Attempts
      /\ Underway(x, b) /\ b \in Seq(Fates)
      /\ x \in [at : WorkerSteps, target : Nat, records : Attempts]
  BY <1>1, BusyFacts DEF OpensLate, RunTyped, Attempts
<1>3. /\ Len(x.records) \in Nat /\ Len(b) = Len(x.records) /\ Len(b) \in Nat \ {0} /\ b[Len(b)] = "pending"
  <2>1. Len(x.records) \in Nat
    BY <1>2, LenProperties DEF Attempts
  <2>2. Len(b) = Len(x.records) /\ Len(x.records) \in 1..attempts
    BY <1>2, <2>1 DEF Underway
  <2>3. b[Len(b)] = "pending"
    BY DEF OpensLate, Last
  <2> QED BY <2>1, <2>2, <2>3 DEF RunTyped
<1>4. /\ f \in Seq(Fates) /\ Len(f) = Len(b) /\ f[Len(b)] = "late"
      /\ \A k \in 1..(Len(b) - 1) : f[k] = b[k]
  <2>1. "late" \in Fates
    BY DEF Fates
  <2> QED BY <1>2, <1>3, <2>1, LastChanged
<1>5. /\ worker' = [worker EXCEPT ![w] = x]
      /\ fate' = [fate EXCEPT ![t] = f]
      /\ sockets' \subseteq sockets \cup {w}
      /\ UNCHANGED <<inputVars, next, results>>
  BY DEF OpensLate, NoteFate, RunTyped
<1>6. x \in [at : {"connecting", "opening", "closing"}, target : {t}, records : Attempts]
  BY <1>2
<1> HIDE DEF f
<1>7. \A k \in 1..Len(x.records) : x.records[k].ok <=> f[k] = "opened"
  <2> TAKE k \in 1..Len(x.records)
  <2>1. x.records[k].ok <=> b[k] = "opened"
    BY <1>2 DEF Underway
  <2>2. CASE k = Len(b)
    BY <1>3, <1>4, <2>1, <2>2
  <2>3. CASE k # Len(b)
    <3>1. k \in 1..(Len(b) - 1)
      BY <1>3, <2>3
    <3> QED BY <1>4, <2>1, <3>1
  <2> QED BY <2>2, <2>3
<1>8. Underway(x, f)
  BY <1>2, <1>3, <1>4, <1>7 DEF Underway
<1> HIDE DEF x
<1>9. RunTyped' /\ Handed'
  BY <1>1, <1>4, <1>5, <1>6, <1>8, OwnStep
<1> QED BY <1>1, <1>9

\* What a target is judged by when its attempts are all made, and when there is none.
LEMMA JudgedFacts ==
    ASSUME NEW a, ~NotProbed(a), NEW f \in Seq(Fates), NEW records \in Attempts,
           attempts \in Nat \ {0}, Len(records) = attempts, Len(f) = attempts,
           \A k \in 1..attempts : records[k].ok <=> f[k] = "opened",
           NEW r, r = Result(Null, records)
    PROVE  /\ r.successes = Cardinality({k \in 1..Len(f) : f[k] = "opened"})
           /\ (f = <<>>) <=> NotProbed(a)
           /\ (r.blocked # Null) <=> (a.form # "junk" /\ NotProbed(a))
           /\ r.blocked = Null => r.total = attempts
           /\ r.successes # 0 => r.mean \in Nat /\ r.jitter \in Nat \cup {Null}
<1>1. /\ r.blocked = Null /\ r.total = attempts
      /\ r.successes = Cardinality(Answered(records))
      /\ r.successes # 0 => r.mean \in Nat
      /\ r.jitter \in Nat \cup {Null}
  BY ResultFacts
<1>2. Answered(records) = {k \in 1..Len(f) : f[k] = "opened"}
  BY DEF Answered
<1>3. Len(f) # 0 /\ f # <<>>
  OBVIOUS
<1> QED BY <1>1, <1>2, <1>3

\* What a target that is never connected to is judged by.
LEMMA RefusedFacts ==
    ASSUME NEW a, NotProbed(a), NEW records \in Attempts, NEW reason,
           attempts \in Nat \ {0}, \A k \in 1..Len(records) : ~records[k].ok,
           IF a.form = "junk" THEN reason = Null /\ Len(records) = attempts ELSE reason = Reason(a)
    PROVE  /\ Result(reason, records).successes = 0
           /\ (Result(reason, records).blocked # Null) <=> (a.form # "junk" /\ NotProbed(a))
           /\ Result(reason, records).blocked = Null => Result(reason, records).total = attempts
<1> DEFINE r == Result(reason, records)
<1>1. /\ r.blocked = reason /\ r.total = Len(records)
      /\ r.successes = Cardinality(Answered(records))
  BY ResultFacts
<1>2. Answered(records) = {}
  BY DEF Answered
<1>3. Cardinality(Answered(records)) = 0
  BY <1>2, FS_EmptySet
<1> HIDE DEF r
<1>4. (reason # Null) <=> (a.form # "junk" /\ NotProbed(a))
  BY DEF NotProbed
<1>5. reason = Null => Len(records) = attempts
  BY DEF NotProbed
<1>6. r.successes = 0 /\ (r.blocked = reason) /\ (reason = Null => r.total = attempts)
  BY <1>1, <1>3, <1>5
<1> QED BY <1>4, <1>6 DEF r

\* A socket is closed, and the target judged when that was its last attempt.
LEMMA CloseKeeps ==
    ASSUME RunTyped, Handed, NEW w \in 1..Concurrency, Close(w)
    PROVE  Busy(w) /\ UNCHANGED <<inputVars, reportVars>> /\ RunTyped' /\ Handed'
<1> DEFINE t == worker[w].target
           records == worker[w].records
           f == fate[t]
<1>1. Busy(w) /\ UNCHANGED <<inputVars, next, fate, reportVars>> /\ worker[w].at = "closing"
  BY DEF Close, Busy
<1>2. /\ w \in Workers /\ t \in Indices /\ t \in Nat /\ t < next /\ records \in Attempts
      /\ Underway(worker[w], f) /\ f \in Seq(Fates) /\ ~NotProbed(targets[t])
      /\ worker[w] \in [at : WorkerSteps, target : Nat, records : Attempts]
  BY <1>1, BusyFacts DEF RunTyped, Attempts
<1>3. /\ Len(records) \in Nat /\ Len(f) = Len(records) /\ Len(records) \in 1..attempts
      /\ attempts \in Nat \ {0}
      /\ \A k \in 1..Len(records) : records[k].ok <=> f[k] = "opened"
  <2>1. Len(records) \in Nat
    BY <1>2, LenProperties DEF Attempts
  <2> QED BY <1>1, <1>2, <2>1 DEF Underway, RunTyped
<1>4. CASE Len(records) < attempts
  <2> DEFINE x == [worker[w] EXCEPT !.at = "connecting"]
  <2>1. x = [at |-> "connecting", target |-> t, records |-> records]
    BY <1>2
  <2>2. x \in [at : {"connecting", "opening", "closing"}, target : {t}, records : Attempts]
    BY <1>2, <2>1
  <2>3. /\ worker' = [worker EXCEPT ![w] = x]
        /\ fate' = [fate EXCEPT ![t] = f]
        /\ sockets' \subseteq sockets \cup {w}
        /\ UNCHANGED <<inputVars, next, results>>
    BY <1>4, <1>1, <1>2 DEF Close, RunTyped
  <2>4. Underway(x, f)
    BY <1>3, <1>4, <2>1 DEF Underway
  <2> HIDE DEF x, t, f
  <2>5. RunTyped' /\ Handed'
    BY <1>1, <1>2, <2>2, <2>3, <2>4, OwnStep DEF t
  <2> QED BY <1>1, <2>5
<1>5. CASE ~(Len(records) < attempts)
  <2> DEFINE r == Result(Null, records)
  <2>1. /\ worker' = [worker EXCEPT ![w] = Idle]
        /\ results' = [results EXCEPT ![t] = r]
        /\ sockets' = sockets \ {w}
    BY <1>5 DEF Close
  <2>2. /\ targets' = targets /\ attempts' = attempts /\ next' = next /\ fate' = fate
        /\ Indices' = Indices /\ Workers' = Workers
    BY <1>1 DEF inputVars, Indices, Workers
  <2>3. /\ worker \in [1..Concurrency -> [at : WorkerSteps, target : Nat, records : Attempts]]
        /\ Idle \in [at : WorkerSteps, target : Nat, records : Attempts] /\ Idle.at = "idle"
    BY EmptySeq DEF RunTyped, Attempts, Idle, WorkerSteps
  <2>4. /\ worker'[w].at = "idle" /\ \A v \in 1..Concurrency : v # w => worker'[v] = worker[v]
        /\ ~Busy(w)' /\ \A v \in 1..Concurrency : v # w => (Busy(v)' <=> Busy(v))
    BY <2>1, <2>3 DEF Busy
  <2>5. RunTyped'
    <3>1. worker' \in [1..Concurrency -> [at : WorkerSteps, target : Nat, records : Attempts]]
      BY <2>1, <2>3
    <3>2. sockets' \subseteq {v \in 1..Concurrency : Busy(v)'}
      BY <2>1, <2>4 DEF RunTyped
    <3>3. DOMAIN results' = Indices
      BY <2>1 DEF RunTyped
    <3> QED BY <2>2, <3>1, <3>2, <3>3 DEF RunTyped, Attempts
  <2>6. results'[t] = r /\ \A i \in Indices : i # t => results'[i] = results[i]
    BY <1>2, <2>1 DEF RunTyped
  <2>7. ASSUME NEW i \in Indices, i = t
        PROVE  Judged(i)'
    <3>1. Len(records) = attempts /\ Len(f) = attempts
      BY <1>3, <1>5
    <3>2. \A k \in 1..attempts : records[k].ok <=> f[k] = "opened"
      BY <1>3, <3>1
    <3> DEFINE a == targets[t]
    <3> HIDE DEF r, f, records, a
    <3>3. /\ r.successes = Cardinality({k \in 1..Len(f) : f[k] = "opened"})
          /\ (f = <<>>) <=> NotProbed(a)
          /\ (r.blocked # Null) <=> (a.form # "junk" /\ NotProbed(a))
          /\ r.blocked = Null => r.total = attempts
          /\ r.successes # 0 => r.mean \in Nat /\ r.jitter \in Nat \cup {Null}
      BY <1>2, <1>3, <3>1, <3>2, JudgedFacts DEF r, a
    <3> HIDE DEF t
    <3>4. results'[i] = r /\ fate'[i] = f /\ targets'[i] = a /\ attempts' = attempts
      BY <2>2, <2>6, <2>7 DEF a, f
    <3> QED BY <3>3, <3>4 DEF Judged, Opened
  <2> HIDE DEF r, Idle
  <2>8. ASSUME NEW v \in 1..Concurrency, Busy(v)'
        PROVE  /\ v \in Workers' /\ worker'[v].target \in Indices' /\ worker'[v].target < next'
               /\ ~NotProbed(targets'[worker'[v].target])
               /\ Underway(worker[v], fate[worker[v].target])'
    <3>1. v # w /\ Busy(v) /\ worker'[v] = worker[v]
      BY <2>4, <2>8
    <3>2. /\ v \in Workers /\ worker[v].target \in Indices /\ worker[v].target < next
          /\ ~NotProbed(targets[worker[v].target]) /\ Underway(worker[v], fate[worker[v].target])
      BY <3>1, BusyFacts
    <3>3. Underway(worker[v], fate[worker[v].target])'
      BY <2>2, <3>1, <3>2 DEF Underway
    <3> QED BY <2>2, <3>1, <3>2, <3>3
  <2>9. ASSUME NEW u \in 1..Concurrency, NEW v \in 1..Concurrency,
               Busy(u)', Busy(v)', worker'[u].target = worker'[v].target
        PROVE  u = v
    <3>1. Busy(u) /\ Busy(v) /\ worker'[u] = worker[u] /\ worker'[v] = worker[v]
      BY <2>4, <2>9
    <3> QED BY <2>9, <3>1 DEF Handed
  <2>10. \A v \in 1..Concurrency : worker'[v].at = "done" => next' > Len(targets')
    BY <2>2, <2>4 DEF Handed
  <2>11. ASSUME NEW i \in Indices
         PROVE  IF i < next THEN (\E v \in 1..Concurrency : Busy(v)' /\ worker'[v].target = i) \/ Judged(i)'
                            ELSE fate'[i] = <<>>
    <3>1. CASE i = t
      BY <1>2, <2>7, <3>1
    <3>2. CASE i # t
      <4>1. Judged(i)' <=> Judged(i)
        BY <2>2, <2>6, <3>2 DEF Judged, Opened
      <4>2. IF i < next THEN (\E v \in 1..Concurrency : Busy(v) /\ worker[v].target = i) \/ Judged(i)
                        ELSE fate[i] = <<>>
        BY DEF Handed
      <4>3. ASSUME NEW v \in 1..Concurrency, Busy(v), worker[v].target = i
            PROVE  Busy(v)' /\ worker'[v].target = i
        BY <2>4, <3>2, <4>3
      <4> QED BY <2>2, <4>1, <4>2, <4>3
    <3> QED BY <3>1, <3>2
  <2>12. Handed'
    <3> HIDE DEF t
    <3>1. \A i \in Indices' :
            IF i < next' THEN (\E v \in 1..Concurrency : Busy(v)' /\ worker'[v].target = i) \/ Judged(i)'
                         ELSE fate'[i] = <<>>
      BY <2>2, <2>11
    <3> QED BY <2>8, <2>9, <2>10, <3>1 DEF Handed
  <2> QED BY <1>1, <2>5, <2>12
<1> QED BY <1>4, <1>5

\* There is a worker at least, and never more than the limit.
LEMMA WorkersFacts ==
    ASSUME RunTyped
    PROVE  /\ Concurrency \in Nat \ {0} /\ Len(targets) \in Nat
           /\ Workers \subseteq 1..Concurrency
           /\ Workers = 1..Min({Concurrency, Max({1, Len(targets)})})
           /\ Min({Concurrency, Max({1, Len(targets)})}) \in Nat \ {0}
<1>1. Concurrency \in Nat \ {0} /\ Len(targets) \in Nat
  BY ProbingAssumption, LenProperties DEF RunTyped
<1> DEFINE m == Max({1, Len(targets)})
           n == Min({Concurrency, m})
<1>2. m \in Nat \ {0}
  BY <1>1, MaxOfTwo
<1> HIDE DEF m
<1>3. n \in Nat \ {0} /\ n <= Concurrency
  BY <1>1, <1>2, MinOfTwo
<1>4. Workers = 1..n
  BY DEF Workers, m
<1> HIDE DEF n
<1>5. Workers \subseteq 1..Concurrency
  BY <1>1, <1>3, <1>4
<1> QED BY <1>1, <1>3, <1>4, <1>5 DEF n, m

\* Attempts that were never made count as failed.
LEMMA FailedFacts ==
    ASSUME NEW n \in Nat, NEW records, records = [k \in 1..n |-> Failed]
    PROVE  /\ records \in Attempts /\ Len(records) = n
           /\ \A k \in 1..Len(records) : ~records[k].ok
<1>1. Failed \in [ok : BOOLEAN, ms : Nat] /\ Failed.ok = FALSE
  BY DEF Failed
<1> HIDE DEF Failed
<1>2. records \in [1..n -> [ok : BOOLEAN, ms : Nat]] /\ \A k \in 1..n : records[k] = Failed
  BY <1>1
<1>3. records \in Seq([ok : BOOLEAN, ms : Nat]) /\ Len(records) = n
  BY <1>2
<1> QED BY <1>1, <1>2, <1>3 DEF Attempts

\* The next target is handed to a worker, judged at once, or there is none.
LEMMA TakeNextKeeps ==
    ASSUME RunTyped, Handed, NEW w \in 1..Concurrency, TakeNext(w)
    PROVE  UNCHANGED <<inputVars, reportVars>> /\ RunTyped' /\ Handed'
<1>1. /\ w \in Workers /\ worker[w].at = "idle" /\ ~Busy(w)
      /\ next' = next + 1 /\ next \in Nat \ {0} /\ Len(targets) \in Nat
      /\ targets' = targets /\ attempts' = attempts /\ fate' = fate /\ sockets' = sockets
      /\ Indices' = Indices /\ Workers' = Workers /\ UNCHANGED <<inputVars, reportVars>>
  BY LenProperties DEF TakeNext, inputVars, Indices, Workers, RunTyped, Busy
<1>2. /\ worker \in [1..Concurrency -> [at : WorkerSteps, target : Nat, records : Attempts]]
      /\ fate \in [Indices -> Seq(Fates)] /\ attempts \in Nat \ {0}
  BY DEF RunTyped, Attempts
<1>3. ASSUME NEW v \in 1..Concurrency, Busy(v)
      PROVE  /\ v # w /\ v \in Workers /\ worker[v].target \in Indices /\ worker[v].target < next
             /\ worker[v].target < next'
             /\ ~NotProbed(targets[worker[v].target]) /\ Underway(worker[v], fate[worker[v].target])
  <2>1. /\ v \in Workers /\ worker[v].target \in Indices /\ worker[v].target < next
        /\ ~NotProbed(targets[worker[v].target]) /\ Underway(worker[v], fate[worker[v].target])
    BY <1>3, BusyFacts
  <2>2. worker[v].target < next'
    BY <1>1, <2>1 DEF Indices
  <2> QED BY <1>1, <1>3, <2>1, <2>2
<1>4. \A u, v \in 1..Concurrency :
        Busy(u) /\ Busy(v) /\ worker[u].target = worker[v].target => u = v
  BY DEF Handed
<1>5. \A i \in Indices :
        IF i < next THEN (\E v \in 1..Concurrency : Busy(v) /\ worker[v].target = i) \/ Judged(i)
                    ELSE fate[i] = <<>>
  BY DEF Handed
<1>6. CASE next > Len(targets)
  <2>1. worker' = [worker EXCEPT ![w].at = "done"] /\ results' = results
    BY <1>6 DEF TakeNext
  <2>2. /\ worker' \in [1..Concurrency -> [at : WorkerSteps, target : Nat, records : Attempts]]
        /\ worker'[w].at = "done" /\ \A v \in 1..Concurrency : v # w => worker'[v] = worker[v]
    BY <1>2, <2>1 DEF WorkerSteps
  <2>3. \A v \in 1..Concurrency : /\ Busy(v)' <=> Busy(v)
                                  /\ Busy(v) => worker'[v] = worker[v]
    BY <1>1, <2>2 DEF Busy
  <2>4. RunTyped'
    <3>1. sockets' \subseteq {v \in 1..Concurrency : Busy(v)'}
      BY <1>1, <2>3 DEF RunTyped
    <3> QED BY <1>1, <1>2, <2>1, <2>2, <3>1 DEF RunTyped, Attempts
  <2>5. ASSUME NEW v \in 1..Concurrency, Busy(v)'
        PROVE  /\ v \in Workers' /\ worker'[v].target \in Indices' /\ worker'[v].target < next'
               /\ ~NotProbed(targets'[worker'[v].target])
               /\ Underway(worker[v], fate[worker[v].target])'
    <3>1. Busy(v) /\ worker'[v] = worker[v]
      BY <2>3, <2>5
    <3>2. Underway(worker[v], fate[worker[v].target])'
      BY <1>1, <1>3, <3>1 DEF Underway
    <3> QED BY <1>1, <1>3, <3>1, <3>2
  <2>6. \A u, v \in 1..Concurrency :
          Busy(u)' /\ Busy(v)' /\ worker'[u].target = worker'[v].target => u = v
    BY <1>4, <2>3
  <2>7. ASSUME NEW i \in Indices'
        PROVE  IF i < next' THEN (\E v \in 1..Concurrency : Busy(v)' /\ worker'[v].target = i) \/ Judged(i)'
                            ELSE fate'[i] = <<>>
    <3>1. i \in Indices /\ i < next /\ i < next'
      BY <1>1, <1>6, <2>7 DEF Indices
    <3>2. Judged(i)' <=> Judged(i)
      BY <1>1, <2>1 DEF Judged, Opened
    <3> QED BY <1>5, <2>3, <3>1, <3>2
  <2>8. next' > Len(targets')
    BY <1>1, <1>6
  <2>9. Handed'
    BY <2>5, <2>6, <2>7, <2>8 DEF Handed
  <2> QED BY <1>1, <2>4, <2>9
<1>7. CASE next <= Len(targets) /\ NotProbed(targets[next])
  <2> DEFINE a == targets[next]
             records == IF a.form = "junk" THEN [k \in 1..attempts |-> Failed] ELSE <<>>
             reason == IF a.form = "junk" THEN Null ELSE Reason(a)
             r == Result(reason, records)
  <2>1. worker' = worker /\ results' = [results EXCEPT ![next] = r]
    BY <1>1, <1>7 DEF TakeNext, NotProbed
  <2>2. next \in Indices /\ fate[next] = <<>>
    <3>1. next \in Indices
      BY <1>1, <1>7 DEF Indices
    <3> QED BY <1>1, <1>5, <3>1
  <2>3. /\ records \in Attempts /\ \A k \in 1..Len(records) : ~records[k].ok
        /\ a.form = "junk" => Len(records) = attempts
    <3>1. CASE a.form = "junk"
      <4>1. records = [k \in 1..attempts |-> Failed]
        BY <3>1
      <4> HIDE DEF records
      <4> QED BY <1>2, <4>1, FailedFacts
    <3>2. CASE a.form # "junk"
      <4>1. records = <<>>
        BY <3>2
      <4> HIDE DEF records
      <4> QED BY <3>2, <4>1, EmptySeq DEF Attempts
    <3> QED BY <3>1, <3>2
  <2>4. results'[next] = r /\ \A i \in Indices : i # next => results'[i] = results[i]
    BY <2>1, <2>2 DEF RunTyped
  <2>5. ASSUME NEW i \in Indices, i = next
        PROVE  Judged(i)'
    <3> DEFINE f == fate[i]
    <3>1. NotProbed(a) /\ f = <<>> /\ f \in Seq(Fates)
      BY <1>2, <1>7, <2>2, <2>5
    <3>2. /\ IF a.form = "junk" THEN reason = Null /\ Len(records) = attempts ELSE reason = Reason(a)
          /\ r = Result(reason, records)
      BY <2>3
    <3> HIDE DEF a, records, reason
    <3>3. /\ r.successes = 0
          /\ (r.blocked # Null) <=> (a.form # "junk" /\ NotProbed(a))
          /\ r.blocked = Null => r.total = attempts
      BY <1>2, <2>3, <3>1, <3>2, RefusedFacts
    <3> HIDE DEF r, f
    <3>4. results'[i] = r /\ fate'[i] = f /\ targets'[i] = a /\ attempts' = attempts
      BY <1>1, <2>4, <2>5 DEF a, f
    <3>5. Cardinality({k \in 1..Len(f) : f[k] = "opened"}) = 0
      <4>1. {k \in 1..Len(f) : f[k] = "opened"} = {}
        BY <3>1
      <4> QED BY <4>1, FS_EmptySet
    <3>6. /\ r.successes = Cardinality({k \in 1..Len(f) : f[k] = "opened"})
          /\ (f = <<>>) <=> NotProbed(a)
          /\ r.successes # 0 => r.mean \in Nat /\ r.jitter \in Nat \cup {Null}
      BY <3>1, <3>3, <3>5
    <3> QED BY <3>3, <3>4, <3>6 DEF Judged, Opened
  <2> HIDE DEF r
  <2>6. RunTyped'
    <3>1. DOMAIN results' = Indices
      BY <2>1 DEF RunTyped
    <3>2. sockets' \subseteq {v \in 1..Concurrency : Busy(v)'}
      BY <1>1, <2>1 DEF RunTyped, Busy
    <3> QED BY <1>1, <1>2, <2>1, <3>1, <3>2 DEF RunTyped, Attempts
  <2>7. \A v \in 1..Concurrency : Busy(v)' <=> Busy(v)
    BY <2>1 DEF Busy
  <2>8. ASSUME NEW v \in 1..Concurrency, Busy(v)'
        PROVE  /\ v \in Workers' /\ worker'[v].target \in Indices' /\ worker'[v].target < next'
               /\ ~NotProbed(targets'[worker'[v].target])
               /\ Underway(worker[v], fate[worker[v].target])'
    <3>1. Busy(v) /\ worker'[v] = worker[v]
      BY <2>1, <2>7, <2>8
    <3>2. Underway(worker[v], fate[worker[v].target])'
      BY <1>1, <1>3, <3>1 DEF Underway
    <3> QED BY <1>1, <1>3, <3>1, <3>2
  <2>9. ASSUME NEW i \in Indices'
        PROVE  IF i < next' THEN (\E v \in 1..Concurrency : Busy(v)' /\ worker'[v].target = i) \/ Judged(i)'
                            ELSE fate'[i] = <<>>
    <3>1. i \in Indices /\ i \in Nat
      BY <1>1, <2>9 DEF Indices
    <3>2. CASE i = next
      BY <1>1, <2>5, <3>1, <3>2
    <3>3. CASE i # next
      <4>1. Judged(i)' <=> Judged(i)
        BY <1>1, <2>4, <3>1, <3>3 DEF Judged, Opened
      <4>2. i < next' <=> i < next
        BY <1>1, <3>1, <3>3
      <4> QED BY <1>1, <1>5, <2>1, <2>7, <3>1, <4>1, <4>2
    <3> QED BY <3>2, <3>3
  <2>10. \A v \in 1..Concurrency : worker'[v].at = "done" => next' > Len(targets')
    BY <1>1, <2>1 DEF Handed
  <2>11. Handed'
    BY <1>4, <2>1, <2>7, <2>8, <2>9, <2>10 DEF Handed
  <2> QED BY <1>1, <2>6, <2>11
<1>8. CASE next <= Len(targets) /\ ~NotProbed(targets[next])
  <2> DEFINE x == [at |-> "connecting", target |-> next, records |-> <<>>]
  <2>1. worker' = [worker EXCEPT ![w] = x] /\ results' = results
    BY <1>1, <1>8 DEF TakeNext, NotProbed
  <2>2. next \in Indices /\ fate[next] = <<>>
    <3>1. next \in Indices
      BY <1>1, <1>8 DEF Indices
    <3> QED BY <1>1, <1>5, <3>1
  <2>3. /\ x \in [at : WorkerSteps, target : Nat, records : Attempts] /\ Underway(x, <<>>)
        /\ x.at = "connecting" /\ x.target = next
    BY <1>1, <1>2, EmptySeq DEF Underway, WorkerSteps, Attempts
  <2> HIDE DEF x
  <2>4. /\ worker' \in [1..Concurrency -> [at : WorkerSteps, target : Nat, records : Attempts]]
        /\ worker'[w] = x /\ \A v \in 1..Concurrency : v # w => worker'[v] = worker[v]
    BY <1>2, <2>1, <2>3
  <2>5. Busy(w)' /\ \A v \in 1..Concurrency : v # w => (Busy(v)' <=> Busy(v))
    BY <2>3, <2>4 DEF Busy
  <2>6. RunTyped'
    <3>1. sockets' \subseteq {v \in 1..Concurrency : Busy(v)'}
      BY <1>1, <2>5 DEF RunTyped
    <3> QED BY <1>1, <1>2, <2>1, <2>4, <3>1 DEF RunTyped, Attempts
  <2>7. ASSUME NEW v \in 1..Concurrency, Busy(v)'
        PROVE  /\ v \in Workers' /\ worker'[v].target \in Indices' /\ worker'[v].target < next'
               /\ ~NotProbed(targets'[worker'[v].target])
               /\ Underway(worker'[v], fate'[worker'[v].target])
    <3>1. CASE v = w
      <4>1. worker'[v] = x /\ fate'[next] = <<>>
        BY <1>1, <2>2, <2>4, <3>1
      <4> QED BY <1>1, <1>8, <2>2, <2>3, <3>1, <4>1
    <3>2. CASE v # w
      <4>1. Busy(v) /\ worker'[v] = worker[v]
        BY <2>4, <2>5, <2>7, <3>2
      <4> QED BY <1>1, <1>3, <4>1
    <3> QED BY <3>1, <3>2
  <2>8. ASSUME NEW v \in 1..Concurrency, Busy(v)'
        PROVE  Underway(worker[v], fate[worker[v].target])'
    BY <1>1, <2>7, <2>8 DEF Underway
  <2>9. ASSUME NEW u \in 1..Concurrency, NEW v \in 1..Concurrency,
               Busy(u)', Busy(v)', worker'[u].target = worker'[v].target
        PROVE  u = v
    <3>1. CASE u # w /\ v # w
      BY <1>4, <2>4, <2>5, <2>9, <3>1
    <3>2. ASSUME NEW z \in 1..Concurrency, z # w, Busy(z)'
          PROVE  worker'[z].target \in Nat /\ worker'[z].target < next
      BY <1>2, <1>3, <2>4, <2>5, <3>2
    <3>3. worker'[w].target = next
      BY <2>3, <2>4
    <3>4. CASE ~(u # w /\ v # w)
      BY <1>1, <2>9, <3>2, <3>3, <3>4
    <3> QED BY <3>1, <3>4
  <2>10. ASSUME NEW i \in Indices'
         PROVE  IF i < next' THEN (\E v \in 1..Concurrency : Busy(v)' /\ worker'[v].target = i) \/ Judged(i)'
                             ELSE fate'[i] = <<>>
    <3>1. i \in Indices /\ i \in Nat
      BY <1>1, <2>10 DEF Indices
    <3>2. CASE i = next
      BY <1>1, <2>3, <2>4, <2>5, <3>2
    <3>3. CASE i # next
      <4>1. Judged(i)' <=> Judged(i)
        BY <1>1, <2>1 DEF Judged, Opened
      <4>2. i < next' <=> i < next
        BY <1>1, <3>1, <3>3
      <4>3. ASSUME NEW v \in 1..Concurrency, Busy(v), worker[v].target = i
            PROVE  Busy(v)' /\ worker'[v].target = i
        BY <1>3, <2>4, <2>5, <4>3
      <4> QED BY <1>1, <1>5, <3>1, <4>1, <4>2, <4>3
    <3> QED BY <3>2, <3>3
  <2>11. \A v \in 1..Concurrency : worker'[v].at = "done" => next' > Len(targets')
    BY <1>1, <2>3, <2>4 DEF Handed
  <2>12. Handed'
    BY <2>7, <2>8, <2>9, <2>10, <2>11 DEF Handed
  <2> QED BY <1>1, <2>6, <2>12
<1> QED BY <1>1, <1>6, <1>7, <1>8

-----------------------------------------------------------------------------
(***************************************************************************)
(* When every worker is done, every target is judged, and the report says  *)
(* what they were judged to be.                                            *)
(***************************************************************************)
\* When every worker is done, no target is left.
LEMMA AllJudged ==
    ASSUME RunTyped, Handed, Finished
    PROVE  /\ \A w \in 1..Concurrency : ~Busy(w)
           /\ \A i \in Indices : Judged(i)
<1>1. Len(targets) \in Nat
  BY LenProperties DEF RunTyped
<1>2. CASE targets = <<>>
  <2>1. Indices = {}
    BY <1>2 DEF Indices
  <2> QED BY <2>1, BusyFacts
<1>3. CASE targets # <<>>
  <2>1. \A w \in Workers : worker[w].at = "done"
    BY <1>3 DEF Finished
  <2>2. \A w \in 1..Concurrency : ~Busy(w)
    BY <2>1, BusyFacts DEF Busy
  <2>3. 1 \in Workers /\ 1 \in 1..Concurrency
    BY WorkersFacts
  <2>4. next > Len(targets)
    BY <2>1, <2>3 DEF Handed
  <2>5. ASSUME NEW i \in Indices
        PROVE  Judged(i)
    <3>1. i < next
      BY <1>1, <2>4 DEF Indices, RunTyped
    <3> QED BY <2>2, <3>1 DEF Handed
  <2> QED BY <2>2, <2>5
<1> QED BY <1>2, <1>3

\* The connections that opened in time can be counted, where any were made.
LEMMA OpenedFacts ==
    ASSUME RunTyped, NEW i \in Indices
    PROVE  /\ Opened(i) \in Nat
           /\ Opened(i) # 0 => fate[i] # <<>>
<1>1. Len(fate[i]) \in Nat
  BY LenProperties DEF RunTyped
<1> DEFINE S == {k \in 1..Len(fate[i]) : fate[i][k] = "opened"}
<1>2. IsFiniteSet(1..Len(fate[i])) /\ S \in SUBSET (1..Len(fate[i]))
  BY <1>1, UpToFacts
<1>3. IsFiniteSet(S) /\ Cardinality(S) \in Nat
  BY <1>2, FS_Subset, FS_CardinalityType
<1>4. fate[i] = <<>> => S = {}
  OBVIOUS
<1> QED BY <1>3, <1>4, FS_EmptySet DEF Opened

\* What a target that is judged is called.
LEMMA VerdictFacts ==
    ASSUME RunTyped, NEW i \in Indices, Judged(i)
    PROVE  /\ Scored(i).target = i
           /\ Scored(i).verdict \in {"unmeasurable", "dead", "good", "usable", "poor"}
           /\ (Scored(i).verdict = "unmeasurable") <=> (targets[i].form # "junk" /\ fate[i] = <<>>)
           /\ (Scored(i).verdict \in {"good", "usable", "poor"}) <=> Opened(i) > 0
           /\ Opened(i) > 0 => Scored(i).score \in Int /\ Scored(i).latency \in Nat
           /\ 2 * Opened(i) <= attempts => Scored(i).verdict # "good"
<1> DEFINE r == results[i]
           score == Score(r)
           verdict == Verdict(r, score)
<1>1. Scored(i) = [target |-> i, score |-> score, verdict |-> verdict, latency |-> r.mean]
  BY DEF Scored
<1>2. /\ r.successes = Opened(i)
      /\ (r.blocked # Null) <=> (targets[i].form # "junk" /\ fate[i] = <<>>)
      /\ r.blocked = Null => r.total = attempts
      /\ r.successes # 0 => r.mean \in Nat /\ r.jitter \in Nat \cup {Null}
  BY DEF Judged
<1>3. Opened(i) \in Nat /\ (Opened(i) # 0 => fate[i] # <<>>) /\ attempts \in Nat \ {0}
  BY OpenedFacts DEF RunTyped
<1>4. ASSUME Opened(i) # 0
      PROVE  /\ r.blocked = Null /\ score \in Int /\ r.mean \in Nat
             /\ 2 * Opened(i) <= attempts => score < 750
  <2>1. r.blocked = Null /\ r.total = attempts
    BY <1>2, <1>3, <1>4
  <2>2. Scorable(r)
    BY <1>2, <1>3, <1>4, <2>1 DEF Scorable
  <2> HIDE DEF r
  <2> QED BY <1>2, <2>1, <2>2, ScoreFacts DEF Scorable
<1> HIDE DEF score
<1>5. /\ verdict \in {"unmeasurable", "dead", "good", "usable", "poor"}
      /\ (verdict = "unmeasurable") <=> r.blocked # Null
      /\ (verdict \in {"good", "usable", "poor"}) <=> (r.blocked = Null /\ r.successes # 0)
      /\ verdict = "good" => (r.successes # 0 /\ score >= 750)
  BY DEF Verdict
<1> HIDE DEF r, verdict
<1>6. 2 * Opened(i) <= attempts => verdict # "good"
  BY <1>2, <1>3, <1>4, <1>5
<1>7. /\ (verdict = "unmeasurable") <=> (targets[i].form # "junk" /\ fate[i] = <<>>)
      /\ (verdict \in {"good", "usable", "poor"}) <=> Opened(i) > 0
  BY <1>2, <1>3, <1>4, <1>5
<1> QED BY <1>1, <1>3, <1>4, <1>5, <1>6, <1>7

\* What is asked and what the pool is at are all these two speak of.
LEMMA PoolUnchanged ==
    ASSUME RunTyped, Handed, UNCHANGED <<inputVars, poolVars>>
    PROVE  RunTyped' /\ Handed'
<1>1. /\ targets' = targets /\ attempts' = attempts /\ next' = next /\ worker' = worker
      /\ sockets' = sockets /\ results' = results /\ fate' = fate
      /\ Indices' = Indices /\ Workers' = Workers
  BY DEF inputVars, poolVars, Indices, Workers
<1>2. \A v \in 1..Concurrency : Busy(v)' <=> Busy(v)
  BY <1>1 DEF Busy
<1>3. RunTyped'
  BY <1>1, <1>2 DEF RunTyped
<1>4. \A i \in Indices : Judged(i)' <=> Judged(i)
  BY <1>1 DEF Judged, Opened
<1>5. \A v \in 1..Concurrency :
        Underway(worker[v], fate[worker[v].target])' <=> Underway(worker[v], fate[worker[v].target])
  BY <1>1 DEF Underway
<1>6. Handed'
  BY <1>1, <1>2, <1>4, <1>5 DEF Handed
<1> QED BY <1>3, <1>6

\* What the verdicts of the targets come to, listed.
LEMMA RankedFacts ==
    ASSUME RunTyped, \A i \in Indices : Judged(i),
           NEW G, G = {i \in Indices : Opened(i) > 0},
           NEW ranked, ranked = Rank({Scored(i) : i \in G})
    PROVE  /\ IsFiniteSet(Indices) /\ Len(ranked) = Cardinality(G)
           /\ {ranked[k].target : k \in 1..Len(ranked)} = G
           /\ \A k \in 1..Len(ranked) :
                2 * Opened(ranked[k].target) <= attempts => ranked[k].verdict # "good"
<1>1. Len(targets) \in Nat /\ IsFiniteSet(Indices) /\ \A i \in Indices : targets[i].id \in Nat
  <2>1. Len(targets) \in Nat /\ \A i \in Indices : targets[i] \in Candidates
    BY LenProperties, ElementOfSeq DEF RunTyped, Indices
  <2>2. IsFiniteSet(Indices)
    BY <2>1, UpToFacts DEF Indices
  <2>3. \A a \in Candidates : a.id \in Nat
    BY DEF Candidates
  <2> QED BY <2>1, <2>2, <2>3
<1>2. IsFiniteSet(G) /\ G \in SUBSET Indices
  BY <1>1, FS_Subset
<1> DEFINE S == {Scored(i) : i \in G}
           f == [i \in G |-> Scored(i)]
<1>3. \A i \in G : /\ Scored(i).target = i
                   /\ Scored(i).score \in Int /\ Scored(i).latency \in Nat
                   /\ 2 * Opened(i) <= attempts => Scored(i).verdict # "good"
  BY VerdictFacts
<1>4. IsFiniteSet(S) /\ Cardinality(S) = Cardinality(G)
  <2>1. f \in Surjection(G, S)
    BY DEF Surjection
  <2>2. \A i, j \in G : f[i] = f[j] => i = j
    BY <1>3
  <2>3. f \in Injection(G, S)
    BY <2>2 DEF Injection, IsInjective
  <2> HIDE DEF f, S
  <2> QED BY <1>2, <2>1, <2>3, FS_Surjection
<1>5. Comparable(S)
  <2>1. \A a \in S : /\ a.score \in Int /\ a.latency \in Nat
                     /\ a.target \in Indices /\ targets[a.target].id \in Nat
    BY <1>1, <1>2, <1>3
  <2>2. ASSUME NEW i \in G, NEW j \in G, targets[Scored(i).target].id = targets[Scored(j).target].id
        PROVE  i = j
    BY <1>2, <1>3, <2>2 DEF RunTyped
  <2>3. \A a, b \in S : targets[a.target].id = targets[b.target].id => a = b
    BY <2>2
  <2> HIDE DEF S
  <2> QED BY <2>1, <2>3 DEF Comparable
<1> HIDE DEF S
<1>6. ListsAll(ranked, S)
  BY <1>4, <1>5, RankFacts DEF S
<1>7. Cardinality(S) \in Nat /\ ranked \in [1..Cardinality(S) -> S] /\ S = {ranked[k] : k \in 1..Cardinality(S)}
  BY <1>4, <1>6, FS_CardinalityType DEF ListsAll
<1>8. Len(ranked) = Cardinality(S)
  BY <1>7
<1>9. \A k \in 1..Len(ranked) : \E i \in G : ranked[k] = Scored(i)
  BY <1>7, <1>8 DEF S
<1>10. \A i \in G : \E k \in 1..Len(ranked) : ranked[k] = Scored(i)
  <2>1. \A i \in G : Scored(i) \in S
    BY DEF S
  <2>2. \A s \in S : \E k \in 1..Len(ranked) : ranked[k] = s
    BY <1>7, <1>8
  <2> QED BY <2>1, <2>2
<1>11. {ranked[k].target : k \in 1..Len(ranked)} = G
  <2>1. \A k \in 1..Len(ranked) : ranked[k].target \in G
    BY <1>3, <1>9
  <2>2. \A i \in G : \E k \in 1..Len(ranked) : ranked[k].target = i
    BY <1>3, <1>10
  <2> QED BY <2>1, <2>2
<1>12. ASSUME NEW k \in 1..Len(ranked), 2 * Opened(ranked[k].target) <= attempts
       PROVE  ranked[k].verdict # "good"
  <2>1. PICK i \in G : ranked[k] = Scored(i)
    BY <1>9
  <2> QED BY <1>3, <1>12, <2>1
<1> QED BY <1>1, <1>4, <1>8, <1>11, <1>12

\* The events are of the targets in M, each with whether it answered.
LEMMA EventFacts ==
    ASSUME NEW M \in SUBSET Nat, IsFiniteSet(M), NEW events,
           events = [k \in 1..Len(Places(M)) |->
                       [target |-> Places(M)[k], ok |-> results[Places(M)[k]].successes > 0]]
    PROVE  /\ {e.target : e \in ToSet(events)} = M
           /\ \A e \in ToSet(events) : e.ok = (results[e.target].successes > 0)
<1> DEFINE f == Places(M)
<1>1. ListsAll(f, M)
  BY PlacesFacts
<1> HIDE DEF f
<1>2. Cardinality(M) \in Nat /\ f \in [1..Cardinality(M) -> M] /\ M = {f[k] : k \in 1..Cardinality(M)}
  BY <1>1, FS_CardinalityType DEF ListsAll
<1>3. Len(f) = Cardinality(M)
  BY <1>2
<1>4. events = [k \in 1..Len(f) |-> [target |-> f[k], ok |-> results[f[k]].successes > 0]]
  BY DEF f
<1>5. ToSet(events) = {[target |-> f[k], ok |-> results[f[k]].successes > 0] : k \in 1..Len(f)}
  BY <1>4 DEF ToSet
<1>6. \A e \in ToSet(events) : \E k \in 1..Len(f) :
        e.target = f[k] /\ e.ok = (results[f[k]].successes > 0)
  BY <1>5
<1>7. ASSUME NEW k \in 1..Len(f)
      PROVE  \E e \in ToSet(events) : e.target = f[k]
  <2> DEFINE e == [target |-> f[k], ok |-> results[f[k]].successes > 0]
  <2>1. e \in ToSet(events) /\ e.target = f[k]
    BY <1>5
  <2> HIDE DEF e
  <2> QED BY <2>1
<1>8. {e.target : e \in ToSet(events)} = M
  <2>1. \A e \in ToSet(events) : e.target \in M
    BY <1>2, <1>3, <1>6
  <2>2. \A m \in M : \E k \in 1..Len(f) : f[k] = m
    BY <1>2, <1>3
  <2>3. \A m \in M : \E e \in ToSet(events) : e.target = m
    BY <1>7, <2>2
  <2> QED BY <2>1, <2>3
<1>9. \A e \in ToSet(events) : e.ok = (results[e.target].successes > 0)
  BY <1>6
<1> QED BY <1>8, <1>9

\* What is ranked, what is unmeasurable and what is left are all there is.
LEMMA AllAccounted ==
    ASSUME RunTyped, NEW G, G = {i \in Indices : Opened(i) > 0},
           NEW U, U = {i \in Indices : targets[i].form # "junk" /\ fate[i] = <<>>}
    PROVE  Cardinality(G) + Cardinality((Indices \ U) \ G) + Cardinality(U) = Len(targets)
<1>1. /\ Len(targets) \in Nat /\ IsFiniteSet(Indices) /\ Cardinality(Indices) = Len(targets)
  <2> DEFINE n == Len(targets)
  <2>1. n \in Nat
    BY LenProperties DEF RunTyped
  <2> HIDE DEF n
  <2>2. IsFiniteSet(1..n) /\ Cardinality(1..n) = n
    BY <2>1, UpToFacts
  <2> QED BY <2>1, <2>2 DEF Indices, n
<1>2. G \subseteq Indices \ U /\ U \subseteq Indices
  BY OpenedFacts
<1> DEFINE M == Indices \ U
<1>3. Indices \cap U = U /\ M \cap G = G
  BY <1>2
<1>4. IsFiniteSet(M) /\ Cardinality(M) = Cardinality(Indices) - Cardinality(Indices \cap U)
  BY <1>1, FS_Difference
<1>5. IsFiniteSet(G) /\ IsFiniteSet(U)
  BY <1>1, <1>2, <1>4, FS_Subset
<1> HIDE DEF M
<1>6. Cardinality(M \ G) = Cardinality(M) - Cardinality(M \cap G)
  BY <1>4, FS_Difference
<1>7. Cardinality(G) \in Nat /\ Cardinality(U) \in Nat
  BY <1>5, FS_CardinalityType
<1>8. Cardinality(M) = Len(targets) - Cardinality(U)
  BY <1>1, <1>3, <1>4
<1>9. Cardinality(M \ G) = Cardinality(M) - Cardinality(G)
  BY <1>3, <1>6
<1>10. Cardinality(G) + Cardinality(M \ G) + Cardinality(U) = Len(targets)
  BY <1>1, <1>7, <1>8, <1>9
<1> QED BY <1>10 DEF M

\* The report that is made is truthful.
LEMMA CompleteKeeps ==
    ASSUME RunInv, Complete
    PROVE  RunInv'
<1>1. /\ RunTyped /\ Handed /\ report = Null /\ summary = Null
      /\ UNCHANGED <<inputVars, poolVars, summary>> /\ Finished
  BY DEF RunInv, Complete, Finished
<1>2. /\ targets' = targets /\ attempts' = attempts /\ worker' = worker /\ summary' = Null
      /\ results' = results /\ fate' = fate /\ Indices' = Indices /\ Workers' = Workers
  BY <1>1 DEF inputVars, poolVars, Indices, Workers
<1>3. RunTyped' /\ Handed'
  BY <1>1, PoolUnchanged
<1>4. Finished'
  BY <1>1, <1>2 DEF Finished
<1>5. \A i \in Indices : Judged(i)
  BY <1>1, AllJudged
<1> DEFINE scored == [i \in Indices |-> Scored(i)]
           Of(verdicts) == {i \in Indices : scored[i].verdict \in verdicts}
           U == {i \in Indices : targets[i].form # "junk" /\ fate[i] = <<>>}
           G == {i \in Indices : Opened(i) > 0}
           M == Indices \ U
           ranked == Rank({Scored(i) : i \in G})
           events == [k \in 1..Len(Places(M)) |->
                        [target |-> Places(M)[k], ok |-> results[Places(M)[k]].successes > 0]]
<1>6. /\ Of({"unmeasurable"}) = U
      /\ Of({"dead"}) = M \ G
      /\ Of({"good", "usable", "poor"}) = G
      /\ G \subseteq M
  <2>1. \A i \in Indices :
          /\ (Scored(i).verdict = "unmeasurable") <=> (targets[i].form # "junk" /\ fate[i] = <<>>)
          /\ (Scored(i).verdict \in {"good", "usable", "poor"}) <=> Opened(i) > 0
          /\ Scored(i).verdict \in {"unmeasurable", "dead", "good", "usable", "poor"}
    BY <1>1, <1>5, VerdictFacts
  <2>2. \A i \in Indices : scored[i] = Scored(i)
    OBVIOUS
  <2> HIDE DEF scored
  <2>3. Of({"unmeasurable"}) = U
    BY <2>1, <2>2
  <2>4. Of({"good", "usable", "poor"}) = G
    BY <2>1, <2>2
  <2>5. Of({"dead"}) = M \ G
    <3>1. \A i \in Indices : scored[i].verdict = "dead" <=> i \in M \ G
      BY <2>1, <2>2
    <3> QED BY <3>1
  <2>6. G \subseteq M
    BY <2>1
  <2> QED BY <2>3, <2>4, <2>5, <2>6
<1>7. {scored[i] : i \in G} = {Scored(i) : i \in G}
  OBVIOUS
<1>8. /\ report' = [ranked |-> Rank({scored[i] : i \in Of({"good", "usable", "poor"})}),
                    dead |-> Cardinality(Of({"dead"})),
                    unmeasurable |-> Of({"unmeasurable"})]
      /\ LET measured == Places(Indices \ Of({"unmeasurable"}))
         IN  probed' = [k \in 1..Len(measured) |->
                [target |-> measured[k], ok |-> results[measured[k]].successes > 0]]
  BY DEF Complete
<1> HIDE DEF scored, Of
<1>9. report' = [ranked |-> ranked, dead |-> Cardinality(M \ G), unmeasurable |-> U] /\ probed' = events
  <2> HIDE DEF U, G
  <2> QED BY <1>6, <1>7, <1>8
<1>10. /\ IsFiniteSet(Indices) /\ Len(ranked) = Cardinality(G)
       /\ {ranked[k].target : k \in 1..Len(ranked)} = G
       /\ \A k \in 1..Len(ranked) :
            2 * Opened(ranked[k].target) <= attempts => ranked[k].verdict # "good"
  <2> HIDE DEF ranked
  <2> QED BY <1>1, <1>5, RankedFacts DEF ranked
<1>11. M \in SUBSET Nat /\ IsFiniteSet(M)
  BY <1>10, FS_Subset DEF Indices
<1>12. /\ {e.target : e \in ToSet(events)} = M
       /\ \A e \in ToSet(events) : e.ok = (results[e.target].successes > 0)
  <2> HIDE DEF events, M
  <2> QED BY <1>11, EventFacts DEF events
<1>13. \A i \in Indices : results[i].successes = Opened(i) /\ Opened(i)' = Opened(i)
  BY <1>2, <1>5 DEF Judged, Opened
<1>14. G = {i \in Indices : Opened(i) > 0} /\ U = {i \in Indices : targets[i].form # "junk" /\ fate[i] = <<>>}
       /\ M = Indices \ U
  OBVIOUS
<1> HIDE DEF U, G, M, ranked, events
<1>15. report'.ranked = ranked /\ report'.dead = Cardinality(M \ G) /\ report'.unmeasurable = U
  BY <1>9
<1>16. \A e \in ToSet(events) : e.target \in Indices /\ e.ok = (Opened(e.target)' > 0)
  BY <1>12, <1>13, <1>14
<1>17. \A k \in 1..Len(ranked) : ranked[k].target \in Indices
  BY <1>10, <1>14
<1>18. ReportTruthful'
  <2>1. G = {i \in Indices : Opened(i)' > 0}
    BY <1>13, <1>14
  <2>2. {ranked[k].target : k \in 1..Len(ranked)} = {i \in Indices : Opened(i)' > 0}
    BY <1>10, <2>1
  <2>3. \A i \in M : results'[i].successes = Opened(i)'
    BY <1>2, <1>13, <1>14
  <2>4. G = {report'.ranked[k].target : k \in 1..Len(report'.ranked)}
    BY <1>10, <1>15
  <2>5. M = Indices' \ report'.unmeasurable /\ probed' = events
    BY <1>2, <1>9, <1>14, <1>15
  <2>6. U = {i \in Indices : targets'[i].form # "junk" /\ fate'[i] = <<>>}
    BY <1>2, <1>14
  <2>7. Cardinality(G) = Len(report'.ranked)
    BY <1>10, <1>15
  <2>8. \A e \in ToSet(probed') : e.ok = (Opened(e.target)' > 0)
    BY <1>16, <2>5
  <2>9. {e.target : e \in ToSet(probed')} = M
    BY <1>12, <2>5
  <2> DEFINE ranks == {report.ranked[k].target : k \in 1..Len(report.ranked)}
             rest == Indices \ report.unmeasurable
  <2>10. ranks' = G /\ rest' = M
    BY <2>4, <2>5
  <2>11. (\A e \in ToSet(probed) : e.ok = (Opened(e.target) > 0))'
    BY <2>8
  <2>12. (report # Null =>
            /\ ranks = {i \in Indices : Opened(i) > 0}
            /\ Cardinality(ranks) = Len(report.ranked)
            /\ report.unmeasurable = {i \in Indices : targets[i].form # "junk" /\ fate[i] = <<>>}
            /\ report.dead = Cardinality(rest \ ranks)
            /\ \A i \in rest : results[i].successes = Opened(i)
            /\ {e.target : e \in ToSet(probed)} = rest
            /\ \A e \in ToSet(probed) : e.ok = (Opened(e.target) > 0)
            /\ summary # Null => summary.targets = Len(targets))'
    <3> HIDE DEF ranks, rest
    <3> QED BY <1>2, <1>15, <2>1, <2>3, <2>6, <2>7, <2>9, <2>10, <2>11
  <2> QED BY <2>12 DEF ReportTruthful
<1>19. UnreliableNeverGood'
  BY <1>2, <1>10, <1>13, <1>15, <1>17 DEF UnreliableNeverGood
<1> QED BY <1>2, <1>3, <1>4, <1>18, <1>19 DEF RunInv, Reported

\* The summary that is recorded accounts for every target.
LEMMA SummariseKeeps ==
    ASSUME RunInv, Summarise
    PROVE  RunInv'
<1>1. /\ RunTyped /\ Handed /\ report # Null /\ report' = report /\ probed' = probed
      /\ UNCHANGED <<inputVars, poolVars>> /\ Finished /\ ReportTruthful /\ UnreliableNeverGood
  BY DEF RunInv, Reported, Summarise
<1>2. /\ targets' = targets /\ attempts' = attempts /\ worker' = worker
      /\ results' = results /\ fate' = fate /\ Indices' = Indices /\ Workers' = Workers
  BY <1>1 DEF inputVars, poolVars, Indices, Workers
<1>3. RunTyped' /\ Handed' /\ Finished'
  BY <1>1, <1>2, PoolUnchanged DEF Finished
<1>4. \A i : Opened(i)' = Opened(i)
  BY <1>2 DEF Opened
<1>5. summary'.targets = Len(targets)
  <2> DEFINE G == {i \in Indices : Opened(i) > 0}
             U == {i \in Indices : targets[i].form # "junk" /\ fate[i] = <<>>}
  <2>1. /\ Cardinality(G) = Len(report.ranked)
        /\ report.unmeasurable = U
        /\ report.dead = Cardinality((Indices \ U) \ G)
    BY <1>1 DEF ReportTruthful
  <2>2. Cardinality(G) + Cardinality((Indices \ U) \ G) + Cardinality(U) = Len(targets)
    <3> HIDE DEF G, U
    <3> QED BY <1>1, AllAccounted DEF G, U
  <2> HIDE DEF G, U
  <2>3. summary'.targets = Len(report.ranked) + report.dead + Cardinality(report.unmeasurable)
    BY DEF Summarise
  <2> QED BY <2>1, <2>2, <2>3
<1>6. ReportTruthful'
  BY <1>1, <1>2, <1>4, <1>5 DEF ReportTruthful
<1>7. UnreliableNeverGood'
  BY <1>1, <1>2, <1>4 DEF UnreliableNeverGood
<1> QED BY <1>1, <1>3, <1>6, <1>7 DEF RunInv, Reported

-----------------------------------------------------------------------------
\* However often is asked for, there is an attempt, and no more than the limit.
LEMMA AttemptsForFacts ==
    ASSUME NEW n \in Asked
    PROVE  AttemptsFor(n) \in 1..MaxAttempts
<1>1. MaxAttempts \in Nat \ {0} /\ DefaultAttempts \in Nat \ {0} /\ (n = Null \/ n \in Int)
  BY ProbingAssumption
<1>2. CASE n = Null
  BY <1>1, <1>2, MinOfTwo DEF AttemptsFor
<1>3. CASE n # Null
  <2> DEFINE m == Max({1, n})
  <2>1. m \in Nat \ {0}
    BY <1>1, <1>3, MaxOfTwo
  <2>2. AttemptsFor(n) = Min({m, MaxAttempts})
    BY <1>3 DEF AttemptsFor
  <2> HIDE DEF m
  <2> QED BY <1>1, <2>1, <2>2, MinOfTwo
<1> QED BY <1>2, <1>3

\* A run begins as its invariant says.
LEMMA RunInitIsSound ==
    ASSUME RunInit
    PROVE  RunInv
<1>1. PICK q \in Lists : targets = ToTargets(q)
  BY DEF RunInit
<1>2. targets \in Seq(Candidates) /\ \A i, j \in Indices : targets[i].id = targets[j].id => i = j
  BY <1>1, ToTargetsFacts DEF Indices
<1>3. attempts \in Nat \ {0}
  <2>1. PICK n \in Asked : attempts = AttemptsFor(n)
    BY DEF RunInit
  <2>2. attempts \in 1..MaxAttempts /\ MaxAttempts \in Nat
    BY <2>1, AttemptsForFacts, ProbingAssumption
  <2> QED BY <2>2
<1>4. /\ next = 1 /\ worker = [w \in 1..Concurrency |-> Idle] /\ sockets = {}
      /\ results = [i \in Indices |-> Null] /\ fate = [i \in Indices |-> <<>>]
      /\ report = Null /\ summary = Null
  BY DEF RunInit
<1>5. Idle \in [at : WorkerSteps, target : Nat, records : Seq([ok : BOOLEAN, ms : Nat])] /\ Idle.at = "idle"
  BY EmptySeq DEF Idle, WorkerSteps
<1>6. \A w \in 1..Concurrency : worker[w].at = "idle" /\ ~Busy(w)
  BY <1>4, <1>5 DEF Busy
<1>7. RunTyped
  <2>1. worker \in [1..Concurrency -> [at : WorkerSteps, target : Nat, records : Seq([ok : BOOLEAN, ms : Nat])]]
    BY <1>4, <1>5
  <2>2. fate \in [Indices -> Seq(Fates)]
    BY <1>4, EmptySeq
  <2> QED BY <1>2, <1>3, <1>4, <2>1, <2>2 DEF RunTyped
<1>8. Handed
  <2>1. \A i \in Indices : ~(i < next) /\ fate[i] = <<>>
    <3>1. \A i \in Indices : i \in Nat /\ i >= 1
      BY DEF Indices
    <3> QED BY <1>4, <3>1
  <2> QED BY <1>6, <2>1 DEF Handed
<1> QED BY <1>4, <1>7, <1>8 DEF RunInv, Reported

\* A run stays as its invariant says, whatever its workers do in whatever order.
LEMMA RunStepIsSound ==
    ASSUME RunInv, RunNext
    PROVE  RunInv'
<1>1. RunTyped /\ Handed
  BY DEF RunInv
<1>2. ASSUME RunTyped', Handed', report = Null, UNCHANGED reportVars
      PROVE  RunInv'
  BY <1>2 DEF RunInv, Reported, reportVars
<1>3. ASSUME NEW w \in Workers, Work(w)
      PROVE  RunInv'
  <2>1. w \in 1..Concurrency
    BY <1>1, WorkersFacts
  <2>2. CASE TakeNext(w)
    <3>1. targets # <<>> /\ worker[w].at # "done"
      BY <2>2 DEF TakeNext
    <3>2. report = Null
      BY <3>1 DEF RunInv, Reported, Finished
    <3> QED BY <1>1, <1>2, <2>1, <2>2, <3>2, TakeNextKeeps
  <2>3. CASE Close(w)
    <3>1. RunTyped' /\ Handed' /\ Busy(w) /\ UNCHANGED reportVars
      BY <1>1, <2>1, <2>3, CloseKeeps
    <3> QED BY <1>2, <2>1, <3>1, NotFinished
  <2>4. ASSUME Busy(w) /\ PoolKept /\ RunTyped' /\ Handed'
        PROVE  RunInv'
    BY <1>2, <2>1, <2>4, NotFinished DEF PoolKept
  <2>5. CASE Connect(w)
    BY <1>1, <2>1, <2>4, <2>5, ConnectKeeps
  <2>6. CASE Throws(w)
    BY <1>1, <2>1, <2>4, <2>6, ThrowsKeeps
  <2>7. CASE Refuses(w) \/ TimesOut(w) \/ \E ms \in Latencies : Opens(w, ms)
    BY <1>1, <2>1, <2>4, <2>7, AnswerKeeps
  <2>8. CASE OpensLate(w)
    BY <1>1, <2>1, <2>4, <2>8, OpensLateKeeps
  <2> QED BY <1>3, <2>2, <2>3, <2>5, <2>6, <2>7, <2>8 DEF Work
<1>4. CASE Complete
  BY <1>4, CompleteKeeps
<1>5. CASE Summarise
  BY <1>5, SummariseKeeps
<1> QED BY <1>3, <1>4, <1>5 DEF RunNext

\* Nothing is said of what is not the run's.
LEMMA RunStutters ==
    ASSUME RunInv, UNCHANGED probingVars
    PROVE  RunInv'
<1>1. UNCHANGED <<inputVars, poolVars>> /\ UNCHANGED reportVars
  BY DEF probingVars
<1>2. /\ RunTyped' /\ Handed'
  BY <1>1, PoolUnchanged DEF RunInv
<1>3. /\ targets' = targets /\ attempts' = attempts /\ worker' = worker
      /\ results' = results /\ fate' = fate /\ Indices' = Indices /\ Workers' = Workers
      /\ report' = report /\ probed' = probed /\ summary' = summary
  BY <1>1 DEF inputVars, poolVars, reportVars, Indices, Workers
<1>4. \A i : Opened(i)' = Opened(i)
  BY <1>3 DEF Opened
<1>5. Finished' <=> Finished
  BY <1>3 DEF Finished
<1>6. ReportTruthful' <=> ReportTruthful
  BY <1>3, <1>4 DEF ReportTruthful
<1>7. UnreliableNeverGood' <=> UnreliableNeverGood
  BY <1>3, <1>4 DEF UnreliableNeverGood
<1> QED BY <1>2, <1>3, <1>5, <1>6, <1>7 DEF RunInv, Reported

\* Sockets belong to busy workers.
LEMMA SocketsAreReturned ==
    ASSUME RunInv
    PROVE  SocketsReturned
<1>1. RunTyped /\ Handed /\ Concurrency \in Nat \ {0}
  BY ProbingAssumption DEF RunInv
<1>2. sockets \in SUBSET (1..Concurrency) /\ \A w \in sockets : Busy(w)
  BY <1>1 DEF RunTyped
<1>3. Cardinality(sockets) <= Concurrency
  <2>1. IsFiniteSet(1..Concurrency) /\ Cardinality(1..Concurrency) = Concurrency
    BY <1>1, UpToFacts
  <2> QED BY <1>2, <2>1, FS_Subset
<1>4. report # Null => sockets = {}
  BY <1>1, <1>2, AllJudged DEF RunInv, Reported
<1>5. \A v, w \in sockets : v # w => worker[v].target # worker[w].target
  BY <1>1, <1>2 DEF Handed
<1> QED BY <1>3, <1>4, <1>5 DEF SocketsReturned

\* A run of the panel accounts for every candidate once and as what became of it,
\* leaves no socket open, and calls nothing good that answered half the time, for any
\* candidates, any limits and any order in which workers and connections make progress
\* (features/scanner/probe.ts, scoring.ts, service.ts).
THEOREM RunStaysSound == MCSpec => []RunIsSound
<1> DEFINE Inv == part = "run" => RunInv
<1>1. MCInit => Inv
  BY RunInitIsSound DEF MCInit
<1>2. Inv /\ [MCNext]_<<part, learningVars, probingVars, vars>> => Inv'
  <2> SUFFICES ASSUME Inv, [MCNext]_<<part, learningVars, probingVars, vars>>, part' = "run"
               PROVE  RunInv'
    OBVIOUS
  <2>1. CASE part = "run" /\ RunNext /\ part' = part
    BY <2>1, RunStepIsSound
  <2>2. CASE part # "run" /\ part' = part
    BY <2>2
  <2>3. CASE UNCHANGED <<part, learningVars, probingVars, vars>>
    BY <2>3, RunStutters
  <2> QED BY <2>1, <2>2, <2>3 DEF MCNext
<1>3. Inv => RunIsSound
  <2>1. RunInv /\ report # Null => ReportTruthful /\ UnreliableNeverGood
    BY DEF RunInv, Reported
  <2>2. report = Null => ReportTruthful /\ UnreliableNeverGood
    BY DEF ReportTruthful, UnreliableNeverGood
  <2> QED BY <2>1, <2>2, SocketsAreReturned DEF RunIsSound
<1> QED BY <1>1, <1>2, <1>3, PTL DEF MCSpec
-----------------------------------------------------------------------------
(***************************************************************************)
(* Lists that are filtered or sorted.                                      *)
(***************************************************************************)
\* A list by an order has what comes before first.
LEMMA Ascending ==
    ASSUME NEW S, IsFiniteSet(S), NEW R, StrictOrder(R, S)
    PROVE  \A k, l \in 1..Cardinality(S) : k < l => <<Listing(S, R)[k], Listing(S, R)[l]>> \in R
<1> DEFINE n == Cardinality(S)
           Under(a) == {b \in S : <<b, a>> \in R}
           f == Listing(S, R)
<1>0. n \in Nat
  BY FS_CardinalityType
<1>1. ListsAll(f, S)
  BY InOrder
<1>2. ASSUME NEW k \in 1..n
      PROVE  f[k] \in S /\ Cardinality(Under(f[k])) = k - 1
  <2>1. \E a \in S : Cardinality(Under(a)) = k - 1
    BY Placing
  <2>2. f[k] = CHOOSE a \in S : Cardinality(Under(a)) = k - 1
    BY DEF Listing
  <2> HIDE DEF Under
  <2> QED BY <2>1, <2>2
<1>3. ASSUME NEW a \in S, NEW b \in S, <<a, b>> \in R
      PROVE  Cardinality(Under(a)) <= Cardinality(Under(b))
  <2>1. Under(a) \in SUBSET Under(b) /\ IsFiniteSet(Under(b))
    <3>1. Under(a) \in SUBSET Under(b) /\ Under(b) \in SUBSET S
      BY <1>3 DEF StrictOrder
    <3> HIDE DEF Under
    <3> QED BY <3>1, FS_Subset
  <2> HIDE DEF Under
  <2> QED BY <2>1, FS_Subset
<1> HIDE DEF Under, f
<1> SUFFICES ASSUME NEW k \in 1..n, NEW l \in 1..n, k < l, <<f[k], f[l]>> \notin R
             PROVE  FALSE
  BY DEF f
<1>4. f[k] # f[l]
  BY <1>1 DEF ListsAll
<1>5. f[k] \in S /\ f[l] \in S /\ Cardinality(Under(f[k])) = k - 1 /\ Cardinality(Under(f[l])) = l - 1
  BY <1>2
<1>6. <<f[l], f[k]>> \in R
  BY <1>4, <1>5 DEF StrictOrder
<1>7. l - 1 <= k - 1
  BY <1>3, <1>5, <1>6
<1> QED BY <1>0, <1>7

\* Of two places the list of them has the lesser first.
LEMMA PlacesAscend ==
    ASSUME NEW S \in SUBSET Nat, IsFiniteSet(S)
    PROVE  \A k, l \in 1..Cardinality(S) : k < l => Places(S)[k] < Places(S)[l]
<1> DEFINE R == {p \in Nat \X Nat : p[1] < p[2]}
           f == Places(S)
<1>1. StrictOrder(R, S)
  BY DEF StrictOrder
<1>2. \A a \in S : {b \in S : b < a} = {b \in S : <<b, a>> \in R}
  OBVIOUS
<1>3. \A a, b : <<a, b>> \in R => a < b
  OBVIOUS
<1> HIDE DEF R
<1>4. f = Listing(S, R)
  <2>1. f = [k \in 1..Cardinality(S) |->
               CHOOSE a \in S : Cardinality({b \in S : b < a}) = k - 1]
    BY DEF Places, Ordered
  <2>2. ASSUME NEW k
        PROVE  (CHOOSE a \in S : Cardinality({b \in S : b < a}) = k - 1)
                 = CHOOSE a \in S : Cardinality({b \in S : <<b, a>> \in R}) = k - 1
    BY <1>2
  <2> QED BY <2>1, <2>2 DEF Listing
<1> HIDE DEF f
<1>5. \A k, l \in 1..Cardinality(S) : k < l => <<f[k], f[l]>> \in R
  BY <1>1, <1>4, Ascending
<1> QED BY <1>3, <1>5 DEF f

\* What is at some of the places of a list is a list of that much, in the same order.
LEMMA Filtered ==
    ASSUME NEW V, NEW s \in Seq(V), NEW K \in SUBSET (1..Len(s))
    PROVE  /\ AtPlaces(s, K) \in Seq(V) /\ Len(AtPlaces(s, K)) = Cardinality(K)
           /\ \A k \in 1..Len(AtPlaces(s, K)) : Places(K)[k] \in K /\ AtPlaces(s, K)[k] = s[Places(K)[k]]
           /\ \A k, l \in 1..Len(AtPlaces(s, K)) : k < l => Places(K)[k] < Places(K)[l]
           /\ \A i \in K : \E k \in 1..Len(AtPlaces(s, K)) : Places(K)[k] = i
<1> DEFINE n == Cardinality(K)
           p == Places(K)
           t == AtPlaces(s, K)
<1>1. K \in SUBSET Nat /\ IsFiniteSet(K) /\ n \in Nat
  <2>1. Len(s) \in Nat /\ IsFiniteSet(1..Len(s))
    BY LenProperties, UpToFacts
  <2>2. IsFiniteSet(K)
    BY <2>1, FS_Subset
  <2>3. K \in SUBSET Nat
    BY <2>1
  <2> QED BY <2>2, <2>3, FS_CardinalityType
<1>2. ListsAll(p, K) /\ \A k, l \in 1..n : k < l => p[k] < p[l]
  BY <1>1, PlacesFacts, PlacesAscend
<1>3. t = [k \in 1..n |-> s[p[k]]]
  BY DEF AtPlaces
<1> HIDE DEF n, p, t
<1>4. p \in [1..n -> K] /\ K = {p[k] : k \in 1..n}
  BY <1>2 DEF ListsAll, n
<1>5. \A i \in 1..Len(s) : s[i] \in V
  BY ElementOfSeq
<1>6. t \in [1..n -> V]
  BY <1>3, <1>4, <1>5
<1>7. t \in Seq(V) /\ Len(t) = n
  BY <1>1, <1>6
<1> QED BY <1>2, <1>3, <1>4, <1>7 DEF n, p, t

\* The first of what is left is the first of what was to be left.
LEMMA FirstFiltered ==
    ASSUME NEW V, NEW s \in Seq(V), NEW K \in SUBSET (1..Len(s)), AtPlaces(s, K) # <<>>
    PROVE  \E i \in K : /\ AtPlaces(s, K)[1] = s[i]
                        /\ \A j \in K : i <= j
<1> DEFINE p == Places(K)
           t == AtPlaces(s, K)
<1>1. /\ t \in Seq(V)
      /\ \A k \in 1..Len(t) : p[k] \in K /\ t[k] = s[p[k]]
      /\ \A k, l \in 1..Len(t) : k < l => p[k] < p[l]
      /\ \A i \in K : \E k \in 1..Len(t) : p[k] = i
  BY Filtered
<1>2. t # <<>>
  OBVIOUS
<1> HIDE DEF p, t
<1>3. 1 \in 1..Len(t)
  BY <1>1, <1>2
<1>0. \A i \in K : i \in Int
  OBVIOUS
<1>4. ASSUME NEW j \in K PROVE p[1] <= j
  <2>1. PICK k \in 1..Len(t) : p[k] = j
    BY <1>1
  <2>2. p[1] \in Int /\ j \in Int
    BY <1>0, <1>1, <1>3
  <2> QED BY <1>1, <1>3, <2>1, <2>2
<1> QED BY <1>1, <1>3, <1>4 DEF t

\* What is left of a list is none when nothing was to be left.
LEMMA NoneFiltered ==
    ASSUME NEW V, NEW s \in Seq(V), NEW K \in SUBSET (1..Len(s))
    PROVE  AtPlaces(s, K) = <<>> <=> K = {}
<1> DEFINE p == Places(K)
           t == AtPlaces(s, K)
<1>1. /\ t \in Seq(V)
      /\ \A k \in 1..Len(t) : p[k] \in K
      /\ \A i \in K : \E k \in 1..Len(t) : p[k] = i
  BY Filtered
<1> HIDE DEF p, t
<1>2. t = <<>> <=> 1..Len(t) = {}
  BY <1>1
<1> QED BY <1>1, <1>2 DEF t

\* The head of a list.
LEMMA TakeFacts ==
    ASSUME NEW V, NEW s \in Seq(V), NEW n \in Nat
    PROVE  /\ Take(s, n) \in Seq(V)
           /\ Len(Take(s, n)) <= n /\ Len(Take(s, n)) <= Len(s)
           /\ \A i \in 1..Len(Take(s, n)) : Take(s, n)[i] = s[i]
<1> DEFINE m == Min({n, Len(s)})
<1>1. Len(s) \in Nat
  BY LenProperties
<1>2. m = IF n <= Len(s) THEN n ELSE Len(s)
  BY <1>1, MinOfTwo
<1> HIDE DEF m
<1>3. m \in 0..Len(s) /\ m <= n
  BY <1>1, <1>2
<1>4. SubSeq(s, 1, m) \in Seq(V) /\ Len(SubSeq(s, 1, m)) = m /\ \A i \in 1..m : SubSeq(s, 1, m)[i] = s[i]
  BY <1>1, <1>3
<1>5. Take(s, n) = SubSeq(s, 1, m)
  BY DEF Take, m
<1> QED BY <1>1, <1>3, <1>4, <1>5

-----------------------------------------------------------------------------
(***************************************************************************)
(* The advice to move.                                                     *)
(***************************************************************************)
\* A rounded quotient is a number.
LEMMA RoundType ==
    ASSUME NEW n \in Int, NEW d \in Nat \ {0}
    PROVE  RoundDiv(n, d) \in Int
<1>1. 2 * n + d \in Int /\ 2 * d \in Nat \ {0}
  OBVIOUS
<1>2. \A a \in Int : \A b \in Nat \ {0} : a \div b \in Int
  OBVIOUS
<1> QED BY <1>1, <1>2 DEF RoundDiv

\* The image of a finite set is finite.
LEMMA ImageFinite ==
    ASSUME NEW S, IsFiniteSet(S), NEW f, DOMAIN f = S, f = [x \in S |-> f[x]], NEW T, T = {f[x] : x \in S}
    PROVE  IsFiniteSet(T)
<1>1. f \in Surjection(S, T)
  BY DEF Surjection
<1> QED BY <1>1, FS_Surjection

\* The runs that were won by an address, oldest first.
WonBy(history, a) ==
    LET ordered == Reverse(history)
    IN  {i \in 1..Len(ordered) : ordered[i].best # Null /\ ordered[i].best.address = a}

Named(history) ==
    {history[i].best.address : i \in {j \in 1..Len(history) : history[j].best # Null}}

\* Of an address that won there is an average, and the first time it did.
LEMMA LifecycleFacts ==
    ASSUME NEW history \in Seq(RunRecords), NEW a \in Named(history)
    PROVE  /\ Lifecycle(history, a).average \in Int
           /\ Lifecycle(history, a).first \in 1..Len(history)
           /\ Reverse(history)[Lifecycle(history, a).first].best.address = a
<1> DEFINE ordered == Reverse(history)
           m == Len(history)
           seen == WonBy(history, a)
           n == Cardinality(seen)
           f == [i \in seen |-> ordered[i].best.score]
           l == Lifecycle(history, a)
<1>1. m \in Nat /\ \A i \in 1..m : history[i] \in RunRecords
  BY LenProperties, ElementOfSeq
<1>2. ordered = [i \in 1..m |-> history[(m - i) + 1]]
  BY DEF Reverse
<1>3. ordered \in [1..m -> RunRecords]
  BY <1>1, <1>2
<1>4. Len(ordered) = m
  BY <1>1, <1>3
<1>5. seen = {i \in 1..m : ordered[i].best # Null /\ ordered[i].best.address = a}
  BY <1>4 DEF WonBy
<1>6. l.average = RoundDiv(10 * SumOf(f), n) /\ l.first = Min(seen)
  BY DEF Lifecycle, WonBy
<1>7. seen # {}
  <2>1. PICK j \in 1..m : history[j].best # Null /\ history[j].best.address = a
    BY DEF Named
  <2>2. m - j + 1 \in 1..m /\ (m - (m - j + 1)) + 1 = j
    BY <1>1
  <2> HIDE DEF m, ordered
  <2>3. ordered[m - j + 1] = history[j]
    BY <1>2, <2>2
  <2> HIDE DEF seen
  <2> QED BY <1>5, <2>1, <2>2, <2>3
<1>8. \A i \in seen : ordered[i].best.score \in Nat
  <2> HIDE DEF m, ordered, seen
  <2> QED BY <1>3, <1>5 DEF RunRecords, Winners
<1> HIDE DEF m, ordered, seen, l
<1>9. IsFiniteSet(seen) /\ seen \in SUBSET Nat
  <2>1. IsFiniteSet(1..m) /\ seen \in SUBSET (1..m)
    BY <1>1, <1>5, UpToFacts
  <2>2. IsFiniteSet(seen)
    BY <2>1, FS_Subset
  <2> QED BY <2>1, <2>2
<1>10. n \in Nat \ {0}
  BY <1>7, <1>9, FS_CardinalityType, FS_EmptySet
<1>11. SumOf(f) \in Int
  <2>1. DOMAIN f = seen /\ \A i \in seen : f[i] \in Int
    BY <1>8
  <2> HIDE DEF f
  <2> QED BY <1>9, <2>1, SumRemove DEF SumOf
<1>12. l.average \in Int
  <2> HIDE DEF f, n
  <2>1. 10 * SumOf(f) \in Int
    BY <1>11
  <2> QED BY <1>6, <1>10, <2>1, RoundType
<1>13. Min(seen) \in seen
  <2>1. \E x \in seen : \A y \in seen : x <= y
    BY <1>7, <1>9, Smallest
  <2> QED BY <2>1 DEF Min
<1> QED BY <1>5, <1>6, <1>12, <1>13 DEF l, m, ordered

Sooner(x, y) == x.average > y.average \/ (x.average = y.average /\ x.first < y.first)

\* The lifecycles are listed, those with the better average first.
LEMMA LifecyclesFacts ==
    ASSUME NEW history \in Seq(RunRecords), NEW S, S = {Lifecycle(history, a) : a \in Named(history)}
    PROVE  /\ Lifecycles(history) \in Seq(S)
           /\ \A l \in S : l.average \in Int
           /\ \A i, j \in 1..Len(Lifecycles(history)) :
                i < j => Lifecycles(history)[i].average >= Lifecycles(history)[j].average
<1> DEFINE N == Named(history)
           R == {p \in S \X S : Sooner(p[1], p[2])}
           f == Lifecycles(history)
<1>1. IsFiniteSet(S) /\ Cardinality(S) \in Nat
  <2> DEFINE J == {j \in 1..Len(history) : history[j].best # Null}
             g == [i \in J |-> history[i].best.address]
             h == [a \in N |-> Lifecycle(history, a)]
  <2>1. IsFiniteSet(J)
    <3>1. IsFiniteSet(1..Len(history)) /\ J \in SUBSET (1..Len(history))
      BY LenProperties, UpToFacts
    <3> HIDE DEF J
    <3> QED BY <3>1, FS_Subset
  <2>2. IsFiniteSet(N)
    <3>1. N = {g[i] : i \in J} /\ DOMAIN g = J /\ g = [i \in J |-> g[i]]
      BY DEF Named
    <3> HIDE DEF N, J, g
    <3> QED BY <2>1, <3>1, ImageFinite
  <2>3. h \in Surjection(N, S)
    <3>1. h \in [N -> S]
      OBVIOUS
    <3>2. \A x \in S : \E a \in N : h[a] = x
      OBVIOUS
    <3> HIDE DEF N, h
    <3> QED BY <3>1, <3>2 DEF Surjection
  <2> HIDE DEF N, h
  <2>4. IsFiniteSet(S)
    BY <2>2, <2>3, FS_Surjection
  <2> QED BY <2>4, FS_CardinalityType
<1>2. \A a \in N : Lifecycle(history, a).average \in Int /\ Lifecycle(history, a).first \in Int
  <2>1. ASSUME NEW a \in N
        PROVE  Lifecycle(history, a).average \in Int /\ Lifecycle(history, a).first \in Int
    <3>1. Lifecycle(history, a).average \in Int /\ Lifecycle(history, a).first \in 1..Len(history)
      BY LifecycleFacts
    <3> QED BY <3>1
  <2> QED BY <2>1
<1>3. ASSUME NEW a \in N, NEW b \in N, Lifecycle(history, a).first = Lifecycle(history, b).first
      PROVE  a = b
  <2>1. /\ Reverse(history)[Lifecycle(history, a).first].best.address = a
        /\ Reverse(history)[Lifecycle(history, b).first].best.address = b
    BY LifecycleFacts
  <2> QED BY <1>3, <2>1
<1>4. \A x \in S : x.average \in Int /\ x.first \in Int
  BY <1>2
<1>5. \A x, y \in S : x.first = y.first => x = y
  BY <1>3
<1>6. StrictOrder(R, S)
  <2>1. \A a \in S : <<a, a>> \notin R
    BY <1>4 DEF Sooner
  <2>2. ASSUME NEW a \in S, NEW b \in S, NEW c \in S, <<a, b>> \in R, <<b, c>> \in R
        PROVE  <<a, c>> \in R
    <3>1. Sooner(a, b) /\ Sooner(b, c)
      BY <2>2
    <3>2. /\ a.average \in Int /\ b.average \in Int /\ c.average \in Int
          /\ a.first \in Int /\ b.first \in Int /\ c.first \in Int
      BY <1>4
    <3>3. Sooner(a, c)
      BY <3>1, <3>2 DEF Sooner
    <3> QED BY <3>3
  <2>3. ASSUME NEW a \in S, NEW b \in S, a # b
        PROVE  <<a, b>> \in R \/ <<b, a>> \in R
    BY <1>4, <1>5, <2>3 DEF Sooner
  <2> HIDE DEF R
  <2> QED BY <2>1, <2>2, <2>3 DEF StrictOrder
<1>7. \A a \in S : {b \in S : Sooner(b, a)} = {b \in S : <<b, a>> \in R}
  OBVIOUS
<1>8. \A a, b : <<a, b>> \in R => a \in S /\ b \in S /\ Sooner(a, b)
  OBVIOUS
<1>9. f = [k \in 1..Cardinality(S) |->
             CHOOSE a \in S : Cardinality({b \in S : Sooner(b, a)}) = k - 1]
  BY DEF Lifecycles, Ordered, Named, Sooner
<1> HIDE DEF R
<1>10. f = Listing(S, R)
  <2>1. ASSUME NEW k
        PROVE  (CHOOSE a \in S : Cardinality({b \in S : Sooner(b, a)}) = k - 1)
                 = CHOOSE a \in S : Cardinality({b \in S : <<b, a>> \in R}) = k - 1
    BY <1>7
  <2> QED BY <1>9, <2>1 DEF Listing
<1> HIDE DEF f
<1>11. ListsAll(f, S) /\ \A k, l \in 1..Cardinality(S) : k < l => <<f[k], f[l]>> \in R
  BY <1>1, <1>6, <1>10, InOrder, Ascending
<1>12. f \in Seq(S) /\ Len(f) = Cardinality(S)
  <2> DEFINE n == Cardinality(S)
  <2>1. f \in [1..n -> S] /\ n \in Nat
    BY <1>1, <1>11 DEF ListsAll
  <2> HIDE DEF n
  <2>2. f \in Seq(S) /\ Len(f) = n
    BY <2>1
  <2> QED BY <2>2 DEF n
<1>13. ASSUME NEW k \in 1..Len(f), NEW l \in 1..Len(f), k < l
       PROVE  f[k].average >= f[l].average
  <2>1. f[k] \in S /\ f[l] \in S /\ Sooner(f[k], f[l])
    BY <1>8, <1>11, <1>12, <1>13
  <2> QED BY <1>4, <2>1 DEF Sooner
<1> QED BY <1>4, <1>12, <1>13 DEF f

\* The endpoints that are not retired, those that are one address, and the others.
Active(history) ==
    LET all == Lifecycles(history) IN AtPlaces(all, {i \in 1..Len(all) : all[i].state # "retired"})
Mine(active, a)   == AtPlaces(active, {i \in 1..Len(active) : active[i].address = a})
Others(active, a) == AtPlaces(active, {i \in 1..Len(active) : active[i].address # a})

\* A list with averages, the better first.
Sorted(active) ==
    /\ active \in Seq(Range(active))
    /\ \A i \in 1..Len(active) : active[i].average \in Int
    /\ \A i, j \in 1..Len(active) : i < j => active[i].average >= active[j].average

\* The endpoints that are not retired keep the order of their averages.
LEMMA ActiveSorted ==
    ASSUME NEW history \in Seq(RunRecords)
    PROVE  Sorted(Active(history))
<1> DEFINE S == {Lifecycle(history, a) : a \in Named(history)}
           all == Lifecycles(history)
           K == {i \in 1..Len(all) : all[i].state # "retired"}
           t == AtPlaces(all, K)
<1>1. /\ all \in Seq(S) /\ \A l \in S : l.average \in Int
      /\ \A i, j \in 1..Len(all) : i < j => all[i].average >= all[j].average
  BY LifecyclesFacts
<1>2. Active(history) = t /\ K \in SUBSET (1..Len(all))
  BY DEF Active
<1> DEFINE p == Places(K)
<1> HIDE DEF S, all, K
<1>3. /\ t \in Seq(S)
      /\ \A k \in 1..Len(t) : p[k] \in 1..Len(all) /\ t[k] = all[p[k]]
      /\ \A k, l \in 1..Len(t) : k < l => p[k] < p[l]
  BY <1>1, <1>2, Filtered
<1> HIDE DEF t, p
<1>4. \A i \in 1..Len(t) : t[i].average \in Int
  BY <1>1, <1>3, ElementOfSeq
<1>5. t \in Seq(Range(t))
  BY <1>3 DEF Range
<1> QED BY <1>1, <1>2, <1>3, <1>4, <1>5 DEF Sorted

\* What is first of a part of a list: nothing of that part is before it.
LEMMA FirstMine ==
    ASSUME NEW s, Sorted(s), NEW a
    PROVE  /\ Mine(s, a) = <<>> <=> \A i \in 1..Len(s) : s[i].address # a
           /\ Mine(s, a) # <<>> =>
                \E i \in 1..Len(s) : /\ Mine(s, a)[1] = s[i] /\ s[i].address = a
                                     /\ \A j \in 1..Len(s) : s[j].address = a => i <= j
<1> DEFINE K == {i \in 1..Len(s) : s[i].address = a}
<1>1. K \in SUBSET (1..Len(s)) /\ Mine(s, a) = AtPlaces(s, K) /\ s \in Seq(Range(s))
  BY DEF Mine, Sorted
<1>2. \A i : i \in K <=> i \in 1..Len(s) /\ s[i].address = a
  OBVIOUS
<1> HIDE DEF K
<1>3. Mine(s, a) = <<>> <=> K = {}
  BY <1>1, NoneFiltered
<1>4. ASSUME Mine(s, a) # <<>>
      PROVE  \E i \in K : Mine(s, a)[1] = s[i] /\ \A j \in K : i <= j
  BY <1>1, <1>4, FirstFiltered
<1> QED BY <1>2, <1>3, <1>4

\* The first endpoint that is another one is in the list, and there is one unless all are this one.
LEMMA FirstOther ==
    ASSUME NEW s, Sorted(s), NEW a
    PROVE  /\ Others(s, a) = <<>> <=> \A i \in 1..Len(s) : s[i].address = a
           /\ Others(s, a) # <<>> =>
                \E i \in 1..Len(s) : /\ Others(s, a)[1] = s[i] /\ s[i].address # a
                                     /\ \A j \in 1..Len(s) : s[j].address # a => i <= j
<1> DEFINE K == {i \in 1..Len(s) : s[i].address # a}
<1>1. K \in SUBSET (1..Len(s)) /\ Others(s, a) = AtPlaces(s, K) /\ s \in Seq(Range(s))
  BY DEF Others, Sorted
<1>2. \A i : i \in K <=> i \in 1..Len(s) /\ s[i].address # a
  OBVIOUS
<1> HIDE DEF K
<1>3. Others(s, a) = <<>> <=> K = {}
  BY <1>1, NoneFiltered
<1>4. ASSUME Others(s, a) # <<>>
      PROVE  \E i \in K : Others(s, a)[1] = s[i] /\ \A j \in K : i <= j
  BY <1>1, <1>4, FirstFiltered
<1> QED BY <1>2, <1>3, <1>4

\* What the advice comes to.
Advised(s, a, to) ==
    /\ s = <<>> => to = Null
    /\ s # <<>> /\ Mine(s, a) = <<>> => to = s[1].address
    /\ s # <<>> /\ Mine(s, a) # <<>> /\ Others(s, a) = <<>> => to = Null
    /\ s # <<>> /\ Mine(s, a) # <<>> /\ Others(s, a) # <<>> =>
         \/ to = Null
         \/ /\ to = Others(s, a)[1].address
            /\ Others(s, a)[1].average - Mine(s, a)[1].average >= 40

\* What adviseMigration answers: nothing, or the best endpoint when the present one is
\* unknown, or the best of the others when it is ahead by the margin.
LEMMA AdviceFacts ==
    ASSUME NEW history \in Seq(RunRecords), NEW a
    PROVE  Advised(Active(history), a, AdviseMigration(history, a))
<1> DEFINE s        == Active(history)
           to       == AdviseMigration(history, a)
           mine     == Mine(s, a)
           others   == Others(s, a)
           margin   == others[1].average - mine[1].average
           required == IF mine[1].state = "degrading" THEN MigrationMargin \div 2 ELSE MigrationMargin
           samples  == Min({8, mine[1].observations + others[1].observations})
           quality  == RoundDiv(1000 * samples + 50 * Min({160, Max({0, margin})}), 160)
<1>1. to = IF s = <<>> THEN Null
           ELSE IF mine = <<>> THEN s[1].address
           ELSE IF others = <<>> THEN Null
           ELSE IF others[1].state # "new" /\ margin >= required /\ quality >= 55
                THEN others[1].address ELSE Null
  BY Zenon DEF AdviseMigration, Active, Mine, Others
<1>2. required \in {40, 80}
  BY DEF MigrationMargin
<1>3. Sorted(s)
  BY ActiveSorted
<1> HIDE DEF s, to, required
<1>4. mine # <<>> => mine[1].average \in Int
  BY <1>3, FirstMine DEF Sorted
<1>5. others # <<>> => others[1].average \in Int
  BY <1>3, FirstOther DEF Sorted
<1> HIDE DEF mine, others, quality
<1>6. mine # <<>> /\ others # <<>> /\ margin >= required => margin >= 40
  BY <1>2, <1>4, <1>5
<1>7. /\ s = <<>> => to = Null
      /\ s # <<>> /\ mine = <<>> => to = s[1].address
      /\ s # <<>> /\ mine # <<>> /\ others = <<>> => to = Null
      /\ s # <<>> /\ mine # <<>> /\ others # <<>> =>
           to = Null \/ (to = others[1].address /\ margin >= 40)
  BY <1>1, <1>6
<1> QED BY <1>7 DEF Advised, s, to, mine, others

\* Advice that is followed is not taken back.
LEMMA AdviceIsFinal ==
    ASSUME NEW history \in Seq(RunRecords), NEW a, NEW to, to = AdviseMigration(history, a), to # Null
    PROVE  to # a /\ AdviseMigration(history, to) = Null
<1> DEFINE s == Active(history)
           again == AdviseMigration(history, to)
<1>1. Sorted(s) /\ Advised(s, a, to) /\ Advised(s, to, again)
  BY ActiveSorted, AdviceFacts
<1> HIDE DEF s, again
<1>2. Len(s) \in Nat /\ (s # <<>> => 1 \in 1..Len(s))
  BY <1>1 DEF Sorted
<1>3. s # <<>>
  BY <1>1 DEF Advised
<1>4. CASE Mine(s, a) = <<>>
  <2>1. to = s[1].address
    BY <1>1, <1>3, <1>4 DEF Advised
  <2>2. to # a
    BY <1>1, <1>2, <1>3, <1>4, <2>1, FirstMine
  <2>3. Mine(s, to) # <<>>
    BY <1>1, <1>2, <1>3, <2>1, FirstMine
  <2>4. PICK i \in 1..Len(s) : Mine(s, to)[1] = s[i] /\ \A j \in 1..Len(s) : s[j].address = to => i <= j
    BY <1>1, <2>3, FirstMine
  <2>5. i = 1
    BY <1>2, <1>3, <2>1, <2>4
  <2>6. ASSUME Others(s, to) # <<>>
        PROVE  Others(s, to)[1].average <= s[1].average
    <3>1. PICK k \in 1..Len(s) : Others(s, to)[1] = s[k]
      BY <1>1, <2>6, FirstOther
    <3> QED BY <1>1, <1>2, <1>3, <3>1 DEF Sorted
  <2>7. ASSUME Others(s, to) # <<>>
        PROVE  ~(Others(s, to)[1].average - Mine(s, to)[1].average >= 40)
    <3>1. PICK k \in 1..Len(s) : Others(s, to)[1] = s[k]
      BY <1>1, <2>7, FirstOther
    <3>2. s[k].average \in Int /\ s[1].average \in Int
      BY <1>1, <1>2, <1>3 DEF Sorted
    <3> QED BY <2>4, <2>5, <2>6, <2>7, <3>1, <3>2
  <2>8. again = Null
    BY <1>1, <1>3, <2>3, <2>7 DEF Advised
  <2> QED BY <2>2, <2>8 DEF again
<1>5. CASE Mine(s, a) # <<>>
  <2>1. /\ Others(s, a) # <<>> /\ to = Others(s, a)[1].address
        /\ Others(s, a)[1].average - Mine(s, a)[1].average >= 40
    BY <1>1, <1>3, <1>5 DEF Advised
  <2>2. PICK i \in 1..Len(s) : /\ Mine(s, a)[1] = s[i]
                               /\ \A j \in 1..Len(s) : s[j].address = a => i <= j
    BY <1>1, <1>5, FirstMine
  <2>3. PICK k \in 1..Len(s) : /\ Others(s, a)[1] = s[k] /\ s[k].address # a
                               /\ \A j \in 1..Len(s) : s[j].address # a => k <= j
    BY <1>1, <2>1, FirstOther
  <2>4. to = s[k].address /\ to # a
    BY <2>1, <2>3
  <2>5. Mine(s, to) # <<>>
    BY <1>1, <2>4, FirstMine
  <2>6. PICK q \in 1..Len(s) : /\ Mine(s, to)[1] = s[q] /\ s[q].address = to
                               /\ \A j \in 1..Len(s) : s[j].address = to => q <= j
    BY <1>1, <2>5, FirstMine
  <2>7. q = k
    BY <1>2, <2>3, <2>4, <2>6
  <2>8. \A j \in 1..Len(s) : s[j].average \in Int
    BY <1>1 DEF Sorted
  <2>9. ASSUME NEW j \in 1..Len(s)
        PROVE  s[j].average <= s[k].average
    <3>1. CASE s[j].address = a
      <4>1. i <= j
        BY <2>2, <3>1
      <4>2. s[j].average <= s[i].average
        BY <1>1, <1>2, <2>8, <4>1 DEF Sorted
      <4> QED BY <2>1, <2>2, <2>3, <2>8, <4>2
    <3>2. CASE s[j].address # a
      <4>1. k <= j
        BY <2>3, <3>2
      <4> QED BY <1>1, <1>2, <2>8, <4>1 DEF Sorted
    <3> QED BY <3>1, <3>2
  <2>10. ASSUME Others(s, to) # <<>>
         PROVE  ~(Others(s, to)[1].average - Mine(s, to)[1].average >= 40)
    <3>1. PICK j \in 1..Len(s) : Others(s, to)[1] = s[j]
      BY <1>1, <2>10, FirstOther
    <3> QED BY <2>6, <2>7, <2>8, <2>9, <3>1
  <2>11. again = Null
    BY <1>1, <1>3, <2>5, <2>10 DEF Advised
  <2> QED BY <2>4, <2>11 DEF again
<1> QED BY <1>4, <1>5

-----------------------------------------------------------------------------
(***************************************************************************)
(* What is learnt of blocks.                                               *)
(***************************************************************************)
\* Terms in a proportion, sums in that proportion.
LEMMA SumsInProportion ==
    ASSUME NEW S, IsFiniteSet(S), NEW f, NEW g, NEW a \in Int, NEW b \in Int,
           \A x \in S : f[x] \in Int /\ g[x] \in Int /\ a * f[x] <= b * g[x]
    PROVE  a * SumFunctionOnSet(f, S) <= b * SumFunctionOnSet(g, S)
<1> DEFINE P == {T \in SUBSET S : a * SumFunctionOnSet(f, T) <= b * SumFunctionOnSet(g, T)}
<1>1. ASSUME NEW T \in SUBSET S, \A x \in T : T \ {x} \in P
      PROVE  T \in P
  <2>1. IsFiniteSet(T)
    BY FS_Subset
  <2>2. CASE T = {}
    <3>1. SumFunctionOnSet(f, {}) = 0 /\ SumFunctionOnSet(g, {}) = 0
      BY SumRemove
    <3> QED BY <2>2, <3>1
  <2>3. CASE T # {}
    <3>1. PICK x \in T : TRUE
      BY <2>3
    <3> DEFINE F == SumFunctionOnSet(f, T \ {x})
               G == SumFunctionOnSet(g, T \ {x})
    <3>2. IsFiniteSet(T \ {x})
      BY <2>1, FS_Subset
    <3>3. SumFunctionOnSet(f, T) = f[x] + F /\ SumFunctionOnSet(g, T) = g[x] + G
      BY <2>1, SumRemove
    <3>4. F \in Int /\ G \in Int /\ f[x] \in Int /\ g[x] \in Int
      BY <3>2, SumRemove
    <3>5. a * F <= b * G /\ a * f[x] <= b * g[x]
      BY <1>1
    <3> HIDE DEF F, G
    <3>6. a * (f[x] + F) = a * f[x] + a * F /\ b * (g[x] + G) = b * g[x] + b * G
      BY <3>4
    <3>7. a * f[x] \in Int /\ a * F \in Int /\ b * g[x] \in Int /\ b * G \in Int
      BY <3>4
    <3>8. a * (f[x] + F) <= b * (g[x] + G)
      BY <3>5, <3>6, <3>7
    <3> QED BY <3>3, <3>8
  <2> QED BY <2>2, <2>3
<1> HIDE DEF P
<1>2. \A T \in SUBSET S : T \in P
  BY <1>1, SetInduction
<1> QED BY <1>2 DEF P

\* What is remembered was recorded by today.
Remembered ==
    /\ today \in Nat
    /\ observations \in Seq(Observations)
    /\ \A i \in 1..Len(observations) : observations[i].at <= today

Lately(o) == today - o.at \in 0..60

\* An observation of at most sixty days is in a week that has a weight.
LEMMA WeightFacts ==
    ASSUME NEW o, Lately(o)
    PROVE  Weeks(o) \in 0..8 /\ Weight(o) \in Nat \ {0} /\ Powers[1 + Weeks(o)] \in Nat \ {0}
<1>1. \A d \in 0..60 : d \div 7 \in 0..8
  OBVIOUS
<1>2. Weeks(o) \in 0..8
  BY <1>1 DEF Lately, Weeks
<1>3. \A k \in 1..9 : Powers[k] \in Nat \ {0}
  BY DEF Powers
<1>4. 9 - Weeks(o) \in 1..9 /\ 1 + Weeks(o) \in 1..9
  BY <1>2
<1> QED BY <1>2, <1>3, <1>4 DEF Weight

\* The observations of the last sixty days are observations, and recent.
LEMMA RecentFacts ==
    ASSUME Remembered
    PROVE  Recent \in Seq(Observations) /\ \A i \in 1..Len(Recent) : Lately(Recent[i])
<1> DEFINE K == {i \in 1..Len(observations) : today - observations[i].at <= 60}
           p == Places(K)
           t == Recent
<1>1. K \in SUBSET (1..Len(observations)) /\ t = AtPlaces(observations, K)
  BY DEF Recent
<1>2. \A i \in K : Lately(observations[i])
  <2>1. ASSUME NEW i \in K
        PROVE  Lately(observations[i])
    <3>1. i \in 1..Len(observations) /\ today - observations[i].at <= 60
      OBVIOUS
    <3>2. observations[i] \in Observations
      BY <3>1, ElementOfSeq DEF Remembered
    <3>3. observations[i].at \in Nat /\ observations[i].at <= today /\ today \in Nat
      BY <3>1, <3>2 DEF Remembered, Observations
    <3>4. \A d \in Nat : d <= today /\ today - d <= 60 => today - d \in 0..60
      BY <3>3
    <3>5. today - observations[i].at \in 0..60
      BY <3>1, <3>3, <3>4
    <3> QED BY <3>5 DEF Lately
  <2> QED BY <2>1
<1> HIDE DEF K, t, p
<1>3. t \in Seq(Observations) /\ \A k \in 1..Len(t) : p[k] \in K /\ t[k] = observations[p[k]]
  BY <1>1, Filtered DEF Remembered, p
<1> QED BY <1>2, <1>3 DEF t

\* So are those of one block, and a block that was observed lately has some.
LEMMA EntriesFacts ==
    ASSUME Remembered, NEW b
    PROVE  /\ EntriesOf(b) \in Seq(Observations)
           /\ \A i \in 1..Len(EntriesOf(b)) : Lately(EntriesOf(b)[i])
           /\ \A i \in 1..Len(Recent) : Recent[i].block = b => EntriesOf(b) # <<>>
<1> DEFINE K == {i \in 1..Len(Recent) : Recent[i].block = b}
           p == Places(K)
           t == EntriesOf(b)
<1>1. K \in SUBSET (1..Len(Recent)) /\ t = AtPlaces(Recent, K)
  BY DEF EntriesOf
<1>2. \A i \in 1..Len(Recent) : Recent[i].block = b => i \in K
  OBVIOUS
<1>3. Recent \in Seq(Observations) /\ \A i \in 1..Len(Recent) : Lately(Recent[i])
  BY RecentFacts
<1> HIDE DEF K, t, p
<1>4. t \in Seq(Observations) /\ \A k \in 1..Len(t) : p[k] \in K /\ t[k] = Recent[p[k]]
  BY <1>1, <1>3, Filtered DEF p
<1>5. t = <<>> <=> K = {}
  BY <1>1, <1>3, NoneFiltered
<1> QED BY <1>1, <1>2, <1>3, <1>4, <1>5 DEF t

\* A rounded quotient is at least what its numerator allows.
LEMMA RoundAtLeast ==
    ASSUME NEW n \in Int, NEW d \in Nat \ {0}, RoundDiv(100 * n, d) >= 25
    PROVE  49 * d <= 200 * n
<1> DEFINE a == 2 * (100 * n) + d
           b == 2 * d
           q == a \div b
           r == a % b
<1>0. a \in Int /\ b \in Nat \ {0}
  OBVIOUS
<1>1. q \in Int /\ r \in 0..(b - 1) /\ a = b * q + r
  <2> HIDE DEF a, b
  <2> QED BY <1>0
<1>2. q >= 25
  BY DEF RoundDiv
<1> HIDE DEF q, r
<1>3. b * q \in Int /\ b * q >= b * 25
  <2> HIDE DEF a, b
  <2>1. q - 25 \in Nat
    BY <1>1, <1>2
  <2>2. b * (q - 25) \in Nat
    BY <1>0, <2>1
  <2>3. b * (q - 25) = b * q - b * 25 /\ b * q \in Int /\ b * 25 \in Int
    BY <1>0, <1>1
  <2> QED BY <2>2, <2>3
<1>4. a >= b * 25
  <2> HIDE DEF a, b
  <2> QED BY <1>0, <1>1, <1>3
<1> QED BY <1>4

\* A block that was reached often enough was so in one of the scans.
LEMMA ReachedOften ==
    ASSUME NEW n \in Nat \ {0}, NEW w, NEW r, NEW m,
           \A i \in 1..n : w[i] \in Nat \ {0} /\ r[i] \in Nat /\ m[i] \in Nat,
           NEW f, f = [i \in 1..n |-> w[i] * r[i]],
           NEW g, g = [i \in 1..n |-> w[i] * Max({1, m[i]})],
           RoundDiv(100 * SumOf(f), SumOf(g)) >= 25
    PROVE  \E i \in 1..n : r[i] >= 1 /\ 100 * r[i] >= 24 * m[i]
<1> SUFFICES ASSUME \A i \in 1..n : ~(r[i] >= 1 /\ 100 * r[i] >= 24 * m[i])
             PROVE  FALSE
  OBVIOUS
<1> DEFINE d == [i \in 1..n |-> IF 1 >= m[i] THEN 1 ELSE m[i]]
<1>1. \A i \in 1..n : Max({1, m[i]}) = d[i]
  <2>1. ASSUME NEW i \in 1..n
        PROVE  Max({1, m[i]}) = d[i]
    <3>1. m[i] \in Int /\ 1 \in Int
      OBVIOUS
    <3>2. Max({1, m[i]}) = IF 1 >= m[i] THEN 1 ELSE m[i]
      BY <3>1, MaxOfTwo
    <3> QED BY <3>2
  <2> QED BY <2>1
<1>2. \A i \in 1..n : d[i] \in Nat \ {0} /\ m[i] <= d[i]
  OBVIOUS
<1> HIDE DEF d
<1>3. \A i \in 1..n : f[i] = w[i] * r[i] /\ g[i] = w[i] * d[i]
  BY <1>1
<1>4. ASSUME NEW i \in 1..n
      PROVE  100 * r[i] <= 24 * d[i]
  <2>1. r[i] \in Nat /\ m[i] \in Nat /\ d[i] \in Nat /\ m[i] <= d[i]
    BY <1>2
  <2>2. r[i] = 0 \/ 100 * r[i] < 24 * m[i]
    BY <2>1
  <2> QED BY <2>1, <2>2
<1>5. ASSUME NEW i \in 1..n
      PROVE  f[i] \in Int /\ g[i] \in Nat /\ g[i] >= 1 /\ 100 * f[i] <= 24 * g[i]
  <2> DEFINE a == w[i]
             b == r[i]
             c == d[i]
  <2>1. a \in Nat \ {0} /\ b \in Nat /\ c \in Nat \ {0} /\ 100 * b <= 24 * c
    BY <1>2, <1>4
  <2>2. f[i] = a * b /\ g[i] = a * c
    BY <1>3
  <2> HIDE DEF a, b, c
  <2>3. a * b \in Int /\ a * c \in Nat
    BY <2>1
  <2>4. a * c >= 1
    <3>1. a * c # 0
      BY <2>1
    <3> QED BY <2>3, <3>1
  <2>5. 100 * (a * b) <= 24 * (a * c)
    <3>1. a * (24 * c - 100 * b) \in Nat
      BY <2>1
    <3>2. a * (24 * c - 100 * b) = 24 * (a * c) - 100 * (a * b)
      BY <2>1
    <3> QED BY <2>3, <3>1, <3>2
  <2> QED BY <2>2, <2>3, <2>4, <2>5
<1>6. IsFiniteSet(1..n)
  BY UpToFacts
<1>7. DOMAIN f = 1..n /\ DOMAIN g = 1..n
  OBVIOUS
<1> DEFINE F == SumFunctionOnSet(f, 1..n)
           G == SumFunctionOnSet(g, 1..n)
<1>8. 100 * F <= 24 * G
  <2>1. \A x \in 1..n : f[x] \in Int /\ g[x] \in Int /\ 100 * f[x] <= 24 * g[x]
    BY <1>5
  <2> HIDE DEF F, G
  <2>2. 100 \in Int /\ 24 \in Int
    OBVIOUS
  <2>3. 100 * SumFunctionOnSet(f, 1..n) <= 24 * SumFunctionOnSet(g, 1..n)
    BY <1>6, <2>1, <2>2, SumsInProportion
  <2> QED BY <2>3 DEF F, G
<1>9. F \in Int
  BY <1>5, <1>6, SumRemove
<1>10. G \in Nat /\ G >= 1
  <2>1. G \in Nat /\ \A x \in 1..n : g[x] <= G
    BY <1>5, <1>6, SumOfNaturals
  <2>2. 1 \in 1..n
    OBVIOUS
  <2>3. g[1] >= 1 /\ g[1] <= G /\ g[1] \in Nat
    BY <1>5, <2>1, <2>2
  <2> HIDE DEF G
  <2> QED BY <2>1, <2>3
<1>11. SumOf(f) = F /\ SumOf(g) = G
  BY <1>7 DEF SumOf
<1> HIDE DEF F, G
<1>12. RoundDiv(100 * F, G) >= 25
  BY <1>11
<1>13. 49 * G <= 200 * F
  BY <1>9, <1>10, <1>12, RoundAtLeast
<1> QED BY <1>8, <1>9, <1>10, <1>13

\* A sum in which each term is weighed is a number, and the sum of the weights is not nothing.
LEMMA WeighedSum ==
    ASSUME NEW n \in Nat, NEW w, NEW v, NEW f, f = [i \in 1..n |-> w[i] * v[i]],
           \A i \in 1..n : w[i] \in Nat \ {0} /\ v[i] \in Nat
    PROVE  SumOf(f) \in Nat /\ \A i \in 1..n : f[i] <= SumOf(f)
<1>1. IsFiniteSet(1..n)
  BY UpToFacts
<1>2. DOMAIN f = 1..n /\ \A i \in 1..n : f[i] = w[i] * v[i]
  OBVIOUS
<1>3. \A a \in Nat \ {0}, b \in Nat : a * b \in Nat
  OBVIOUS
<1>4. \A i \in 1..n : f[i] \in Nat
  BY <1>2, <1>3
<1>5. SumFunctionOnSet(f, 1..n) \in Nat /\ \A i \in 1..n : f[i] <= SumFunctionOnSet(f, 1..n)
  BY <1>1, <1>4, SumOfNaturals
<1>6. SumOf(f) = SumFunctionOnSet(f, 1..n)
  BY <1>2 DEF SumOf
<1> QED BY <1>5, <1>6

\* A sum of weights alone is positive.
LEMMA WeightsSum ==
    ASSUME NEW n \in Nat \ {0}, NEW w, NEW f, f = [i \in 1..n |-> w[i] * [k \in 1..n |-> 1][i]],
           \A i \in 1..n : w[i] \in Nat \ {0}
    PROVE  SumOf(f) \in Nat \ {0}
<1> DEFINE v == [k \in 1..n |-> 1]
<1>1. \A i \in 1..n : v[i] = 1
  OBVIOUS
<1>2. f = [i \in 1..n |-> w[i] * v[i]]
  OBVIOUS
<1> HIDE DEF v
<1>0. n \in Nat /\ \A i \in 1..n : w[i] \in Nat \ {0} /\ v[i] \in Nat
  BY <1>1
<1>3. SumOf(f) \in Nat /\ \A i \in 1..n : f[i] <= SumOf(f)
  BY <1>0, <1>2, WeighedSum
<1>4. 1 \in 1..n
  OBVIOUS
<1>5. f[1] = w[1] * v[1] /\ w[1] \in Nat \ {0}
  BY <1>2, <1>4
<1>6. f[1] = w[1]
  BY <1>1, <1>4, <1>5
<1>7. f[1] <= SumOf(f)
  BY <1>3, <1>4
<1> HIDE DEF v
<1> QED BY <1>3, <1>5, <1>6, <1>7

\* What is learnt of a block that was observed, in order of scores and of first meeting.
LEMMA LearnFacts ==
    ASSUME Remembered, NEW j \in 1..Len(Recent), NEW b, b = Recent[j].block
    PROVE  /\ Learn(b).block = b
           /\ Learn(b).score \in Int /\ Learn(b).confidence \in Int
           /\ Learn(b).seen \in 1..Len(Recent) /\ Recent[Learn(b).seen].block = b
           /\ Learn(b).reachRate >= 25 =>
                \E i \in 1..Len(EntriesOf(b)) :
                  /\ EntriesOf(b)[i].reachable >= 1
                  /\ 100 * EntriesOf(b)[i].reachable >= 24 * EntriesOf(b)[i].measured
           /\ Learn(b).trend = TrendOf(EntriesOf(b))
<1> DEFINE noted == EntriesOf(b)
           n  == Len(noted)
           w  == [i \in 1..n |-> Weight(noted[i])]
           ones == [i \in 1..n |-> 1]
           scores == [i \in 1..n |-> noted[i].score]
           reached == [i \in 1..n |-> noted[i].reachable]
           tried == [i \in 1..n |-> noted[i].measured]
           weight == [i \in 1..n |-> w[i] * ones[i]]
           score == [i \in 1..n |-> w[i] * scores[i]]
           reach == [i \in 1..n |-> w[i] * reached[i]]
           try   == [i \in 1..n |-> w[i] * Max({1, tried[i]})]
           T == {i \in 1..Len(Recent) : Recent[i].block = b}
           days == Cardinality({noted[i].at : i \in 1..n})
           l == Learn(b)
<1>1. /\ weight = [i \in 1..n |-> Weight(noted[i]) * ones[i]]
      /\ score = [i \in 1..n |-> Weight(noted[i]) * scores[i]]
      /\ reach = [i \in 1..n |-> Weight(noted[i]) * reached[i]]
  OBVIOUS
<1>2. try = [i \in 1..n |-> Weight(noted[i]) * [k \in 1..n |-> Max({1, noted[k].measured})][i]]
  OBVIOUS
<1>3. /\ l.block = b /\ l.trend = TrendOf(noted) /\ l.seen = Min(T)
      /\ l.score = RoundDiv(10 * SumOf([i \in 1..n |-> Weight(noted[i]) * scores[i]]),
                            SumOf([i \in 1..n |-> Weight(noted[i]) * ones[i]]))
      /\ l.reachRate = RoundDiv(100 * SumOf([i \in 1..n |-> Weight(noted[i]) * reached[i]]),
                                SumOf([i \in 1..n |-> Weight(noted[i]) * [k \in 1..n |-> Max({1, noted[k].measured})][i]]))
      /\ l.confidence = RoundDiv(100 * Min({n, 3}) * Min({days, 2}), 6 * Powers[1 + Weeks(noted[1])])
  BY DEF Learn
<1>4. /\ noted \in Seq(Observations) /\ n \in Nat \ {0}
      /\ \A i \in 1..n : noted[i] \in Observations /\ Lately(noted[i])
  <2>1. /\ noted \in Seq(Observations) /\ noted # <<>>
        /\ \A i \in 1..n : Lately(noted[i])
    BY EntriesFacts
  <2> HIDE DEF noted
  <2> QED BY <2>1, ElementOfSeq
<1>5. /\ \A i \in 1..n : noted[i].score \in Nat /\ noted[i].reachable \in Nat /\ noted[i].measured \in Nat
      /\ \A i \in 1..n : Weight(noted[i]) \in Nat \ {0} /\ Powers[1 + Weeks(noted[i])] \in Nat \ {0}
  <2> HIDE DEF noted, n
  <2>1. \A i \in 1..n : Weight(noted[i]) \in Nat \ {0} /\ Powers[1 + Weeks(noted[i])] \in Nat \ {0}
    BY <1>4, WeightFacts
  <2> QED BY <1>4, <2>1 DEF Observations
<1> HIDE DEF noted, n, T, days, l
<1>6. \A i \in 1..n : /\ w[i] \in Nat \ {0} /\ ones[i] \in Nat /\ ones[i] = 1 /\ scores[i] \in Nat
                       /\ reached[i] \in Nat /\ tried[i] \in Nat
  BY <1>5
<1>7. l.score = RoundDiv(10 * SumOf(score), SumOf(weight)) /\ l.reachRate = RoundDiv(100 * SumOf(reach), SumOf(try))
  BY <1>1, <1>2, <1>3
<1> DEFINE E == \E i \in 1..n : reached[i] >= 1 /\ 100 * reached[i] >= 24 * tried[i]
<1>8. l.reachRate >= 25 => E
  <2> HIDE DEF w, reached, tried
  <2>1. reach = [i \in 1..n |-> w[i] * reached[i]] /\ try = [i \in 1..n |-> w[i] * Max({1, tried[i]})]
    OBVIOUS
  <2>2. \A i \in 1..n : w[i] \in Nat \ {0} /\ reached[i] \in Nat /\ tried[i] \in Nat
    BY <1>6
  <2> HIDE DEF reach, try
  <2>3. ASSUME RoundDiv(100 * SumOf(reach), SumOf(try)) >= 25
        PROVE  \E i \in 1..n : reached[i] >= 1 /\ 100 * reached[i] >= 24 * tried[i]
    BY <1>4, <2>1, <2>2, <2>3, ReachedOften
  <2> QED BY <1>7, <2>3
<1>9. l.score \in Int
  <2> HIDE DEF w, scores
  <2>1. weight = [i \in 1..n |-> w[i] * [k \in 1..n |-> 1][i]] /\ score = [i \in 1..n |-> w[i] * scores[i]]
    OBVIOUS
  <2> HIDE DEF weight, score, ones
  <2>2. \A i \in 1..n : w[i] \in Nat \ {0} /\ scores[i] \in Nat
    BY <1>6
  <2>3. SumOf(score) \in Nat
    BY <1>4, <2>1, <2>2, WeighedSum
  <2>4. SumOf(weight) \in Nat \ {0}
    BY <1>4, <2>1, <2>2, WeightsSum
  <2>5. 10 * SumOf(score) \in Int
    BY <2>3
  <2> QED BY <1>7, <2>4, <2>5, RoundType
<1>10. l.confidence \in Int
  <2>1. IsFiniteSet(1..n) /\ days \in Nat
    <3> DEFINE f == [i \in 1..n |-> noted[i].at]
               A == {noted[i].at : i \in 1..n}
    <3>1. f \in Surjection(1..n, A)
      <4>1. f \in [1..n -> A] /\ \A x \in A : \E i \in 1..n : f[i] = x
        OBVIOUS
      <4> HIDE DEF f, A
      <4> QED BY <4>1 DEF Surjection
    <3>2. days = Cardinality(A)
      BY DEF days
    <3> HIDE DEF f, A
    <3>3. IsFiniteSet(1..n)
      BY <1>4, UpToFacts
    <3> QED BY <3>1, <3>2, <3>3, FS_Surjection, FS_CardinalityType
  <2>2. Min({n, 3}) \in Int
    <3>1. n \in Int /\ 3 \in Int
      BY <1>4
    <3> QED BY <3>1, MinOfTwo
  <2>3. Min({days, 2}) \in Int
    <3>1. days \in Int /\ 2 \in Int
      BY <2>1
    <3> QED BY <3>1, MinOfTwo
  <2>4. 1 \in 1..n
    BY <1>4
  <2>5. Powers[1 + Weeks(noted[1])] \in Nat \ {0}
    BY <1>5, <2>4
  <2> DEFINE x == Min({n, 3})
             y == Min({days, 2})
             z == Powers[1 + Weeks(noted[1])]
  <2>6. l.confidence = RoundDiv(100 * x * y, 6 * z)
    BY <1>3
  <2> HIDE DEF x, y, z
  <2>7. x \in Int /\ y \in Int /\ z \in Nat \ {0}
    BY <2>2, <2>3, <2>5 DEF x, y, z
  <2>8. 100 * x * y \in Int /\ 6 * z \in Nat \ {0}
    BY <2>7
  <2> QED BY <2>6, <2>8, RoundType
<1>11. Min(T) \in T
  <2>1. j \in T /\ \A i \in T : i \in Nat
    BY DEF T
  <2>2. T \in SUBSET Nat /\ T # {}
    BY <2>1
  <2>3. \E x \in T : \A y \in T : x <= y
    BY <2>2, Smallest
  <2> QED BY <2>3 DEF Min
<1>12. l.seen \in 1..Len(Recent) /\ Recent[l.seen].block = b
  BY <1>3, <1>11 DEF T
<1>13. E => \E i \in 1..n : noted[i].reachable >= 1 /\ 100 * noted[i].reachable >= 24 * noted[i].measured
  OBVIOUS
<1> HIDE DEF E
<1> QED BY <1>3, <1>8, <1>9, <1>10, <1>12, <1>13 DEF l, noted, n

\* What is learnt is of finitely many blocks, which can be told apart and are in an order.
LEMMA LearnedFacts ==
    ASSUME Remembered
    PROVE  /\ IsFiniteSet(Learned)
           /\ \A k \in Learned : /\ k.score \in Int /\ k.confidence \in Int /\ k.seen \in Int
                                 /\ \E j \in 1..Len(Recent) : k = Learn(Recent[j].block)
           /\ \A k, l \in Learned : k.seen = l.seen => k = l
<1> DEFINE B == {Recent[i].block : i \in 1..Len(Recent)}
           f == [i \in 1..Len(Recent) |-> Learn(Recent[i].block)]
           m == Len(Recent)
<1>1. Learned = {f[i] : i \in 1..m} /\ \A i \in 1..m : f[i] = Learn(Recent[i].block)
  BY DEF Learned
<1>2. m \in Nat
  BY RecentFacts, LenProperties
<1>3. IsFiniteSet(Learned)
  <2>1. f \in Surjection(1..m, Learned)
    <3>1. f \in [1..m -> Learned] /\ \A x \in Learned : \E i \in 1..m : f[i] = x
      BY <1>1
    <3> HIDE DEF f, m
    <3> QED BY <3>1 DEF Surjection
  <2> HIDE DEF f, m
  <2>2. IsFiniteSet(1..m)
    BY <1>2, UpToFacts
  <2> QED BY <2>1, <2>2, FS_Surjection
<1>4. ASSUME NEW j \in 1..m
      PROVE  /\ f[j].score \in Int /\ f[j].confidence \in Int /\ f[j].seen \in Int
             /\ Recent[f[j].seen].block = Recent[j].block
  <2> DEFINE b == Recent[j].block
  <2>1. /\ Learn(b).score \in Int /\ Learn(b).confidence \in Int
        /\ Learn(b).seen \in 1..Len(Recent) /\ Recent[Learn(b).seen].block = b
    BY LearnFacts
  <2> QED BY <1>1, <2>1
<1> HIDE DEF f
<1>5. \A i, j \in 1..m : f[i].seen = f[j].seen => f[i] = f[j]
  <2> SUFFICES ASSUME NEW i \in 1..m, NEW j \in 1..m, f[i].seen = f[j].seen
               PROVE  f[i] = f[j]
    OBVIOUS
  <2>1. Recent[i].block = Recent[j].block
    BY <1>4
  <2> QED BY <1>1, <2>1
<1> QED BY <1>1, <1>3, <1>4, <1>5 DEF m

Worth == {k \in Learned : k.reachRate >= 25 /\ k.trend # "degrading" /\ k.score > 0}

\* What is learnt is listed by how good it is.
LEMMA AheadFacts ==
    ASSUME NEW S, IsFiniteSet(S), \A k \in S : k.score \in Int /\ k.confidence \in Int /\ k.seen \in Int,
           \A k, l \in S : k.seen = l.seen => k = l
    PROVE  ListsAll(Ordered(S, Ahead), S)
<1> DEFINE R == {p \in S \X S : Ahead(p[1], p[2])}
           f == Ordered(S, Ahead)
<1>1. StrictOrder(R, S)
  <2>1. \A a \in S : <<a, a>> \notin R
    BY DEF Ahead
  <2>2. ASSUME NEW a \in S, NEW b \in S, NEW c \in S, <<a, b>> \in R, <<b, c>> \in R
        PROVE  <<a, c>> \in R
    <3>1. Ahead(a, b) /\ Ahead(b, c)
      BY <2>2
    <3>2. /\ a.score \in Int /\ b.score \in Int /\ c.score \in Int
          /\ a.confidence \in Int /\ b.confidence \in Int /\ c.confidence \in Int
          /\ a.seen \in Int /\ b.seen \in Int /\ c.seen \in Int
      OBVIOUS
    <3>3. Ahead(a, c)
      BY <3>1, <3>2 DEF Ahead
    <3> QED BY <3>3
  <2>3. ASSUME NEW a \in S, NEW b \in S, a # b
        PROVE  <<a, b>> \in R \/ <<b, a>> \in R
    BY <2>3 DEF Ahead
  <2> HIDE DEF R
  <2> QED BY <2>1, <2>2, <2>3 DEF StrictOrder
<1>2. \A a \in S : {b \in S : Ahead(b, a)} = {b \in S : <<b, a>> \in R}
  OBVIOUS
<1> HIDE DEF R
<1>3. f = Listing(S, R)
  <2>1. f = [k \in 1..Cardinality(S) |->
               CHOOSE a \in S : Cardinality({b \in S : Ahead(b, a)}) = k - 1]
    BY DEF Ordered
  <2>2. ASSUME NEW k
        PROVE  (CHOOSE a \in S : Cardinality({b \in S : Ahead(b, a)}) = k - 1)
                 = CHOOSE a \in S : Cardinality({b \in S : <<b, a>> \in R}) = k - 1
    BY <1>2
  <2> QED BY <2>1, <2>2 DEF Listing
<1> HIDE DEF f
<1>4. ListsAll(Listing(S, R), S)
  BY <1>1, InOrder
<1> QED BY <1>3, <1>4 DEF f

\* The preferred blocks are worth it.
LEMMA PreferredFacts ==
    ASSUME Remembered
    PROVE  PreferredBlocks \in Seq(Worth) /\ Len(PreferredBlocks) <= PreferredLimit
<1> DEFINE S == Worth
           g == Ordered(S, Ahead)
           n == Cardinality(S)
<1>1. /\ IsFiniteSet(S) /\ n \in Nat
      /\ \A k \in S : k.score \in Int /\ k.confidence \in Int /\ k.seen \in Int
      /\ \A k, l \in S : k.seen = l.seen => k = l
  <2>1. S \in SUBSET Learned
    BY DEF Worth
  <2>2. IsFiniteSet(S)
    BY <2>1, LearnedFacts, FS_Subset
  <2> QED BY <2>1, <2>2, LearnedFacts, FS_CardinalityType
<1>2. PreferredBlocks = Take(g, PreferredLimit)
  BY DEF PreferredBlocks, Worth
<1> HIDE DEF S, n
<1>3. ListsAll(g, S)
  BY <1>1, AheadFacts
<1> HIDE DEF g
<1>4. g \in [1..n -> S]
  BY <1>3 DEF ListsAll, n
<1>5. g \in Seq(S)
  BY <1>1, <1>4
<1>6. PreferredLimit \in Nat
  BY ScanLearningAssumption
<1>7. Take(g, PreferredLimit) \in Seq(S) /\ Len(Take(g, PreferredLimit)) <= PreferredLimit
  BY <1>5, <1>6, TakeFacts
<1> QED BY <1>2, <1>7 DEF S

\* What is preferred was reached, and is not on the way down.
LEMMA ReachedWhenPreferred ==
    ASSUME Remembered
    PROVE  PreferredReached
<1> SUFFICES ASSUME NEW i \in 1..Len(PreferredBlocks), NEW noted,
                    noted = EntriesOf(PreferredBlocks[i].block)
             PROVE  /\ \E e \in ToSet(noted) : e.reachable >= 1 /\ 100 * e.reachable >= 24 * e.measured
                    /\ Len(noted) > 1 => noted[1].score > noted[2].score - 8
  BY DEF PreferredReached
<1> DEFINE k == PreferredBlocks[i]
<1>1. k \in Worth
  BY PreferredFacts, ElementOfSeq
<1> HIDE DEF k
<1>2. k \in Learned /\ k.reachRate >= 25 /\ k.trend # "degrading"
  BY <1>1 DEF Worth
<1>3. PICK j \in 1..Len(Recent) : k = Learn(Recent[j].block)
  BY <1>2, LearnedFacts
<1> DEFINE b == Recent[j].block
<1>4. /\ Learn(b).block = b
      /\ Learn(b).reachRate >= 25 =>
                \E x \in 1..Len(EntriesOf(b)) :
                  /\ EntriesOf(b)[x].reachable >= 1
                  /\ 100 * EntriesOf(b)[x].reachable >= 24 * EntriesOf(b)[x].measured
      /\ Learn(b).trend = TrendOf(EntriesOf(b))
  BY LearnFacts
<1> HIDE DEF b
<1>5. noted = EntriesOf(b) /\ k = Learn(b)
  BY <1>3, <1>4 DEF k, b
<1>6. noted \in Seq(Observations)
  BY <1>5, EntriesFacts
<1>7. DOMAIN noted = 1..Len(noted) /\ Len(noted) \in Nat
  BY <1>6, LenProperties
<1>8. PICK x \in 1..Len(noted) : noted[x].reachable >= 1 /\ 100 * noted[x].reachable >= 24 * noted[x].measured
  BY <1>2, <1>4, <1>5
<1>9. noted[x] \in ToSet(noted)
  BY <1>7 DEF ToSet
<1>10. ASSUME Len(noted) > 1
       PROVE  noted[1].score > noted[2].score - 8
  <2>1. TrendOf(noted) # "degrading"
    BY <1>2, <1>4, <1>5
  <2>2. 1 \in 1..Len(noted) /\ 2 \in 1..Len(noted)
    BY <1>7, <1>10
  <2>3. noted[1] \in Observations /\ noted[2] \in Observations
    BY <1>6, <2>2, ElementOfSeq
  <2>4. noted[1].score \in Nat /\ noted[2].score \in Nat
    BY <2>3 DEF Observations
  <2> DEFINE delta == noted[1].score - noted[2].score
  <2>5. delta > -8
    <3>1. Len(noted) >= 2 /\ delta \in Int
      BY <1>7, <1>10, <2>4
    <3>2. TrendOf(noted) = IF Len(noted) < 2 THEN "unknown"
                             ELSE IF delta >= 8 THEN "improving" ELSE IF delta <= -8 THEN "degrading" ELSE "stable"
      BY DEF TrendOf
    <3> HIDE DEF delta
    <3> QED BY <1>7, <2>1, <3>1, <3>2
  <2> QED BY <2>4, <2>5
<1> QED BY <1>8, <1>9, <1>10

-----------------------------------------------------------------------------
(***************************************************************************)
(* The candidates of a scan.                                               *)
(***************************************************************************)
\* What a device may be asked to measure.
Askable == {a \in Addresses : Published(a[1]) /\ a[2] \in 1..Hosts}

\* A host of a published block is an address that may be asked about.
LEMMA AskableIntro ==
    ASSUME NEW b, Published(b), NEW h \in 1..Hosts
    PROVE  <<b, h>> \in Askable
<1>1. PICK i \in 1..Len(Ranges) : b \in Ranges[i].first..(Ranges[i].first + Ranges[i].blocks - 1)
  BY DEF Published
<1>0. Ranges \in Seq([first : Nat, blocks : Nat \ {0}])
  BY ScanLearningAssumption
<1>2. Ranges[i] \in [first : Nat, blocks : Nat \ {0}]
  BY <1>0, ElementOfSeq
<1>3. b \in Nat
  BY <1>1, <1>2
<1>4. h \in Nat
  OBVIOUS
<1> QED BY <1>3, <1>4 DEF Askable, Addresses

\* The host that a number picks is one of the hosts of a block.
LEMMA HostFacts ==
    ASSUME NEW mix, NEW i, mix[i] \in Nat
    PROVE  Host(mix, i) \in 1..Hosts
<1>1. Hosts \in Nat \ {0}
  BY ScanLearningAssumption
<1>2. \A a \in Nat : \A b \in Nat \ {0} : a % b \in 0..(b - 1)
  OBVIOUS
<1>3. mix[i] % Hosts \in 0..(Hosts - 1)
  BY <1>1, <1>2
<1> QED BY <1>1, <1>3 DEF Host

\* The preferred blocks that are still published.
LEMMA PreferredCandidatesFacts ==
    ASSUME Remembered, NEW mix \in Mixes
    PROVE  PreferredCandidates(mix) \in Seq(Askable)
<1> DEFINE all == PreferredBlocks
           K == {k \in 1..Len(all) : Published(all[k].block)}
           p == Places(K)
           known == AtPlaces(all, K)
           m == Len(known)
           c == [k \in 1..m |-> <<known[k].block, Host(mix, k - 1)>>]
<1>1. PreferredCandidates(mix) = c
  BY DEF PreferredCandidates
<1>2. all \in Seq(Worth) /\ Len(all) <= PreferredLimit
  BY PreferredFacts
<1>3. K \in SUBSET (1..Len(all)) /\ \A k \in K : Published(all[k].block)
  OBVIOUS
<1>4. /\ known \in Seq(Worth) /\ m = Cardinality(K)
      /\ \A k \in 1..m : p[k] \in K /\ known[k] = all[p[k]]
  <2> HIDE DEF all, K
  <2> QED BY <1>2, <1>3, Filtered
<1>5. m \in Nat /\ m <= PreferredLimit
  <2> HIDE DEF all, K, known
  <2>1. Len(all) \in Nat
    BY <1>2, LenProperties
  <2>2. IsFiniteSet(1..Len(all)) /\ Cardinality(1..Len(all)) = Len(all)
    BY <2>1, UpToFacts
  <2>3. Cardinality(K) <= Len(all) /\ IsFiniteSet(K)
    BY <1>3, <2>2, FS_Subset
  <2>4. Cardinality(K) \in Nat
    BY <2>3, FS_CardinalityType
  <2>5. PreferredLimit \in Nat
    BY ScanLearningAssumption
  <2> QED BY <1>2, <1>4, <2>1, <2>3, <2>4, <2>5
<1> HIDE DEF all, K, p, known, m
<1>6. ASSUME NEW k \in 1..m
      PROVE  <<known[k].block, Host(mix, k - 1)>> \in Askable
  <2>1. Published(known[k].block)
    BY <1>3, <1>4
  <2>2. k - 1 \in 0..(PreferredLimit - 1)
    <3>1. PreferredLimit \in Nat
      BY ScanLearningAssumption
    <3> QED BY <1>5, <3>1
  <2>3. mix[k - 1] \in Nat
    BY <2>2, MixesAssumption
  <2>4. Host(mix, k - 1) \in 1..Hosts
    BY <2>3, HostFacts
  <2> QED BY <2>1, <2>4, AskableIntro
<1>7. c \in [1..m -> Askable]
  BY <1>6
<1> HIDE DEF c
<1>8. c \in Seq(Askable)
  BY <1>5, <1>7
<1> QED BY <1>1, <1>8

\* The slots of the prefixes are finitely many.
LEMMA SlotsFinite == IsFiniteSet(Slots)
<1> DEFINE A == 0..(Passes - 1)
           B == 1..Len(Ranges)
           C == 0..(Wanted - 1)
           P == (A \X B) \X C
           T == A \X B \X C
           f == [q \in P |-> <<q[1][1], q[1][2], q[2]>>]
<1>1. ASSUME NEW n \in Nat
      PROVE  IsFiniteSet(0..(n - 1))
  <2>1. 0..(n - 1) \in SUBSET ({0} \cup 1..n)
    OBVIOUS
  <2>2. IsFiniteSet({0} \cup 1..n)
    BY FS_Singleton, UpToFacts, FS_Union
  <2> QED BY <2>1, <2>2, FS_Subset
<1>2. Passes \in Nat /\ Wanted \in Nat /\ Len(Ranges) \in Nat
  BY ScanLearningAssumption, LenProperties
<1>3. IsFiniteSet(A) /\ IsFiniteSet(B) /\ IsFiniteSet(C)
  BY <1>1, <1>2, UpToFacts
<1>4. Slots \in SUBSET T
  BY DEF Slots
<1> HIDE DEF A, B, C
<1>5. IsFiniteSet(P)
  <2>1. IsFiniteSet(A \X B)
    BY <1>3, FS_Product
  <2> QED BY <1>3, <2>1, FS_Product
<1>6. f \in Surjection(P, T)
  <2>1. f \in [P -> T]
    OBVIOUS
  <2>2. ASSUME NEW t \in T
        PROVE  \E q \in P : f[q] = t
    <3> DEFINE q == <<<<t[1], t[2]>>, t[3]>>
    <3>1. q \in P /\ f[q] = <<t[1], t[2], t[3]>>
      OBVIOUS
    <3>2. t = <<t[1], t[2], t[3]>>
      OBVIOUS
    <3> QED BY <3>1, <3>2
  <2> HIDE DEF f, P, T
  <2> QED BY <2>1, <2>2 DEF Surjection
<1> HIDE DEF f, P, T
<1>7. IsFiniteSet(T)
  BY <1>5, <1>6, FS_Surjection
<1> QED BY <1>4, <1>7, FS_Subset

\* The slots are in the order they are tried.
LEMMA EarlierFacts ==
    ASSUME NEW S, IsFiniteSet(S),
           \A s \in S : s[1] \in Int /\ s[2] \in Int /\ s[3] \in Int /\ s = <<s[1], s[2], s[3]>>
    PROVE  ListsAll(Ordered(S, Earlier), S)
<1> DEFINE R == {p \in S \X S : Earlier(p[1], p[2])}
           f == Ordered(S, Earlier)
<1>1. /\ IsFiniteSet(S)
      /\ \A s \in S : s[1] \in Int /\ s[2] \in Int /\ s[3] \in Int /\ s = <<s[1], s[2], s[3]>>
  OBVIOUS
<1>2. StrictOrder(R, S)
  <2>1. \A a \in S : <<a, a>> \notin R
    BY <1>1 DEF Earlier
  <2>2. ASSUME NEW a \in S, NEW b \in S, NEW c \in S, <<a, b>> \in R, <<b, c>> \in R
        PROVE  <<a, c>> \in R
    <3>1. Earlier(a, b) /\ Earlier(b, c)
      BY <2>2
    <3>2. /\ a[1] \in Int /\ b[1] \in Int /\ c[1] \in Int
          /\ a[2] \in Int /\ b[2] \in Int /\ c[2] \in Int
          /\ a[3] \in Int /\ b[3] \in Int /\ c[3] \in Int
      BY <1>1
    <3>3. Earlier(a, c)
      BY <3>1, <3>2 DEF Earlier
    <3> QED BY <3>3
  <2>3. ASSUME NEW a \in S, NEW b \in S, a # b
        PROVE  <<a, b>> \in R \/ <<b, a>> \in R
    <3>1. a[1] # b[1] \/ a[2] # b[2] \/ a[3] # b[3]
      BY <1>1, <2>3
    <3>2. /\ a[1] \in Int /\ b[1] \in Int /\ a[2] \in Int /\ b[2] \in Int /\ a[3] \in Int /\ b[3] \in Int
      BY <1>1
    <3>3. Earlier(a, b) \/ Earlier(b, a)
      BY <3>1, <3>2 DEF Earlier
    <3> QED BY <3>3
  <2> HIDE DEF R
  <2> QED BY <2>1, <2>2, <2>3 DEF StrictOrder
<1>3. \A a \in S : {b \in S : Earlier(b, a)} = {b \in S : <<b, a>> \in R}
  OBVIOUS
<1> HIDE DEF R
<1>4. f = Listing(S, R)
  <2>1. f = [k \in 1..Cardinality(S) |->
               CHOOSE a \in S : Cardinality({b \in S : Earlier(b, a)}) = k - 1]
    BY DEF Ordered
  <2>2. ASSUME NEW k
        PROVE  (CHOOSE a \in S : Cardinality({b \in S : Earlier(b, a)}) = k - 1)
                 = CHOOSE a \in S : Cardinality({b \in S : <<b, a>> \in R}) = k - 1
    BY <1>3
  <2> QED BY <2>1, <2>2 DEF Listing
<1> HIDE DEF f
<1>5. ListsAll(Listing(S, R), S)
  BY <1>2, InOrder
<1> QED BY <1>4, <1>5 DEF f

\* The slots in order are a list of slots.
LEMMA SlotsListed ==
    /\ Cardinality(Slots) \in Nat
    /\ SlotsInOrder \in [1..Cardinality(Slots) -> Slots]
<1>1. \A s \in Slots : s[1] \in Int /\ s[2] \in Int /\ s[3] \in Int /\ s = <<s[1], s[2], s[3]>>
  BY DEF Slots
<1>2. ListsAll(Ordered(Slots, Earlier), Slots)
  BY <1>1, SlotsFinite, EarlierFacts
<1>3. ListsAll(SlotsInOrder, Slots)
  BY <1>2 DEF SlotsInOrder
<1> QED BY <1>3, SlotsFinite, FS_CardinalityType DEF ListsAll

\* Where a slot looks is in its prefix.
LEMMA PickFacts ==
    ASSUME NEW mix \in Mixes, NEW s \in Slots
    PROVE  Pick(mix, s) \in Askable
<1>1. s[2] \in 1..Len(Ranges)
  BY DEF Slots
<1>2. Ranges \in Seq([first : Nat, blocks : Nat \ {0}])
  BY ScanLearningAssumption
<1>3. Ranges[s[2]] \in [first : Nat, blocks : Nat \ {0}]
  BY <1>1, <1>2, ElementOfSeq
<1> DEFINE first  == Ranges[s[2]].first
           blocks == Ranges[s[2]].blocks
           x == mix[Index(s)]
<1>4. x \in Nat /\ mix[Index(s) + 1] \in Nat
  BY MixesAssumption
<1>5. first \in Nat /\ blocks \in Nat \ {0}
  BY <1>3
<1>6. Pick(mix, s) = <<first + (x % blocks), Host(mix, Index(s) + 1)>>
  BY DEF Pick
<1>7. Host(mix, Index(s) + 1) \in 1..Hosts
  BY <1>4, HostFacts
<1>8. Published(first + (x % blocks))
  <2>1. first + (x % blocks) \in first..(first + blocks - 1)
    <3> HIDE DEF first, blocks, x
    <3>1. \A a \in Nat : \A b \in Nat \ {0} : a % b \in 0..(b - 1)
      OBVIOUS
    <3>2. x % blocks \in 0..(blocks - 1)
      BY <1>4, <1>5, <3>1
    <3> QED BY <1>5, <3>2
  <2> QED BY <1>1, <2>1 DEF Published
<1> QED BY <1>6, <1>7, <1>8, AskableIntro

\* A list, its repetitions left out.
LEMMA DistinctFacts ==
    ASSUME NEW V, NEW s \in Seq(V)
    PROVE  /\ Distinct(s) \in Seq(V)
           /\ \A k, l \in 1..Len(Distinct(s)) : Distinct(s)[k] = Distinct(s)[l] => k = l
<1> DEFINE K == {k \in 1..Len(s) : \A j \in 1..(k - 1) : s[j] # s[k]}
           p == Places(K)
           t == AtPlaces(s, K)
<1>1. K \in SUBSET (1..Len(s)) /\ Distinct(s) = t
  BY DEF Distinct
<1>2. \A i, k \in K : i < k => s[i] # s[k]
  <2>1. ASSUME NEW i \in K, NEW k \in K, i < k
        PROVE  s[i] # s[k]
    <3>1. i \in 1..(k - 1)
      BY <2>1
    <3> QED BY <3>1
  <2> QED BY <2>1
<1> HIDE DEF K, t, p
<1>3. /\ t \in Seq(V)
      /\ \A k \in 1..Len(t) : p[k] \in K /\ t[k] = s[p[k]]
      /\ \A k, l \in 1..Len(t) : k < l => p[k] < p[l]
  BY <1>1, Filtered DEF t, p
<1>4. ASSUME NEW k \in 1..Len(t), NEW l \in 1..Len(t), k < l
      PROVE  t[k] # t[l]
  BY <1>2, <1>3, <1>4
<1>5. \A k, l \in 1..Len(t) : t[k] = t[l] => k = l
  <2> SUFFICES ASSUME NEW k \in 1..Len(t), NEW l \in 1..Len(t), k # l
               PROVE  t[k] # t[l]
    OBVIOUS
  <2>1. k < l \/ l < k
    OBVIOUS
  <2> QED BY <1>4, <2>1
<1> QED BY <1>1, <1>3, <1>5

\* Whatever is remembered, the candidates are addresses a device may be asked for, each once.
LEMMA CandidatesFacts ==
    ASSUME Remembered, NEW mix \in Mixes, NEW c, c = BuildCandidates(mix)
    PROVE  /\ c \in Seq(Askable)
           /\ \A k, l \in 1..Len(c) : c[k] = c[l] => k = l
<1> DEFINE head == Take(PreferredCandidates(mix), Wanted)
           spread == SpreadCandidates(mix)
           n == Cardinality(Slots)
           order == SlotsInOrder
           d == Distinct(head \o spread)
<1>1. Wanted \in Nat
  BY ScanLearningAssumption
<1>2. head \in Seq(Askable)
  BY <1>1, PreferredCandidatesFacts, TakeFacts
<1>3. spread \in Seq(Askable)
  <2>1. n \in Nat /\ order \in [1..n -> Slots]
    BY SlotsListed
  <2>2. spread = [k \in 1..Len(order) |-> Pick(mix, order[k])]
    BY DEF SpreadCandidates
  <2> HIDE DEF n, order, spread
  <2>3. Len(order) = n
    BY <2>1
  <2>4. \A k \in 1..n : Pick(mix, order[k]) \in Askable
    BY <2>1, PickFacts
  <2>5. spread \in [1..n -> Askable]
    BY <2>2, <2>3, <2>4
  <2> QED BY <2>1, <2>5
<1>4. c = Take(d, Wanted)
  BY DEF BuildCandidates
<1> HIDE DEF head, spread
<1>5. head \o spread \in Seq(Askable)
  BY <1>2, <1>3
<1>6. d \in Seq(Askable) /\ \A k, l \in 1..Len(d) : d[k] = d[l] => k = l
  BY <1>5, DistinctFacts
<1> HIDE DEF d
<1>7. c \in Seq(Askable) /\ Len(c) <= Len(d) /\ \A i \in 1..Len(c) : c[i] = d[i]
  BY <1>1, <1>4, <1>6, TakeFacts
<1>8. Len(c) \in Nat /\ Len(d) \in Nat
  BY <1>6, <1>7, LenProperties
<1>9. \A i \in 1..Len(c) : i \in 1..Len(d)
  BY <1>7, <1>8
<1> QED BY <1>6, <1>7, <1>9

-----------------------------------------------------------------------------
(***************************************************************************)
(* What is recorded of a report.                                           *)
(***************************************************************************)
\* A measurement has a score, and when that is something it has a latency.
LEMMA MeasurementFacts ==
    ASSUME NEW m \in Measurements
    PROVE  /\ ScoreMeasurement(m) \in Int
           /\ ScoreMeasurement(m) > 0 => m.latency \in Nat
<1>1. /\ m.latency \in Nat \cup {Null} /\ m.jitter \in Nat /\ m.success \in Nat /\ m.answered \in Nat
  BY DEF Measurements
<1>2. \A a \in Int : \A b \in Nat \ {0} : a \div b \in Int
  OBVIOUS
<1>3. CASE m.answered > 0 \/ m.latency = Null \/ m.success = 0
  BY <1>3 DEF ScoreMeasurement
<1>4. CASE ~(m.answered > 0 \/ m.latency = Null \/ m.success = 0)
  <2>1. m.latency \in Nat
    BY <1>1, <1>4
  <2>2. LatencyPoints(m) \in Int
    <3>1. CASE m.latency <= 25
      BY <3>1 DEF LatencyPoints
    <3>2. CASE ~(m.latency <= 25)
      <4>1. m.latency \in Nat \ {0}
        BY <2>1, <3>2
      <4>2. 25000 \div m.latency \in Int
        BY <1>2, <4>1
      <4> QED BY <3>2, <4>2 DEF LatencyPoints
    <3> QED BY <3>1, <3>2
  <2>3. StabilityPoints(m) \in Int
    <3>1. CASE m.latency <= 0
      BY <3>1 DEF StabilityPoints
    <3>2. CASE ~(m.latency <= 0)
      <4> DEFINE ratio == (1000 * m.jitter) \div m.latency
      <4>1. m.latency \in Nat \ {0} /\ 1000 * m.jitter \in Int
        BY <1>1, <2>1, <3>2
      <4>2. ratio \in Int
        BY <1>2, <4>1
      <4>3. StabilityPoints(m) = IF ratio <= 250 THEN 1000 ELSE IF ratio >= 3000 THEN 0
                                 ELSE 1000 - ((ratio - 250) * 1000) \div 2750
        BY <3>2 DEF StabilityPoints
      <4> HIDE DEF ratio
      <4>4. (ratio - 250) * 1000 \in Int /\ 2750 \in Nat \ {0}
        BY <4>2
      <4>5. ((ratio - 250) * 1000) \div 2750 \in Int
        BY <1>2, <4>4
      <4> QED BY <4>3, <4>5
    <3> QED BY <3>1, <3>2
  <2> DEFINE x == LatencyPoints(m)
             y == StabilityPoints(m)
             z == m.success
  <2>4. ScoreMeasurement(m) = RoundDiv((85 * x + 15 * y) * z, 3000)
    BY <1>4 DEF ScoreMeasurement
  <2> HIDE DEF x, y, z
  <2>5. x \in Int /\ y \in Int /\ z \in Int
    BY <1>1, <2>2, <2>3 DEF x, y, z
  <2>6. (85 * x + 15 * y) * z \in Int /\ 3000 \in Nat \ {0}
    BY <2>5
  <2>7. ScoreMeasurement(m) \in Int
    BY <2>4, <2>6, RoundType
  <2> QED BY <2>1, <2>7
<1> QED BY <1>3, <1>4

\* Among finitely many values there is one that so many are not above.
Values(f, S)       == {f[x] : x \in S}
Lower(f, S, v)     == {x \in S : f[x] < v}
NotHigher(f, S, v) == {x \in S : f[x] <= v}
Ranked(f, S, v, k) == Cardinality(Lower(f, S, v)) < k /\ Cardinality(NotHigher(f, S, v)) >= k

\* Every rank has its value.
LEMMA RankExists ==
    ASSUME NEW S, IsFiniteSet(S), NEW f, \A x \in S : f[x] \in Nat, NEW k \in 1..Cardinality(S)
    PROVE  \E v \in Values(f, S) : Ranked(f, S, v, k)
<1> DEFINE V == {f[x] : x \in S}
           NoHigher(v) == {x \in S : f[x] <= v}
           Below(v) == {x \in S : f[x] < v}
           G == {v \in V : Cardinality(NoHigher(v)) >= k}
<1>0. Cardinality(S) \in Nat /\ V \in SUBSET Nat
  BY FS_CardinalityType
<1>1. ASSUME NEW v
      PROVE  /\ IsFiniteSet(NoHigher(v)) /\ Cardinality(NoHigher(v)) \in Nat
             /\ IsFiniteSet(Below(v)) /\ Cardinality(Below(v)) \in Nat
  <2>1. NoHigher(v) \in SUBSET S /\ Below(v) \in SUBSET S
    OBVIOUS
  <2> HIDE DEF NoHigher, Below
  <2>2. IsFiniteSet(NoHigher(v)) /\ IsFiniteSet(Below(v))
    BY <2>1, FS_Subset
  <2> QED BY <2>2, FS_CardinalityType
<1>2. ASSUME NEW U \in SUBSET S, U # {}
      PROVE  \E w \in U : \A x \in U : f[x] <= f[w]
  <2> DEFINE W == {f[x] : x \in U}
             g == [x \in U |-> f[x]]
  <2>1. IsFiniteSet(U)
    BY FS_Subset
  <2>2. g \in Surjection(U, W)
    <3>1. g \in [U -> W] /\ \A y \in W : \E x \in U : g[x] = y
      OBVIOUS
    <3> HIDE DEF g, W
    <3> QED BY <3>1 DEF Surjection
  <2>3. W \in SUBSET Nat /\ W # {}
    BY <1>2
  <2>4. IsFiniteSet(W)
    <3> HIDE DEF g, W
    <3> QED BY <2>1, <2>2, FS_Surjection
  <2>5. \E y \in W : \A z \in W : z <= y
    <3> HIDE DEF W
    <3> QED BY <2>3, <2>4, GreatestOfSet
  <2> QED BY <2>5
<1>3. S # {}
  BY FS_EmptySet
<1>4. G # {}
  <2>1. PICK w \in S : \A x \in S : f[x] <= f[w]
    BY <1>2, <1>3
  <2>2. NoHigher(f[w]) = S
    BY <2>1
  <2>3. Cardinality(NoHigher(f[w])) >= k
    BY <1>0, <2>2
  <2>4. f[w] \in G
    BY <2>3
  <2> QED BY <2>4
<1>5. PICK v \in G : \A y \in G : v <= y
  <2>1. G \in SUBSET Nat
    BY <1>0
  <2> HIDE DEF G
  <2> QED BY <1>4, <2>1, Smallest
<1>6. v \in V /\ v \in Nat /\ Cardinality(NoHigher(v)) >= k
  BY <1>0, <1>5
<1>7. Cardinality(Below(v)) < k
  <2>1. CASE Below(v) = {}
    <3>1. Cardinality(Below(v)) = 0
      BY <2>1, FS_EmptySet
    <3> QED BY <3>1
  <2>2. CASE Below(v) # {}
    <3>1. Below(v) \in SUBSET S
      OBVIOUS
    <3>2. PICK w \in Below(v) : \A x \in Below(v) : f[x] <= f[w]
      BY <1>2, <2>2, <3>1
    <3>3. w \in S /\ f[w] \in Nat /\ f[w] < v
      BY <3>1, <3>2
    <3>4. NoHigher(f[w]) = Below(v)
      BY <1>6, <3>2, <3>3
    <3>5. f[w] \notin G
      <4> HIDE DEF G, V
      <4> QED BY <1>5, <1>6, <3>3
    <3>6. ~(Cardinality(NoHigher(f[w])) >= k)
      BY <3>3, <3>5
    <3> HIDE DEF NoHigher, Below
    <3> QED BY <1>1, <3>4, <3>6
  <2> QED BY <2>1, <2>2
<1> QED BY <1>6, <1>7 DEF Values, Ranked, Lower, NotHigher

\* The median of numbers is a number.
LEMMA MedianFacts ==
    ASSUME NEW S, IsFiniteSet(S), S # {}, NEW f, DOMAIN f = S, \A x \in S : f[x] \in Nat
    PROVE  Median(f) \in Nat
<1> DEFINE n == Cardinality(S)
           Middle(k) == CHOOSE v \in Values(f, S) : Ranked(f, S, v, k)
<1>1. n \in Nat \ {0}
  BY FS_CardinalityType, FS_EmptySet
<1>2. ASSUME NEW k \in 1..n
      PROVE  Middle(k) \in Nat
  <2>1. \E v \in Values(f, S) : Ranked(f, S, v, k)
    BY RankExists
  <2>2. Middle(k) \in Values(f, S)
    BY <2>1
  <2>3. Values(f, S) \subseteq Nat
    BY DEF Values
  <2> HIDE DEF Middle
  <2> QED BY <2>2, <2>3
<1>3. Median(f) = IF n % 2 = 1 THEN Middle((n + 1) \div 2) ELSE RoundDiv(Middle(n \div 2) + Middle(n \div 2 + 1), 2)
  BY DEF Median, Values, Ranked, Lower, NotHigher
<1> HIDE DEF n, Middle
<1>4. CASE n % 2 = 1
  <2>1. (n + 1) \div 2 \in 1..n
    BY <1>1, <1>4
  <2> QED BY <1>2, <1>3, <1>4, <2>1
<1>5. CASE n % 2 # 1
  <2>1. n \div 2 \in 1..n /\ n \div 2 + 1 \in 1..n
    BY <1>1, <1>5
  <2> DEFINE a == Middle(n \div 2) + Middle(n \div 2 + 1)
  <2>2. a \in Nat
    BY <1>2, <2>1
  <2>3. Median(f) = RoundDiv(a, 2)
    BY <1>3, <1>5
  <2> HIDE DEF a
  <2>4. (2 * a + 2) \div 4 \in Nat
    BY <2>2
  <2>5. RoundDiv(a, 2) = (2 * a + 2) \div 4
    BY DEF RoundDiv
  <2> QED BY <2>3, <2>4, <2>5
<1> QED BY <1>4, <1>5

\* What is reported of finitely many addresses.
Reports(told) ==
    /\ IsFiniteSet(DOMAIN told) /\ DOMAIN told \subseteq Addresses
    /\ \A a \in DOMAIN told : told[a] \in Measurements

\* The addresses that answered, with their scores.
LEMMA AliveFacts ==
    ASSUME NEW told, Reports(told)
    PROVE  /\ IsFiniteSet(Rows(told)) /\ IsFiniteSet(Alive(told))
           /\ \A a \in Alive(told) :
                /\ a \in Addresses /\ Published(Block(a)) /\ a \in Rows(told)
                /\ ScoreMeasurement(told[a]) \in Nat /\ told[a].latency \in Nat
<1>1. Rows(told) \in SUBSET (DOMAIN told) /\ Alive(told) \in SUBSET Rows(told)
  BY DEF Rows, Alive
<1>2. IsFiniteSet(Rows(told))
  BY <1>1, FS_Subset DEF Reports
<1>3. IsFiniteSet(Alive(told))
  BY <1>1, <1>2, FS_Subset
<1>4. ASSUME NEW a \in Alive(told)
      PROVE  /\ a \in Addresses /\ Published(Block(a)) /\ a \in Rows(told)
             /\ ScoreMeasurement(told[a]) \in Nat /\ told[a].latency \in Nat
  <2>1. a \in DOMAIN told /\ Published(Block(a)) /\ ScoreMeasurement(told[a]) > 0
    BY DEF Alive, Rows
  <2>2. told[a] \in Measurements
    BY <2>1 DEF Reports
  <2>3. ScoreMeasurement(told[a]) \in Int /\ told[a].latency \in Nat
    BY <2>1, <2>2, MeasurementFacts
  <2> QED BY <1>1, <2>1, <2>3 DEF Reports
<1> QED BY <1>2, <1>3, <1>4

\* The row of a block in which something answered.
LEMMA BlockRowFacts ==
    ASSUME today \in Nat, NEW told, Reports(told), NEW c \in Alive(told), NEW b, b = Block(c)
    PROVE  BlockRow(told, b) \in Observations /\ BlockRow(told, b).block = b /\ BlockRow(told, b).at = today
<1> DEFINE alive == {a \in Alive(told) : Block(a) = b}
           rows == {a \in Rows(told) : Block(a) = b}
           scores == [a \in alive |-> ScoreMeasurement(told[a])]
           latencies == [a \in alive |-> told[a].latency]
           row == BlockRow(told, b)
<1>1. row = [block |-> b, at |-> today, score |-> Median(scores), latency |-> Median(latencies),
             reachable |-> Cardinality(alive), measured |-> Cardinality(rows)]
  BY DEF BlockRow
<1>2. IsFiniteSet(alive) /\ IsFiniteSet(rows)
  <2>1. alive \in SUBSET Alive(told) /\ rows \in SUBSET Rows(told)
    OBVIOUS
  <2> HIDE DEF alive, rows
  <2> QED BY <2>1, AliveFacts, FS_Subset
<1>3. alive # {}
  OBVIOUS
<1>4. \A a \in alive : ScoreMeasurement(told[a]) \in Nat /\ told[a].latency \in Nat
  BY AliveFacts
<1> HIDE DEF alive, rows
<1>5. DOMAIN scores = alive /\ DOMAIN latencies = alive /\ \A a \in alive : scores[a] \in Nat /\ latencies[a] \in Nat
  BY <1>4
<1> HIDE DEF scores, latencies
<1>6. Median(scores) \in Nat /\ Median(latencies) \in Nat
  BY <1>2, <1>3, <1>5, MedianFacts
<1>7. Cardinality(alive) \in Nat /\ Cardinality(rows) \in Nat
  BY <1>2, FS_CardinalityType
<1>8. b \in Nat
  <2>1. c \in Addresses
    BY AliveFacts
  <2> QED BY <2>1 DEF Addresses, Block
<1> HIDE DEF row
<1>9. row \in Observations /\ row.block = b /\ row.at = today
  BY <1>1, <1>6, <1>7, <1>8 DEF Observations
<1> QED BY <1>9 DEF row

\* Rows are kept by score, then by block.
Above(a, b) == a.score > b.score \/ (a.score = b.score /\ a.block < b.block)

\* Blocks with different numbers, best score first, are all listed.
LEMMA AboveFacts ==
    ASSUME NEW S, IsFiniteSet(S), \A a \in S : a.score \in Int /\ a.block \in Int,
           \A a, b \in S : a.block = b.block => a = b,
           NEW f, f = [k \in 1..Cardinality(S) |->
                         CHOOSE a \in S : Cardinality({b \in S : Above(b, a)}) = k - 1]
    PROVE  ListsAll(f, S)
<1> DEFINE R == {p \in S \X S : Above(p[1], p[2])}
<1>1. StrictOrder(R, S)
  <2>1. \A a \in S : <<a, a>> \notin R
    BY DEF Above
  <2>2. ASSUME NEW a \in S, NEW b \in S, NEW c \in S, <<a, b>> \in R, <<b, c>> \in R
        PROVE  <<a, c>> \in R
    <3>1. Above(a, b) /\ Above(b, c)
      BY <2>2
    <3>2. /\ a.score \in Int /\ b.score \in Int /\ c.score \in Int
          /\ a.block \in Int /\ b.block \in Int /\ c.block \in Int
      OBVIOUS
    <3>3. Above(a, c)
      BY <3>1, <3>2 DEF Above
    <3> QED BY <3>3
  <2>3. ASSUME NEW a \in S, NEW b \in S, a # b
        PROVE  <<a, b>> \in R \/ <<b, a>> \in R
    BY <2>3 DEF Above
  <2> HIDE DEF R
  <2> QED BY <2>1, <2>2, <2>3 DEF StrictOrder
<1>2. \A a \in S : {b \in S : Above(b, a)} = {b \in S : <<b, a>> \in R}
  OBVIOUS
<1> HIDE DEF R
<1>3. f = Listing(S, R)
  <2>1. f = [k \in 1..Cardinality(S) |->
               CHOOSE a \in S : Cardinality({b \in S : Above(b, a)}) = k - 1]
    OBVIOUS
  <2>2. ASSUME NEW k
        PROVE  (CHOOSE a \in S : Cardinality({b \in S : Above(b, a)}) = k - 1)
                 = CHOOSE a \in S : Cardinality({b \in S : <<b, a>> \in R}) = k - 1
    BY <1>2
  <2> QED BY <2>1, <2>2 DEF Listing
<1> QED BY <1>1, <1>3, InOrder

\* What is kept of a report are observations of today.
LEMMA WorthKeepingFacts ==
    ASSUME today \in Nat, NEW told, Reports(told)
    PROVE  /\ WorthKeeping(told) \in Seq(Observations)
           /\ \A i \in 1..Len(WorthKeeping(told)) : WorthKeeping(told)[i].at = today
<1> DEFINE A == {Block(a) : a \in Alive(told)}
           B == {b \in A : Cardinality({a \in Rows(told) : Block(a) = b}) >= 2}
           S == {BlockRow(told, b) : b \in B}
           f == [k \in 1..Cardinality(S) |->
                   CHOOSE a \in S : Cardinality({b \in S : Above(b, a)}) = k - 1]
           w == WorthKeeping(told)
           g == [a \in Alive(told) |-> Block(a)]
           h == [b \in B |-> BlockRow(told, b)]
<1>1. w = Take(f, 12)
  BY DEF WorthKeeping, Ordered, Above
<1>2. IsFiniteSet(A)
  <2>1. g \in Surjection(Alive(told), A)
    <3>1. g \in [Alive(told) -> A] /\ \A y \in A : \E x \in Alive(told) : g[x] = y
      OBVIOUS
    <3> HIDE DEF g, A
    <3> QED BY <3>1 DEF Surjection
  <2> HIDE DEF g, A
  <2> QED BY <2>1, AliveFacts, FS_Surjection
<1>3. IsFiniteSet(B) /\ B \in SUBSET A
  <2>1. B \in SUBSET A
    OBVIOUS
  <2> HIDE DEF A, B
  <2> QED BY <1>2, <2>1, FS_Subset
<1>4. IsFiniteSet(S)
  <2> HIDE DEF B
  <2>1. h \in Surjection(B, S)
    <3>1. h \in [B -> S] /\ \A y \in S : \E x \in B : h[x] = y
      OBVIOUS
    <3> HIDE DEF h, S
    <3> QED BY <3>1 DEF Surjection
  <2> HIDE DEF h, S
  <2> QED BY <1>3, <2>1, FS_Surjection
<1>5. \A b \in B : BlockRow(told, b) \in Observations /\ BlockRow(told, b).block = b /\ BlockRow(told, b).at = today
  <2>1. ASSUME NEW b \in B
        PROVE  BlockRow(told, b) \in Observations /\ BlockRow(told, b).block = b /\ BlockRow(told, b).at = today
    <3>1. b \in A
      BY <1>3
    <3>2. PICK c \in Alive(told) : b = Block(c)
      BY <3>1
    <3> QED BY <3>2, BlockRowFacts
  <2> QED BY <2>1
<1> HIDE DEF B, A
<1>6. \A a \in S : a \in Observations /\ a.at = today
  BY <1>5
<1>7. \A a, b \in S : a.block = b.block => a = b
  BY <1>5
<1> HIDE DEF S
<1>8. \A a \in S : a.score \in Int /\ a.block \in Int
  BY <1>6 DEF Observations
<1>9. ListsAll(f, S)
  BY <1>4, <1>7, <1>8, AboveFacts
<1> HIDE DEF f
<1>10. f \in Seq(S)
  <2> DEFINE n == Cardinality(S)
  <2>1. f \in [1..n -> S] /\ n \in Nat
    BY <1>4, <1>9, FS_CardinalityType DEF ListsAll
  <2> HIDE DEF n
  <2> QED BY <2>1
<1>11. Take(f, 12) \in Seq(S)
  BY <1>10, TakeFacts
<1>12. w \in Seq(S)
  BY <1>1, <1>11
<1> HIDE DEF w
<1>13. Len(w) \in Nat /\ DOMAIN w = 1..Len(w) /\ \A i \in 1..Len(w) : w[i] \in S
  BY <1>12, LenProperties, ElementOfSeq
<1>14. w \in [1..Len(w) -> Observations]
  BY <1>6, <1>12, <1>13
<1>15. w \in Seq(Observations)
  BY <1>13, <1>14
<1> QED BY <1>6, <1>13, <1>15 DEF w

\* The addresses of a report, the better first.
BestFirst(told, S) ==
    [k \in 1..Cardinality(S) |-> CHOOSE a \in S : Cardinality({b \in S : Better(told, b, a)}) = k - 1]

\* Addresses, best first, are all listed.
LEMMA BetterFacts ==
    ASSUME NEW told, NEW S, IsFiniteSet(S), S \subseteq Addresses,
           \A a \in S : ScoreMeasurement(told[a]) \in Int /\ told[a].latency \in Int
    PROVE  ListsAll(BestFirst(told, S), S)
<1> DEFINE R == {p \in S \X S : Better(told, p[1], p[2])}
           f == BestFirst(told, S)
<1>0. \A a \in S : /\ a[1] \in Int /\ a[2] \in Int /\ a = <<a[1], a[2]>>
                    /\ ScoreMeasurement(told[a]) \in Int /\ told[a].latency \in Int
  BY DEF Addresses
<1>1. StrictOrder(R, S)
  <2>1. \A a \in S : <<a, a>> \notin R
    BY <1>0 DEF Better
  <2>2. ASSUME NEW a \in S, NEW b \in S, NEW c \in S, <<a, b>> \in R, <<b, c>> \in R
        PROVE  <<a, c>> \in R
    <3>1. Better(told, a, b) /\ Better(told, b, c)
      BY <2>2
    <3>2. Better(told, a, c)
      BY <1>0, <3>1 DEF Better
    <3> QED BY <3>2
  <2>3. ASSUME NEW a \in S, NEW b \in S, a # b
        PROVE  <<a, b>> \in R \/ <<b, a>> \in R
    <3>1. a[1] # b[1] \/ a[2] # b[2]
      BY <1>0, <2>3
    <3>2. Better(told, a, b) \/ Better(told, b, a)
      BY <1>0, <3>1 DEF Better
    <3> QED BY <3>2
  <2> HIDE DEF R
  <2> QED BY <2>1, <2>2, <2>3 DEF StrictOrder
<1>2. \A a \in S : {b \in S : Better(told, b, a)} = {b \in S : <<b, a>> \in R}
  OBVIOUS
<1> HIDE DEF R
<1>3. f = Listing(S, R)
  <2>1. f = [k \in 1..Cardinality(S) |->
               CHOOSE a \in S : Cardinality({b \in S : Better(told, b, a)}) = k - 1]
    BY DEF BestFirst
  <2>2. ASSUME NEW k
        PROVE  (CHOOSE a \in S : Cardinality({b \in S : Better(told, b, a)}) = k - 1)
                 = CHOOSE a \in S : Cardinality({b \in S : <<b, a>> \in R}) = k - 1
    BY <1>2
  <2> QED BY <2>1, <2>2 DEF Listing
<1> HIDE DEF f
<1>4. ListsAll(Listing(S, R), S)
  BY <1>1, InOrder
<1> QED BY <1>3, <1>4 DEF f

\* The best of a report is an address that answered, or nothing.
LEMMA BestFacts ==
    ASSUME NEW told, Reports(told)
    PROVE  /\ Best(told) \in Winners \cup {Null}
           /\ Best(told) # Null => Published(Block(Best(told).address))
<1> DEFINE S == Alive(told)
           f == BestFirst(told, S)
           best == f[1]
<1>1. Best(told) = IF S = {} THEN Null
                     ELSE [address |-> best, score |-> ScoreMeasurement(told[best]), latency |-> told[best].latency]
  BY DEF Best, Ordered, BestFirst
<1>2. /\ IsFiniteSet(S)
      /\ \A a \in S : /\ a \in Addresses /\ Published(Block(a))
                      /\ ScoreMeasurement(told[a]) \in Nat /\ told[a].latency \in Nat
  BY AliveFacts
<1> HIDE DEF S
<1>3. /\ S \subseteq Addresses
      /\ \A a \in S : ScoreMeasurement(told[a]) \in Int /\ told[a].latency \in Int
  BY <1>2
<1>4. ListsAll(f, S)
  BY <1>2, <1>3, BetterFacts
<1> HIDE DEF f
<1>5. S # {} => best \in S
  <2> SUFFICES ASSUME S # {} PROVE best \in S
    OBVIOUS
  <2> DEFINE n == Cardinality(S)
  <2>1. n \in Nat \ {0}
    BY <1>2, FS_CardinalityType, FS_EmptySet
  <2>2. f \in [1..n -> S]
    BY <1>4 DEF ListsAll
  <2> HIDE DEF n
  <2> QED BY <2>1, <2>2
<1> HIDE DEF best
<1>6. CASE S = {}
  BY <1>1, <1>6
<1>7. CASE S # {}
  <2>1. /\ best \in Addresses /\ Published(Block(best))
        /\ ScoreMeasurement(told[best]) \in Nat /\ told[best].latency \in Nat
    BY <1>2, <1>5, <1>7
  <2> QED BY <1>1, <1>7, <2>1 DEF Winners
<1> QED BY <1>6, <1>7

-----------------------------------------------------------------------------
(***************************************************************************)
(* The weeks.                                                              *)
(***************************************************************************)
\* The runs of each kind.
Historic == runs \in [Kinds -> Seq(RunRecords)]

\* What a device is asked about is published.
PlanSound ==
    plan # Null => /\ plan \in Seq(Askable)
                   /\ \A k, l \in 1..Len(plan) : plan[k] = plan[l] => k = l

WeeksTyped == Remembered /\ Historic /\ PlanSound

\* What is remembered is enough for what is probed and for what is probed first.
LEMMA ScansAreSound ==
    ASSUME WeeksTyped
    PROVE  ProbesOnlyPublished /\ PreferredReached
<1> USE DEF WeeksTyped
<1>1. ProbesOnlyPublished
  <2> SUFFICES ASSUME plan # Null
               PROVE  /\ \A i \in 1..Len(plan) : Published(Block(plan[i])) /\ plan[i][2] \in 1..Hosts
                      /\ Cardinality(ToSet(plan)) = Len(plan)
    BY DEF ProbesOnlyPublished
  <2>1. plan \in Seq(Askable) /\ \A k, l \in 1..Len(plan) : plan[k] = plan[l] => k = l
    BY DEF PlanSound
  <2>2. Len(plan) \in Nat /\ DOMAIN plan = 1..Len(plan) /\ \A i \in 1..Len(plan) : plan[i] \in Askable
    BY <2>1, LenProperties, ElementOfSeq
  <2>3. \A i \in 1..Len(plan) : Published(Block(plan[i])) /\ plan[i][2] \in 1..Hosts
    BY <2>2 DEF Askable, Block
  <2>4. ToSet(plan) = {plan[i] : i \in 1..Len(plan)}
    BY <2>2 DEF ToSet
  <2> DEFINE T == ToSet(plan)
             f == [i \in 1..Len(plan) |-> plan[i]]
  <2>5. f \in Surjection(1..Len(plan), T) /\ f \in Injection(1..Len(plan), T)
    <3>1. /\ f \in [1..Len(plan) -> T] /\ \A t \in T : \E i \in 1..Len(plan) : f[i] = t
          /\ \A i, j \in 1..Len(plan) : f[i] = f[j] => i = j
      BY <2>1, <2>4
    <3> HIDE DEF f, T
    <3> QED BY <3>1 DEF Surjection, Injection, IsInjective
  <2>6. IsFiniteSet(1..Len(plan)) /\ Cardinality(1..Len(plan)) = Len(plan)
    BY <2>2, UpToFacts
  <2> HIDE DEF f, T
  <2>7. Cardinality(T) = Len(plan)
    BY <2>5, <2>6, FS_Surjection
  <2> QED BY <2>3, <2>7 DEF T
<1>2. PreferredReached
  BY ReachedWhenPreferred
<1> QED BY <1>1, <1>2

\* A new list is what was recorded now, then what was there before.
LEMMA PushFacts ==
    ASSUME NEW V, NEW s \in Seq(V), NEW t \in Seq(V), NEW n \in Nat, NEW r, r = Take(s \o t, n)
    PROVE  /\ r \in Seq(V)
           /\ \A i \in 1..Len(r) : r[i] \in Range(s) \cup Range(t)
<1> DEFINE c == s \o t
<1>1. c \in Seq(V) /\ Len(c) = Len(s) + Len(t) /\ Len(s) \in Nat /\ Len(t) \in Nat
  OBVIOUS
<1>2. \A i \in 1..Len(c) : c[i] = IF i <= Len(s) THEN s[i] ELSE t[i - Len(s)]
  OBVIOUS
<1>3. r = Take(c, n)
  OBVIOUS
<1> HIDE DEF c
<1>4. r \in Seq(V) /\ Len(r) <= Len(c) /\ \A i \in 1..Len(r) : r[i] = c[i]
  BY <1>1, <1>3, TakeFacts
<1>5. Len(r) \in Nat
  BY <1>4, LenProperties
<1>6. ASSUME NEW i \in 1..Len(r)
      PROVE  r[i] \in Range(s) \cup Range(t)
  <2>0. DOMAIN s = 1..Len(s) /\ DOMAIN t = 1..Len(t)
    BY LenProperties
  <2>1. i \in 1..Len(c) /\ r[i] = c[i]
    BY <1>1, <1>4, <1>5
  <2>2. CASE i <= Len(s)
    <3>1. i \in 1..Len(s) /\ r[i] = s[i]
      BY <1>1, <1>2, <2>1, <2>2
    <3> QED BY <2>0, <3>1 DEF Range
  <2>3. CASE ~(i <= Len(s))
    <3>1. i - Len(s) \in 1..Len(t) /\ r[i] = t[i - Len(s)]
      BY <1>1, <1>2, <2>1, <2>3
    <3> QED BY <2>0, <3>1 DEF Range
  <2> QED BY <2>2, <2>3
<1> QED BY <1>4, <1>6

\* A run recorded is one more of its kind.
LEMMA RunRecorded ==
    ASSUME Historic, today \in Nat, NEW kind \in Kinds, NEW best \in Winners \cup {Null}, RecordRun(kind, best)
    PROVE  Historic'
<1> DEFINE x == [at |-> today, best |-> best]
           one == <<x>>
           old == runs[kind]
           new == Take(one \o old, RunsKept)
<1>1. x \in RunRecords
  BY DEF RunRecords
<1>2. one \in Seq(RunRecords) /\ old \in Seq(RunRecords) /\ RunsKept \in Nat
  BY <1>1, ScanLearningAssumption DEF Historic
<1>3. runs' = [runs EXCEPT ![kind] = new]
  BY DEF RecordRun
<1> HIDE DEF one, old
<1>4. new \in Seq(RunRecords)
  <2> HIDE DEF new
  <2> QED BY <1>2, PushFacts DEF new
<1> HIDE DEF new
<1> QED BY <1>3, <1>4 DEF Historic

\* What a browser may report of.
LEMMA ReportTyped ==
    ASSUME PlanSound, plan # Null, NEW asked \in SUBSET ToSet(plan), NEW extra \in SUBSET Foreign,
           NEW told \in [asked \cup extra -> Measures]
    PROVE  Reports(told)
<1>1. plan \in Seq(Askable)
  BY DEF PlanSound
<1>2. Len(plan) \in Nat /\ DOMAIN plan = 1..Len(plan) /\ \A i \in 1..Len(plan) : plan[i] \in Addresses
  BY <1>1, LenProperties, ElementOfSeq DEF Askable
<1> DEFINE T == ToSet(plan)
           f == [i \in 1..Len(plan) |-> plan[i]]
<1>3. T = {plan[i] : i \in 1..Len(plan)} /\ T \subseteq Addresses
  BY <1>2 DEF ToSet
<1>4. f \in Surjection(1..Len(plan), T)
  <2>1. f \in [1..Len(plan) -> T] /\ \A t \in T : \E i \in 1..Len(plan) : f[i] = t
    BY <1>3
  <2> HIDE DEF f, T
  <2> QED BY <2>1 DEF Surjection
<1> HIDE DEF f, T
<1>5. IsFiniteSet(T)
  BY <1>2, <1>4, UpToFacts, FS_Surjection
<1>6. asked \in SUBSET T
  BY DEF T
<1>7. IsFiniteSet(asked) /\ IsFiniteSet(extra)
  BY <1>5, <1>6, StoredAssumption, FS_Subset
<1>8. IsFiniteSet(asked \cup extra)
  BY <1>7, FS_Union
<1>9. asked \cup extra \subseteq Addresses /\ Measures \subseteq Measurements
  BY <1>3, <1>6, StoredAssumption
<1> QED BY <1>8, <1>9 DEF Reports

\* The rows of a report are remembered with what was.
LEMMA RowsRemembered ==
    ASSUME Remembered, NEW told, Reports(told), RecordBlocks(WorthKeeping(told)), today' = today
    PROVE  Remembered'
<1> DEFINE w == WorthKeeping(told)
           new == Take(w \o observations, ObservationsKept)
<1>1. w \in Seq(Observations) /\ \A i \in 1..Len(w) : w[i].at = today
  BY WorthKeepingFacts DEF Remembered
<1>2. /\ observations \in Seq(Observations) /\ today \in Nat
      /\ \A i \in 1..Len(observations) : observations[i].at <= today
  BY DEF Remembered
<1>3. ObservationsKept \in Nat
  BY ScanLearningAssumption
<1>4. observations' = new
  BY DEF RecordBlocks
<1> HIDE DEF w
<1>5. new \in Seq(Observations) /\ \A i \in 1..Len(new) : new[i] \in Range(w) \cup Range(observations)
  <2>1. new = Take(w \o observations, ObservationsKept)
    OBVIOUS
  <2> HIDE DEF new
  <2> QED BY <1>1, <1>2, <1>3, <2>1, PushFacts
<1> HIDE DEF new
<1>6. \A i \in 1..Len(new) : new[i].at <= today
  <2>1. DOMAIN w = 1..Len(w) /\ DOMAIN observations = 1..Len(observations)
    BY <1>1, <1>2, LenProperties
  <2>2. \A o \in Range(w) \cup Range(observations) : o.at <= today
    BY <1>1, <1>2, <2>1 DEF Range
  <2> QED BY <1>5, <2>2
<1> QED BY <1>2, <1>4, <1>5, <1>6 DEF Remembered

\* A scan of a device that is recorded leaves all as it should be.
LEMMA RecordScanKeeps ==
    ASSUME WeeksTyped, RecordScan
    PROVE  WeeksTyped'
<1>1. Remembered /\ Historic /\ PlanSound /\ today \in Nat
  BY DEF WeeksTyped, Remembered
<1>2. plan # Null /\ plan' = Null /\ today' = today
  BY DEF RecordScan
<1>3. PICK asked \in SUBSET ToSet(plan), extra \in SUBSET Foreign :
        \E told \in [asked \cup extra -> Measures] :
          /\ Rows(told) # {}
          /\ RecordBlocks(WorthKeeping(told))
          /\ RecordRun("clean-ip", Best(told))
  BY DEF RecordScan
<1>4. PICK told \in [asked \cup extra -> Measures] :
        RecordBlocks(WorthKeeping(told)) /\ RecordRun("clean-ip", Best(told))
  BY <1>3
<1>5. Reports(told)
  BY <1>1, <1>2, ReportTyped
<1>6. Remembered'
  BY <1>1, <1>2, <1>4, <1>5, RowsRemembered
<1> DEFINE best == Best(told)
<1>7. best \in Winners \cup {Null}
  BY <1>5, BestFacts
<1>8. "clean-ip" \in Kinds /\ RecordRun("clean-ip", best)
  BY <1>4 DEF Kinds
<1> HIDE DEF best
<1>9. Historic'
  BY <1>1, <1>7, <1>8, RunRecorded
<1>10. PlanSound'
  BY <1>2 DEF PlanSound
<1> QED BY <1>6, <1>9, <1>10 DEF WeeksTyped

\* So does a scan of the panel.
LEMMA PanelScanKeeps ==
    ASSUME WeeksTyped, NEW kind \in PanelKinds, PanelScan(kind)
    PROVE  WeeksTyped'
<1>1. Remembered /\ Historic /\ PlanSound /\ today \in Nat /\ kind \in Kinds
  BY ScanLearningAssumption DEF WeeksTyped, Remembered
<1>2. UNCHANGED <<today, observations, plan>>
  BY DEF PanelScan
<1>3. PICK best \in Winners \cup {Null} : RecordRun(kind, best)
  <2>1. CASE RecordRun(kind, Null)
    BY <2>1
  <2>2. CASE \E a \in Relays, s \in RelayScores : RecordRun(kind, [address |-> a, score |-> s, latency |-> Null])
    <3>1. PICK a \in Relays, s \in RelayScores : RecordRun(kind, [address |-> a, score |-> s, latency |-> Null])
      BY <2>2
    <3>2. [address |-> a, score |-> s, latency |-> Null] \in Winners
      BY StoredAssumption DEF Winners
    <3> QED BY <3>1, <3>2
  <2> QED BY <2>1, <2>2 DEF PanelScan
<1>4. Historic'
  BY <1>1, <1>3, RunRecorded
<1>5. Remembered' /\ PlanSound'
  BY <1>1, <1>2 DEF Remembered, PlanSound, Askable, Published
<1> QED BY <1>4, <1>5 DEF WeeksTyped

\* And everything else that happens over the weeks.
LEMMA WeekKeeps ==
    ASSUME WeeksTyped, Plan \/ Abandon \/ DaysPass \/ UNCHANGED learningVars
    PROVE  WeeksTyped'
<1>1. Remembered /\ Historic /\ PlanSound
  BY DEF WeeksTyped
<1>2. observations' = observations /\ runs' = runs
  BY DEF Plan, Abandon, DaysPass, learningVars
<1>3. Historic'
  BY <1>1, <1>2 DEF Historic
<1>4. Remembered'
  <2>1. CASE DaysPass
    <3>1. PICK d \in Gaps : today' = today + d
      BY <2>1 DEF DaysPass
    <3>2. d \in Nat
      BY ScanLearningAssumption
    <3>3. today' \in Nat /\ today <= today' /\ today \in Nat
      BY <1>1, <3>1, <3>2 DEF Remembered
    <3>4. ASSUME NEW i \in 1..Len(observations)
          PROVE  observations[i].at <= today'
      <4>1. observations[i] \in Observations /\ observations[i].at <= today
        BY <1>1, ElementOfSeq DEF Remembered
      <4> QED BY <3>3, <4>1 DEF Observations
    <3> QED BY <1>1, <1>2, <3>3, <3>4 DEF Remembered
  <2>2. CASE ~DaysPass
    <3>1. today' = today
      BY <2>2 DEF Plan, Abandon, learningVars
    <3> QED BY <1>1, <1>2, <3>1 DEF Remembered
  <2> QED BY <2>1, <2>2
<1>5. PlanSound'
  <2>1. CASE Plan
    <3>1. PICK mix \in Mixes : plan' = BuildCandidates(mix)
      BY <2>1 DEF Plan
    <3>2. /\ plan' \in Seq(Askable)
          /\ \A k, l \in 1..Len(plan') : plan'[k] = plan'[l] => k = l
      BY <1>1, <3>1, CandidatesFacts
    <3> QED BY <3>2 DEF PlanSound, Askable, Published
  <2>2. CASE ~Plan
    <3>1. plan' = Null \/ plan' = plan
      BY <2>2 DEF Abandon, DaysPass, learningVars
    <3> QED BY <1>1, <3>1 DEF PlanSound, Askable, Published
  <2> QED BY <2>1, <2>2
<1> QED BY <1>3, <1>4, <1>5 DEF WeeksTyped

\* What is stored at first is as it should be.
LEMMA WeeksBegin ==
    ASSUME LInit
    PROVE  WeeksTyped
<1>1. PICK document \in Stored : runs = document.runs /\ observations = document.observations
  BY DEF LInit
<1>2. /\ document.observations \in Seq(Observations)
      /\ \A i \in 1..Len(document.observations) : document.observations[i].at <= FirstDay
      /\ document.runs \in [Kinds -> Seq(RunRecords)]
  BY StoredAssumption
<1>3. today = FirstDay /\ plan = Null /\ FirstDay \in Nat
  BY DEF LInit, FirstDay
<1> QED BY <1>1, <1>2, <1>3 DEF WeeksTyped, Remembered, Historic, PlanSound
-----------------------------------------------------------------------------
(***************************************************************************)
(* The theorems about the weeks.                                           *)
(***************************************************************************)
\* What the rows of rz:scanner and the list under way are made of never changes.
LEMMA WeeksStayTyped == WeeksTyped /\ [MCNext]_<<part, learningVars, probingVars, vars>> => WeeksTyped'
<1> SUFFICES ASSUME WeeksTyped, [MCNext]_<<part, learningVars, probingVars, vars>>
             PROVE  WeeksTyped'
  OBVIOUS
<1>1. CASE UNCHANGED learningVars
  BY <1>1, WeekKeeps
<1>2. CASE RecordScan
  BY <1>2, RecordScanKeeps
<1>3. CASE \E kind \in PanelKinds : PanelScan(kind)
  BY <1>3, PanelScanKeeps
<1>4. CASE Plan \/ Abandon \/ DaysPass
  BY <1>4, WeekKeeps
<1>5. LNext \/ UNCHANGED learningVars
  BY DEF MCNext
<1> QED BY <1>1, <1>2, <1>3, <1>4, <1>5 DEF LNext

\* Advice that is followed is not taken back: whatever was found in earlier weeks and
\* whatever endpoint the operator came from, the endpoint they are sent to is another
\* one, and asked again with the same runs the panel does not send them on
\* (lifecycle.ts: buildLifecycles, adviseMigration, over the runs the repository keeps).
THEOREM AdviceStaysSettled == MCSpec => []AdviceSettles
<1>1. MCInit => WeeksTyped
  BY WeeksBegin DEF MCInit
<1>2. WeeksTyped /\ [MCNext]_<<part, learningVars, probingVars, vars>> => WeeksTyped'
  BY WeeksStayTyped
<1>3. WeeksTyped => AdviceSettles
  <2> SUFFICES ASSUME WeeksTyped, NEW kind \in Kinds, NEW from,
                      AdviseMigration(runs[kind], from) # Null
               PROVE  /\ AdviseMigration(runs[kind], from) # from
                      /\ AdviseMigration(runs[kind], AdviseMigration(runs[kind], from)) = Null
    BY DEF AdviceSettles
  <2>1. runs[kind] \in Seq(RunRecords)
    BY DEF WeeksTyped, Historic
  <2> QED BY <2>1, AdviceIsFinal
<1> QED BY <1>1, <1>2, <1>3, PTL DEF MCSpec

\* What earlier weeks taught never steers a scan of a browser to what has gone: whatever
\* the panel itself scans, a browser is only ever asked about addresses of the published
\* space, each of them once, and first about blocks that were reached lately and are not
\* on the way down (candidates.ts: buildCandidates; blocks.ts: preferredBlocks).
THEOREM ScansStayPublished == MCSpec => []OldScansDoNotMislead
<1>1. MCInit => WeeksTyped
  BY WeeksBegin DEF MCInit
<1>2. WeeksTyped /\ [MCNext]_<<part, learningVars, probingVars, vars>> => WeeksTyped'
  BY WeeksStayTyped
<1>3. WeeksTyped => OldScansDoNotMislead
  BY ScansAreSound DEF OldScansDoNotMislead
<1> QED BY <1>1, <1>2, <1>3, PTL DEF MCSpec
=============================================================================
