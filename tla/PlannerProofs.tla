---------------------------- MODULE PlannerProofs -----------------------------
(***************************************************************************)
(* What the plan of a country promises, for any holdings at all: the loops *)
(* it starts can be carried through, their closed forms are the loops, and *)
(* what it offers and asks for is sound.  Every fact of that kind is about *)
(* the holdings r of one country; the proofs about the running system and  *)
(* about the invasion cite them.  Before them come the facts on induction  *)
(* and on sums that these proofs need.                                     *)
(***************************************************************************)
EXTENDS Planner, SequencesExt, SequenceTheorems, FiniteSetTheorems, TLAPS

-----------------------------------------------------------------------------
(* Induction over the natural numbers, in a form that names a set and not  *)
(* a formula.                                                              *)

NatOrder == OpToRel(<, Nat)

\* Every nonempty set of natural numbers has a least element.
LEMMA LeastNatural ==
    ASSUME NEW S, S \subseteq Nat, S # {}
    PROVE  \E n \in S : \A m \in S : n <= m
<1>1. IsWellFoundedOn(NatOrder, Nat)
    BY NatLessThanWellFounded DEF NatOrder
<1>2. NatOrder = {ss \in Nat \X Nat : ss[1] < ss[2]}
    BY DEF NatOrder, OpToRel
<1>3. PICK n \in S : \A m \in S : <<m, n>> \notin NatOrder
    BY <1>1, WFMin
<1>4. ASSUME NEW m \in S
      PROVE  n <= m
    <2>1. ~(m < n)
        BY <1>2, <1>3
    <2>2. m \in Nat /\ n \in Nat
        BY <1>3
    <2> QED BY <2>1, <2>2
<1> QED BY <1>3, <1>4

\* A set of natural numbers that has 0 and every next one has them all.
LEMMA Induction ==
    ASSUME NEW S, S \subseteq Nat, 0 \in S, \A n \in S : n + 1 \in S
    PROVE  S = Nat
<1> DEFINE Out == Nat \ S
<1>1. SUFFICES ASSUME Out # {}
               PROVE  FALSE
    OBVIOUS
<1>2. Out \subseteq Nat /\ (\A n \in Nat : n \in Out <=> n \notin S)
    OBVIOUS
<1> HIDE DEF Out
<1>3. PICK n \in Out : \A m \in Out : n <= m
    BY <1>1, <1>2, LeastNatural
<1>4. n \in Nat /\ n # 0 /\ n - 1 \in Nat
    BY <1>2, <1>3
<1>5. n - 1 \in S
    BY <1>2, <1>3, <1>4
<1>6. (n - 1) + 1 \in S
    BY <1>5
<1> QED BY <1>2, <1>3, <1>4, <1>6

-----------------------------------------------------------------------------
\* Two functions that begin alike and go on alike agree as far as both go.
LEMMA SameSteps ==
    ASSUME NEW n \in Nat, NEW f, NEW g, f[0] = g[0],
           \A i \in 1..n : f[i - 1] = g[i - 1] => f[i] = g[i]
    PROVE  f[n] = g[n]
<1> DEFINE S == {i \in Nat : i <= n => f[i] = g[i]}
<1>1. S \subseteq Nat /\ 0 \in S
    OBVIOUS
<1>2. ASSUME NEW i \in S
      PROVE  i + 1 \in S
    <2>1. CASE i + 1 <= n
        <3>1. i + 1 \in 1..n /\ (i + 1) - 1 = i /\ f[i] = g[i]
            BY <2>1
        <3> QED BY <3>1
    <2>2. CASE ~(i + 1 <= n)
        BY <2>2
    <2> QED BY <2>1, <2>2
<1> HIDE DEF S
<1>3. S = Nat
    BY <1>1, <1>2, Induction
<1> QED BY <1>3 DEF S

-----------------------------------------------------------------------------
(* Sums over finite sets, SumFunctionOnSet of the community modules.       *)

\* The sum of a function of integers over a finite set.
Total(f, S) == SumFunctionOnSet(f, S)

Picked(s) == CHOOSE x \in s : TRUE

\* g adds up f over every subset of S with at most n elements.
AddsUp(g, f, S, n) ==
    g = [s \in {t \in SUBSET S : Cardinality(t) <= n} |->
            IF s = {} THEN 0 ELSE f[Picked(s)] + g[s \ {Picked(s)}]]

\* What the fold picks is in the set, and what is left is smaller by one.
LEMMA PickedIsIn ==
    ASSUME NEW s, s # {}, IsFiniteSet(s)
    PROVE  /\ Picked(s) \in s
           /\ IsFiniteSet(s \ {Picked(s)})
           /\ Cardinality(s) \in Nat \ {0}
           /\ Cardinality(s \ {Picked(s)}) = Cardinality(s) - 1
<1>1. Picked(s) \in s
    BY DEF Picked
<1>2. Cardinality(s) \in Nat /\ Cardinality(s) # 0
    BY FS_CardinalityType, FS_EmptySet
<1>3. IsFiniteSet(s \ {Picked(s)}) /\ Cardinality(s \ {Picked(s)}) = Cardinality(s) - 1
    BY <1>1, FS_RemoveElement
<1> QED BY <1>1, <1>2, <1>3

\* The recursion of SumFunctionOnSet defines a function.
LEMMA AddersExist ==
    ASSUME NEW f, NEW S, IsFiniteSet(S)
    PROVE  \A n \in Nat : \E g : AddsUp(g, f, S, n)
<1> DEFINE N == {n \in Nat : \E g : AddsUp(g, f, S, n)}
           Small(n) == {t \in SUBSET S : Cardinality(t) <= n}
<1>0. \A s \in SUBSET S : IsFiniteSet(s) /\ Cardinality(s) \in Nat
    BY FS_Subset, FS_CardinalityType
<1>1. 0 \in N
    <2> DEFINE g == [s \in Small(0) |-> 0]
    <2>1. \A s \in Small(0) : s = {}
        BY <1>0, FS_EmptySet
    <2>2. g = [s \in Small(0) |-> IF s = {} THEN 0 ELSE f[Picked(s)] + g[s \ {Picked(s)}]]
        BY <2>1
    <2>3. AddsUp(g, f, S, 0)
        BY <2>2 DEF AddsUp
    <2> QED BY <2>3
<1>2. ASSUME NEW n \in N
      PROVE  n + 1 \in N
    <2>1. n \in Nat
        OBVIOUS
    <2>2. PICK g : AddsUp(g, f, S, n)
        OBVIOUS
    <2> DEFINE h == [s \in Small(n + 1) |->
                        IF s = {} THEN 0 ELSE f[Picked(s)] + g[s \ {Picked(s)}]]
    <2>3. ASSUME NEW s \in Small(n + 1), s # {}
          PROVE  h[s \ {Picked(s)}] = g[s \ {Picked(s)}]
        <3> DEFINE t == s \ {Picked(s)}
        <3>1. t \in Small(n)
            BY <1>0, <2>1, <2>3, PickedIsIn
        <3>2. t \in Small(n + 1)
            BY <1>0, <2>1, <3>1
        <3> HIDE DEF t
        <3>3. g[t] = IF t = {} THEN 0 ELSE f[Picked(t)] + g[t \ {Picked(t)}]
            BY <2>2, <3>1 DEF AddsUp
        <3>4. h[t] = IF t = {} THEN 0 ELSE f[Picked(t)] + g[t \ {Picked(t)}]
            BY <3>2
        <3>5. h[t] = g[t]
            BY <3>3, <3>4
        <3> QED BY <3>5 DEF t
    <2> HIDE DEF h
    <2>4. h = [s \in Small(n + 1) |->
                        IF s = {} THEN 0 ELSE f[Picked(s)] + h[s \ {Picked(s)}]]
        BY <2>3 DEF h
    <2>5. AddsUp(h, f, S, n + 1)
        BY <2>4 DEF AddsUp
    <2>6. n + 1 \in Nat
        BY <2>1
    <2> QED BY <2>5, <2>6
<1>3. N \subseteq Nat
    OBVIOUS
<1> HIDE DEF N
<1>4. N = Nat
    BY <1>1, <1>2, <1>3, Induction
<1> QED BY <1>4 DEF N

\* The first step of a sum.
LEMMA TotalAddsUp ==
    ASSUME NEW f, NEW S, IsFiniteSet(S)
    PROVE  \E g : AddsUp(g, f, S, Cardinality(S)) /\ Total(f, S) = g[S]
<1> DEFINE Body(g) == [s \in SUBSET S |-> IF s = {} THEN 0 ELSE f[Picked(s)] + g[s \ {Picked(s)}]]
           iter == CHOOSE g : g = Body(g)
<1>1. Total(f, S) = iter[S]
    BY DEF Total, SumFunctionOnSet, FoldFunctionOnSet, MapThenFoldSet, Picked
<1>2. Cardinality(S) \in Nat /\ \A s \in SUBSET S : Cardinality(s) <= Cardinality(S)
    BY FS_Subset, FS_CardinalityType
<1>3. {t \in SUBSET S : Cardinality(t) <= Cardinality(S)} = SUBSET S
    BY <1>2
<1>4. \A g : AddsUp(g, f, S, Cardinality(S)) <=> g = Body(g)
    BY <1>3 DEF AddsUp
<1>5. \E g : g = Body(g)
    BY <1>2, <1>4, AddersExist
<1>6. iter = Body(iter)
    BY <1>5
<1> QED BY <1>1, <1>4, <1>6

AgreeOn(e, f, T) == \A x \in T : e[x] = f[x]

\* Two functions that add up the same agree.
LEMMA AddersAgree ==
    ASSUME NEW f, NEW e, NEW S, NEW T, IsFiniteSet(S), T \in SUBSET S,
           AgreeOn(e, f, T),
           NEW g, AddsUp(g, f, S, Cardinality(S)),
           NEW h, AddsUp(h, e, T, Cardinality(T))
    PROVE  \A s \in SUBSET T : g[s] = h[s]
<1> DEFINE N == {n \in Nat : \A s \in SUBSET T : Cardinality(s) <= n => g[s] = h[s]}
<1>1. \A s \in SUBSET T : /\ IsFiniteSet(s) /\ Cardinality(s) \in Nat
                          /\ Cardinality(s) <= Cardinality(S)
                          /\ Cardinality(s) <= Cardinality(T)
    <2>1. IsFiniteSet(T)
        BY FS_Subset
    <2>2. ASSUME NEW s \in SUBSET T
          PROVE  IsFiniteSet(s) /\ Cardinality(s) <= Cardinality(T)
        BY <2>1, FS_Subset
    <2>3. ASSUME NEW s \in SUBSET T
          PROVE  Cardinality(s) <= Cardinality(S)
        <3>1. s \in SUBSET S
            OBVIOUS
        <3> QED BY <3>1, FS_Subset
    <2> QED BY <2>2, <2>3, FS_CardinalityType
<1>2. ASSUME NEW s \in SUBSET T
      PROVE  /\ g[s] = IF s = {} THEN 0 ELSE f[Picked(s)] + g[s \ {Picked(s)}]
             /\ h[s] = IF s = {} THEN 0 ELSE e[Picked(s)] + h[s \ {Picked(s)}]
    <2>1. s \in {t \in SUBSET S : Cardinality(t) <= Cardinality(S)}
        BY <1>1
    <2>2. s \in {t \in SUBSET T : Cardinality(t) <= Cardinality(T)}
        BY <1>1
    <2> QED BY <2>1, <2>2 DEF AddsUp
<1>3. 0 \in N
    <2>1. \A s \in SUBSET T : Cardinality(s) <= 0 => s = {}
        BY <1>1, FS_EmptySet
    <2> QED BY <1>2, <2>1
<1>4. ASSUME NEW n \in N
      PROVE  n + 1 \in N
    <2>1. n \in Nat /\ n + 1 \in Nat
        OBVIOUS
    <2>2. ASSUME NEW s \in SUBSET T, Cardinality(s) <= n + 1
          PROVE  g[s] = h[s]
        <3>1. CASE s = {}
            BY <1>2, <3>1
        <3>2. CASE s # {}
            <4> DEFINE t == s \ {Picked(s)}
            <4>1. Picked(s) \in s /\ t \in SUBSET T /\ Cardinality(t) <= n
                BY <1>1, <2>1, <2>2, <3>2, PickedIsIn
            <4>2. g[t] = h[t]
                BY <4>1
            <4>3. e[Picked(s)] = f[Picked(s)]
                BY <4>1 DEF AgreeOn
            <4> HIDE DEF t
            <4>4. g[s] = f[Picked(s)] + g[t] /\ h[s] = e[Picked(s)] + h[t]
                BY <1>2, <3>2 DEF t
            <4> QED BY <4>2, <4>3, <4>4
        <3> QED BY <3>1, <3>2
    <2> QED BY <2>1, <2>2
<1>5. N \subseteq Nat
    OBVIOUS
<1> HIDE DEF N
<1>6. N = Nat
    BY <1>3, <1>4, <1>5, Induction
<1> QED BY <1>1, <1>6 DEF N

\* Nothing adds up to zero.
LEMMA TotalEmpty ==
    ASSUME NEW f
    PROVE  Total(f, {}) = 0
<1>1. PICK g : AddsUp(g, f, {}, Cardinality({})) /\ Total(f, {}) = g[{}]
    BY TotalAddsUp, FS_EmptySet
<1>2. {} \in {t \in SUBSET {} : Cardinality(t) <= Cardinality({})}
    BY FS_EmptySet
<1> QED BY <1>1, <1>2 DEF AddsUp

\* Only the values on the set matter.
LEMMA TotalSame ==
    ASSUME NEW f, NEW e, NEW S, IsFiniteSet(S), \A x \in S : e[x] = f[x]
    PROVE  Total(e, S) = Total(f, S)
<1>1. PICK g : AddsUp(g, f, S, Cardinality(S)) /\ Total(f, S) = g[S]
    BY TotalAddsUp
<1>2. PICK h : AddsUp(h, e, S, Cardinality(S)) /\ Total(e, S) = h[S]
    BY TotalAddsUp
<1>3. \A s \in SUBSET S : g[s] = h[s]
    BY <1>1, <1>2, AddersAgree DEF AgreeOn
<1> QED BY <1>1, <1>2, <1>3

\* A sum is its first summand and the sum of the others.
LEMMA TotalFirst ==
    ASSUME NEW f, NEW S, IsFiniteSet(S), S # {}
    PROVE  Total(f, S) = f[Picked(S)] + Total(f, S \ {Picked(S)})
<1>1. PICK T : T = S \ {Picked(S)}
    OBVIOUS
<1>2. IsFiniteSet(T) /\ T \in SUBSET S
    BY <1>1, PickedIsIn
<1>3. PICK g : AddsUp(g, f, S, Cardinality(S)) /\ Total(f, S) = g[S]
    BY TotalAddsUp
<1>4. PICK h : AddsUp(h, f, T, Cardinality(T)) /\ Total(f, T) = h[T]
    BY <1>2, TotalAddsUp
<1>5. AgreeOn(f, f, T)
    BY DEF AgreeOn
<1>6. g[T] = h[T]
    BY <1>2, <1>3, <1>4, <1>5, AddersAgree
<1>7. S \in {t \in SUBSET S : Cardinality(t) <= Cardinality(S)}
    BY FS_CardinalityType
<1>8. g[S] = f[Picked(S)] + g[T]
    BY <1>1, <1>3, <1>7 DEF AddsUp
<1> QED BY <1>1, <1>3, <1>4, <1>6, <1>8

\* A sum of integers is one, and any of its summands can be taken out first.
LEMMA TotalRemove ==
    ASSUME NEW f, NEW S, IsFiniteSet(S), \A x \in S : f[x] \in Int
    PROVE  /\ Total(f, S) \in Int
           /\ \A x \in S : Total(f, S) = f[x] + Total(f, S \ {x})
<1> DEFINE Good(s) == /\ Total(f, s) \in Int
                      /\ \A x \in s : Total(f, s) = f[x] + Total(f, s \ {x})
           N == {n \in Nat : \A s \in SUBSET S : Cardinality(s) <= n => Good(s)}
<1>1. \A s \in SUBSET S : IsFiniteSet(s) /\ Cardinality(s) \in Nat
    BY FS_Subset, FS_CardinalityType
<1>2. Good({})
    BY TotalEmpty
<1>3. 0 \in N
    <2>1. \A s \in SUBSET S : Cardinality(s) <= 0 => s = {}
        BY <1>1, FS_EmptySet
    <2> HIDE DEF Good
    <2> QED BY <1>2, <2>1
<1>4. ASSUME NEW n \in N
      PROVE  n + 1 \in N
    <2>1. n \in Nat /\ n + 1 \in Nat
        OBVIOUS
    <2>2. ASSUME NEW s \in SUBSET S, Cardinality(s) <= n + 1, s # {}
          PROVE  Good(s)
        <3> DEFINE p == Picked(s)
        <3>1. p \in s /\ p \in S /\ s \ {p} \in SUBSET S /\ Cardinality(s \ {p}) <= n
            BY <1>1, <2>1, <2>2, PickedIsIn
        <3>2. Good(s \ {p})
            <4> HIDE DEF Good, p
            <4> QED BY <3>1
        <3>3. Total(f, s) = f[p] + Total(f, s \ {p})
            BY <1>1, <2>2, TotalFirst
        <3> HIDE DEF p
        <3>4. Total(f, s) \in Int
            BY <3>1, <3>2, <3>3
        <3>5. ASSUME NEW x \in s, x # p
              PROVE  Total(f, s) = f[x] + Total(f, s \ {x})
            <4> DEFINE u == s \ {p}
                       v == s \ {x}
                       w == u \ {x}
            <4>1. x \in u /\ p \in v /\ v \ {p} = w /\ v \in SUBSET S
                BY <3>1, <3>5
            <4>2. Cardinality(v) <= n
                BY <1>1, <2>1, <2>2, FS_RemoveElement
            <4>3. Good(v)
                <5> HIDE DEF Good, v
                <5> QED BY <4>1, <4>2
            <4>4. Total(f, u) = f[x] + Total(f, w)
                BY <3>2, <4>1
            <4>5. Total(f, v) = f[p] + Total(f, w)
                BY <4>1, <4>3
            <4>6. Total(f, s) = f[p] + Total(f, u)
                BY <3>3
            <4>7. w \in SUBSET S /\ Cardinality(w) <= n
                <5>1. w \in SUBSET v /\ IsFiniteSet(v) /\ w \in SUBSET S
                    BY <1>1, <4>1
                <5> HIDE DEF v, w
                <5>2. Cardinality(w) <= Cardinality(v)
                    BY <5>1, FS_Subset
                <5>3. Cardinality(w) \in Nat /\ Cardinality(v) \in Nat
                    BY <1>1, <4>1, <5>1
                <5> QED BY <2>1, <4>2, <5>1, <5>2, <5>3
            <4>8. Good(w)
                <5> HIDE DEF Good, w
                <5> QED BY <4>7
            <4> HIDE DEF u, v, w
            <4>9. Total(f, w) \in Int /\ f[x] \in Int /\ f[p] \in Int
                BY <3>1, <4>8
            <4>10. Total(f, s) = f[x] + Total(f, v)
                BY <4>4, <4>5, <4>6, <4>9
            <4> QED BY <4>10 DEF v
        <3> QED BY <3>3, <3>4, <3>5
    <2>3. \A s \in SUBSET S : Cardinality(s) <= n + 1 => Good(s)
        <3> HIDE DEF Good
        <3> QED BY <1>2, <2>2
    <2> QED BY <2>1, <2>3
<1>5. N \subseteq Nat
    OBVIOUS
<1> HIDE DEF N
<1>6. N = Nat
    BY <1>3, <1>4, <1>5, Induction
<1>7. S \in SUBSET S /\ Cardinality(S) \in Nat
    BY FS_CardinalityType
<1>8. Cardinality(S) \in N
    BY <1>6, <1>7
<1> HIDE DEF Good
<1>9. Good(S)
    BY <1>7, <1>8 DEF N
<1> QED BY <1>9 DEF Good

\* A summand that was not there is added.
LEMMA TotalAdd ==
    ASSUME NEW f, NEW S, IsFiniteSet(S), NEW x, x \notin S, \A y \in S \cup {x} : f[y] \in Int
    PROVE  Total(f, S) \in Int /\ Total(f, S \cup {x}) = f[x] + Total(f, S)
<1> DEFINE U == S \cup {x}
<1>1. IsFiniteSet(U)
    BY FS_AddElement
<1>2. U \ {x} = S /\ x \in U
    OBVIOUS
<1>3. \A y \in U : f[y] \in Int
    OBVIOUS
<1> HIDE DEF U
<1>4. Total(f, U) = f[x] + Total(f, U \ {x})
    BY <1>1, <1>2, <1>3, TotalRemove
<1>5. Total(f, S) \in Int
    BY TotalRemove
<1> QED BY <1>2, <1>4, <1>5 DEF U

\* One summand changes.
LEMMA TotalChange ==
    ASSUME NEW f, NEW g, NEW S, IsFiniteSet(S), NEW x \in S,
           \A y \in S : f[y] \in Int /\ g[y] \in Int,
           \A y \in S \ {x} : g[y] = f[y]
    PROVE  /\ Total(f, S) \in Int
           /\ Total(g, S) = Total(f, S) + (g[x] - f[x])
<1> DEFINE T == S \ {x}
<1>1. IsFiniteSet(T) /\ \A y \in T : f[y] \in Int /\ g[y] = f[y]
    BY FS_RemoveElement
<1>2. Total(f, S) \in Int /\ Total(f, S) = f[x] + Total(f, T)
    BY TotalRemove
<1>3. Total(g, S) = g[x] + Total(g, T)
    BY TotalRemove
<1> HIDE DEF T
<1>4. Total(g, T) = Total(f, T) /\ Total(f, T) \in Int
    BY <1>1, TotalSame, TotalRemove
<1>5. f[x] \in Int /\ g[x] \in Int
    OBVIOUS
<1> QED BY <1>2, <1>3, <1>4, <1>5

\* What holds of the empty set and goes on when an element is put back holds of
\* every finite set.
LEMMA FiniteInduction ==
    ASSUME NEW S, IsFiniteSet(S), NEW G, G \subseteq SUBSET S, {} \in G,
           \A s \in SUBSET S : s # {} /\ s \ {Picked(s)} \in G => s \in G
    PROVE  S \in G
<1> DEFINE N == {n \in Nat : \A s \in SUBSET S : Cardinality(s) <= n => s \in G}
<1>1. \A s \in SUBSET S : IsFiniteSet(s) /\ Cardinality(s) \in Nat
    BY FS_Subset, FS_CardinalityType
<1>2. 0 \in N
    <2>1. \A s \in SUBSET S : Cardinality(s) <= 0 => s = {}
        BY <1>1, FS_EmptySet
    <2> QED BY <2>1
<1>3. ASSUME NEW n \in N
      PROVE  n + 1 \in N
    <2>1. n \in Nat /\ n + 1 \in Nat
        OBVIOUS
    <2>2. ASSUME NEW s \in SUBSET S, Cardinality(s) <= n + 1, s # {}
          PROVE  s \in G
        <3> DEFINE t == s \ {Picked(s)}
        <3>1. t \in SUBSET S /\ Cardinality(t) <= n
            BY <1>1, <2>1, <2>2, PickedIsIn
        <3>2. t \in G
            <4> HIDE DEF t
            <4> QED BY <3>1
        <3> QED BY <2>2, <3>2
    <2> QED BY <2>1, <2>2
<1>4. N \subseteq Nat
    OBVIOUS
<1> HIDE DEF N
<1>5. N = Nat
    BY <1>2, <1>3, <1>4, Induction
<1>6. S \in SUBSET S /\ Cardinality(S) \in N
    BY <1>5, FS_CardinalityType
<1>7. Cardinality(S) \in Nat
    BY FS_CardinalityType
<1> QED BY <1>6, <1>7 DEF N

\* A sum of natural numbers is one, and more than zero only if a summand is.
LEMMA TotalNat ==
    ASSUME NEW f, NEW S, IsFiniteSet(S), \A x \in S : f[x] \in Nat
    PROVE  /\ Total(f, S) \in Nat
           /\ Total(f, S) > 0 => \E x \in S : f[x] > 0
<1> DEFINE G == {s \in SUBSET S : /\ Total(f, s) \in Nat
                                  /\ Total(f, s) > 0 => \E x \in s : f[x] > 0}
<1>1. {} \in G
    BY TotalEmpty
<1>2. ASSUME NEW s \in SUBSET S, s # {}, s \ {Picked(s)} \in G
      PROVE  s \in G
    <2> DEFINE t == s \ {Picked(s)}
    <2>1. IsFiniteSet(s)
        BY FS_Subset
    <2>2. Picked(s) \in s /\ f[Picked(s)] \in Nat
        BY <1>2, <2>1, PickedIsIn
    <2>3. Total(f, s) = f[Picked(s)] + Total(f, t)
        BY <1>2, <2>1, TotalFirst
    <2>4. Total(f, t) \in Nat /\ (Total(f, t) > 0 => \E x \in s : f[x] > 0)
        BY <1>2
    <2> HIDE DEF t
    <2>5. Total(f, s) \in Nat
        BY <2>2, <2>3, <2>4
    <2>6. ASSUME Total(f, s) > 0
          PROVE  \E x \in s : f[x] > 0
        <3>1. f[Picked(s)] > 0 \/ Total(f, t) > 0
            BY <2>2, <2>3, <2>4, <2>6
        <3> QED BY <2>2, <2>4, <3>1
    <2> QED BY <2>5, <2>6
<1>3. G \subseteq SUBSET S
    OBVIOUS
<1>4. \A s \in SUBSET S : s \in G => /\ Total(f, s) \in Nat
                                      /\ Total(f, s) > 0 => \E x \in s : f[x] > 0
    OBVIOUS
<1>5. S \in G
    <2> HIDE DEF G
    <2> QED BY <1>1, <1>2, <1>3, FiniteInduction
<1> QED BY <1>4, <1>5

\* Nor is it less than any of its summands.
LEMMA SummandIsPart ==
    ASSUME NEW f, NEW S, IsFiniteSet(S), \A x \in S : f[x] \in Nat, NEW x \in S
    PROVE  f[x] <= Total(f, S)
<1> DEFINE T == S \ {x}
<1>1. Total(f, S) = f[x] + Total(f, T)
    BY TotalRemove
<1>2. IsFiniteSet(T) /\ \A y \in T : f[y] \in Nat
    BY FS_RemoveElement
<1> HIDE DEF T
<1>3. Total(f, T) \in Nat
    BY <1>2, TotalNat
<1> QED BY <1>1, <1>3

-----------------------------------------------------------------------------
(* Lists and queues: what taking, adding and removing does to what is in    *)
(* them.                                                                   *)

(* The elements of a sequence over S are in S.                             *)
LEMMA ToSetElements ==
    ASSUME NEW S, NEW s \in Seq(S)
    PROVE  /\ ToSet(s) \subseteq S
           /\ \A i \in 1..Len(s) : s[i] \in ToSet(s)
           /\ \A x \in ToSet(s) : \E i \in 1..Len(s) : x = s[i]
BY DEF ToSet

(* A list has finitely many elements.                                      *)
LEMMA ToSetIsFinite ==
    ASSUME NEW S, NEW s \in Seq(S)
    PROVE  IsFiniteSet(ToSet(s))
<1>1. IsFiniteSet(1..Len(s)) /\ DOMAIN s = 1..Len(s)
    BY FS_Interval
<1>2. s \in Surjection(1..Len(s), ToSet(s))
    BY <1>1 DEF Surjection, ToSet
<1> QED BY <1>1, <1>2, FS_Surjection

(* The empty queue has no elements, and none twice.                        *)
LEMMA EmptyToSet ==
    /\ ToSet(<<>>) = {}
    /\ IsInjective(<<>>)
BY DEF ToSet, IsInjective

(* Appending adds one element; a new one leaves the queue without          *)
(* repetitions.                                                            *)
LEMMA AppendToSet ==
    ASSUME NEW S, NEW s \in Seq(S), NEW e \in S
    PROVE  /\ Append(s, e) \in Seq(S)
           /\ Len(Append(s, e)) = Len(s) + 1
           /\ ToSet(Append(s, e)) = ToSet(s) \cup {e}
           /\ IsInjective(s) /\ e \notin ToSet(s) => IsInjective(Append(s, e))
<1> DEFINE t == Append(s, e)
<1>1. /\ t \in Seq(S) /\ Len(t) = Len(s) + 1
      /\ DOMAIN t = 1..Len(s) + 1 /\ DOMAIN s = 1..Len(s)
      /\ \A i \in 1..Len(s) : t[i] = s[i]
      /\ t[Len(s) + 1] = e
    OBVIOUS
<1> HIDE DEF t
<1>2. ToSet(t) = ToSet(s) \cup {e}
    <2>1. \A x \in ToSet(t) : x \in ToSet(s) \cup {e}
        BY <1>1 DEF ToSet
    <2>2. \A x \in ToSet(s) : x \in ToSet(t)
        BY <1>1 DEF ToSet
    <2>3. e \in ToSet(t)
        BY <1>1 DEF ToSet
    <2> QED BY <2>1, <2>2, <2>3
<1>3. ASSUME IsInjective(s), e \notin ToSet(s)
      PROVE  IsInjective(t)
    <2> SUFFICES ASSUME NEW i \in DOMAIN t, NEW j \in DOMAIN t, t[i] = t[j]
                 PROVE  i = j
        BY DEF IsInjective
    <2>1. CASE i \in DOMAIN s /\ j \in DOMAIN s
        BY <1>1, <1>3, <2>1 DEF IsInjective
    <2>2. CASE i \notin DOMAIN s \/ j \notin DOMAIN s
        BY <1>1, <1>3, <2>2 DEF ToSet
    <2> QED BY <2>1, <2>2
<1> QED BY <1>1, <1>2, <1>3 DEF t

(* Taking the head removes it, from a queue without repetitions for good.  *)
LEMMA TailToSet ==
    ASSUME NEW S, NEW s \in Seq(S), s # <<>>
    PROVE  /\ Tail(s) \in Seq(S) /\ Head(s) \in S
           /\ Len(Tail(s)) = Len(s) - 1 /\ Len(s) > 0
           /\ ToSet(s) = {Head(s)} \cup ToSet(Tail(s))
           /\ IsInjective(s) => IsInjective(Tail(s)) /\ Head(s) \notin ToSet(Tail(s))
<1> DEFINE t == Tail(s)
<1>1. /\ t \in Seq(S) /\ Len(s) \in Nat /\ Len(s) > 0 /\ Len(t) = Len(s) - 1
      /\ DOMAIN t = 1..Len(s) - 1 /\ DOMAIN s = 1..Len(s)
      /\ \A i \in 1..Len(s) - 1 : t[i] = s[i + 1]
      /\ Head(s) = s[1] /\ s[1] \in S
    OBVIOUS
<1> HIDE DEF t
<1>2. ToSet(s) = {s[1]} \cup ToSet(t)
    <2>1. ASSUME NEW i \in DOMAIN s PROVE s[i] \in {s[1]} \cup ToSet(t)
        <3>1. CASE i = 1
            BY <3>1
        <3>2. CASE i # 1
            <4>1. i - 1 \in DOMAIN t /\ t[i - 1] = s[i]
                BY <1>1, <3>2
            <4> QED BY <4>1 DEF ToSet
        <3> QED BY <3>1, <3>2
    <2>2. ASSUME NEW i \in DOMAIN t PROVE t[i] \in ToSet(s)
        BY <1>1 DEF ToSet
    <2>3. s[1] \in ToSet(s)
        BY <1>1 DEF ToSet
    <2> QED BY <2>1, <2>2, <2>3 DEF ToSet
<1>3. ASSUME IsInjective(s)
      PROVE  IsInjective(t) /\ s[1] \notin ToSet(t)
    <2>1. ASSUME NEW i \in DOMAIN t, NEW j \in DOMAIN t, t[i] = t[j] PROVE i = j
        <3>1. /\ i + 1 \in DOMAIN s /\ j + 1 \in DOMAIN s /\ s[i + 1] = s[j + 1]
              /\ i \in Int /\ j \in Int
            BY <1>1, <2>1
        <3>2. i + 1 = j + 1
            BY <3>1, <1>3 DEF IsInjective
        <3> QED BY <3>1, <3>2
    <2>2. ASSUME NEW i \in DOMAIN t PROVE t[i] # s[1]
        <3>1. i + 1 \in DOMAIN s /\ 1 \in DOMAIN s /\ i + 1 # 1 /\ t[i] = s[i + 1]
            BY <1>1
        <3> QED BY <3>1, <1>3 DEF IsInjective
    <2> QED BY <2>1, <2>2 DEF IsInjective, ToSet
<1> QED BY <1>1, <1>2, <1>3 DEF t

(* Putting one element in front adds it.                                   *)
LEMMA ConsToSet ==
    ASSUME NEW S, NEW s \in Seq(S), NEW x \in S
    PROVE  /\ <<x>> \o s \in Seq(S)
           /\ <<x>> \o s # <<>>
           /\ ToSet(<<x>> \o s) = {x} \cup ToSet(s)
<1> DEFINE t == <<x>> \o s
<1>1. /\ t \in Seq(S) /\ Len(s) \in Nat /\ DOMAIN s = 1..Len(s)
      /\ DOMAIN t = 1..Len(s) + 1 /\ t # <<>>
      /\ t[1] = x /\ \A i \in 1..Len(s) : t[i + 1] = s[i]
    OBVIOUS
<1> HIDE DEF t
<1>2. ASSUME NEW i \in DOMAIN t PROVE t[i] \in {x} \cup ToSet(s)
    <2>1. CASE i = 1
        BY <1>1, <2>1
    <2>2. CASE i # 1
        <3>1. i - 1 \in 1..Len(s) /\ (i - 1) + 1 = i
            BY <1>1, <2>2
        <3>2. t[i] = s[i - 1]
            BY <1>1, <3>1
        <3> QED BY <1>1, <3>1, <3>2 DEF ToSet
    <2> QED BY <2>1, <2>2
<1>3. ASSUME NEW i \in DOMAIN s PROVE s[i] \in ToSet(t)
    <2>1. i + 1 \in DOMAIN t /\ t[i + 1] = s[i]
        BY <1>1
    <2> QED BY <2>1 DEF ToSet
<1>4. x \in ToSet(t)
    BY <1>1 DEF ToSet
<1>5. ToSet(t) = {x} \cup ToSet(s)
    BY <1>2, <1>3, <1>4 DEF ToSet
<1> QED BY <1>1, <1>5 DEF t

\* Removing position i.
LEMMA RemoveAtToSet ==
    ASSUME NEW S, NEW s \in Seq(S), NEW i \in 1..Len(s)
    PROVE  /\ RemoveAt(s, i) \in Seq(S)
           /\ Len(RemoveAt(s, i)) = Len(s) - 1
           /\ ToSet(RemoveAt(s, i)) \subseteq ToSet(s)
           /\ IsInjective(s) => /\ IsInjective(RemoveAt(s, i))
                                /\ ToSet(RemoveAt(s, i)) = ToSet(s) \ {s[i]}
<1> DEFINE u == SubSeq(s, 1, i - 1)
           v == SubSeq(s, i + 1, Len(s))
           t == u \o v
           n == Len(s)
<1>1. /\ u \in Seq(S) /\ Len(u) = i - 1 /\ \A j \in 1..i - 1 : u[j] = s[j]
    OBVIOUS
<1>2. /\ v \in Seq(S) /\ Len(v) = n - i /\ \A j \in 1..n - i : v[j] = s[i + j]
    OBVIOUS
<1>c. /\ t \in Seq(S) /\ Len(t) = Len(u) + Len(v)
      /\ \A j \in 1..Len(u) + Len(v) : t[j] = IF j <= Len(u) THEN u[j] ELSE v[j - Len(u)]
    <2> HIDE DEF u, v
    <2> QED BY <1>1, <1>2, ConcatProperties
<1> HIDE DEF t, u, v
<1>3. /\ n \in Nat /\ i \in 1..n /\ DOMAIN s = 1..n
      /\ t \in Seq(S) /\ Len(t) = n - 1 /\ DOMAIN t = 1..n - 1
    BY <1>1, <1>2, <1>c
<1>4. \A j \in 1..n - 1 : t[j] = IF j < i THEN s[j] ELSE s[j + 1]
    <2> SUFFICES ASSUME NEW j \in 1..n - 1
                 PROVE  t[j] = IF j < i THEN s[j] ELSE s[j + 1]
        OBVIOUS
    <2>1. CASE j < i
        <3>1. j \in 1..Len(u)
            BY <1>1, <2>1
        <3>2. t[j] = u[j]
            <4>1. j \in 1..Len(u) + Len(v) /\ j <= Len(u)
                BY <1>1, <1>2, <1>3, <3>1
            <4> QED BY <1>c, <4>1
        <3> QED BY <1>1, <2>1, <3>1, <3>2
    <2>2. CASE ~(j < i)
        <3>1. j \in Len(u) + 1..Len(u) + Len(v) /\ j - Len(u) \in 1..n - i
              /\ i + (j - Len(u)) = j + 1
            BY <1>1, <1>2, <1>3, <2>2
        <3>2. t[j] = v[j - Len(u)]
            BY <1>1, <1>2, <1>c, <3>1
        <3> QED BY <1>2, <2>2, <3>1, <3>2
    <2> QED BY <2>1, <2>2
<1>5. ToSet(t) \subseteq ToSet(s)
    <2>1. ASSUME NEW j \in DOMAIN t PROVE t[j] \in ToSet(s)
        <3>1. j \in DOMAIN s /\ j + 1 \in DOMAIN s
            BY <1>3
        <3> QED BY <1>3, <1>4, <3>1 DEF ToSet
    <2> QED BY <2>1 DEF ToSet
<1>6. ASSUME IsInjective(s)
      PROVE  IsInjective(t)
    <2> SUFFICES ASSUME NEW j \in DOMAIN t, NEW k \in DOMAIN t, t[j] = t[k]
                 PROVE  j = k
        BY DEF IsInjective
    <2> DEFINE p(x) == IF x < i THEN x ELSE x + 1
    <2>1. p(j) \in DOMAIN s /\ p(k) \in DOMAIN s /\ t[j] = s[p(j)] /\ t[k] = s[p(k)]
        BY <1>3, <1>4
    <2>2. p(j) = p(k)
        BY <2>1, <1>6 DEF IsInjective
    <2> QED BY <1>3, <2>2
<1>7. ASSUME IsInjective(s)
      PROVE  ToSet(t) = ToSet(s) \ {s[i]}
    <2>1. ASSUME NEW j \in DOMAIN t PROVE t[j] # s[i]
        <3>1. /\ j \in DOMAIN s /\ j + 1 \in DOMAIN s /\ i \in DOMAIN s
              /\ j \in Int /\ (j < i => j # i) /\ (~(j < i) => j + 1 # i)
            BY <1>3
        <3> QED BY <1>3, <1>4, <1>7, <3>1 DEF IsInjective
    <2>2. ASSUME NEW j \in DOMAIN s, j # i PROVE s[j] \in ToSet(t)
        <3>1. CASE j < i
            BY <1>3, <1>4, <2>2, <3>1 DEF ToSet
        <3>2. CASE ~(j < i)
            <4>1. j - 1 \in DOMAIN t /\ ~(j - 1 < i) /\ (j - 1) + 1 = j
                BY <1>3, <2>2, <3>2
            <4>2. t[j - 1] = s[j]
                BY <1>3, <1>4, <4>1
            <4> QED BY <4>1, <4>2 DEF ToSet
        <3> QED BY <3>1, <3>2
    <2>3. \A x \in ToSet(t) : x # s[i]
        BY <2>1 DEF ToSet
    <2>4. \A x \in ToSet(s) : x # s[i] => x \in ToSet(t)
        BY <2>2 DEF ToSet
    <2> QED BY <1>5, <2>3, <2>4
<1> QED BY <1>3, <1>5, <1>6, <1>7 DEF t, u, v, RemoveAt

(* remove() leaves the other elements, and no repetitions where there were *)
(* none.                                                                   *)
LEMMA RemoveFirstToSet ==
    ASSUME NEW S, NEW s \in Seq(S), NEW e
    PROVE  /\ RemoveFirst(s, e) \in Seq(S)
           /\ Len(RemoveFirst(s, e)) <= Len(s)
           /\ ToSet(RemoveFirst(s, e)) \subseteq ToSet(s)
           /\ e \notin ToSet(s) => RemoveFirst(s, e) = s
           /\ IsInjective(s) => /\ IsInjective(RemoveFirst(s, e))
                                /\ ToSet(RemoveFirst(s, e)) = ToSet(s) \ {e}
<1>1. CASE \E i \in 1..Len(s) : s[i] = e
    <2> DEFINE I == {i \in 1..Len(s) : s[i] = e}
               m == SelectInSeq(s, LAMBDA v : v = e)
    <2>1. m \in I
        <3>1. Len(s) \in Nat /\ I \in SUBSET (1..Len(s)) /\ I # {}
            BY <1>1
        <3>2. \E k \in I : \A j \in I : k <= j
            <4>1. I \subseteq Nat /\ I # {}
                BY <3>1
            <4> HIDE DEF I
            <4>2. \E k \in I : \A j \in I : k <= j
                BY <4>1, LeastNatural
            <4> QED BY <4>2
        <3> QED BY <3>1, <3>2 DEF SelectInSeq, Min
    <2>2. m \in 1..Len(s) /\ s[m] = e /\ RemoveFirst(s, e) = RemoveAt(s, m)
        BY <2>1, <1>1 DEF RemoveFirst
    <2>3. e \in ToSet(s)
        BY <2>2, ToSetElements
    <2> HIDE DEF m
    <2> QED BY <2>2, <2>3, RemoveAtToSet
<1>2. CASE ~(\E i \in 1..Len(s) : s[i] = e)
    <2>1. e \notin ToSet(s)
        BY <1>2, ToSetElements
    <2> QED BY <1>2, <2>1, ToSetElements DEF RemoveFirst
<1> QED BY <1>1, <1>2

-----------------------------------------------------------------------------
(* Arithmetic and choice.                                                  *)

\* Every nonempty subset of S has an element with the greatest value of f.
HasGreatest(f, S) ==
    \A T \in SUBSET S : T # {} => \E k \in T : \A j \in T : f[j] <= f[k]

(* A greatest element survives one more candidate ...                      *)
LEMMA GreatestStep ==
    ASSUME NEW f, \A k \in Kinds : f[k] \in Int,
           NEW S \in SUBSET Kinds, NEW x \in Kinds, HasGreatest(f, S)
    PROVE  HasGreatest(f, S \cup {x})
<1> SUFFICES ASSUME NEW T \in SUBSET (S \cup {x}), T # {}
             PROVE  \E k \in T : \A j \in T : f[j] <= f[k]
    BY DEF HasGreatest
<1>1. CASE x \notin T
    BY <1>1 DEF HasGreatest
<1>2. CASE T = {x}
    <2>1. f[x] <= f[x]
        OBVIOUS
    <2> QED BY <1>2, <2>1
<1>3. CASE x \in T /\ T \ {x} # {}
    <2>1. PICK k \in T \ {x} : \A j \in T \ {x} : f[j] <= f[k]
        BY <1>3 DEF HasGreatest
    <2>2. f[k] \in Int /\ f[x] \in Int /\ \A j \in T : f[j] \in Int
        BY <1>3
    <2>3. CASE f[x] <= f[k]
        BY <2>1, <2>3
    <2>4. CASE ~(f[x] <= f[k])
        <3>1. \A j \in T : f[j] <= f[x]
            BY <2>1, <2>2, <2>4
        <3> QED BY <1>3, <3>1
    <2> QED BY <2>3, <2>4
<1> QED BY <1>1, <1>2, <1>3

\* A function of integers on the kinds has a greatest value on any set of them.
LEMMA KindsHaveGreatest ==
    ASSUME NEW f, \A k \in Kinds : f[k] \in Int
    PROVE  HasGreatest(f, Kinds)
<1> DEFINE S1 == {"population"}
           S2 == S1 \cup {"elements"}
           S3 == S2 \cup {"timber"}
           S4 == S3 \cup {"alloys"}
           S5 == S4 \cup {"alloysWaste"}
           S6 == S5 \cup {"electronics"}
           S7 == S6 \cup {"housing"}
           S8 == S7 \cup {"housingWaste"}
<1>a. /\ S1 \in SUBSET Kinds /\ S2 \in SUBSET Kinds /\ S3 \in SUBSET Kinds
      /\ S4 \in SUBSET Kinds /\ S5 \in SUBSET Kinds /\ S6 \in SUBSET Kinds
      /\ S7 \in SUBSET Kinds /\ S8 = Kinds
    BY DEF Kinds
<1>1. HasGreatest(f, S1)
    <2> SUFFICES ASSUME NEW T \in SUBSET S1, T # {}
                 PROVE  \E k \in T : \A j \in T : f[j] <= f[k]
        BY DEF HasGreatest
    <2>1. f["population"] <= f["population"]
        BY DEF Kinds
    <2>2. T = {"population"}
        OBVIOUS
    <2> QED BY <2>1, <2>2
<1> HIDE DEF S1
<1>2. HasGreatest(f, S2)
    BY <1>1, <1>a, GreatestStep DEF Kinds
<1> HIDE DEF S2
<1>3. HasGreatest(f, S3)
    BY <1>2, <1>a, GreatestStep DEF Kinds
<1> HIDE DEF S3
<1>4. HasGreatest(f, S4)
    BY <1>3, <1>a, GreatestStep DEF Kinds
<1> HIDE DEF S4
<1>5. HasGreatest(f, S5)
    BY <1>4, <1>a, GreatestStep DEF Kinds
<1> HIDE DEF S5
<1>6. HasGreatest(f, S6)
    BY <1>5, <1>a, GreatestStep DEF Kinds
<1> HIDE DEF S6
<1>7. HasGreatest(f, S7)
    BY <1>6, <1>a, GreatestStep DEF Kinds
<1> HIDE DEF S7
<1>8. HasGreatest(f, S8)
    BY <1>7, <1>a, GreatestStep DEF Kinds
<1> QED BY <1>8, <1>a

\* First picks an element of any nonempty set of kinds.
LEMMA FirstIsIn ==
    ASSUME NEW S \in SUBSET Kinds, S # {}
    PROVE  /\ First(S) \in S
           /\ \A j \in S : Position[First(S)] <= Position[j]
<1> DEFINE f == [k \in Kinds |-> 0 - Position[k]]
<1>1. \A k \in Kinds : Position[k] \in Int
    BY DEF Kinds, Position
<1>2. \A k \in Kinds : f[k] \in Int
    BY <1>1
<1>3. HasGreatest(f, Kinds)
    BY <1>2, KindsHaveGreatest
<1>4. PICK k \in S : \A j \in S : f[j] <= f[k]
    BY <1>3 DEF HasGreatest
<1>5. ASSUME NEW j \in S
      PROVE  Position[k] <= Position[j]
    <2>1. f[j] <= f[k]
        BY <1>4
    <2>2. f[j] = 0 - Position[j] /\ f[k] = 0 - Position[k]
        OBVIOUS
    <2>3. Position[j] \in Int /\ Position[k] \in Int
        BY <1>1
    <2> HIDE DEF f
    <2> QED BY <2>1, <2>2, <2>3
<1> QED BY <1>5 DEF First

-----------------------------------------------------------------------------
(* The deficits and surpluses.                                             *)

(* Every amount a country holds is a natural number.                       *)
LEMMA HoldingsAreNat ==
    ASSUME NEW r \in Holdings
    PROVE  /\ r.population \in Nat /\ r.elements \in Nat /\ r.timber \in Nat
           /\ r.alloys \in Nat /\ r.alloysWaste \in Nat /\ r.electronics \in Nat
           /\ r.housing \in Nat /\ r.housingWaste \in Nat
           /\ \A k \in Kinds : r[k] \in Nat
BY DEF Holdings, Kinds

\* More than four people to a house: a quarter of the people is no less than
\* the houses.
LEMMA QuarterCoversHouses ==
    ASSUME NEW p \in Nat, NEW h \in Nat \ {0}, p \div h > 4
    PROVE  p \div 4 >= h
<1>1. p = h * (p \div h) + (p % h) /\ p % h >= 0
    OBVIOUS
<1>2. p \div h \in Nat /\ p \div h >= 5
    OBVIOUS
<1>3. h * (p \div h) >= h * 5
    BY <1>2
<1>4. p >= 5 * h
    BY <1>1, <1>3
<1> QED BY <1>4

(* The housing deficit is never negative, though it is a difference.       *)
LEMMA HousingDeficitIsNat ==
    ASSUME NEW r \in Holdings
    PROVE  HousingDeficit(r) \in Nat
<1>1. CASE r.housing < 1
    BY <1>1, HoldingsAreNat DEF HousingDeficit, HousingNeeded
<1>2. CASE ~(r.housing < 1)
    <2>1. HousingNeeded(r) => r.population \div 4 >= r.housing
        BY <1>2, HoldingsAreNat, QuarterCoversHouses DEF HousingNeeded
    <2> QED BY <2>1, HoldingsAreNat DEF HousingDeficit
<1> QED BY <1>1, <1>2

\* Less than one electronic per person: the deficit is more than the people.
LEMMA ElectronicsDeficitIsNat ==
    ASSUME NEW r \in Holdings
    PROVE  /\ ElectronicsDeficit(r) \in Nat
           /\ ElectronicsNeeded(r) => /\ r.population >= 1
                                      /\ ElectronicsDeficit(r) > r.population
<1>1. ASSUME ElectronicsNeeded(r)
      PROVE  r.population >= 1 /\ r.electronics < r.population
    <2> DEFINE p == r.population
               x == r.electronics
    <2>1. p \in Nat \ {0} /\ x \in Nat /\ x \div p < 1
        BY <1>1, HoldingsAreNat DEF ElectronicsNeeded
    <2> HIDE DEF p, x
    <2>2. x = p * (x \div p) + (x % p) /\ x % p < p /\ x \div p \in Nat
        BY <2>1
    <2>3. x \div p = 0
        BY <2>1, <2>2
    <2>4. x < p
        BY <2>1, <2>2, <2>3
    <2> QED BY <2>1, <2>4 DEF p, x
<1> QED BY <1>1, HoldingsAreNat DEF ElectronicsDeficit

(* A shortfall covers exactly what is missing.                             *)
LEMMA ShortfallIsNat ==
    ASSUME NEW m \in Nat, NEW n \in Nat
    PROVE  /\ Shortfall(m, n) \in Nat
           /\ Shortfall(m, n) <= m
           /\ Shortfall(m, n) = 0 => m <= n
BY DEF Shortfall

(* No deficit is negative.                                                 *)
LEMMA DeficitsAreNat ==
    ASSUME NEW r \in Holdings
    PROVE  /\ PopulationDeficit(r) \in Nat
           /\ PopulationNeeded(r) => PopulationDeficit(r) > 0
           /\ AlloysWanted(r) \in Nat /\ AlloysDeficit(r) \in Nat
           /\ ElementsWanted(r) \in Nat /\ ElementsDeficit(r) \in Nat
           /\ TimberDeficit(r) \in Nat
<1>1. PopulationDeficit(r) \in Nat /\ (PopulationNeeded(r) => PopulationDeficit(r) > 0)
    BY HoldingsAreNat DEF PopulationDeficit, PopulationNeeded, Shortfall
<1>2. AlloysWanted(r) \in Nat
    BY HousingDeficitIsNat, ElectronicsDeficitIsNat DEF AlloysWanted
<1>3. AlloysDeficit(r) \in Nat
    BY <1>2, HoldingsAreNat, ShortfallIsNat DEF AlloysDeficit
<1>4. ElementsWanted(r) \in Nat
    BY <1>3, HousingDeficitIsNat, ElectronicsDeficitIsNat DEF ElementsWanted
<1>5. ElementsDeficit(r) \in Nat
    BY <1>4, HoldingsAreNat, ShortfallIsNat DEF ElementsDeficit
<1>6. TimberDeficit(r) \in Nat
    BY HousingDeficitIsNat, HoldingsAreNat DEF TimberDeficit, Shortfall
<1> QED BY <1>1, <1>2, <1>3, <1>4, <1>5, <1>6

\* A surplus is a part of what the country has.
LEMMA SurplusIsHeld ==
    ASSUME NEW r \in Holdings, NEW k \in Tradable
    PROVE  Surplus(r)[k] \in 0..r[k]
<1>1. /\ r.population - r.housing \in 0..r.population \/ PopulationNeeded(r)
      /\ r.elements \div 2 \in 0..r.elements
      /\ r.timber \div 2 \in 0..r.timber
      /\ r.alloys \div 2 \in 0..r.alloys
    BY HoldingsAreNat DEF PopulationNeeded
<1>2. /\ Shortfall(r.electronics, 2 * r.population) \in 0..r.electronics
      /\ Shortfall(r.housing, r.population) \in 0..r.housing
    BY HoldingsAreNat DEF Shortfall
<1>3. 0 \in 0..r.population /\ 0 \in 0..r.elements /\ 0 \in 0..r.timber /\ 0 \in 0..r.alloys
    BY HoldingsAreNat
<1>4. CASE k = "population"
    BY <1>1, <1>3, <1>4 DEF Surplus
<1>5. CASE k = "elements"
    BY <1>1, <1>3, <1>5 DEF Surplus
<1>6. CASE k = "timber"
    BY <1>1, <1>3, <1>6 DEF Surplus
<1>7. CASE k = "alloys"
    BY <1>1, <1>3, <1>7 DEF Surplus
<1>8. CASE k = "electronics"
    BY <1>2, <1>8 DEF Surplus
<1>9. CASE k = "housing"
    BY <1>2, <1>9 DEF Surplus
<1> QED BY <1>4, <1>5, <1>6, <1>7, <1>8, <1>9 DEF Tradable, Kinds, Wastes

-----------------------------------------------------------------------------
(* What is asked for and what is offered.                                  *)

(* The surpluses can be compared.                                          *)
LEMMA SpareIsTradable ==
    ASSUME NEW r \in Holdings
    PROVE  /\ Spare(r) \in SUBSET Kinds
           /\ \A k \in Spare(r) : k \in Tradable /\ Surplus(r)[k] \in 1..r[k]
<1>1. \A k \in Tradable : k \in Kinds /\ r[k] \in Nat
    BY HoldingsAreNat DEF Tradable
<1>2. \A k \in Spare(r) : Surplus(r)[k] \in 0..r[k] /\ Surplus(r)[k] > 0
    BY SurplusIsHeld DEF Spare
<1> QED BY <1>1, <1>2 DEF Spare

(* GetHighestSurplusPosition finds a surplus if there is one.              *)
LEMMA HighestSurplusIsSpare ==
    ASSUME NEW r \in Holdings, Spare(r) # {}
    PROVE  HighestSurplus(r) \in Spare(r)
<1> DEFINE f == [k \in Kinds |-> IF k \in Spare(r) THEN Surplus(r)[k] ELSE 0]
           T == {k \in Spare(r) : \A j \in Spare(r) : Surplus(r)[j] <= Surplus(r)[k]}
<1>1. \A k \in Kinds : f[k] \in Int
    BY SpareIsTradable, HoldingsAreNat
<1>2. PICK k \in Spare(r) : \A j \in Spare(r) : f[j] <= f[k]
    BY <1>1, KindsHaveGreatest, SpareIsTradable DEF HasGreatest
<1>3. k \in T
    BY <1>2, SpareIsTradable
<1>4. T \in SUBSET Kinds
    BY SpareIsTradable
<1>5. First(T) \in T
    BY <1>3, <1>4, FirstIsIn
<1> QED BY <1>5 DEF HighestSurplus

(* GetHighestResourcePosition finds something that can be offered.         *)
LEMMA HighestResourceIsTradable ==
    ASSUME NEW r \in Holdings, NEW name
    PROVE  HighestResource(r, name) \in Tradable
<1> DEFINE S == {k \in Ranked \ {name} : r[k] > 0}
           T == {k \in S : \A j \in S : r[j] <= r[k]}
<1>1. S \in SUBSET Kinds /\ S \in SUBSET Tradable
    BY DEF Ranked, Kinds, Tradable, Wastes
<1>2. CASE S = {}
    BY <1>2 DEF HighestResource, Tradable, Kinds, Wastes
<1>3. CASE S # {}
    <2>1. \A k \in Kinds : r[k] \in Int
        BY HoldingsAreNat
    <2>2. HasGreatest(r, Kinds)
        BY <2>1, KindsHaveGreatest
    <2>3. \E k \in S : \A j \in S : r[j] <= r[k]
        BY <1>1, <1>3, <2>2 DEF HasGreatest
    <2>4. First(T) \in T
        BY <1>1, <2>3, FirstIsIn
    <2> QED BY <1>1, <1>3, <2>4 DEF HighestResource
<1> QED BY <1>2, <1>3

(* GetLowestResource finds a least amount.                                 *)
LEMMA LowestResourceIsLowest ==
    ASSUME NEW r \in Holdings
    PROVE  /\ LowestResource(r) \in Ranked
           /\ \A j \in Ranked : r[LowestResource(r)] <= r[j]
           /\ \A k \in Ranked : (\A j \in Ranked : r[k] <= r[j])
                                   => Position[LowestResource(r)] <= Position[k]
<1> DEFINE f == [k \in Kinds |-> 0 - r[k]]
           T == {k \in Ranked : \A j \in Ranked : r[k] <= r[j]}
<1>1. \A k \in Kinds : r[k] \in Nat /\ f[k] \in Int
    BY HoldingsAreNat
<1>2. HasGreatest(f, Kinds)
    BY <1>1, KindsHaveGreatest
<1>3. Ranked \in SUBSET Kinds /\ Ranked # {}
    BY DEF Ranked, Kinds
<1>4. PICK k \in Ranked : \A j \in Ranked : f[j] <= f[k]
    BY <1>2, <1>3 DEF HasGreatest
<1>5. \A j \in Ranked : r[k] <= r[j]
    <2> SUFFICES ASSUME NEW j \in Ranked PROVE r[k] <= r[j]
        OBVIOUS
    <2>1. f[j] <= f[k] /\ f[j] = 0 - r[j] /\ f[k] = 0 - r[k] /\ r[j] \in Nat /\ r[k] \in Nat
        BY <1>1, <1>3, <1>4
    <2> HIDE DEF f
    <2> QED BY <2>1
<1>6. T # {} /\ T \in SUBSET Kinds
    BY <1>3, <1>5
<1>7. First(T) \in T /\ \A k2 \in T : Position[First(T)] <= Position[k2]
    BY <1>6, FirstIsIn
<1> QED BY <1>7 DEF LowestResource

(* A country that asks asks for a positive amount of one of the resources  *)
(* AssignNewValues knows how to add, and offers no more than it has.       *)
THEOREM AskingIsSound ==
    ASSUME NEW r \in Holdings, Asks(r)
    PROVE  /\ Need(r) \in Asked /\ Needed(r) \in Nat \ {0}
           /\ Offer(r) \in Tradable /\ Offered(r) \in 0..r[Offer(r)]
<1>1. Need(r) \in Asked
    BY DEF Asks, Need, Asked
<1>2. Needed(r) \in Nat \ {0}
    BY DeficitsAreNat DEF Asks, Needed, AsksElements, AsksTimber
<1>3. Offer(r) \in Tradable
    BY HighestSurplusIsSpare, SpareIsTradable, HighestResourceIsTradable DEF Offer
<1>4. Surplus(r)[Offer(r)] \in 0..r[Offer(r)] /\ r[Offer(r)] \in Nat
    BY <1>3, SurplusIsHeld, HoldingsAreNat DEF Tradable
<1>5. Offered(r) \in 0..r[Offer(r)]
    <2> DEFINE s == Surplus(r)[Offer(r)]
               h == r[Offer(r)]
               n == Needed(r)
    <2>1. s \in 0..h /\ h \in Nat /\ n \in Nat
        BY <1>2, <1>4
    <2> HIDE DEF s, h, n
    <2>2. Smaller(n, s) \in 0..h
        BY <2>1 DEF Smaller
    <2> QED BY <2>2 DEF Offered, s, h, n
<1> QED BY <1>1, <1>2, <1>3, <1>5

(* A country that rests never has least of electronics: its surplus        *)
(* entries, too, ask for a resource AssignNewValues adds.                  *)
THEOREM RestingIsSound ==
    ASSUME NEW r \in Holdings, Rests(r)
    PROVE  LowestResource(r) \in Asked
<1>1. r.population >= 5 /\ ~ElectronicsNeeded(r)
    BY HoldingsAreNat DEF Rests, Builds, WantsHousing, WantsElectronics, PopulationNeeded
<1>2. r.electronics >= r.population
    <2> DEFINE p == r.population
               x == r.electronics
    <2>1. p \in Nat /\ p >= 5 /\ x \in Nat /\ ~(x \div p < 1)
        BY <1>1, HoldingsAreNat DEF ElectronicsNeeded
    <2> HIDE DEF p, x
    <2>2. x = p * (x \div p) + (x % p) /\ x % p >= 0 /\ x \div p \in Nat /\ x \div p >= 1
        BY <2>1
    <2>3. p * (x \div p) >= p
        BY <2>1, <2>2
    <2>4. x >= p
        BY <2>1, <2>2, <2>3
    <2> QED BY <2>4 DEF p, x
<1>3. SUFFICES ASSUME LowestResource(r) = "electronics" PROVE FALSE
    BY <1>3, LowestResourceIsLowest DEF Ranked, Asked
<1>4. \A j \in Ranked : r.electronics <= r[j]
    BY <1>3, LowestResourceIsLowest
<1>5. r.electronics = r.population
    BY <1>2, <1>4, HoldingsAreNat DEF Ranked
<1>6. \A j \in Ranked : r["population"] <= r[j]
    BY <1>4, <1>5
<1>7. Position["electronics"] <= Position["population"]
    BY <1>3, <1>6, LowestResourceIsLowest DEF Ranked
<1> QED BY <1>7 DEF Position

-----------------------------------------------------------------------------
(* What the transforms and attacks leave.                                  *)

(* What a country that builds wants alloys for.                            *)
LEMMA AlloysAreWanted ==
    ASSUME NEW r \in Holdings, Builds(r)
    PROVE  \/ WantsHousing(r) /\ AlloysWanted(r) = 3 * HousingDeficit(r)
           \/ WantsElectronics(r) /\ AlloysWanted(r) = 2 * ElectronicsDeficit(r)
BY DEF Builds, WantsHousing, WantsElectronics, AlloysWanted

(* A country starts a loop of transforms only when its stocks carry every  *)
(* call of it: "Error performing ... Transform" is never printed.          *)
THEOREM LoopsCanBeCarriedThrough ==
    ASSUME NEW r \in Holdings
    PROVE  /\ Smelts(r)            => AlloysPlanned(r) <= AlloyCap(r)
           /\ BuildsHouses(r)      => HousesPlanned(r) <= HousingCap(r)
           /\ BuildsElectronics(r) => ElectronicsPlanned(r) <= ElectronicsCap(r)
<1> DEFINE H == HousingDeficit(r)
           X == ElectronicsDeficit(r)
<1>0. H \in Nat /\ X \in Nat
    BY HousingDeficitIsNat, ElectronicsDeficitIsNat
<1> HIDE DEF H, X
<1>1. ASSUME Smelts(r)
      PROVE  AlloysPlanned(r) <= AlloyCap(r)
    <2>1. r.population >= 1
        BY <1>1, HoldingsAreNat DEF Smelts, Builds, WantsHousing, WantsElectronics,
                                    PopulationNeeded
    <2>2. 2 * AlloysDeficit(r) <= r.elements
        BY <1>1, DeficitsAreNat, HoldingsAreNat
           DEF Smelts, ElementsDeficit, ElementsWanted, Shortfall
    <2> QED BY <2>1, <2>2, DeficitsAreNat, HoldingsAreNat DEF AlloysPlanned, AlloyCap
<1>2. ASSUME BuildsHouses(r)
      PROVE  HousesPlanned(r) <= HousingCap(r)
    <2>1. r.population >= 5 /\ HousingNeeded(r)
        BY <1>2, HoldingsAreNat DEF BuildsHouses, WantsHousing, PopulationNeeded
    <2>2. H <= r.elements
        BY <1>2, <2>1, <1>0, HoldingsAreNat
           DEF BuildsHouses, ElementsDeficit, ElementsWanted, Shortfall, H
    <2>3. 5 * H <= r.timber
        BY <1>2, <1>0, HoldingsAreNat DEF BuildsHouses, TimberDeficit, Shortfall, H
    <2>4. 3 * H <= r.alloys
        BY <1>2, <2>1, <1>0, HoldingsAreNat
           DEF BuildsHouses, AlloysDeficit, AlloysWanted, Shortfall, H
    <2>5. H <= r.timber \div 5 /\ H <= r.alloys \div 3
        BY <1>0, <2>3, <2>4, HoldingsAreNat
    <2> QED BY <2>1, <2>2, <2>5 DEF HousesPlanned, HousingCap, Smaller, H
<1>3. ASSUME BuildsElectronics(r)
      PROVE  ElectronicsPlanned(r) <= ElectronicsCap(r)
    <2>1. r.population >= 1 /\ ElectronicsNeeded(r) /\ ~HousingNeeded(r)
        BY <1>3, HoldingsAreNat DEF BuildsElectronics, WantsElectronics, PopulationNeeded
    <2>2. 3 * X <= r.elements
        BY <1>3, <2>1, <1>0, HoldingsAreNat
           DEF BuildsElectronics, ElementsDeficit, ElementsWanted, Shortfall, X
    <2>3. 2 * X <= r.alloys
        BY <1>3, <2>1, <1>0, HoldingsAreNat
           DEF BuildsElectronics, AlloysDeficit, AlloysWanted, Shortfall, X
    <2>4. X \div 2 <= r.elements \div 3 /\ X \div 2 <= r.alloys \div 2
        BY <1>0, <2>2, <2>3, HoldingsAreNat
    <2> QED BY <2>1, <2>4 DEF ElectronicsPlanned, ElectronicsCap, Smaller, X
<1> QED BY <1>1, <1>2, <1>3

\* Whatever the number of calls, the loops leave natural amounts.
LEMMA RunsKeepHoldings ==
    ASSUME NEW r \in Holdings, NEW n \in Nat
    PROVE  /\ AlloyRun(r, n) \in Holdings
           /\ HousingRun(r, n) \in Holdings
           /\ ElectronicsRun(r, n) \in Holdings
<1>1. AlloyRun(r, n) \in Holdings
    <2> DEFINE m == Smaller(n, AlloyCap(r))
    <2>1. m \in Nat /\ 2 * m <= r.elements
        BY HoldingsAreNat DEF AlloyCap, Smaller
    <2> HIDE DEF m
    <2>2. r.elements - 2 * m \in Nat /\ r.alloys + m \in Nat /\ r.alloysWaste + m \in Nat
        BY <2>1, HoldingsAreNat
    <2> QED BY <2>2 DEF AlloyRun, Holdings, Kinds, m
<1>2. HousingRun(r, n) \in Holdings
    <2> DEFINE m == Smaller(n, HousingCap(r))
    <2>1. m \in Nat /\ m <= r.elements /\ 5 * m <= r.timber /\ 3 * m <= r.alloys
        BY HoldingsAreNat DEF HousingCap, Smaller
    <2> HIDE DEF m
    <2>2. /\ r.elements - m \in Nat /\ r.timber - 5 * m \in Nat /\ r.alloys - 3 * m \in Nat
          /\ r.housing + m \in Nat /\ r.housingWaste + m \in Nat
        BY <2>1, HoldingsAreNat
    <2> QED BY <2>2 DEF HousingRun, Holdings, Kinds, m
<1>3. ElectronicsRun(r, n) \in Holdings
    <2> DEFINE m == Smaller(n, ElectronicsCap(r))
    <2>1. m \in Nat /\ 3 * m <= r.elements /\ 2 * m <= r.alloys
        BY HoldingsAreNat DEF ElectronicsCap, Smaller
    <2> HIDE DEF m
    <2>2. /\ r.elements - 3 * m \in Nat /\ r.alloys - 2 * m \in Nat
          /\ r.electronics + 2 * m \in Nat /\ r.alloysWaste + m \in Nat
        BY <2>1, HoldingsAreNat
    <2> QED BY <2>2 DEF ElectronicsRun, Holdings, Kinds, m
<1> QED BY <1>1, <1>2, <1>3

(* The bounds of the loops are natural numbers.                            *)
LEMMA PlannedIsNat ==
    ASSUME NEW r \in Holdings
    PROVE  /\ AlloysPlanned(r) \in Nat /\ HousesPlanned(r) \in Nat
           /\ ElectronicsPlanned(r) \in Nat
BY DeficitsAreNat, HousingDeficitIsNat, ElectronicsDeficitIsNat
   DEF AlloysPlanned, HousesPlanned, ElectronicsPlanned

-----------------------------------------------------------------------------
(* The closed forms of the loops of transforms are the loops.              *)

\* n calls of T, one after another, beginning with r.
Repeat(T(_), r, n) ==
    LET after[i \in 0..n] == IF i = 0 THEN r ELSE T(after[i - 1])
    IN  after[n]

\* Holdings are equal when they are equal in every kind.
LEMMA SameHoldings ==
    ASSUME NEW f \in [Kinds -> Int], NEW g \in [Kinds -> Int],
           \A k \in Kinds : f[k] = g[k]
    PROVE  f = g
  OBVIOUS

\* What m calls of AlloyTransform change of kind k.
AlloyEffect(m, k) ==
    IF k = "elements" THEN -(2 * m)
    ELSE IF k \in {"alloys", "alloysWaste"} THEN m ELSE 0

\* What one call of it asks for.
AlloyReady(q) == q.population >= 1 /\ q.elements >= 2

\* One call.
LEMMA AlloyCall ==
    ASSUME NEW q \in [Kinds -> Int]
    PROVE  /\ AlloyTransform(q) \in [Kinds -> Int]
           /\ AlloyTransform(q) =
                 IF AlloyReady(q)
                 THEN [k \in Kinds |-> q[k] + AlloyEffect(1, k)] ELSE q
<1> DEFINE x == q.elements - 2
           y == q.alloys + 1
           z == q.alloysWaste + 1
           p == [q EXCEPT !.elements = x, !.alloys = y, !.alloysWaste = z]
           e == [k \in Kinds |-> q[k] + AlloyEffect(1, k)]
<1>1. q \in [Kinds -> Int] /\ x \in Int /\ y \in Int /\ z \in Int
    BY DEF Holdings, Kinds
<1>2. AlloyTransform(q) = IF AlloyReady(q) THEN p ELSE q
    BY DEF AlloyTransform, AlloyReady
<1>3. e \in [Kinds -> Int]
    BY <1>1 DEF Kinds, AlloyEffect
<1> HIDE DEF x, y, z
<1>4. p \in [Kinds -> Int]
    BY <1>1 DEF Kinds
<1>5. \A k \in Kinds :
        p[k] = IF k = "elements" THEN x
                  ELSE IF k = "alloys" THEN y
                  ELSE IF k = "alloysWaste" THEN z ELSE q[k]
    BY <1>1 DEF Kinds
<1> HIDE DEF p
<1>6. \A k \in Kinds : p[k] = e[k]
    BY <1>1, <1>5 DEF AlloyEffect, x, y, z
<1> HIDE DEF e
<1>7. p = e
    BY <1>3, <1>4, <1>6, SameHoldings
<1> QED BY <1>1, <1>2, <1>3, <1>7 DEF e

\* The closed form.
LEMMA AlloyClosed ==
    ASSUME NEW r \in Holdings, NEW n \in Nat, NEW m \in Nat, m = Smaller(n, AlloyCap(r))
    PROVE  /\ AlloyRun(r, n) \in [Kinds -> Int]
           /\ AlloyRun(r, n) = [k \in Kinds |-> r[k] + AlloyEffect(m, k)]
<1> DEFINE x == r.elements - 2 * m
           y == r.alloys + m
           z == r.alloysWaste + m
           p == [r EXCEPT !.elements = x, !.alloys = y, !.alloysWaste = z]
           e == [k \in Kinds |-> r[k] + AlloyEffect(m, k)]
<1>1. r \in [Kinds -> Int] /\ x \in Int /\ y \in Int /\ z \in Int
    BY DEF Holdings, Kinds
<1>2. AlloyRun(r, n) = p
    BY DEF AlloyRun
<1>3. e \in [Kinds -> Int]
    BY <1>1 DEF Kinds, AlloyEffect
<1> HIDE DEF x, y, z
<1>4. p \in [Kinds -> Int]
    BY <1>1 DEF Kinds
<1>5. \A k \in Kinds :
        p[k] = IF k = "elements" THEN x
                  ELSE IF k = "alloys" THEN y
                  ELSE IF k = "alloysWaste" THEN z ELSE r[k]
    BY <1>1 DEF Kinds
<1> HIDE DEF p
<1>6. \A k \in Kinds : p[k] = e[k]
    BY <1>1, <1>5 DEF AlloyEffect, x, y, z
<1> HIDE DEF e
<1>7. p = e
    BY <1>3, <1>4, <1>6, SameHoldings
<1> QED BY <1>1, <1>2, <1>3, <1>7 DEF e

\* The closed form for one call more is the transform of the closed form.
LEMMA AlloyStep ==
    ASSUME NEW r \in Holdings, NEW i \in Nat
    PROVE  /\ AlloyRun(r, 0) = r
           /\ AlloyRun(r, i + 1) = AlloyTransform(AlloyRun(r, i))
<1>1. r \in [Kinds -> Nat] /\ r \in [Kinds -> Int] /\ AlloyCap(r) \in Nat
    BY DEF Holdings, AlloyCap, Smaller, Kinds
<1>2. AlloyRun(r, 0) = r
    <2>1. 0 = Smaller(0, AlloyCap(r))
        BY <1>1 DEF Smaller
    <2>2. AlloyRun(r, 0) = [k \in Kinds |-> r[k] + AlloyEffect(0, k)]
        BY <2>1, AlloyClosed
    <2>3. \A k \in Kinds : r[k] + AlloyEffect(0, k) = r[k]
        BY <1>1 DEF AlloyEffect
    <2> QED BY <1>1, <2>2, <2>3
<1>3. PICK m \in Nat, l \in Nat :
         /\ m = Smaller(i, AlloyCap(r)) /\ l = Smaller(i + 1, AlloyCap(r))
         /\ l = IF i < AlloyCap(r) THEN m + 1 ELSE m
    BY <1>1 DEF Smaller
<1>4. PICK q \in [Kinds -> Int] :
         q = AlloyRun(r, i) /\ q = [k \in Kinds |-> r[k] + AlloyEffect(m, k)]
    BY <1>3, AlloyClosed
<1>5. AlloyRun(r, i + 1) = [k \in Kinds |-> r[k] + AlloyEffect(l, k)]
    BY <1>3, AlloyClosed
<1>6. AlloyReady(q) <=> i < AlloyCap(r)
    <2>1. /\ q.population = r.population + AlloyEffect(m, "population")
          /\ q.elements = r.elements + AlloyEffect(m, "elements")
        BY <1>4 DEF Kinds
    <2>2. /\ q.population = r.population
          /\ q.elements = r.elements - 2 * m
        BY <1>1, <2>1 DEF AlloyEffect, Kinds
    <2>3. r.population \in Nat /\ r.elements \in Nat
        BY <1>1 DEF Kinds
    <2> QED BY <1>1, <1>3, <2>2, <2>3 DEF AlloyCap, AlloyReady, Smaller
<1>7. CASE i < AlloyCap(r)
    <2>1. \A k \in Kinds : r[k] + AlloyEffect(l, k) = q[k] + AlloyEffect(1, k)
        BY <1>1, <1>3, <1>4, <1>7 DEF AlloyEffect
    <2> QED BY <1>2, <1>4, <1>5, <1>6, <1>7, <2>1, AlloyCall
<1>8. CASE ~(i < AlloyCap(r))
    BY <1>2, <1>3, <1>4, <1>5, <1>6, <1>8, AlloyCall
<1> QED BY <1>7, <1>8

\* The closed form for n calls is n calls.
LEMMA AlloyLoop ==
    ASSUME NEW r \in Holdings, NEW n \in Nat
    PROVE  AlloyRun(r, n) = Repeat(AlloyTransform, r, n)
<1> DEFINE Body(g) == [i \in 0..n |-> IF i = 0 THEN r ELSE AlloyTransform(g[i - 1])]
           run == [i \in 0..n |-> AlloyRun(r, i)]
           after == CHOOSE g : g = Body(g)
<1>1. Repeat(AlloyTransform, r, n) = after[n]
    BY DEF Repeat
<1>2. run = Body(run)
    <2>1. ASSUME NEW i \in 0..n, i # 0
          PROVE  run[i] = AlloyTransform(run[i - 1])
        <3>1. i - 1 \in Nat /\ i - 1 \in 0..n /\ (i - 1) + 1 = i
            BY <2>1
        <3> QED BY <3>1, AlloyStep
    <2>2. 0 \in 0..n /\ run[0] = r
        BY AlloyStep
    <2> QED BY <2>1, <2>2
<1>3. after = Body(after)
    BY <1>2
<1> HIDE DEF after
<1>4. after[0] = run[0]
    <2>1. 0 \in 0..n
        OBVIOUS
    <2> QED BY <1>2, <1>3, <2>1
<1>5. \A i \in 1..n : after[i - 1] = run[i - 1] => after[i] = run[i]
    BY <1>2, <1>3
<1>6. after[n] = run[n]
    BY <1>4, <1>5, SameSteps
<1> QED BY <1>1, <1>6

\* What m calls of HousingTransform change of kind k.
HousingEffect(m, k) ==
    IF k = "elements" THEN -m
    ELSE IF k = "timber" THEN -(5 * m)
    ELSE IF k = "alloys" THEN -(3 * m)
    ELSE IF k \in {"housing", "housingWaste"} THEN m ELSE 0

\* What one call of it asks for.
HousingReady(q) == q.population >= 5 /\ q.elements >= 1 /\ q.timber >= 5 /\ q.alloys >= 3

\* One call.
LEMMA HousingCall ==
    ASSUME NEW q \in [Kinds -> Int]
    PROVE  /\ HousingTransform(q) \in [Kinds -> Int]
           /\ HousingTransform(q) =
                 IF HousingReady(q)
                 THEN [k \in Kinds |-> q[k] + HousingEffect(1, k)] ELSE q
<1> DEFINE x == q.elements - 1
           y == q.timber - 5
           z == q.alloys - 3
           u == q.housing + 1
           v == q.housingWaste + 1
           p == [q EXCEPT !.elements = x, !.timber = y, !.alloys = z,
                          !.housing = u, !.housingWaste = v]
           e == [k \in Kinds |-> q[k] + HousingEffect(1, k)]
<1>1. q \in [Kinds -> Int] /\ x \in Int /\ y \in Int /\ z \in Int /\ u \in Int /\ v \in Int
    BY DEF Holdings, Kinds
<1>2. HousingTransform(q) = IF HousingReady(q) THEN p ELSE q
    BY DEF HousingTransform, HousingReady
<1>3. e \in [Kinds -> Int]
    BY <1>1 DEF Kinds, HousingEffect
<1> HIDE DEF x, y, z, u, v
<1>4. p \in [Kinds -> Int]
    BY <1>1 DEF Kinds
<1>5. \A k \in Kinds :
        p[k] = IF k = "elements" THEN x
                  ELSE IF k = "timber" THEN y
                  ELSE IF k = "alloys" THEN z
                  ELSE IF k = "housing" THEN u
                  ELSE IF k = "housingWaste" THEN v ELSE q[k]
    BY <1>1 DEF Kinds
<1> HIDE DEF p
<1>6. \A k \in Kinds : p[k] = e[k]
    BY <1>1, <1>5 DEF HousingEffect, x, y, z, u, v
<1> HIDE DEF e
<1>7. p = e
    BY <1>3, <1>4, <1>6, SameHoldings
<1> QED BY <1>1, <1>2, <1>3, <1>7 DEF e

\* The closed form.
LEMMA HousingClosed ==
    ASSUME NEW r \in Holdings, NEW n \in Nat, NEW m \in Nat, m = Smaller(n, HousingCap(r))
    PROVE  /\ HousingRun(r, n) \in [Kinds -> Int]
           /\ HousingRun(r, n) = [k \in Kinds |-> r[k] + HousingEffect(m, k)]
<1> DEFINE x == r.elements - m
           y == r.timber - 5 * m
           z == r.alloys - 3 * m
           u == r.housing + m
           v == r.housingWaste + m
           p == [r EXCEPT !.elements = x, !.timber = y, !.alloys = z,
                          !.housing = u, !.housingWaste = v]
           e == [k \in Kinds |-> r[k] + HousingEffect(m, k)]
<1>1. r \in [Kinds -> Int] /\ x \in Int /\ y \in Int /\ z \in Int /\ u \in Int /\ v \in Int
    BY DEF Holdings, Kinds
<1>2. HousingRun(r, n) = p
    BY DEF HousingRun
<1>3. e \in [Kinds -> Int]
    BY <1>1 DEF Kinds, HousingEffect
<1> HIDE DEF x, y, z, u, v
<1>4. p \in [Kinds -> Int]
    BY <1>1 DEF Kinds
<1>5. \A k \in Kinds :
        p[k] = IF k = "elements" THEN x
                  ELSE IF k = "timber" THEN y
                  ELSE IF k = "alloys" THEN z
                  ELSE IF k = "housing" THEN u
                  ELSE IF k = "housingWaste" THEN v ELSE r[k]
    BY <1>1 DEF Kinds
<1> HIDE DEF p
<1>6. \A k \in Kinds : p[k] = e[k]
    BY <1>1, <1>5 DEF HousingEffect, x, y, z, u, v
<1> HIDE DEF e
<1>7. p = e
    BY <1>3, <1>4, <1>6, SameHoldings
<1> QED BY <1>1, <1>2, <1>3, <1>7 DEF e

\* The closed form for one call more is the transform of the closed form.
LEMMA HousingStep ==
    ASSUME NEW r \in Holdings, NEW i \in Nat
    PROVE  /\ HousingRun(r, 0) = r
           /\ HousingRun(r, i + 1) = HousingTransform(HousingRun(r, i))
<1>1. r \in [Kinds -> Nat] /\ r \in [Kinds -> Int] /\ HousingCap(r) \in Nat
    BY DEF Holdings, HousingCap, Smaller, Kinds
<1>2. HousingRun(r, 0) = r
    <2>1. 0 = Smaller(0, HousingCap(r))
        BY <1>1 DEF Smaller
    <2>2. HousingRun(r, 0) = [k \in Kinds |-> r[k] + HousingEffect(0, k)]
        BY <2>1, HousingClosed
    <2>3. \A k \in Kinds : r[k] + HousingEffect(0, k) = r[k]
        BY <1>1 DEF HousingEffect
    <2> QED BY <1>1, <2>2, <2>3
<1>3. PICK m \in Nat, l \in Nat :
         /\ m = Smaller(i, HousingCap(r)) /\ l = Smaller(i + 1, HousingCap(r))
         /\ l = IF i < HousingCap(r) THEN m + 1 ELSE m
    BY <1>1 DEF Smaller
<1>4. PICK q \in [Kinds -> Int] :
         q = HousingRun(r, i) /\ q = [k \in Kinds |-> r[k] + HousingEffect(m, k)]
    BY <1>3, HousingClosed
<1>5. HousingRun(r, i + 1) = [k \in Kinds |-> r[k] + HousingEffect(l, k)]
    BY <1>3, HousingClosed
<1>6. HousingReady(q) <=> i < HousingCap(r)
    <2>1. /\ q.population = r.population + HousingEffect(m, "population")
          /\ q.elements = r.elements + HousingEffect(m, "elements")
          /\ q.timber = r.timber + HousingEffect(m, "timber")
          /\ q.alloys = r.alloys + HousingEffect(m, "alloys")
        BY <1>4 DEF Kinds
    <2>2. /\ q.population = r.population
          /\ q.elements = r.elements - m
          /\ q.timber = r.timber - 5 * m
          /\ q.alloys = r.alloys - 3 * m
        BY <1>1, <2>1 DEF HousingEffect, Kinds
    <2>3. r.population \in Nat /\ r.elements \in Nat /\ r.timber \in Nat /\ r.alloys \in Nat
        BY <1>1 DEF Kinds
    <2> QED BY <1>1, <1>3, <2>2, <2>3 DEF HousingCap, HousingReady, Smaller
<1>7. CASE i < HousingCap(r)
    <2>1. \A k \in Kinds : r[k] + HousingEffect(l, k) = q[k] + HousingEffect(1, k)
        BY <1>1, <1>3, <1>4, <1>7 DEF HousingEffect
    <2> QED BY <1>2, <1>4, <1>5, <1>6, <1>7, <2>1, HousingCall
<1>8. CASE ~(i < HousingCap(r))
    BY <1>2, <1>3, <1>4, <1>5, <1>6, <1>8, HousingCall
<1> QED BY <1>7, <1>8

\* The closed form for n calls is n calls.
LEMMA HousingLoop ==
    ASSUME NEW r \in Holdings, NEW n \in Nat
    PROVE  HousingRun(r, n) = Repeat(HousingTransform, r, n)
<1> DEFINE Body(g) == [i \in 0..n |-> IF i = 0 THEN r ELSE HousingTransform(g[i - 1])]
           run == [i \in 0..n |-> HousingRun(r, i)]
           after == CHOOSE g : g = Body(g)
<1>1. Repeat(HousingTransform, r, n) = after[n]
    BY DEF Repeat
<1>2. run = Body(run)
    <2>1. ASSUME NEW i \in 0..n, i # 0
          PROVE  run[i] = HousingTransform(run[i - 1])
        <3>1. i - 1 \in Nat /\ i - 1 \in 0..n /\ (i - 1) + 1 = i
            BY <2>1
        <3> QED BY <3>1, HousingStep
    <2>2. 0 \in 0..n /\ run[0] = r
        BY HousingStep
    <2> QED BY <2>1, <2>2
<1>3. after = Body(after)
    BY <1>2
<1> HIDE DEF after
<1>4. after[0] = run[0]
    <2>1. 0 \in 0..n
        OBVIOUS
    <2> QED BY <1>2, <1>3, <2>1
<1>5. \A i \in 1..n : after[i - 1] = run[i - 1] => after[i] = run[i]
    BY <1>2, <1>3
<1>6. after[n] = run[n]
    BY <1>4, <1>5, SameSteps
<1> QED BY <1>1, <1>6

\* What m calls of ElectronicsTransform change of kind k.
ElectronicsEffect(m, k) ==
    IF k = "elements" THEN -(3 * m)
    ELSE IF k = "alloys" THEN -(2 * m)
    ELSE IF k = "electronics" THEN 2 * m
    ELSE IF k = "alloysWaste" THEN m ELSE 0

\* What one call of it asks for.
ElectronicsReady(q) == q.population >= 1 /\ q.elements >= 3 /\ q.alloys >= 2

\* One call.
LEMMA ElectronicsCall ==
    ASSUME NEW q \in [Kinds -> Int]
    PROVE  /\ ElectronicsTransform(q) \in [Kinds -> Int]
           /\ ElectronicsTransform(q) =
                 IF ElectronicsReady(q)
                 THEN [k \in Kinds |-> q[k] + ElectronicsEffect(1, k)] ELSE q
<1> DEFINE x == q.elements - 3
           y == q.alloys - 2
           z == q.electronics + 2
           u == q.alloysWaste + 1
           p == [q EXCEPT !.elements = x, !.alloys = y, !.electronics = z,
                          !.alloysWaste = u]
           e == [k \in Kinds |-> q[k] + ElectronicsEffect(1, k)]
<1>1. q \in [Kinds -> Int] /\ x \in Int /\ y \in Int /\ z \in Int /\ u \in Int
    BY DEF Holdings, Kinds
<1>2. ElectronicsTransform(q) = IF ElectronicsReady(q) THEN p ELSE q
    BY DEF ElectronicsTransform, ElectronicsReady
<1>3. e \in [Kinds -> Int]
    BY <1>1 DEF Kinds, ElectronicsEffect
<1> HIDE DEF x, y, z, u
<1>4. p \in [Kinds -> Int]
    BY <1>1 DEF Kinds
<1>5. \A k \in Kinds :
        p[k] = IF k = "elements" THEN x
                  ELSE IF k = "alloys" THEN y
                  ELSE IF k = "electronics" THEN z
                  ELSE IF k = "alloysWaste" THEN u ELSE q[k]
    BY <1>1 DEF Kinds
<1> HIDE DEF p
<1>6. \A k \in Kinds : p[k] = e[k]
    BY <1>1, <1>5 DEF ElectronicsEffect, x, y, z, u
<1> HIDE DEF e
<1>7. p = e
    BY <1>3, <1>4, <1>6, SameHoldings
<1> QED BY <1>1, <1>2, <1>3, <1>7 DEF e

\* The closed form.
LEMMA ElectronicsClosed ==
    ASSUME NEW r \in Holdings, NEW n \in Nat, NEW m \in Nat, m = Smaller(n, ElectronicsCap(r))
    PROVE  /\ ElectronicsRun(r, n) \in [Kinds -> Int]
           /\ ElectronicsRun(r, n) = [k \in Kinds |-> r[k] + ElectronicsEffect(m, k)]
<1> DEFINE x == r.elements - 3 * m
           y == r.alloys - 2 * m
           z == r.electronics + 2 * m
           u == r.alloysWaste + m
           p == [r EXCEPT !.elements = x, !.alloys = y, !.electronics = z,
                          !.alloysWaste = u]
           e == [k \in Kinds |-> r[k] + ElectronicsEffect(m, k)]
<1>1. r \in [Kinds -> Int] /\ x \in Int /\ y \in Int /\ z \in Int /\ u \in Int
    BY DEF Holdings, Kinds
<1>2. ElectronicsRun(r, n) = p
    BY DEF ElectronicsRun
<1>3. e \in [Kinds -> Int]
    BY <1>1 DEF Kinds, ElectronicsEffect
<1> HIDE DEF x, y, z, u
<1>4. p \in [Kinds -> Int]
    BY <1>1 DEF Kinds
<1>5. \A k \in Kinds :
        p[k] = IF k = "elements" THEN x
                  ELSE IF k = "alloys" THEN y
                  ELSE IF k = "electronics" THEN z
                  ELSE IF k = "alloysWaste" THEN u ELSE r[k]
    BY <1>1 DEF Kinds
<1> HIDE DEF p
<1>6. \A k \in Kinds : p[k] = e[k]
    BY <1>1, <1>5 DEF ElectronicsEffect, x, y, z, u
<1> HIDE DEF e
<1>7. p = e
    BY <1>3, <1>4, <1>6, SameHoldings
<1> QED BY <1>1, <1>2, <1>3, <1>7 DEF e

\* The closed form for one call more is the transform of the closed form.
LEMMA ElectronicsStep ==
    ASSUME NEW r \in Holdings, NEW i \in Nat
    PROVE  /\ ElectronicsRun(r, 0) = r
           /\ ElectronicsRun(r, i + 1) = ElectronicsTransform(ElectronicsRun(r, i))
<1>1. r \in [Kinds -> Nat] /\ r \in [Kinds -> Int] /\ ElectronicsCap(r) \in Nat
    BY DEF Holdings, ElectronicsCap, Smaller, Kinds
<1>2. ElectronicsRun(r, 0) = r
    <2>1. 0 = Smaller(0, ElectronicsCap(r))
        BY <1>1 DEF Smaller
    <2>2. ElectronicsRun(r, 0) = [k \in Kinds |-> r[k] + ElectronicsEffect(0, k)]
        BY <2>1, ElectronicsClosed
    <2>3. \A k \in Kinds : r[k] + ElectronicsEffect(0, k) = r[k]
        BY <1>1 DEF ElectronicsEffect
    <2> QED BY <1>1, <2>2, <2>3
<1>3. PICK m \in Nat, l \in Nat :
         /\ m = Smaller(i, ElectronicsCap(r)) /\ l = Smaller(i + 1, ElectronicsCap(r))
         /\ l = IF i < ElectronicsCap(r) THEN m + 1 ELSE m
    BY <1>1 DEF Smaller
<1>4. PICK q \in [Kinds -> Int] :
         q = ElectronicsRun(r, i) /\ q = [k \in Kinds |-> r[k] + ElectronicsEffect(m, k)]
    BY <1>3, ElectronicsClosed
<1>5. ElectronicsRun(r, i + 1) = [k \in Kinds |-> r[k] + ElectronicsEffect(l, k)]
    BY <1>3, ElectronicsClosed
<1>6. ElectronicsReady(q) <=> i < ElectronicsCap(r)
    <2>1. /\ q.population = r.population + ElectronicsEffect(m, "population")
          /\ q.elements = r.elements + ElectronicsEffect(m, "elements")
          /\ q.alloys = r.alloys + ElectronicsEffect(m, "alloys")
        BY <1>4 DEF Kinds
    <2>2. /\ q.population = r.population
          /\ q.elements = r.elements - 3 * m
          /\ q.alloys = r.alloys - 2 * m
        BY <1>1, <2>1 DEF ElectronicsEffect, Kinds
    <2>3. r.population \in Nat /\ r.elements \in Nat /\ r.alloys \in Nat
        BY <1>1 DEF Kinds
    <2> QED BY <1>1, <1>3, <2>2, <2>3 DEF ElectronicsCap, ElectronicsReady, Smaller
<1>7. CASE i < ElectronicsCap(r)
    <2>1. \A k \in Kinds : r[k] + ElectronicsEffect(l, k) = q[k] + ElectronicsEffect(1, k)
        BY <1>1, <1>3, <1>4, <1>7 DEF ElectronicsEffect
    <2> QED BY <1>2, <1>4, <1>5, <1>6, <1>7, <2>1, ElectronicsCall
<1>8. CASE ~(i < ElectronicsCap(r))
    BY <1>2, <1>3, <1>4, <1>5, <1>6, <1>8, ElectronicsCall
<1> QED BY <1>7, <1>8

\* The closed form for n calls is n calls.
LEMMA ElectronicsLoop ==
    ASSUME NEW r \in Holdings, NEW n \in Nat
    PROVE  ElectronicsRun(r, n) = Repeat(ElectronicsTransform, r, n)
<1> DEFINE Body(g) == [i \in 0..n |-> IF i = 0 THEN r ELSE ElectronicsTransform(g[i - 1])]
           run == [i \in 0..n |-> ElectronicsRun(r, i)]
           after == CHOOSE g : g = Body(g)
<1>1. Repeat(ElectronicsTransform, r, n) = after[n]
    BY DEF Repeat
<1>2. run = Body(run)
    <2>1. ASSUME NEW i \in 0..n, i # 0
          PROVE  run[i] = ElectronicsTransform(run[i - 1])
        <3>1. i - 1 \in Nat /\ i - 1 \in 0..n /\ (i - 1) + 1 = i
            BY <2>1
        <3> QED BY <3>1, ElectronicsStep
    <2>2. 0 \in 0..n /\ run[0] = r
        BY ElectronicsStep
    <2> QED BY <2>1, <2>2
<1>3. after = Body(after)
    BY <1>2
<1> HIDE DEF after
<1>4. after[0] = run[0]
    <2>1. 0 \in 0..n
        OBVIOUS
    <2> QED BY <1>2, <1>3, <2>1
<1>5. \A i \in 1..n : after[i - 1] = run[i - 1] => after[i] = run[i]
    BY <1>2, <1>3
<1>6. after[n] = run[n]
    BY <1>4, <1>5, SameSteps
<1> QED BY <1>1, <1>6

-----------------------------------------------------------------------------
(* What a loop of transforms leaves of the need it is for.                 *)

\* What is divided by no more than itself leaves one at least.
LEMMA AtLeastOnce ==
    ASSUME NEW x \in Nat, NEW p \in Nat, p >= 1, x >= p
    PROVE  ~(x \div p < 1)
<1>1. x = p * (x \div p) + (x % p) /\ x % p < p /\ x \div p \in Nat
    OBVIOUS
<1>2. x \div p # 0
    <2> SUFFICES ASSUME x \div p = 0 PROVE FALSE
        OBVIOUS
    <2>1. p * 0 = 0
        OBVIOUS
    <2> QED BY <1>1, <2>1
<1> QED BY <1>1, <1>2

(* Building electronics settles the need for them, smelting that for       *)
(* alloys: the loop of one node never has to be repeated by the next.      *)
THEOREM BuildingSettlesTheNeed ==
    ASSUME NEW r \in Holdings
    PROVE  /\ BuildsElectronics(r) =>
                 ~ElectronicsNeeded(ElectronicsRun(r, ElectronicsPlanned(r)))
           /\ Smelts(r) => AlloysDeficit(AlloyRun(r, AlloysPlanned(r))) = 0
<1>1. ASSUME BuildsElectronics(r)
      PROVE  ~ElectronicsNeeded(ElectronicsRun(r, ElectronicsPlanned(r)))
    <2>1. PICK m \in Nat : m = ElectronicsPlanned(r) /\ m <= ElectronicsCap(r)
        BY <1>1, PlannedIsNat, LoopsCanBeCarriedThrough
    <2>2. m = Smaller(m, ElectronicsCap(r))
        BY <2>1, HoldingsAreNat DEF Smaller, ElectronicsCap
    <2>3. PICK q : /\ q = ElectronicsRun(r, m)
                   /\ q = [k \in Kinds |-> r[k] + ElectronicsEffect(m, k)]
        BY <2>2, ElectronicsClosed
    <2>4. /\ q.electronics = r.electronics + ElectronicsEffect(m, "electronics")
          /\ q.population = r.population + ElectronicsEffect(m, "population")
        BY <2>3 DEF Kinds
    <2>5. q.electronics = r.electronics + 2 * m /\ q.population = r.population
        BY <2>4, HoldingsAreNat DEF ElectronicsEffect
    <2>6. r.population >= 1 /\ ElectronicsNeeded(r)
        BY <1>1, HoldingsAreNat DEF BuildsElectronics, WantsElectronics, PopulationNeeded
    <2>7. m = (2 * r.population - r.electronics) \div 2
        BY <2>1, <2>6 DEF ElectronicsPlanned, ElectronicsDeficit
    <2>8. q.electronics >= q.population
        BY <2>1, <2>5, <2>6, <2>7, HoldingsAreNat
    <2>9. ~(q.electronics \div q.population < 1)
        BY <2>1, <2>5, <2>6, <2>8, AtLeastOnce, HoldingsAreNat
    <2> QED BY <2>1, <2>3, <2>9 DEF ElectronicsNeeded
<1>2. ASSUME Smelts(r)
      PROVE  AlloysDeficit(AlloyRun(r, AlloysPlanned(r))) = 0
    <2>1. PICK m \in Nat : m = AlloysPlanned(r) /\ m <= AlloyCap(r)
        BY <1>2, PlannedIsNat, LoopsCanBeCarriedThrough
    <2>2. m = Smaller(m, AlloyCap(r))
        BY <2>1, HoldingsAreNat DEF Smaller, AlloyCap
    <2>3. PICK q : q = AlloyRun(r, m) /\ q = [k \in Kinds |-> r[k] + AlloyEffect(m, k)]
        BY <2>2, AlloyClosed
    <2>4. /\ q.alloys = r.alloys + AlloyEffect(m, "alloys")
          /\ q.population = r.population + AlloyEffect(m, "population")
          /\ q.housing = r.housing + AlloyEffect(m, "housing")
          /\ q.electronics = r.electronics + AlloyEffect(m, "electronics")
        BY <2>3 DEF Kinds
    <2>5. /\ q.alloys = r.alloys + m /\ q.population = r.population
          /\ q.housing = r.housing /\ q.electronics = r.electronics
        BY <2>4, HoldingsAreNat DEF AlloyEffect
    <2>6. AlloysWanted(q) = AlloysWanted(r)
        BY <2>5 DEF AlloysWanted, HousingNeeded, HousingDeficit, ElectronicsNeeded,
                    ElectronicsDeficit
    <2>7. m = Shortfall(AlloysWanted(r), r.alloys) /\ AlloysWanted(r) \in Nat
        BY <2>1, DeficitsAreNat DEF AlloysPlanned, AlloysDeficit
    <2>8. Shortfall(AlloysWanted(q), q.alloys) = 0
        BY <2>5, <2>6, <2>7, HoldingsAreNat DEF Shortfall
    <2> QED BY <2>1, <2>3, <2>8 DEF AlloysDeficit
<1> QED BY <1>1, <1>2

-----------------------------------------------------------------------------
(* Attacks.                                                                *)

\* An attack takes part of what there is.
LEMMA CutIsPart ==
    ASSUME NEW a \in Nat, NEW p \in 0..100, NEW x \in Cut(a, p)
    PROVE  a - x \in Nat
<1> DEFINE n == a * p
<1>1. n \in Nat /\ n <= a * 100
    <2>1. p \in Nat /\ p <= 100 /\ 100 - p \in Nat
        OBVIOUS
    <2>2. a * (100 - p) \in Nat /\ a * (100 - p) = a * 100 - a * p
        BY <2>1
    <2> QED BY <2>1, <2>2
<1>2. n % 100 = 0 /\ n > 0 => n \div 100 >= 1
    BY <1>1
<1>3. p >= 1 /\ a > 0 => n > 0
    <2>1. ASSUME p >= 1, a > 0 PROVE a * p >= a * 1
        <3>1. p - 1 \in Nat /\ a * (p - 1) \in Nat /\ a * (p - 1) = a * p - a * 1
            BY <2>1
        <3> QED BY <3>1
    <2> QED BY <2>1, <1>1
<1>4. x = n \div 100 \/ (x = n \div 100 - 1 /\ p \in 1..99 /\ a > 0 /\ n % 100 = 0)
    BY DEF Cut
<1> HIDE DEF n
<1>5. n \div 100 \in 0..a
    BY <1>1
<1> QED BY <1>2, <1>3, <1>4, <1>5

(* An attack takes no more than there is.                                  *)
LEMMA ReductionsKeepHoldings ==
    ASSUME NEW r \in Holdings, NEW p \in 0..100
    PROVE  /\ ReduceUrban(r, p) \subseteq Holdings
           /\ ReduceSupplies(r, p) \subseteq Holdings
<1>1. ASSUME NEW q \in ReduceUrban(r, p)
      PROVE  q \in Holdings
    <2>1. PICK x \in Cut(r.population, p), y \in Cut(r.housing, p),
               z \in Cut(r.electronics, p) :
            q = UrbanLoss(r, x, y, z)
        BY <1>1 DEF ReduceUrban
    <2>2. r.population - x \in Nat /\ r.housing - y \in Nat /\ r.electronics - z \in Nat
        BY CutIsPart, HoldingsAreNat
    <2> QED BY <2>1, <2>2 DEF Holdings, Kinds, UrbanLoss
<1>2. ASSUME NEW q \in ReduceSupplies(r, p)
      PROVE  q \in Holdings
    <2>1. PICK x \in Cut(r.elements, p), y \in Cut(r.alloys, p) :
            q = SupplyLoss(r, x, y)
        BY <1>2 DEF ReduceSupplies
    <2>2. r.elements - x \in Nat /\ r.alloys - y \in Nat
        BY CutIsPart, HoldingsAreNat
    <2> QED BY <2>1, <2>2 DEF Holdings, Kinds, SupplyLoss
<1> QED BY <1>1, <1>2
=============================================================================
