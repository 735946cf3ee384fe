------------------------------- MODULE Counting -------------------------------
(***************************************************************************)
(* Induction on numbers, as the proofs of loops need it, and sums over     *)
(* finite sets, whatever order CHOOSE takes their elements in.             *)
(***************************************************************************)
EXTENDS Integers, FiniteSets, FiniteSetTheorems, WellFoundedInduction, TLAPS

(* A set of naturals that is not empty has a smallest element.             *)
LEMMA SmallestLemma ==
    ASSUME NEW T, T \subseteq Nat, T # {}
    PROVE  \E n \in T : \A m \in T : n <= m
<1>1. PICK n \in T : \A m \in T : ~(<<m, n>> \in OpToRel(<, Nat))
  BY NatLessThanWellFounded, WFMin, Zenon
<1>2. \A m \in T : ~(m < n)
  BY <1>1 DEF OpToRel
<1> QED
  BY <1>2

(* What holds at 0 and is handed on by every turn of a loop holds at its   *)
(* end.                                                                    *)
LEMMA CountUp ==
    ASSUME NEW n \in Nat, NEW S, 0 \in S, \A k \in 0 .. n - 1 : k \in S => k + 1 \in S
    PROVE  \A k \in 0 .. n : k \in S
<1> DEFINE T == {k \in 0 .. n : k \notin S}
<1> SUFFICES ASSUME T # {} PROVE FALSE
  OBVIOUS
<1>1. T \subseteq Nat
  OBVIOUS
<1> HIDE DEF T
<1>2. PICK k \in T : \A j \in T : k <= j
  BY <1>1, SmallestLemma
<1>3. k \in 0 .. n /\ k \notin S /\ k # 0
  BY <1>2 DEF T
<1>4. k - 1 \in 0 .. n - 1 /\ k - 1 \in 0 .. n /\ ~(k <= k - 1)
  BY <1>3
<1>5. k - 1 \in S
  BY <1>2, <1>4 DEF T
<1>6. (k - 1) + 1 \in S
  BY <1>4, <1>5
<1> QED
  BY <1>3, <1>6

-----------------------------------------------------------------------------
(* Sums over finite sets, as MapThenSumSet computes them: one element      *)
(* after the other, in the order that CHOOSE picks them.                   *)

Pick(s) == CHOOSE x \in s : TRUE

IsSum(g, w, S) ==
    g = [s \in SUBSET S |-> IF s = {} THEN 0 ELSE w[Pick(s)] + g[s \ {Pick(s)}]]

(* Taking the picked element out of a finite set leaves one element less.  *)
LEMMA PickLemma ==
    ASSUME NEW S, IsFiniteSet(S), NEW s \in SUBSET S, s # {}
    PROVE  /\ Pick(s) \in s /\ IsFiniteSet(s) /\ Cardinality(s) \in Nat
           /\ s \ {Pick(s)} \in SUBSET S
           /\ Cardinality(s \ {Pick(s)}) \in Nat
           /\ Cardinality(s \ {Pick(s)}) + 1 = Cardinality(s)
<1>1. Pick(s) \in s
  BY DEF Pick
<1>2. IsFiniteSet(s) /\ Cardinality(s) \in Nat
  BY FS_Subset, FS_CardinalityType
<1>3. /\ IsFiniteSet(s \ {Pick(s)})
      /\ Cardinality(s \ {Pick(s)}) = Cardinality(s) - 1
  BY <1>1, <1>2, FS_RemoveElement
<1>4. Cardinality(s \ {Pick(s)}) \in Nat
  BY <1>3, FS_CardinalityType
<1> QED
  BY <1>1, <1>2, <1>3, <1>4

(* The recursive definition of the sum has a solution: there is one for    *)
(* the subsets of at most k elements, for every k.                         *)
LEMMA SumExists ==
    ASSUME NEW S, IsFiniteSet(S), NEW w
    PROVE  \E g : IsSum(g, w, S)
<1> DEFINE Level(k) == {s \in SUBSET S : Cardinality(s) <= k}
           Partial(g, k) ==
             g = [s \in Level(k) |-> IF s = {} THEN 0 ELSE w[Pick(s)] + g[s \ {Pick(s)}]]
           Bad == {k \in Nat : ~ \E g : Partial(g, k)}
<1>1. Cardinality({}) = 0
  BY FS_EmptySet
<1>2. \A s \in SUBSET S : Cardinality(s) \in Nat /\ (Cardinality(s) = 0 => s = {})
  BY FS_Subset, FS_CardinalityType, FS_EmptySet
<1>3. Bad = {}
  <2> SUFFICES ASSUME Bad # {} PROVE FALSE
    OBVIOUS
  <2>1. PICK k \in Bad : \A j \in Bad : k <= j
    <3>1. Bad \subseteq Nat
      OBVIOUS
    <3> QED
      BY <3>1, SmallestLemma
  <2>2. k \in Nat /\ ~ \E g : Partial(g, k)
    OBVIOUS
  <2>3. CASE k = 0
    <3> DEFINE g == [s \in Level(k) |-> 0]
    <3>1. \A s \in Level(k) : s = {}
      BY <1>2, <2>3
    <3>2. Partial(g, k)
      BY <3>1
    <3> QED
      BY <3>2, <2>2
  <2>4. CASE k # 0
    <3>1. k - 1 \in Nat /\ ~(k <= k - 1)
      BY <2>2, <2>4
    <3>2. PICK g : Partial(g, k - 1)
      BY <3>1, <2>1
    <3> DEFINE h == [s \in Level(k) |-> IF s = {} THEN 0 ELSE w[Pick(s)] + g[s \ {Pick(s)}]]
    <3>3. ASSUME NEW t \in Level(k - 1) PROVE h[t] = g[t]
      <4>1. t \in Level(k)
        BY <3>1, <2>2, <1>2
      <4>2. h[t] = IF t = {} THEN 0 ELSE w[Pick(t)] + g[t \ {Pick(t)}]
        BY <4>1
      <4>3. g[t] = IF t = {} THEN 0 ELSE w[Pick(t)] + g[t \ {Pick(t)}]
        BY <3>2, <3>3
      <4> QED
        BY <4>2, <4>3
    <3>4. ASSUME NEW s \in Level(k), s # {} PROVE s \ {Pick(s)} \in Level(k - 1)
      <4>1. /\ s \ {Pick(s)} \in SUBSET S
            /\ Cardinality(s \ {Pick(s)}) \in Nat
            /\ Cardinality(s \ {Pick(s)}) + 1 = Cardinality(s)
            /\ Cardinality(s) <= k
        BY <3>4, PickLemma
      <4> QED
        BY <4>1, <2>2
    <3>5. \A s \in Level(k) :
            h[s] = IF s = {} THEN 0 ELSE w[Pick(s)] + h[s \ {Pick(s)}]
      <4> SUFFICES ASSUME NEW s \in Level(k)
                   PROVE  h[s] = IF s = {} THEN 0 ELSE w[Pick(s)] + h[s \ {Pick(s)}]
        OBVIOUS
      <4>1. h[s] = IF s = {} THEN 0 ELSE w[Pick(s)] + g[s \ {Pick(s)}]
        OBVIOUS
      <4>2. s # {} => h[s \ {Pick(s)}] = g[s \ {Pick(s)}]
        BY <3>3, <3>4
      <4> HIDE DEF h
      <4> QED
        BY <4>1, <4>2
    <3>6. h = [s \in Level(k) |-> h[s]]
      OBVIOUS
    <3> HIDE DEF h
    <3>7. Partial(h, k)
      BY <3>5, <3>6
    <3> QED
      BY <3>7, <2>2
  <2> QED
    BY <2>3, <2>4
<1>4. Cardinality(S) \in Nat
  BY FS_CardinalityType
<1>5. PICK g : Partial(g, Cardinality(S))
  BY <1>3, <1>4
<1>6. Level(Cardinality(S)) = SUBSET S
  BY FS_Subset
<1> QED
  BY <1>5, <1>6 DEF IsSum

(* Sums of natural numbers are natural numbers.                            *)
LEMMA SumType ==
    ASSUME NEW S, IsFiniteSet(S), NEW w, \A x \in S : w[x] \in Nat, NEW g, IsSum(g, w, S),
           NEW s \in SUBSET S
    PROVE  g[s] \in Nat
<1> DEFINE Bad == {Cardinality(t) : t \in {u \in SUBSET S : g[u] \notin Nat}}
<1>1. \A t \in SUBSET S : Cardinality(t) \in Nat
  BY FS_Subset, FS_CardinalityType
<1>2. Bad = {}
  <2> SUFFICES ASSUME Bad # {} PROVE FALSE
    OBVIOUS
  <2>1. Bad \subseteq Nat
    BY <1>1
  <2>2. PICK k \in Bad : \A j \in Bad : k <= j
    BY <2>1, SmallestLemma
  <2>3. PICK t \in SUBSET S : g[t] \notin Nat /\ Cardinality(t) = k
    OBVIOUS
  <2>4. t # {} /\ g[t] = w[Pick(t)] + g[t \ {Pick(t)}]
    <3>1. (t = {} => g[t] = 0) /\ (t # {} => g[t] = w[Pick(t)] + g[t \ {Pick(t)}])
      BY DEF IsSum
    <3> QED
      BY <2>3, <3>1
  <2>5. /\ Pick(t) \in t /\ t \ {Pick(t)} \in SUBSET S
        /\ Cardinality(t \ {Pick(t)}) \in Nat
        /\ Cardinality(t \ {Pick(t)}) + 1 = Cardinality(t)
    BY <2>4, PickLemma
  <2>6. g[t \ {Pick(t)}] \in Nat
    <3> SUFFICES ASSUME g[t \ {Pick(t)}] \notin Nat PROVE FALSE
      OBVIOUS
    <3>1. Cardinality(t \ {Pick(t)}) \in Bad
      BY <2>5
    <3> QED
      BY <3>1, <2>2, <2>3, <2>5
  <2> QED
    BY <2>3, <2>4, <2>5, <2>6
<1> QED
  BY <1>2

(* Two sums over the same set with the same weights are equal.             *)
LEMMA SumAgree ==
    ASSUME NEW S, IsFiniteSet(S), NEW w, NEW g, IsSum(g, w, S),
           NEW T, NEW v, NEW h, IsSum(h, v, T),
           NEW s \in SUBSET S, s \in SUBSET T, \A x \in s : w[x] = v[x]
    PROVE  g[s] = h[s]
<1> DEFINE Bad == {Cardinality(t) : t \in {u \in SUBSET s : g[u] # h[u]}}
<1>1. \A t \in SUBSET s : t \in SUBSET S /\ t \in SUBSET T /\ Cardinality(t) \in Nat
  BY FS_Subset, FS_CardinalityType
<1>2. Bad = {}
  <2> SUFFICES ASSUME Bad # {} PROVE FALSE
    OBVIOUS
  <2>1. Bad \subseteq Nat
    BY <1>1
  <2>2. PICK k \in Bad : \A j \in Bad : k <= j
    BY <2>1, SmallestLemma
  <2>3. PICK t \in SUBSET s : g[t] # h[t] /\ Cardinality(t) = k
    OBVIOUS
  <2>4. t \in SUBSET S /\ t \in SUBSET T
    BY <1>1
  <2>5. /\ t # {} /\ g[t] = w[Pick(t)] + g[t \ {Pick(t)}]
        /\ h[t] = v[Pick(t)] + h[t \ {Pick(t)}]
    BY <2>3, <2>4 DEF IsSum
  <2>6. /\ Pick(t) \in t /\ Cardinality(t \ {Pick(t)}) \in Nat
        /\ Cardinality(t \ {Pick(t)}) + 1 = Cardinality(t)
    BY <2>4, <2>5, PickLemma
  <2>7. g[t \ {Pick(t)}] = h[t \ {Pick(t)}]
    <3> SUFFICES ASSUME g[t \ {Pick(t)}] # h[t \ {Pick(t)}] PROVE FALSE
      OBVIOUS
    <3>1. Cardinality(t \ {Pick(t)}) \in Bad
      OBVIOUS
    <3>2. k <= Cardinality(t \ {Pick(t)})
      BY <3>1, <2>2
    <3> QED
      BY <3>2, <2>3, <2>6
  <2>8. w[Pick(t)] = v[Pick(t)]
    BY <2>6
  <2> QED
    BY <2>3, <2>5, <2>7, <2>8
<1> QED
  BY <1>2

(* The order of the elements does not matter: any one can be taken first.  *)
LEMMA SumRemove ==
    ASSUME NEW S, IsFiniteSet(S), NEW w, \A x \in S : w[x] \in Nat, NEW g, IsSum(g, w, S),
           NEW s \in SUBSET S, NEW x \in s
    PROVE  g[s] = w[x] + g[s \ {x}]
<1> DEFINE Wrong(u) == \E y \in u : g[u] # w[y] + g[u \ {y}]
           Bad == {Cardinality(t) : t \in {u \in SUBSET S : Wrong(u)}}
<1>1. \A t \in SUBSET S : Cardinality(t) \in Nat
  BY FS_Subset, FS_CardinalityType
<1>2. Bad = {}
  <2> SUFFICES ASSUME Bad # {} PROVE FALSE
    OBVIOUS
  <2>1. Bad \subseteq Nat
    BY <1>1
  <2>2. PICK k \in Bad : \A j \in Bad : k <= j
    BY <2>1, SmallestLemma
  <2>3. PICK t \in SUBSET S : Wrong(t) /\ Cardinality(t) = k
    OBVIOUS
  <2>4. PICK y \in t : g[t] # w[y] + g[t \ {y}]
    BY <2>3
  <2> DEFINE c == Pick(t)
  <2>5. /\ c \in t /\ t \ {c} \in SUBSET S /\ IsFiniteSet(t) /\ Cardinality(t) \in Nat
        /\ Cardinality(t \ {c}) \in Nat /\ Cardinality(t \ {c}) + 1 = Cardinality(t)
        /\ g[t] = w[c] + g[t \ {c}]
    <3>1. t # {}
      BY <2>4
    <3>2. g[t] = w[c] + g[t \ {c}]
      BY <3>1 DEF IsSum
    <3> QED
      BY <3>1, <3>2, PickLemma
  <2> HIDE DEF c
  <2>6. y # c
    BY <2>4, <2>5
  <2>7. /\ Cardinality(t \ {y}) = Cardinality(t) - 1 /\ t \ {y} \in SUBSET S
    BY <2>4, <2>5, FS_RemoveElement
  <2>8. ASSUME NEW u \in SUBSET S, Cardinality(u) = Cardinality(t) - 1, NEW z \in u
        PROVE  g[u] = w[z] + g[u \ {z}]
    <3> SUFFICES ASSUME g[u] # w[z] + g[u \ {z}] PROVE FALSE
      OBVIOUS
    <3>1. Cardinality(u) \in Bad
      BY <2>8
    <3>2. k <= Cardinality(u)
      BY <3>1, <2>2
    <3> QED
      BY <3>2, <2>3, <2>5, <2>8
  <2>9. g[t \ {c}] = w[y] + g[(t \ {c}) \ {y}]
    <3>1. /\ t \ {c} \in SUBSET S /\ y \in t \ {c}
          /\ Cardinality(t \ {c}) = Cardinality(t) - 1
      BY <2>5, <2>6
    <3> QED
      BY <3>1, <2>8
  <2>10. g[t \ {y}] = w[c] + g[(t \ {y}) \ {c}]
    BY <2>5, <2>6, <2>7, <2>8
  <2>11. (t \ {c}) \ {y} = (t \ {y}) \ {c} /\ (t \ {y}) \ {c} \in SUBSET S
    OBVIOUS
  <2>12. w[c] \in Nat /\ w[y] \in Nat /\ g[(t \ {y}) \ {c}] \in Nat
    BY <2>5, <2>11, SumType
  <2>13. ASSUME NEW p \in Nat, NEW q \in Nat, NEW r \in Nat PROVE p + (q + r) = q + (p + r)
    OBVIOUS
  <2>14. g[t] = w[c] + (w[y] + g[(t \ {y}) \ {c}])
    BY <2>5, <2>9, <2>11
  <2>15. w[y] + g[t \ {y}] = w[y] + (w[c] + g[(t \ {y}) \ {c}])
    BY <2>10
  <2> QED
    BY <2>4, <2>12, <2>13, <2>14, <2>15
<1> QED
  BY <1>2
=============================================================================
