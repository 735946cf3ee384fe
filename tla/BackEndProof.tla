---------------------------- MODULE BackEndProof ----------------------------
(***************************************************************************)
(* What the linker does, for branches over any distance and for programs   *)
(* of any length.                                                          *)
(***************************************************************************)
EXTENDS BackEnd, Counting, SequenceTheorems

-----------------------------------------------------------------------------
(* Fields of words. *)

(* The powers of two that a word has room for.                             *)
LEMMA PowerLemma ==
    /\ 2^0 = 1
    /\ \A k \in 0 .. 30 : 2^k \in Nat \ {0} /\ 2^(k + 1) = 2 * 2^k
<1> DEFINE P(k) == 2^k \in Nat \ {0} /\ 2^(k + 1) = 2 * 2^k
<1>1. /\ P(0) /\ P(1) /\ P(2) /\ P(3) /\ P(4) /\ P(5) /\ P(6) /\ P(7) /\ P(8) /\ P(9)
      /\ P(10)
  BY SMT
<1>2. /\ P(11) /\ P(12) /\ P(13) /\ P(14) /\ P(15) /\ P(16) /\ P(17) /\ P(18) /\ P(19)
      /\ P(20)
  BY SMT
<1>3. /\ P(21) /\ P(22) /\ P(23) /\ P(24) /\ P(25) /\ P(26) /\ P(27) /\ P(28) /\ P(29)
      /\ P(30)
  BY SMT
<1> HIDE DEF P
<1>4. ASSUME NEW k \in 0 .. 10 PROVE P(k)
  <2>1. \/ k = 0 \/ k = 1 \/ k = 2 \/ k = 3 \/ k = 4 \/ k = 5 \/ k = 6
        \/ k = 7 \/ k = 8 \/ k = 9 \/ k = 10
    BY <1>4, SMT
  <2> QED
    BY ONLY <1>1, <2>1, Zenon
<1>5. ASSUME NEW k \in 11 .. 20 PROVE P(k)
  <2>1. \/ k = 11 \/ k = 12 \/ k = 13 \/ k = 14 \/ k = 15 \/ k = 16
        \/ k = 17 \/ k = 18 \/ k = 19 \/ k = 20
    BY <1>5, SMT
  <2> QED
    BY ONLY <1>2, <2>1, Zenon
<1>6. ASSUME NEW k \in 21 .. 30 PROVE P(k)
  <2>1. \/ k = 21 \/ k = 22 \/ k = 23 \/ k = 24 \/ k = 25 \/ k = 26
        \/ k = 27 \/ k = 28 \/ k = 29 \/ k = 30
    BY <1>6, SMT
  <2> QED
    BY ONLY <1>3, <2>1, Zenon
<1>7. ASSUME NEW k \in 0 .. 30 PROVE k \in 0 .. 10 \/ k \in 11 .. 20 \/ k \in 21 .. 30
  BY <1>7, SMT
<1>8. 2^0 = 1
  BY SMT
<1>9. \A k \in 0 .. 30 : P(k)
  BY <1>4, <1>5, <1>6, <1>7, Zenon
<1> QED
  BY <1>8, <1>9, Zenon DEF P

(* Division with a remainder.                                              *)
LEMMA DivLemma ==
    ASSUME NEW v \in Int, NEW p \in Nat \ {0}
    PROVE  v \div p \in Int /\ v % p \in 0 .. p - 1 /\ v = p * (v \div p) + (v % p)
  BY SMT

(* The remainder is the only one.                                          *)
LEMMA OnlyRemainder ==
    ASSUME NEW p \in Nat \ {0}, NEW q \in Int, NEW a \in Int, NEW r \in 0 .. p - 1,
           NEW m \in 0 .. p - 1, p * q + r = p * a + m
    PROVE  r = m
<1> DEFINE d == q - a
<1>1. d \in Int /\ p * d = m - r
  BY SMT
<1> HIDE DEF d
<1>2. CASE d = 0
  BY <1>1, <1>2, SMT
<1>3. CASE d >= 1
  <2>1. p * d >= p
    BY <1>1, <1>3, SMT
  <2> QED
    BY <1>1, <2>1, SMT
<1>4. CASE d <= -1
  <2>1. p * d <= -p
    BY <1>1, <1>4, SMT
  <2> QED
    BY <1>1, <2>1, SMT
<1> QED
  BY <1>1, <1>2, <1>3, <1>4, SMT

(* One more bit of the remainder.                                          *)
LEMMA BitLemma ==
    ASSUME NEW v \in Int, NEW p \in Nat \ {0}
    PROVE  v % (2 * p) = (v % p) + (IF (v \div p) % 2 = 1 THEN p ELSE 0)
<1> DEFINE q == v \div p
           r == v % p
           a == q \div 2
           b == q % 2
           m == r + (IF b = 1 THEN p ELSE 0)
           P == 2 * p
<1>1. q \in Int /\ r \in 0 .. p - 1 /\ v = p * q + r
  BY DivLemma
<1>2. P \in Nat \ {0}
  BY SMT
<1> HIDE DEF q, r
<1>3. a \in Int /\ b \in 0 .. 1 /\ q = 2 * a + b
  BY <1>1, SMT
<1> HIDE DEF a, b
<1>4. m \in 0 .. P - 1
  BY <1>1, <1>3, SMT
<1>5. v = P * a + m
  <2>1. CASE b = 0
    BY <1>1, <1>3, <2>1, SMT
  <2>2. CASE b = 1
    BY <1>1, <1>3, <2>2, SMT
  <2> QED
    BY <1>3, <2>1, <2>2, SMT
<1> HIDE DEF P, m
<1>6. v \div P \in Int /\ v % P \in 0 .. P - 1 /\ v = P * (v \div P) + (v % P)
  BY <1>2, DivLemma
<1>7. v % P = m
  BY <1>2, <1>3, <1>4, <1>5, <1>6, OnlyRemainder
<1> QED
  BY <1>7, Zenon DEF P, m, q, r, b

(* What a field holds: the sum of the weights of its bits.                 *)
LEMMA FieldLemma ==
    ASSUME NEW w, NEW start \in Nat, NEW n \in Nat
    PROVE  LET S == w \cap (start .. (start + n - 1))
           IN  \E g : IsSum(g, [i \in S |-> 2^(i - start)], S) /\ Field(w, start, n) = g[S]
<1> DEFINE S == w \cap (start .. (start + n - 1))
           u == [i \in S |-> 2^(i - start)]
           F(g) == [s \in SUBSET S |->
                      IF s = {} THEN 0 ELSE 2^(Pick(s) - start) + g[s \ {Pick(s)}]]
           it == CHOOSE g : g = F(g)
<1>0. IsFiniteSet(S)
  <2>1. IsFiniteSet(start .. (start + n - 1))
    BY FS_Interval, SMT
  <2> QED
    BY <2>1, FS_Intersection, FS_Subset
<1>1. \A g : IsSum(g, u, S) <=> g = F(g)
  <2> SUFFICES ASSUME NEW g PROVE IsSum(g, u, S) <=> g = F(g)
    OBVIOUS
  <2>1. \A s \in SUBSET S : s # {} => u[Pick(s)] = 2^(Pick(s) - start)
    BY DEF Pick
  <2> HIDE DEF u
  <2>2. [s \in SUBSET S |-> IF s = {} THEN 0 ELSE u[Pick(s)] + g[s \ {Pick(s)}]] = F(g)
    BY <2>1
  <2> QED
    BY <2>2 DEF IsSum
<1>2. \E g : g = F(g)
  BY <1>0, <1>1, SumExists
<1>3. it = F(it)
  BY <1>2
<1>4. Field(w, start, n) = it[S]
  BY DEF Field, MapThenSumSet, MapThenFoldSet, Pick
<1> HIDE DEF it
<1> QED
  BY <1>1, <1>3, <1>4

(* The field a value is patched into holds the value modulo the field's    *)
(* size, whatever the word held before.                                    *)
LEMMA PatchedField ==
    ASSUME NEW w, NEW v \in Int, NEW start \in Nat, NEW n \in 0 .. 31
    PROVE  Field(patch(w, v, start, n), start, n) = v % 2^n
<1> DEFINE Low(k) == {start + i : i \in {j \in 0 .. (k - 1) : BitOf(v, j)}}
           S == Low(n)
           u == [i \in S |-> 2^(i - start)]
<1>1. patch(w, v, start, n) \cap (start .. (start + n - 1)) = S
  <2>1. S \subseteq start .. (start + n - 1)
    BY SMT
  <2> HIDE DEF S
  <2>2. patch(w, v, start, n) = (w \ (start .. (start + n - 1))) \cup S
    BY DEF patch, BitsAt, S
  <2> QED
    BY <2>1, <2>2, Zenon
<1>2. PICK g : IsSum(g, u, S) /\ Field(patch(w, v, start, n), start, n) = g[S]
  <2>1. n \in Nat
    BY SMT
  <2> HIDE DEF S
  <2> QED
    BY <1>1, <2>1, FieldLemma, Zenon
<1>3. IsFiniteSet(S) /\ \A x \in S : u[x] \in Nat
  <2>1. IsFiniteSet(start .. (start + n - 1))
    BY FS_Interval, SMT
  <2>2. S \subseteq start .. (start + n - 1)
    BY SMT
  <2>3. IsFiniteSet(S)
    BY <2>1, <2>2, FS_Subset, Zenon
  <2>4. ASSUME NEW x \in S PROVE u[x] \in Nat
    <3>1. x - start \in 0 .. 30
      BY SMT
    <3>2. 2^(x - start) \in Nat
      BY <3>1, PowerLemma, Zenon
    <3> QED
      BY <3>2, Zenon
  <2> QED
    BY <2>3, <2>4
<1> DEFINE H == {k \in 0 .. n : g[Low(k)] = v % 2^k}
<1>4. 0 \in H
  <2>1. Low(0) = {} /\ 0 \in 0 .. n /\ v % 1 = 0
    BY SMT
  <2>2. g[{}] = 0
    BY <1>2, Zenon DEF IsSum
  <2> QED
    BY <2>1, <2>2, PowerLemma, Zenon
<1>5. ASSUME NEW k \in 0 .. n - 1, k \in H PROVE k + 1 \in H
  <2>1. k \in 0 .. 30 /\ k + 1 \in 0 .. n /\ 0 .. (k + 1) - 1 = (0 .. (k - 1)) \cup {k}
        /\ k \notin 0 .. (k - 1)
    BY SMT
  <2>2. 2^k \in Nat \ {0} /\ 2^(k + 1) = 2 * 2^k
    BY <2>1, PowerLemma, Zenon
  <2>3. g[Low(k)] = v % 2^k
    BY <1>5, Zenon
  <2>4. v % 2^(k + 1) = (v % 2^k) + (IF (v \div 2^k) % 2 = 1 THEN 2^k ELSE 0)
    BY <2>2, BitLemma, Zenon
  <2>5. BitOf(v, k) <=> (v \div 2^k) % 2 = 1
    <3>1. ~(k >= 31)
      BY <2>1, SMT
    <3> QED
      BY <3>1, Zenon DEF BitOf
  <2>6. CASE ~BitOf(v, k)
    <3>1. Low(k + 1) = Low(k)
      BY <2>1, <2>6, Zenon
    <3>2. v % 2^k \in Int
      BY <2>2, DivLemma, SMT
    <3>3. v % 2^(k + 1) = v % 2^k
      BY <2>4, <2>5, <2>6, <3>2, SMT
    <3> QED
      BY <2>1, <2>3, <3>1, <3>3, Zenon
  <2>7. CASE BitOf(v, k)
    <3> DEFINE x == start + k
    <3>1. Low(k + 1) = Low(k) \cup {x}
      BY <2>1, <2>7, Zenon
    <3>2. x \notin Low(k) /\ x - start = k
      BY <2>1, SMT
    <3>3. Low(k + 1) \subseteq S
      BY <2>1, SMT
    <3> HIDE DEF Low, S
    <3>4. x \in Low(k + 1) /\ Low(k + 1) \ {x} = Low(k) /\ x \in S
      BY <3>1, <3>2, <3>3, Zenon
    <3>5. g[Low(k + 1)] = u[x] + g[Low(k + 1) \ {x}]
      <4> HIDE DEF u, x
      <4> QED
        BY <1>2, <1>3, <3>3, <3>4, SumRemove
    <3>6. u[x] = 2^k
      BY <3>2, <3>4, Zenon
    <3>7. v % 2^k \in Int
      BY <2>2, DivLemma, SMT
    <3>8. g[Low(k + 1)] = v % 2^(k + 1)
      <4>1. g[Low(k + 1)] = 2^k + (v % 2^k)
        BY <2>3, <3>4, <3>5, <3>6, Zenon
      <4>2. v % 2^(k + 1) = (v % 2^k) + 2^k
        BY <2>4, <2>5, <2>7, Zenon
      <4>3. ASSUME NEW a \in Int, NEW b \in Int PROVE a + b = b + a
        BY <4>3, SMT
      <4>4. 2^k \in Int
        BY <2>2, SMT
      <4> QED
        BY <3>7, <4>1, <4>2, <4>3, <4>4, Zenon
    <3> QED
      BY <2>1, <3>8, Zenon
  <2> QED
    BY <2>6, <2>7
<1>6. n \in 0 .. n /\ n \in Nat
  BY SMT
<1>7. n \in H
  <2> HIDE DEF H
  <2> QED
    BY <1>4, <1>5, <1>6, CountUp, Zenon
<1> QED
  BY <1>2, <1>7, Zenon

(* A value patched into a field is read back, as a signed number, exactly  *)
(* when the field has room for it.                                         *)
LEMMA SignedLemma ==
    ASSUME NEW w, NEW v \in Int, NEW start \in Nat, NEW n \in 1 .. 31
    PROVE  /\ SignedField(patch(w, v, start, n), start, n) \in Int
           /\ SignedField(patch(w, v, start, n), start, n) = v
                <=> -(2^(n - 1)) <= v /\ v < 2^(n - 1)
<1> DEFINE H == 2^(n - 1)
           q == v \div H
           r == v % H
           b == q % 2
           x == patch(w, v, start, n)
<1>1. n - 1 \in 0 .. 30 /\ (n - 1) + 1 = n /\ n \in 0 .. 31
  BY SMT
<1>2. H \in Nat \ {0} /\ 2^n = 2 * H
  BY <1>1, PowerLemma, Zenon
<1>3. Field(x, start, n) = v % 2^n
  BY <1>1, PatchedField
<1>4. start + n - 1 \in x <=> b = 1
  <2> DEFINE S == start .. (start + n - 1)
             B == {start + i : i \in {j \in 0 .. (n - 1) : BitOf(v, j)}}
  <2>1. x = (w \ S) \cup B
    BY DEF patch, BitsAt
  <2>2. start + n - 1 \in S /\ (start + n - 1 \in B <=> BitOf(v, n - 1))
    BY SMT
  <2>3. ~(n - 1 >= 31)
    BY <1>1, SMT
  <2>4. BitOf(v, n - 1) <=> b = 1
    BY <2>3, Zenon DEF BitOf
  <2> HIDE DEF S, B, x, b
  <2> QED
    BY <2>1, <2>2, <2>4, Zenon
<1> HIDE DEF H, x
<1>5. v % (2 * H) = r + (IF b = 1 THEN H ELSE 0)
  BY <1>2, BitLemma
<1>6. q \in Int /\ r \in 0 .. H - 1 /\ v = H * q + r
  BY <1>2, DivLemma
<1> HIDE DEF q, r
<1>7. b \in 0 .. 1 /\ (q = 0 => b = 0) /\ (q = -1 => b = 1)
  BY <1>6, SMT
<1> HIDE DEF b
<1>8. SignedField(x, start, n)
        = (r + (IF b = 1 THEN H ELSE 0)) - (IF b = 1 THEN 2 * H ELSE 0)
  BY <1>2, <1>3, <1>4, <1>5, Zenon DEF SignedField
<1>9. SignedField(x, start, n) = r - H * b
  <2>1. CASE b = 0
    BY <1>2, <1>6, <1>8, <2>1, SMT
  <2>2. CASE b = 1
    BY <1>2, <1>6, <1>8, <2>2, SMT
  <2> QED
    BY <1>7, <2>1, <2>2, SMT
<1>9a. SignedField(x, start, n) \in Int
  <2>1. H * b \in Int
    BY <1>2, <1>7, SMT
  <2> QED
    BY <1>6, <1>9, <2>1, SMT
<1>10. CASE q >= 1
  <2>1. H * q >= H /\ H * b \in 0 .. H /\ H * q \in Int
    BY <1>2, <1>6, <1>7, <1>10, SMT
  <2>2. v >= H
    BY <1>2, <1>6, <2>1, SMT
  <2>3. r - H * b # v
    BY <1>2, <1>6, <2>1, SMT
  <2> QED
    BY <1>2, <1>9, <1>9a, <2>2, <2>3, SMT DEF H, x
<1>11. CASE q <= -2
  <2>1. H * q <= -(2 * H) /\ H * b \in 0 .. H /\ H * q \in Int
    BY <1>2, <1>6, <1>7, <1>11, SMT
  <2>2. v < -H
    BY <1>2, <1>6, <2>1, SMT
  <2>3. r - H * b # v
    BY <1>2, <1>6, <2>1, SMT
  <2> QED
    BY <1>2, <1>9, <1>9a, <2>2, <2>3, SMT DEF H, x
<1>12. CASE q = 0
  <2>1. v = r /\ r - H * b = r
    BY <1>2, <1>6, <1>7, <1>12, SMT
  <2> QED
    BY <1>2, <1>6, <1>9, <1>9a, <2>1, SMT DEF H, x
<1>13. CASE q = -1
  <2>1. v = r - H /\ r - H * b = r - H
    BY <1>2, <1>6, <1>7, <1>13, SMT
  <2> QED
    BY <1>2, <1>6, <1>9, <1>9a, <2>1, SMT DEF H, x
<1> QED
  BY <1>6, <1>10, <1>11, <1>12, <1>13, SMT

(* A relocated branch reaches its target exactly when the target is in     *)
(* range: 26 bits count words for B and BL, 19 bits for the others.        *)
LEMMA ReachLemma ==
    ASSUME NEW w, NEW pc \in Nat, NEW d \in Int, d % 4 = 0,
           NEW kind \in {"PC_RELATIVE_26_BIT_OFFSET", "PC_RELATIVE_19_BIT_OFFSET"}
    PROVE  Reached(apply_pc_relative_relocation(w, pc, pc + d, kind), pc, kind) = pc + d
             <=> InRange(pc, pc + d, kind)
<1> DEFINE v == d \div 4
           x == apply_pc_relative_relocation(w, pc, pc + d, kind)
<1>1. v \in Int /\ d = 4 * v /\ (pc + d) - pc = d
  BY SMT
<1>2. ((pc + d) - pc) \div 4 = v
  BY <1>1
<1>3. ASSUME NEW f \in Int PROVE pc + 4 * f = pc + d <=> f = v
  BY <1>1, SMT
<1> HIDE DEF v
<1>4. CASE kind = "PC_RELATIVE_26_BIT_OFFSET"
  <2>1. x = patch(w, v, 0, 26)
    BY <1>2, <1>4 DEF apply_pc_relative_relocation
  <2> HIDE DEF x
  <2>2. PICK n \in 1 .. 31 : n = 26
    BY SMT
  <2>3. /\ SignedField(x, 0, n) \in Int
        /\ SignedField(x, 0, n) = v <=> -(2^(n - 1)) <= v /\ v < 2^(n - 1)
    BY <1>1, <2>1, <2>2, SignedLemma
  <2>4. 2^(n - 1) = 33554432 /\ 2^27 = 134217728
    BY <2>2, SMT
  <2>5. InRange(pc, pc + d, kind) <=> -134217728 <= 4 * v /\ 4 * v < 134217728
    BY <1>1, <1>4, <2>4, SMT DEF InRange
  <2>6. Reached(x, pc, kind) = pc + 4 * SignedField(x, 0, n)
    BY <1>4, <2>2 DEF Reached
  <2> QED
    BY <1>1, <1>3, <2>3, <2>4, <2>5, <2>6, SMT DEF x
<1>5. CASE kind = "PC_RELATIVE_19_BIT_OFFSET"
  <2>1. x = patch(w, v, 5, 19)
    BY <1>2, <1>5 DEF apply_pc_relative_relocation
  <2> HIDE DEF x
  <2>2. PICK n \in 1 .. 31 : n = 19
    BY SMT
  <2>3. /\ SignedField(x, 5, n) \in Int
        /\ SignedField(x, 5, n) = v <=> -(2^(n - 1)) <= v /\ v < 2^(n - 1)
    BY <1>1, <2>1, <2>2, SignedLemma
  <2>4. 2^(n - 1) = 262144 /\ 2^20 = 1048576
    BY <2>2, SMT
  <2>5. InRange(pc, pc + d, kind) <=> -1048576 <= 4 * v /\ 4 * v < 1048576
    BY <1>1, <1>5, <2>4, SMT DEF InRange
  <2>6. Reached(x, pc, kind) = pc + 4 * SignedField(x, 5, n)
    BY <1>5, <2>2 DEF Reached
  <2> QED
    BY <1>1, <1>3, <2>3, <2>4, <2>5, <2>6, SMT DEF x
<1> QED
  BY <1>4, <1>5

-----------------------------------------------------------------------------
(* Single relocations. *)

(* Neither a request for a relocation nor its verdict is touched by the    *)
(* rest of the compiler.                                                   *)
Verdict ==
    focus = "relocate" =>
        /\ phase \in {"generate", "done"}
        /\ phase = "done" => (request.good <=> request.fits)

(* The branches that are relocated, and the fields they keep their offset  *)
(* in.                                                                     *)
LEMMA BranchLemma ==
    ASSUME NEW label
    PROVE  /\ create_branch_with_link(label).relocation = "PC_RELATIVE_26_BIT_OFFSET"
           /\ create_branch_conditional("EQ", label).relocation = "PC_RELATIVE_19_BIT_OFFSET"
           /\ opt_create_cbz(<<"x", 9>>, label).relocation = "PC_RELATIVE_19_BIT_OFFSET"
<1>1. create_branch_with_link(label).relocation = "PC_RELATIVE_26_BIT_OFFSET"
  BY DEF create_branch_with_link, ToLabel, Instr
<1>2. "EQ" \in DOMAIN ConditionCodes
  BY DEF ConditionCodes
<1>3. create_branch_conditional("EQ", label).relocation = "PC_RELATIVE_19_BIT_OFFSET"
  BY <1>2 DEF create_branch_conditional, ToLabel, Instr
<1>4. EncodesReg(<<"x", 9>>)
  BY DEF EncodesReg
<1>5. opt_create_cbz(<<"x", 9>>, label).relocation = "PC_RELATIVE_19_BIT_OFFSET"
  BY <1>4 DEF opt_create_cbz, CompareBranch, ToLabel, Instr
<1> QED
  BY <1>1, <1>3, <1>5

(* The verdict on a request.                                               *)
LEMMA RelocateOneStep ==
    ASSUME RelocateOne
    PROVE  Verdict'
<1>1. PICK d \in Distances :
      \E i \in {create_branch_with_link(AnyLabel), create_branch_conditional("EQ", AnyLabel),
                opt_create_cbz(<<"x", 9>>, AnyLabel)} :
          LET w == apply_pc_relative_relocation(i.word, CodeBase, CodeBase + d, i.relocation)
          IN  request' = [op |-> i.opcode, ok |-> TRUE,
                          good |-> Reached(w, CodeBase, i.relocation) = CodeBase + d,
                          fits |-> InRange(CodeBase, CodeBase + d, i.relocation), meta |-> TRUE]
  BY Zenon DEF RelocateOne
<1>2. PICK i \in {create_branch_with_link(AnyLabel), create_branch_conditional("EQ", AnyLabel),
                opt_create_cbz(<<"x", 9>>, AnyLabel)} :
          LET w == apply_pc_relative_relocation(i.word, CodeBase, CodeBase + d, i.relocation)
          IN  request' = [op |-> i.opcode, ok |-> TRUE,
                          good |-> Reached(w, CodeBase, i.relocation) = CodeBase + d,
                          fits |-> InRange(CodeBase, CodeBase + d, i.relocation), meta |-> TRUE]
  BY <1>1, Zenon
<1> DEFINE w == apply_pc_relative_relocation(i.word, CodeBase, CodeBase + d, i.relocation)
<1>3. /\ request'.good = (Reached(w, CodeBase, i.relocation) = CodeBase + d)
      /\ request'.fits = InRange(CodeBase, CodeBase + d, i.relocation)
  BY <1>2, Zenon
<1>4. i.relocation \in {"PC_RELATIVE_26_BIT_OFFSET", "PC_RELATIVE_19_BIT_OFFSET"}
  BY BranchLemma, Zenon
<1>5. CodeBase \in Nat /\ d \in Int /\ d % 4 = 0
  BY DistancesAssumption, Zenon
<1>6. Reached(w, CodeBase, i.relocation) = CodeBase + d
        <=> InRange(CodeBase, CodeBase + d, i.relocation)
  BY <1>4, <1>5, ReachLemma
<1>7. phase' = "done"
  BY Zenon DEF RelocateOne
<1> QED
  BY <1>3, <1>6, <1>7, Zenon DEF Verdict

(* No other action has to do with them.                                    *)
LEMMA OtherStep ==
    ASSUME Verdict, [Encode \/ Generate \/ Optimize \/ Link]_vars
    PROVE  Verdict'
<1>1. CASE UNCHANGED vars
  BY <1>1 DEF Verdict, vars
<1>2. CASE Encode
  <2>1. focus = "encode" /\ focus' = focus
    BY <1>2 DEF Encode, EncodeThree, EncodeFp, EncodeTwoFp, EncodeTwo, EncodeOne,
                EncodeImmediate, EncodePair, EncodeBitfield, EncodeLogical, EncodeMoveWide,
                EncodeOther, Requested
  <2> QED
    BY <2>1 DEF Verdict
<1>3. CASE Generate
  <2>1. focus \in {"window", "program"} /\ focus' = focus
    <3>1. CASE FinishCode
      BY <3>1 DEF FinishCode
    <3> QED
      BY <1>3, <3>1 DEF Generate, EmitWindow, DefineRoutine, FunctionCall, RoutineCall,
                LoadString, LoadFloat, LoadTable, LoadList, DeclareStatic, DeclareGlobal,
                ShortCircuitAnd, EmitLoop, Generating, Generated
  <2> QED
    BY <2>1 DEF Verdict
<1>4. CASE Optimize
  <2>1. phase \notin {"generate", "done"} /\ focus' = focus
    BY <1>4, Zenon DEF Optimize, BeginPass, RewriteWindow, Advance, EndPass, SkipOptimizer, Keep
  <2> QED
    BY <2>1 DEF Verdict
<1>5. CASE Link
  <2>1. phase \notin {"generate", "done"} /\ focus' = focus
    BY <1>5, Zenon DEF Link, StaticLink, StaticRelocate, ResetLabels, JitLink, JitRelocate,
                CopyToMemory, BreakAt, PopulateTable, EndWindow, KeepProgram
  <2> QED
    BY <2>1 DEF Verdict
<1> QED
  BY <1>1, <1>2, <1>3, <1>4, <1>5

(* A relocated branch reaches its target exactly when the target is in     *)
(* the range of its field, for every distance: the linker masks the offset *)
(* and checks nothing.                                                     *)
THEOREM Relocations == Spec => []RelocationExact
<1>1. Init => Verdict
  BY DEF Init, Verdict
<1>2. Verdict /\ [Next]_vars => Verdict'
  BY RelocateOneStep, OtherStep, Zenon DEF Next
<1>3. Verdict => RelocationExact
  BY DEF Verdict, RelocationExact
<1> QED
  BY <1>1, <1>2, <1>3, PTL DEF Spec

-----------------------------------------------------------------------------
(* Instructions. *)

(* What the linker reads of an instruction is there, an instruction that   *)
(* is relocated has a target, and the registers by which the optimizer     *)
(* makes a MOV of an ADD, a SUB or an LDR have names.                      *)
Segments == {"CODE", "RODATA", "DATA"}
Formed(i) ==
    /\ {"relocation", "target", "is_label_definition", "address", "word", "segment", "opcode",
        "text", "is_data_value"} \subseteq DOMAIN i
    /\ i.relocation # "NONE" => i.target # <<>>
    /\ i.segment \in Segments /\ (i.is_label_definition <=> ~Emits(i))
    /\ i.opcode \in {"B", "BL", "B_COND", "CBZ", "ADRP"} => ~i.is_label_definition
    /\ i.opcode \in {"B", "BL"} => i.relocation = "PC_RELATIVE_26_BIT_OFFSET"
    /\ i.opcode \in {"B_COND", "CBZ"} => i.relocation = "PC_RELATIVE_19_BIT_OFFSET"
    /\ i.opcode = "ADRP" => i.relocation = "PAGE_21_BIT_PC_RELATIVE" /\ i.segment = "CODE"
    /\ i.opcode \in {"B_COND", "CBZ", "ADRP"} => ~is_function_registered(i.target)
    /\ i.opcode \in {"ADD", "SUB"} => i.dest_reg \in 0 .. 31 /\ i.src_reg1 \in 0 .. 31
    /\ i.opcode = "LDR" => i.dest_reg \in 0 .. 31
Shaped(i) == Formed(i) /\ i.opcode # "ADRP"
(* The instruction that adds the rest of the address to an ADRP.           *)
Low(j, i) ==
    /\ j.relocation = "ADD_12_BIT_UNSIGNED_OFFSET" /\ j.target = i.target
    /\ j.segment = "CODE" /\ ~j.is_label_definition
(* A label that is not the name of a runtime function.                     *)
Literal(label) == label # <<>> /\ ~is_function_registered(label)

(* Labels and data, and a pointer to a label.                              *)
LEMMA DataShaped ==
    ASSUME NEW label, NEW seg \in Segments, NEW v, NEW text
    PROVE  /\ Shaped(as_label(label, seg)) /\ Shaped(Datum(v, text, label, seg))
           /\ label # <<>> =>
                \A kind : Shaped([Datum(v, text, label, seg) EXCEPT !.relocation = kind])
<1> USE DEF Shaped, Formed, Emits, Instr
<1>1. Shaped(as_label(label, seg))
  BY DEF as_label
<1>2. Shaped(Datum(v, text, label, seg))
  BY DEF Datum
<1>3. ASSUME label # <<>>, NEW kind
      PROVE  Shaped([Datum(v, text, label, seg) EXCEPT !.relocation = kind])
  BY <1>3 DEF Datum
<1> QED
  BY <1>1, <1>2, <1>3

(* Branches to a label.                                                    *)
LEMMA BranchShaped ==
    ASSUME NEW label, label # <<>>
    PROVE  /\ Shaped(create_branch_with_link(label))
           /\ Shaped(create_branch_unconditional(label))
           /\ Literal(label) => /\ Shaped(create_branch_conditional("EQ", label))
                                /\ Shaped(opt_create_cbz(<<"x", 1>>, label))
<1> USE DEF Shaped, Formed, Emits, Segments, Instr, ToLabel, Literal
<1>1. Shaped(create_branch_with_link(label))
  BY DEF create_branch_with_link
<1>2. Shaped(create_branch_unconditional(label))
  BY DEF create_branch_unconditional
<1>3. ASSUME Literal(label) PROVE Shaped(create_branch_conditional("EQ", label))
  <2>1. "EQ" \in DOMAIN ConditionCodes
    BY DEF ConditionCodes
  <2> QED
    BY <1>3, <2>1 DEF create_branch_conditional
<1>4. ASSUME Literal(label) PROVE Shaped(opt_create_cbz(<<"x", 1>>, label))
  <2>1. EncodesReg(<<"x", 1>>)
    BY DEF EncodesReg
  <2> QED
    BY <1>4, <2>1 DEF opt_create_cbz, CompareBranch
<1> QED
  BY <1>1, <1>2, <1>3, <1>4

(* A literal's address, and the instructions that use one.                 *)
LEMMA LiteralShaped ==
    ASSUME NEW label, Literal(label)
    PROVE  /\ Formed(create_adrp(<<"x", 0>>, label))
           /\ create_adrp(<<"x", 0>>, label).opcode = "ADRP"
           /\ Shaped(create_add_literal(<<"x", 0>>, <<"x", 0>>, label))
           /\ Low(create_add_literal(<<"x", 0>>, <<"x", 0>>, label), create_adrp(<<"x", 0>>, label))
           /\ Shaped(create_add_imm(<<"x", 0>>, <<"x", 0>>, 8))
           /\ Shaped(create_ldr_fp_imm(<<"d", 0>>, <<"x", 0>>, 0))
<1> USE DEF Shaped, Formed, Emits, Segments, Literal, Instr, ToLabel
<1>1. /\ Formed(create_adrp(<<"x", 0>>, label)) /\ create_adrp(<<"x", 0>>, label).opcode = "ADRP"
      /\ create_adrp(<<"x", 0>>, label).target = label
  BY DEF create_adrp
<1>2. /\ Shaped(create_add_literal(<<"x", 0>>, <<"x", 0>>, label))
      /\ Low(create_add_literal(<<"x", 0>>, <<"x", 0>>, label), create_adrp(<<"x", 0>>, label))
  BY <1>1 DEF create_add_literal, TwoRegs, get_reg_encoding, SpecialNames, Low
<1>3. Shaped(create_add_imm(<<"x", 0>>, <<"x", 0>>, 8))
  BY DEF create_add_imm, AddSubImm, WithImm, TwoRegs, get_reg_encoding, SpecialNames,
         ParseAll, Parses, SameSize
<1>4. Shaped(create_ldr_fp_imm(<<"d", 0>>, <<"x", 0>>, 0))
  BY DEF create_ldr_fp_imm, FpOffset, EncodesReg, Load, Access, WithImm, get_reg_encoding,
         SpecialNames
<1> QED
  BY <1>1, <1>2, <1>3, <1>4

(* The other instructions of the programs.                                 *)
LEMMA OtherShaped ==
    /\ Shaped(create_cmp_imm(<<"x", 0>>, 0)) /\ Shaped(create_movz_imm(<<"x", 0>>, 0, 0))
    /\ Shaped([Instr("DIRECTIVE", {}) EXCEPT !.text = "quad"])
    /\ \A l : Shaped([create_branch_with_link_register(<<"x", 9>>) EXCEPT !.target = l])
<1> USE DEF Shaped, Formed, Emits, Segments, Instr
<1>1. Shaped(create_cmp_imm(<<"x", 0>>, 0))
  BY DEF create_cmp_imm, WithImm, TwoRegs, Parses
<1>2. Shaped(create_movz_imm(<<"x", 0>>, 0, 0))
  <2>1. Parses(<<"x", 0>>, {"wzr", "xzr"}, 31) /\ Is64(<<"x", 0>>)
    BY DEF Parses, Is64
  <2> QED
    BY <2>1 DEF create_movz_imm, MoveWide, WithImm
<1>3. Shaped([Instr("DIRECTIVE", {}) EXCEPT !.text = "quad"])
  OBVIOUS
<1>4. \A l : Shaped([create_branch_with_link_register(<<"x", 9>>) EXCEPT !.target = l])
  BY DEF create_branch_with_link_register, RegisterBranch
<1> QED
  BY <1>1, <1>2, <1>3, <1>4

(* A MOV of registers that have names.                                     *)
LEMMA MoveShaped ==
    ASSUME NEW d \in 0 .. 31, NEW n \in 0 .. 31
    PROVE  Shaped(create_mov_reg(getRegisterName(d), getRegisterName(n)))
<1>1. getRegisterName(d) = <<"x", d>> /\ getRegisterName(n) = <<"x", n>>
  BY DEF getRegisterName
<1>2. Shaped(create_mov_reg(<<"x", d>>, <<"x", n>>))
  <2>1. ASSUME NEW r \in {<<"x", d>>, <<"x", n>>}
        PROVE  Parses(r, SpecialNames, 31) /\ Is64(r) = TRUE
    BY DEF Parses, SpecialNames, Is64
  <2>2. ParseAll({<<"x", d>>, <<"x", n>>}, SpecialNames, 31) /\ SameSize({<<"x", d>>, <<"x", n>>})
    BY <2>1, Zenon DEF ParseAll, SameSize
  <2> QED
    BY <2>2 DEF Shaped, Formed, Emits, Segments, Instr, create_mov_reg
<1> QED
  BY <1>1, <1>2

(* The load of a runtime function's pointer: the table is short enough for *)
(* the offset of an LDR.                                                   *)
LEMMA PointerShaped ==
    ASSUME NEW f, to_upper(f) \in Range(RuntimeFunctions)
    PROVE  Shaped(create_ldr_imm(<<"x", 9>>, <<"x", 19>>, get_function_offset(<<"name", f>>)))
<1> DEFINE k == CHOOSE j \in DOMAIN RuntimeFunctions : RuntimeFunctions[j] = to_upper(f)
           imm == get_function_offset(<<"name", f>>)
<1>1. k \in DOMAIN RuntimeFunctions
  BY DEF Range
<1>2. imm = 8 * (k - 1)
  BY DEF get_function_offset
<1> HIDE DEF k
<1>3. k \in 1 .. 256
  <2>1. Len(RuntimeFunctions) \in Nat /\ DOMAIN RuntimeFunctions = 1 .. Len(RuntimeFunctions)
    BY TableFits, LenProperties
  <2>2. Len(RuntimeFunctions) <= 256
    BY TableFits, SMT DEF MaxTableEntries
  <2>3. PICK n \in Nat : n = Len(RuntimeFunctions)
    BY <2>1
  <2>4. k \in 1 .. n /\ n <= 256
    BY <1>1, <2>1, <2>2, <2>3
  <2> QED
    BY ONLY <2>4, n \in Nat, SMT
<1> HIDE DEF imm
<1>4. imm \in 0 .. (4095 * 8) /\ imm % 8 = 0
  BY <1>2, <1>3, SMT
<1>5. Scale(<<"x", 9>>) = 8 /\ Is64(<<"x", 19>>)
  BY DEF Scale, Is64
<1>6. ASSUME NEW r \in {<<"x", 9>>, <<"x", 19>>} PROVE Parses(r, SpecialNames, 31)
  BY DEF Parses, SpecialNames
<1>7. ScaledOk(<<"x", 9>>, <<"x", 19>>, imm)
  <2>1. ParseAll({<<"x", 9>>, <<"x", 19>>}, SpecialNames, 31)
    BY <1>6, Zenon DEF ParseAll
  <2> QED
    BY <1>4, <1>5, <2>1, SMT DEF ScaledOk
<1>8. get_reg_encoding(<<"x", 9>>) = 9
  BY DEF get_reg_encoding, SpecialNames
<1>9. Shaped(create_ldr_imm(<<"x", 9>>, <<"x", 19>>, imm))
  <2>1. \E w, m : create_ldr_imm(<<"x", 9>>, <<"x", 19>>, imm)
                    = Load("LDR", w, <<"x", 9>>, <<"x", 19>>, m, imm)
    BY <1>7, SMT DEF create_ldr_imm
  <2>2. \A w, m : Shaped(Load("LDR", w, <<"x", 9>>, <<"x", 19>>, m, imm))
    BY <1>8 DEF Load, Access, WithImm, Shaped, Formed, Emits, Segments, Instr
  <2> QED
    BY ONLY <2>1, <2>2, Zenon
<1> QED
  BY <1>9 DEF imm

-----------------------------------------------------------------------------
(* Streams. *)

IsSeq(s) == \E T : s \in Seq(T)
Stands(s, k) ==
    Formed(s[k]) /\ (s[k].opcode = "ADRP" => k + 1 \in 1 .. Len(s) /\ Low(s[k + 1], s[k]))
Good(s) == IsSeq(s) /\ \A k \in 1 .. Len(s) : Stands(s, k)

(* A sequence stays one under the operations that make streams.            *)
LEMMA SeqLemma ==
    ASSUME NEW s, IsSeq(s)
    PROVE  /\ Len(s) \in Nat /\ DOMAIN s = 1 .. Len(s)
           /\ \A x : /\ IsSeq(Append(s, x)) /\ Len(Append(s, x)) = Len(s) + 1
                     /\ \A k \in 1 .. Len(s) : Append(s, x)[k] = s[k]
                     /\ Append(s, x)[Len(s) + 1] = x
<1>1. PICK T : s \in Seq(T)
  BY DEF IsSeq
<1>2. Len(s) \in Nat /\ DOMAIN s = 1 .. Len(s)
  BY <1>1, LenProperties
<1>3. ASSUME NEW x
      PROVE  /\ IsSeq(Append(s, x)) /\ Len(Append(s, x)) = Len(s) + 1
             /\ \A k \in 1 .. Len(s) : Append(s, x)[k] = s[k]
             /\ Append(s, x)[Len(s) + 1] = x
  <2> DEFINE U == T \cup {x}
  <2>1. s \in Seq(U) /\ x \in U
    BY <1>1
  <2> HIDE DEF U
  <2> QED
    BY <2>1, AppendProperties DEF IsSeq
<1> QED
  BY <1>2, <1>3

(* So does the concatenation of two.                                       *)
LEMMA CatLemma ==
    ASSUME NEW s, NEW t, IsSeq(s), IsSeq(t)
    PROVE  /\ IsSeq(s \o t) /\ Len(s \o t) = Len(s) + Len(t)
           /\ \A k \in 1 .. Len(s) : (s \o t)[k] = s[k]
           /\ \A k \in 1 .. Len(t) : (s \o t)[Len(s) + k] = t[k]
<1>1. PICK T, U : s \in Seq(T) /\ t \in Seq(U)
  BY DEF IsSeq
<1> DEFINE V == T \cup U
<1>2. s \in Seq(V) /\ t \in Seq(V)
  BY <1>1
<1> HIDE DEF V
<1>3. s \o t \in Seq(V) /\ Len(s \o t) = Len(s) + Len(t)
  BY <1>2, ConcatProperties
<1>4. \A i \in 1 .. Len(s) + Len(t) : (s \o t)[i] = IF i <= Len(s) THEN s[i] ELSE t[i - Len(s)]
  BY <1>2, ConcatProperties
<1>5. Len(s) \in Nat /\ Len(t) \in Nat
  BY <1>2, LenProperties
<1> QED
  BY <1>3, <1>4, <1>5 DEF IsSeq

(* Streams of good instructions.                                           *)
LEMMA GoodAppend ==
    ASSUME NEW s, Good(s), NEW i, Shaped(i)
    PROVE  Good(Append(s, i))
<1>1. /\ Len(s) \in Nat /\ IsSeq(Append(s, i)) /\ Len(Append(s, i)) = Len(s) + 1
      /\ \A k \in 1 .. Len(s) : Append(s, i)[k] = s[k]
      /\ Append(s, i)[Len(s) + 1] = i
  BY SeqLemma DEF Good
<1> DEFINE t == Append(s, i)
<1>2. ASSUME NEW k \in 1 .. Len(s) + 1 PROVE Stands(t, k)
  <2>1. k \in 1 .. Len(s) \/ k = Len(s) + 1
    BY <1>1, SMT
  <2>2. CASE k \in 1 .. Len(s)
    <3>1. k + 1 \in 1 .. Len(s) => k + 1 \in 1 .. Len(t) /\ t[k + 1] = s[k + 1]
      BY <1>1
    <3>2. Stands(s, k) /\ t[k] = s[k]
      BY <1>1, <2>2, Zenon DEF Good
    <3> HIDE DEF t
    <3> QED
      BY <3>1, <3>2, Zenon DEF Stands
  <2>3. CASE k = Len(s) + 1
    BY <1>1, <2>3, Zenon DEF Stands, Shaped
  <2> QED
    BY <2>1, <2>2, <2>3
<1> QED
  BY <1>1, <1>2, Zenon DEF Good

(* One stream after another.                                               *)
LEMMA GoodCat ==
    ASSUME NEW s, NEW t, Good(s), Good(t)
    PROVE  Good(s \o t)
<1>1. /\ IsSeq(s \o t) /\ Len(s \o t) = Len(s) + Len(t)
      /\ \A k \in 1 .. Len(s) : (s \o t)[k] = s[k]
      /\ \A k \in 1 .. Len(t) : (s \o t)[Len(s) + k] = t[k]
  BY CatLemma DEF Good
<1>2. Len(s) \in Nat /\ Len(t) \in Nat
  BY SeqLemma DEF Good
<1> DEFINE u == s \o t
<1>3. ASSUME NEW k \in 1 .. Len(s) + Len(t) PROVE Stands(u, k)
  <2>1. k \in 1 .. Len(s) \/ (k - Len(s) \in 1 .. Len(t) /\ k = Len(s) + (k - Len(s)))
    BY <1>2, SMT
  <2>2. CASE k \in 1 .. Len(s)
    <3>1. k + 1 \in 1 .. Len(s) => k + 1 \in 1 .. Len(u) /\ u[k + 1] = s[k + 1]
      BY <1>1, <1>2
    <3>2. Stands(s, k) /\ u[k] = s[k]
      BY <1>1, <2>2, Zenon DEF Good
    <3> HIDE DEF u
    <3> QED
      BY <3>1, <3>2, Zenon DEF Stands
  <2>3. CASE k \notin 1 .. Len(s)
    <3>1. PICK j \in 1 .. Len(t) : k = Len(s) + j
      BY <2>1, <2>3
    <3>2. j + 1 \in 1 .. Len(t) => k + 1 \in 1 .. Len(u) /\ Len(s) + (j + 1) = k + 1
      <4> DEFINE m == Len(s)
                 n == Len(t)
      <4>1. Len(u) = m + n /\ m \in Nat /\ n \in Nat /\ j \in 1 .. n /\ k = m + j
        BY <1>1, <1>2, <3>1, Zenon
      <4> HIDE DEF m, n, u
      <4>2. j + 1 \in 1 .. n => k + 1 \in 1 .. Len(u) /\ m + (j + 1) = k + 1
        BY ONLY <4>1, SMT
      <4> QED
        BY <4>2, Zenon DEF m, n
    <3>3. ASSUME j + 1 \in 1 .. Len(t) PROVE u[k + 1] = t[j + 1]
      <4>1. u[Len(s) + (j + 1)] = t[j + 1]
        BY ONLY <1>1, <3>3
      <4>2. Len(s) + (j + 1) = k + 1
        BY <3>2, <3>3
      <4> QED
        BY ONLY <4>1, <4>2
    <3>4. Stands(t, j) /\ u[k] = t[j]
      BY <1>1, <3>1, Zenon DEF Good
    <3> HIDE DEF u
    <3> QED
      BY <3>2, <3>3, <3>4, Zenon DEF Stands
  <2> QED
    BY <2>2, <2>3
<1> QED
  BY <1>1, <1>3, Zenon DEF Good

(* Short streams.                                                          *)
LEMMA GoodShort ==
    /\ Good(<<>>)
    /\ \A i : Shaped(i) => Good(<<i>>)
    /\ \A i, j : Shaped(i) /\ Shaped(j) => Good(<<i, j>>)
<1>1. Good(<<>>)
  BY DEF Good, IsSeq
<1>2. ASSUME NEW i, Shaped(i) PROVE Good(<<i>>)
  <2>0. <<i>> \in Seq({i}) /\ Len(<<i>>) = 1 /\ <<i>>[1] = i
    OBVIOUS
  <2>1. PICK t : t = <<i>> /\ t \in Seq({i}) /\ Len(t) = 1 /\ t[1] = i
    BY ONLY <2>0, Zenon
  <2>2. \A k \in 1 .. 1 : k = 1
    BY SMT
  <2> QED
    BY <1>2, <2>1, <2>2, Zenon DEF Good, IsSeq, Stands, Shaped
<1>3. ASSUME NEW i, NEW j, Shaped(i), Shaped(j) PROVE Good(<<i, j>>)
  <2>0. <<i, j>> \in Seq({i, j}) /\ Len(<<i, j>>) = 2 /\ <<i, j>>[1] = i /\ <<i, j>>[2] = j
    OBVIOUS
  <2>1. PICK t : t = <<i, j>> /\ t \in Seq({i, j}) /\ Len(t) = 2 /\ t[1] = i /\ t[2] = j
    BY ONLY <2>0, Zenon
  <2>2. \A k \in 1 .. 2 : k = 1 \/ k = 2
    BY SMT
  <2> QED
    BY <1>3, <2>1, <2>2, Zenon DEF Good, IsSeq, Stands, Shaped
<1> QED
  BY <1>1, <1>2, <1>3

(* An ADRP with the instruction that completes the address.                *)
LEMMA GoodPair ==
    ASSUME NEW i, NEW j, Formed(i), Shaped(j), Low(j, i)
    PROVE  Good(<<i, j>>)
<1>1. <<i, j>> \in Seq({i, j}) /\ Len(<<i, j>>) = 2 /\ <<i, j>>[1] = i /\ <<i, j>>[2] = j
  OBVIOUS
<1>2. PICK t : t = <<i, j>> /\ t \in Seq({i, j}) /\ Len(t) = 2 /\ t[1] = i /\ t[2] = j
  BY ONLY <1>1, Zenon
<1>3. (\A k \in 1 .. 2 : k = 1 \/ k = 2) /\ 1 + 1 = 2 /\ 2 \in 1 .. 2
  BY SMT
<1>4. Stands(t, 1) /\ Stands(t, 2)
  BY <1>2, <1>3, Zenon DEF Stands, Shaped
<1> QED
  BY <1>2, <1>3, <1>4, Zenon DEF Good, IsSeq

-----------------------------------------------------------------------------
(* Loops. *)

(* One turn of each of the loops that fill the data generator and write    *)
(* its section.                                                            *)
Turn(loop, l, acc, x) ==
    CASE loop = "chars" -> Emit32(acc, x)
      [] loop = "quads" -> Emit64(acc, x)
      [] loop = "strings" -> EmitString(acc, x)
      [] loop = "floats" -> EmitFloat(acc, x)
      [] loop = "tables" -> EmitTable(acc, x)
      [] loop = "nodes" -> EmitNode(acc, l, x)
      [] loop = "lists" -> EmitList(acc, x)
      [] loop = "flat" -> AddElement(LAMBDA d, m : d, LAMBDA m : <<>>, acc, x)
      [] loop = "nested" -> AddElement(AddFlatList, FlatKey, acc, x)
FoldNodes(l, base, seq) == FoldLeft(LAMBDA acc, k : EmitNode(acc, l, k), base, seq)
FoldFlat(base, seq) ==
    FoldLeft(LAMBDA acc, e : AddElement(LAMBDA d, m : d, LAMBDA m : <<>>, acc, e), base, seq)
FoldNested(base, seq) ==
    FoldLeft(LAMBDA acc, e : AddElement(AddFlatList, FlatKey, acc, e), base, seq)
IsFold(g, loop, l, base, seq, n) ==
    g = [s \in SUBSET (1 .. n) |->
           IF s = {} THEN base ELSE Turn(loop, l, g[s \ {Max(s)}], seq[Max(s)])]

Rounds(r, loop, l, base, seq) ==
    /\ r[0] = base
    /\ \A k \in 0 .. Len(seq) - 1 : r[k + 1] = Turn(loop, l, r[k], seq[k + 1])

(* The largest element of a set of indices.                                *)
LEMMA MaxLemma ==
    ASSUME NEW n \in Nat, NEW s \in SUBSET (1 .. n), s # {}
    PROVE  Max(s) \in s /\ \A y \in s : Max(s) >= y
<1> DEFINE T == {n - x : x \in s}
<1>1. T \subseteq Nat /\ T # {}
  <2>1. \A x \in s : n - x \in Nat
    BY SMT
  <2> QED
    BY <2>1, Zenon
<1> HIDE DEF T
<1>2. PICK m \in T : \A j \in T : m <= j
  BY <1>1, SmallestLemma
<1>3. PICK x \in s : m = n - x
  BY <1>2 DEF T
<1>4. ASSUME NEW y \in s PROVE x >= y
  <2>1. n - y \in T
    BY DEF T
  <2>2. m <= n - y
    BY <1>2, <2>1
  <2> QED
    BY <1>3, <2>2, SMT
<1>5. \E z \in s : \A y \in s : z >= y
  BY <1>3, <1>4
<1> QED
  BY <1>5, Zenon DEF Max

(* A loop over n elements runs to its end.                                 *)
LEMMA FoldExists ==
    ASSUME NEW loop, NEW l, NEW base, NEW seq, NEW n \in Nat
    PROVE  \E g : IsFold(g, loop, l, base, seq, n)
<1> DEFINE Body(g, s) == IF s = {} THEN base ELSE Turn(loop, l, g[s \ {Max(s)}], seq[Max(s)])
           D == {k \in 0 .. n : \E g : g = [s \in SUBSET (1 .. k) |-> Body(g, s)]}
<1>1. 0 \in D
  <2>1. 0 \in 0 .. n /\ 1 .. 0 = {}
    BY SMT
  <2>2. [s \in {{}} |-> base] = [s \in {{}} |-> Body([t \in {{}} |-> base], s)]
    BY Zenon
  <2>3. SUBSET (1 .. 0) = {{}}
    BY <2>1, Zenon
  <2> QED
    BY <2>1, <2>2, <2>3, Zenon
<1>2. ASSUME NEW k \in 0 .. n - 1, k \in D PROVE k + 1 \in D
  <2>1. PICK g : g = [s \in SUBSET (1 .. k) |-> Body(g, s)]
    BY <1>2, Zenon
  <2>2. /\ k + 1 \in Nat /\ k + 1 \in 0 .. n /\ 1 .. k \subseteq 1 .. k + 1
        /\ \A x, y \in 1 .. k + 1 : x >= y /\ x # y => y \in 1 .. k
    BY SMT
  <2> DEFINE h == [s \in SUBSET (1 .. k + 1) |-> Body(g, s)]
  <2>3. ASSUME NEW t \in SUBSET (1 .. k) PROVE h[t] = g[t]
    <3>1. t \in SUBSET (1 .. k + 1)
      BY <2>2, Zenon
    <3>2. h[t] = Body(g, t)
      BY <3>1, Zenon
    <3>3. g[t] = Body(g, t)
      BY <2>1, Zenon
    <3> QED
      BY <3>2, <3>3, Zenon
  <2>4. ASSUME NEW s \in SUBSET (1 .. k + 1), s # {} PROVE s \ {Max(s)} \in SUBSET (1 .. k)
    <3>1. Max(s) \in s /\ \A y \in s : Max(s) >= y
      BY <2>2, <2>4, MaxLemma
    <3> QED
      BY <2>2, <3>1, Zenon
  <2>5. ASSUME NEW s \in SUBSET (1 .. k + 1) PROVE Body(g, s) = Body(h, s)
    <3>1. s # {} => h[s \ {Max(s)}] = g[s \ {Max(s)}]
      BY <2>3, <2>4, Zenon
    <3> HIDE DEF h
    <3> QED
      BY <3>1, Zenon
  <2>6. h = [s \in SUBSET (1 .. k + 1) |-> Body(h, s)]
    <3> HIDE DEF Body
    <3>1. [s \in SUBSET (1 .. k + 1) |-> Body(g, s)] = [s \in SUBSET (1 .. k + 1) |-> Body(h, s)]
      BY <2>5, Zenon
    <3> QED
      BY <3>1, Zenon
  <2> HIDE DEF h
  <2>7. \E f : f = [s \in SUBSET (1 .. k + 1) |-> Body(f, s)]
    BY <2>6, Zenon
  <2> QED
    BY <2>2, <2>7, Zenon
<1>3. n \in 0 .. n
  BY SMT
<1>4. n \in D
  <2> HIDE DEF D
  <2> QED
    BY <1>1, <1>2, <1>3, CountUp, Zenon
<1> QED
  BY <1>4, Zenon DEF IsFold

(* It takes the elements one after the other.                              *)
LEMMA FoldLemma ==
    ASSUME NEW loop, NEW l, NEW base, NEW seq, IsSeq(seq), NEW it,
           IsFold(it, loop, l, base, seq, Len(seq))
    PROVE  \E r : Rounds(r, loop, l, base, seq) /\ r[Len(seq)] = it[DOMAIN seq]
<1> DEFINE n == Len(seq)
           r == [k \in 0 .. n |-> it[1 .. k]]
<1>1. n \in Nat /\ DOMAIN seq = 1 .. n
  BY SeqLemma
<1>2. ASSUME NEW s \in SUBSET (1 .. n)
      PROVE  it[s] = IF s = {} THEN base ELSE Turn(loop, l, it[s \ {Max(s)}], seq[Max(s)])
  BY Zenon DEF IsFold
<1>6. r[0] = base /\ r[n] = it[1 .. n]
  <2>1. 0 \in 0 .. n /\ n \in 0 .. n /\ 1 .. 0 = {}
    BY <1>1, SMT
  <2>2. it[{}] = base
    BY <1>2, Zenon
  <2> QED
    BY <2>1, <2>2, Zenon
<1>7. ASSUME NEW k \in 0 .. n - 1 PROVE r[k + 1] = Turn(loop, l, r[k], seq[k + 1])
  <2> DEFINE s == 1 .. k + 1
  <2>1. /\ k \in 0 .. n /\ k + 1 \in 0 .. n /\ k + 1 \in s /\ s \subseteq 1 .. n
        /\ s \ {k + 1} = 1 .. k /\ \A y \in s : y >= k + 1 => y = k + 1
    BY <1>1, SMT
  <2> HIDE DEF s
  <2>2. s \in SUBSET (1 .. n) /\ s # {}
    BY <2>1, Zenon
  <2>3. Max(s) \in s /\ \A y \in s : Max(s) >= y
    BY <1>1, <2>2, MaxLemma
  <2>4. Max(s) = k + 1
    BY <2>1, <2>3, Zenon
  <2>5. it[s] = Turn(loop, l, it[s \ {Max(s)}], seq[Max(s)])
    BY <1>2, <2>2, Zenon
  <2>6. it[s] = Turn(loop, l, it[1 .. k], seq[k + 1])
    BY <2>1, <2>4, <2>5, Zenon
  <2>7. r[k + 1] = it[s] /\ r[k] = it[1 .. k]
    BY <2>1, Zenon DEF s
  <2> QED
    BY <2>6, <2>7, Zenon
<1> HIDE DEF r
<1> QED
  BY <1>1, <1>6, <1>7, Zenon DEF Rounds

(* A loop whose turns keep a stream good leaves a good stream.             *)
LEMMA GoodLoop ==
    ASSUME NEW loop, NEW l, NEW base, NEW seq, IsSeq(seq), NEW it,
           IsFold(it, loop, l, base, seq, Len(seq)), Good(base),
           \A k \in 1 .. Len(seq) : \A acc : Good(acc) => Good(Turn(loop, l, acc, seq[k]))
    PROVE  Good(it[DOMAIN seq])
<1> DEFINE n == Len(seq)
<1>1. PICK r : Rounds(r, loop, l, base, seq) /\ r[Len(seq)] = it[DOMAIN seq]
  BY FoldLemma, Zenon
<1> DEFINE D == {k \in 0 .. n : Good(r[k])}
<1>2. n \in Nat
  BY SeqLemma
<1>3. 0 \in 0 .. n /\ n \in 0 .. n /\ \A k \in 0 .. n - 1 : k + 1 \in 1 .. n /\ k + 1 \in 0 .. n
  BY <1>2, SMT
<1>4. 0 \in D
  BY <1>1, <1>3, Zenon DEF Rounds
<1>5. ASSUME NEW k \in 0 .. n - 1, k \in D PROVE k + 1 \in D
  BY <1>1, <1>3, <1>5, Zenon DEF Rounds
<1>6. n \in D
  <2> HIDE DEF D
  <2> QED
    BY <1>2, <1>3, <1>4, <1>5, CountUp, Zenon
<1> QED
  BY <1>1, <1>6, Zenon

(* The characters of a string.                                             *)
LEMMA CharsLoop ==
    ASSUME NEW base, NEW seq, IsSeq(seq)
    PROVE  \E it : /\ IsFold(it, "chars", <<>>, base, seq, Len(seq))
                   /\ FoldLeft(Emit32, base, seq) = it[DOMAIN seq]
<1> DEFINE F(g) == [s \in SUBSET DOMAIN seq |->
                      IF s = {} THEN base
                      ELSE Emit32(g[s \ {Max(s)}], seq[Max(s)])]
           it == CHOOSE g : g = F(g)
<1>1. \A acc, x : Turn("chars", <<>>, acc, x) = Emit32(acc, x)
  BY DEF Turn
<1>2. Len(seq) \in Nat /\ DOMAIN seq = 1 .. Len(seq)
  BY SeqLemma
<1>3. ASSUME NEW g PROVE IsFold(g, "chars", <<>>, base, seq, Len(seq)) <=> g = F(g)
  BY <1>1, <1>2, Zenon DEF IsFold
<1>4. it = F(it)
  BY <1>2, <1>3, FoldExists, Zenon
<1>5. FoldLeft(Emit32, base, seq) = it[DOMAIN seq]
  BY Zenon DEF FoldLeft, MapThenFoldSet
<1> HIDE DEF it
<1> QED
  BY <1>3, <1>4, <1>5, Zenon

(* The quads of a table.                                                   *)
LEMMA QuadsLoop ==
    ASSUME NEW base, NEW seq, IsSeq(seq)
    PROVE  \E it : /\ IsFold(it, "quads", <<>>, base, seq, Len(seq))
                   /\ FoldLeft(Emit64, base, seq) = it[DOMAIN seq]
<1> DEFINE F(g) == [s \in SUBSET DOMAIN seq |->
                      IF s = {} THEN base
                      ELSE Emit64(g[s \ {Max(s)}], seq[Max(s)])]
           it == CHOOSE g : g = F(g)
<1>1. \A acc, x : Turn("quads", <<>>, acc, x) = Emit64(acc, x)
  BY DEF Turn
<1>2. Len(seq) \in Nat /\ DOMAIN seq = 1 .. Len(seq)
  BY SeqLemma
<1>3. ASSUME NEW g PROVE IsFold(g, "quads", <<>>, base, seq, Len(seq)) <=> g = F(g)
  BY <1>1, <1>2, Zenon DEF IsFold
<1>4. it = F(it)
  BY <1>2, <1>3, FoldExists, Zenon
<1>5. FoldLeft(Emit64, base, seq) = it[DOMAIN seq]
  BY Zenon DEF FoldLeft, MapThenFoldSet
<1> HIDE DEF it
<1> QED
  BY <1>3, <1>4, <1>5, Zenon

(* The strings.                                                            *)
LEMMA StringsLoop ==
    ASSUME NEW base, NEW seq, IsSeq(seq)
    PROVE  \E it : /\ IsFold(it, "strings", <<>>, base, seq, Len(seq))
                   /\ FoldLeft(EmitString, base, seq) = it[DOMAIN seq]
<1> DEFINE F(g) == [s \in SUBSET DOMAIN seq |->
                      IF s = {} THEN base
                      ELSE EmitString(g[s \ {Max(s)}], seq[Max(s)])]
           it == CHOOSE g : g = F(g)
<1>1. \A acc, x : Turn("strings", <<>>, acc, x) = EmitString(acc, x)
  BY DEF Turn
<1>2. Len(seq) \in Nat /\ DOMAIN seq = 1 .. Len(seq)
  BY SeqLemma
<1>3. ASSUME NEW g PROVE IsFold(g, "strings", <<>>, base, seq, Len(seq)) <=> g = F(g)
  BY <1>1, <1>2, Zenon DEF IsFold
<1>4. it = F(it)
  BY <1>2, <1>3, FoldExists, Zenon
<1>5. FoldLeft(EmitString, base, seq) = it[DOMAIN seq]
  BY Zenon DEF FoldLeft, MapThenFoldSet
<1> HIDE DEF it
<1> QED
  BY <1>3, <1>4, <1>5, Zenon

(* The floats.                                                             *)
LEMMA FloatsLoop ==
    ASSUME NEW base, NEW seq, IsSeq(seq)
    PROVE  \E it : /\ IsFold(it, "floats", <<>>, base, seq, Len(seq))
                   /\ FoldLeft(EmitFloat, base, seq) = it[DOMAIN seq]
<1> DEFINE F(g) == [s \in SUBSET DOMAIN seq |->
                      IF s = {} THEN base
                      ELSE EmitFloat(g[s \ {Max(s)}], seq[Max(s)])]
           it == CHOOSE g : g = F(g)
<1>1. \A acc, x : Turn("floats", <<>>, acc, x) = EmitFloat(acc, x)
  BY DEF Turn
<1>2. Len(seq) \in Nat /\ DOMAIN seq = 1 .. Len(seq)
  BY SeqLemma
<1>3. ASSUME NEW g PROVE IsFold(g, "floats", <<>>, base, seq, Len(seq)) <=> g = F(g)
  BY <1>1, <1>2, Zenon DEF IsFold
<1>4. it = F(it)
  BY <1>2, <1>3, FoldExists, Zenon
<1>5. FoldLeft(EmitFloat, base, seq) = it[DOMAIN seq]
  BY Zenon DEF FoldLeft, MapThenFoldSet
<1> HIDE DEF it
<1> QED
  BY <1>3, <1>4, <1>5, Zenon

(* The tables.                                                             *)
LEMMA TablesLoop ==
    ASSUME NEW base, NEW seq, IsSeq(seq)
    PROVE  \E it : /\ IsFold(it, "tables", <<>>, base, seq, Len(seq))
                   /\ FoldLeft(EmitTable, base, seq) = it[DOMAIN seq]
<1> DEFINE F(g) == [s \in SUBSET DOMAIN seq |->
                      IF s = {} THEN base
                      ELSE EmitTable(g[s \ {Max(s)}], seq[Max(s)])]
           it == CHOOSE g : g = F(g)
<1>1. \A acc, x : Turn("tables", <<>>, acc, x) = EmitTable(acc, x)
  BY DEF Turn
<1>2. Len(seq) \in Nat /\ DOMAIN seq = 1 .. Len(seq)
  BY SeqLemma
<1>3. ASSUME NEW g PROVE IsFold(g, "tables", <<>>, base, seq, Len(seq)) <=> g = F(g)
  BY <1>1, <1>2, Zenon DEF IsFold
<1>4. it = F(it)
  BY <1>2, <1>3, FoldExists, Zenon
<1>5. FoldLeft(EmitTable, base, seq) = it[DOMAIN seq]
  BY Zenon DEF FoldLeft, MapThenFoldSet
<1> HIDE DEF it
<1> QED
  BY <1>3, <1>4, <1>5, Zenon

(* The lists.                                                              *)
LEMMA ListsLoop ==
    ASSUME NEW base, NEW seq, IsSeq(seq)
    PROVE  \E it : /\ IsFold(it, "lists", <<>>, base, seq, Len(seq))
                   /\ FoldLeft(EmitList, base, seq) = it[DOMAIN seq]
<1> DEFINE F(g) == [s \in SUBSET DOMAIN seq |->
                      IF s = {} THEN base
                      ELSE EmitList(g[s \ {Max(s)}], seq[Max(s)])]
           it == CHOOSE g : g = F(g)
<1>1. \A acc, x : Turn("lists", <<>>, acc, x) = EmitList(acc, x)
  BY DEF Turn
<1>2. Len(seq) \in Nat /\ DOMAIN seq = 1 .. Len(seq)
  BY SeqLemma
<1>3. ASSUME NEW g PROVE IsFold(g, "lists", <<>>, base, seq, Len(seq)) <=> g = F(g)
  BY <1>1, <1>2, Zenon DEF IsFold
<1>4. it = F(it)
  BY <1>2, <1>3, FoldExists, Zenon
<1>5. FoldLeft(EmitList, base, seq) = it[DOMAIN seq]
  BY Zenon DEF FoldLeft, MapThenFoldSet
<1> HIDE DEF it
<1> QED
  BY <1>3, <1>4, <1>5, Zenon

(* The nodes of a list.                                                    *)
LEMMA NodesLoop ==
    ASSUME NEW l, NEW base, NEW seq, IsSeq(seq)
    PROVE  \E it : /\ IsFold(it, "nodes", l, base, seq, Len(seq))
                   /\ FoldNodes(l, base, seq) = it[DOMAIN seq]
<1> DEFINE F(g) == [s \in SUBSET DOMAIN seq |->
                      IF s = {} THEN base
                      ELSE EmitNode(g[s \ {Max(s)}], l, seq[Max(s)])]
           it == CHOOSE g : g = F(g)
<1>1. \A acc, x : Turn("nodes", l, acc, x) = EmitNode(acc, l, x)
  BY DEF Turn
<1>2. Len(seq) \in Nat /\ DOMAIN seq = 1 .. Len(seq)
  BY SeqLemma
<1>3. ASSUME NEW g PROVE IsFold(g, "nodes", l, base, seq, Len(seq)) <=> g = F(g)
  BY <1>1, <1>2, Zenon DEF IsFold
<1>4. it = F(it)
  BY <1>2, <1>3, FoldExists, Zenon
<1>5. FoldNodes(l, base, seq) = it[DOMAIN seq]
  BY Zenon DEF FoldNodes, FoldLeft, MapThenFoldSet
<1> HIDE DEF it
<1> QED
  BY <1>3, <1>4, <1>5, Zenon

(* The elements of a list in a list.                                       *)
LEMMA FlatLoop ==
    ASSUME NEW base, NEW seq, IsSeq(seq)
    PROVE  \E it : /\ IsFold(it, "flat", <<>>, base, seq, Len(seq))
                   /\ FoldFlat(base, seq) = it[DOMAIN seq]
<1> DEFINE F(g) == [s \in SUBSET DOMAIN seq |->
                      IF s = {} THEN base
                      ELSE AddElement(LAMBDA d, m : d, LAMBDA m : <<>>, g[s \ {Max(s)}], seq[Max(s)])]
           it == CHOOSE g : g = F(g)
<1>1. \A acc, x : Turn("flat", <<>>, acc, x) = AddElement(LAMBDA d, m : d, LAMBDA m : <<>>, acc, x)
  BY DEF Turn
<1>2. Len(seq) \in Nat /\ DOMAIN seq = 1 .. Len(seq)
  BY SeqLemma
<1>3. ASSUME NEW g PROVE IsFold(g, "flat", <<>>, base, seq, Len(seq)) <=> g = F(g)
  BY <1>1, <1>2, Zenon DEF IsFold
<1>4. it = F(it)
  BY <1>2, <1>3, FoldExists, Zenon
<1>5. FoldFlat(base, seq) = it[DOMAIN seq]
  BY Zenon DEF FoldFlat, FoldLeft, MapThenFoldSet
<1> HIDE DEF it
<1> QED
  BY <1>3, <1>4, <1>5, Zenon

(* The elements of a list.                                                 *)
LEMMA NestedLoop ==
    ASSUME NEW base, NEW seq, IsSeq(seq)
    PROVE  \E it : /\ IsFold(it, "nested", <<>>, base, seq, Len(seq))
                   /\ FoldNested(base, seq) = it[DOMAIN seq]
<1> DEFINE F(g) == [s \in SUBSET DOMAIN seq |->
                      IF s = {} THEN base
                      ELSE AddElement(AddFlatList, FlatKey, g[s \ {Max(s)}], seq[Max(s)])]
           it == CHOOSE g : g = F(g)
<1>1. \A acc, x : Turn("nested", <<>>, acc, x) = AddElement(AddFlatList, FlatKey, acc, x)
  BY DEF Turn
<1>2. Len(seq) \in Nat /\ DOMAIN seq = 1 .. Len(seq)
  BY SeqLemma
<1>3. ASSUME NEW g PROVE IsFold(g, "nested", <<>>, base, seq, Len(seq)) <=> g = F(g)
  BY <1>1, <1>2, Zenon DEF IsFold
<1>4. it = F(it)
  BY <1>2, <1>3, FoldExists, Zenon
<1>5. FoldNested(base, seq) = it[DOMAIN seq]
  BY Zenon DEF FoldNested, FoldLeft, MapThenFoldSet
<1> HIDE DEF it
<1> QED
  BY <1>3, <1>4, <1>5, Zenon

-----------------------------------------------------------------------------
(* The read-only section. *)

(* Words, quads, labels and pointers.                                      *)
LEMMA GoodEmits ==
    ASSUME NEW s, Good(s)
    PROVE  /\ \A v : Good(Emit32(s, v)) /\ Good(Emit64(s, v))
           /\ \A label : \A seg \in Segments : Good(Append(s, as_label(label, seg)))
           /\ \A v, label : \A seg \in Segments : Good(add_data64(s, v, label, seg))
           /\ \A label : Good(PointerOrNull(s, label)) /\ Good(Labelled(s, label))
           /\ \A label : label # <<>> => Good(emit_absolute_pointer(s, label, "RODATA"))
<1>0. "RODATA" \in Segments
  BY DEF Segments
<1>1. ASSUME NEW v, NEW label, NEW seg \in Segments PROVE Good(add_data64(s, v, label, seg))
  <2>1. Good(<<Datum(v[1], "quad", label, seg), Datum(v[2], "comment", <<>>, seg)>>)
    BY DataShaped, GoodShort, Zenon
  <2> QED
    BY <2>1, GoodCat, Zenon DEF add_data64
<1>2. ASSUME NEW label, NEW seg \in Segments PROVE Good(Append(s, as_label(label, seg)))
  BY DataShaped, GoodAppend, Zenon
<1>3. ASSUME NEW v PROVE Good(Emit32(s, v))
  BY <1>0, DataShaped, GoodAppend, Zenon DEF Emit32, add_data32
<1>4. ASSUME NEW label, label # <<>> PROVE Good(emit_absolute_pointer(s, label, "RODATA"))
  <2> DEFINE half(kind, text) == [Datum(0, text, label, "RODATA") EXCEPT !.relocation = kind]
  <2>1. \A kind, text : Shaped(half(kind, text))
    BY <1>0, <1>4, DataShaped, Zenon
  <2>2. emit_absolute_pointer(s, label, "RODATA")
          = s \o <<half("ABSOLUTE_ADDRESS_LO32", "quad"), half("ABSOLUTE_ADDRESS_HI32", "comment")>>
    BY Zenon DEF emit_absolute_pointer
  <2> HIDE DEF half
  <2> QED
    BY <2>1, <2>2, GoodShort, GoodCat, Zenon
<1>5. ASSUME NEW v PROVE Good(Emit64(s, v))
  BY <1>0, <1>1, Zenon DEF Emit64
<1>6. ASSUME NEW label PROVE Good(PointerOrNull(s, label)) /\ Good(Labelled(s, label))
  BY <1>0, <1>2, <1>4, <1>5, Zenon DEF PointerOrNull, Labelled
<1> QED
  BY <1>1, <1>2, <1>3, <1>4, <1>5, <1>6, Zenon

(* Padding.                                                                *)
LEMMA GoodPadding ==
    ASSUME NEW s, Good(s)
    PROVE  Good(add_data_padding(s, 8))
<1> DEFINE n == PaddingWords(s, 8)
           x == Datum(0, "instr", <<>>, "DATA")
           p == [k \in 1 .. n |-> x]
<1>1. n \in Nat
  <2>1. Len(s) \in Nat
    BY SeqLemma DEF Good
  <2>2. PICK rest \in 0 .. 7 : rest = (4 * Len(s)) % 8
    BY <2>1, SMT
  <2>3. n = IF rest = 0 THEN 0 ELSE (8 - rest) \div 4
    BY <2>2 DEF PaddingWords
  <2> QED
    BY <2>2, <2>3, SMT
<1> HIDE DEF n, x
<1>2. p \in Seq({x}) /\ Len(p) = n /\ \A k \in 1 .. n : p[k] = x
  BY <1>1
<1>3. Shaped(x)
  <2>1. "DATA" \in Segments
    BY DEF Segments
  <2> QED
    BY <2>1, DataShaped, Zenon DEF x
<1> HIDE DEF p
<1>4. Good(p)
  BY <1>2, <1>3, Zenon DEF Good, IsSeq, Stands, Shaped
<1>5. add_data_padding(s, 8) = s \o p
  BY Zenon DEF add_data_padding, p, n, x
<1> QED
  BY <1>4, <1>5, GoodCat, Zenon

(* A string, with its length before it and its padding after it.           *)
LEMMA GoodString ==
    ASSUME NEW s, Good(s), NEW info, IsSeq(info.chars)
    PROVE  Good(EmitString(s, info))
<1> DEFINE base == Emit64(Labelled(s, info.label), Quad(Len(info.chars) - 2))
           seq == info.chars
<1>1. Good(base)
  BY GoodEmits, Zenon
<1> HIDE DEF base, seq
<1>2. IsSeq(seq)
  BY Zenon DEF seq
<1>3. PICK it : /\ IsFold(it, "chars", <<>>, base, seq, Len(seq))
                /\ FoldLeft(Emit32, base, seq) = it[DOMAIN seq]
  BY <1>2, CharsLoop
<1>4. \A acc, x : Turn("chars", <<>>, acc, x) = Emit32(acc, x)
  BY DEF Turn
<1>5. \A k \in 1 .. Len(seq) : \A acc : Good(acc) => Good(Turn("chars", <<>>, acc, seq[k]))
  BY <1>4, GoodEmits, Zenon
<1>6. Good(it[DOMAIN seq])
  BY <1>1, <1>2, <1>3, <1>5, GoodLoop, Zenon
<1>7. EmitString(s, info) = add_data_padding(FoldLeft(Emit32, base, seq), 8)
  BY Zenon DEF EmitString, base, seq
<1> QED
  BY <1>3, <1>6, <1>7, GoodPadding, Zenon

(* A table, with its length before it.                                     *)
LEMMA GoodTable ==
    ASSUME NEW s, Good(s), NEW info, IsSeq(info.quads)
    PROVE  Good(EmitTable(s, info))
<1> DEFINE base == Emit64(Labelled(s, info.label), Quad(Len(info.quads)))
           seq == info.quads
<1>1. Good(base)
  BY GoodEmits, Zenon
<1> HIDE DEF base, seq
<1>2. IsSeq(seq)
  BY Zenon DEF seq
<1>3. PICK it : /\ IsFold(it, "quads", <<>>, base, seq, Len(seq))
                /\ FoldLeft(Emit64, base, seq) = it[DOMAIN seq]
  BY <1>2, QuadsLoop
<1>4. \A acc, x : Turn("quads", <<>>, acc, x) = Emit64(acc, x)
  BY DEF Turn
<1>5. \A k \in 1 .. Len(seq) : \A acc : Good(acc) => Good(Turn("quads", <<>>, acc, seq[k]))
  BY <1>4, GoodEmits, Zenon
<1>6. Good(it[DOMAIN seq])
  BY <1>1, <1>2, <1>3, <1>5, GoodLoop, Zenon
<1>7. EmitTable(s, info) = FoldLeft(Emit64, base, seq)
  BY Zenon DEF EmitTable, base, seq
<1> QED
  BY <1>3, <1>6, <1>7, Zenon

(* A node: its label, its tag, its value and a pointer to the next one.    *)
LEMMA GoodNode ==
    ASSUME NEW s, Good(s), NEW l, NEW k
    PROVE  Good(EmitNode(s, l, k))
<1> DEFINE node == l.nodes[k]
           head == Emit32(Emit32(Labelled(s, NodeLabel(l, k)), node.tag), 0)
           value == IF node.pointer = <<>> THEN Emit64(head, node.bits)
                    ELSE emit_absolute_pointer(head, node.pointer, "RODATA")
<1>1. Good(head)
  BY GoodEmits, Zenon
<1> HIDE DEF head
<1>2. Good(value)
  BY <1>1, GoodEmits, Zenon
<1> HIDE DEF value
<1>3. Good(PointerOrNull(value, IF k < Len(l.nodes) THEN NodeLabel(l, k + 1) ELSE <<>>))
  BY <1>2, GoodEmits, Zenon
<1> QED
  BY <1>3, Zenon DEF EmitNode, value, head

(* A list: its header, then its nodes.                                     *)
LEMMA GoodList ==
    ASSUME NEW s, Good(s), NEW l, IsSeq(l.nodes)
    PROVE  Good(EmitList(s, l))
<1> DEFINE end(k) == IF l.nodes = <<>> THEN <<>> ELSE NodeLabel(l, k)
           head == Emit32(Emit32(Labelled(s, l.label), 0), 0)
           ends == PointerOrNull(PointerOrNull(head, end(Len(l.nodes))), end(1))
           base == Emit64(ends, Quad(Len(l.nodes)))
           seq == [k \in DOMAIN l.nodes |-> k]
<1>1. Good(head)
  BY GoodEmits, Zenon
<1> HIDE DEF head, end
<1>2. Good(ends)
  BY <1>1, GoodEmits, Zenon
<1> HIDE DEF ends
<1>3. Good(base)
  BY <1>2, GoodEmits, Zenon
<1>4. IsSeq(seq)
  <2>1. PICK n \in Nat : DOMAIN l.nodes = 1 .. n
    BY SeqLemma
  <2>2. [k \in 1 .. n |-> k] \in Seq(1 .. n)
    BY <2>1
  <2> QED
    BY <2>1, <2>2, Zenon DEF IsSeq
<1> HIDE DEF base, seq
<1>5. PICK it : /\ IsFold(it, "nodes", l, base, seq, Len(seq))
                /\ FoldNodes(l, base, seq) = it[DOMAIN seq]
  BY <1>4, NodesLoop
<1>6. \A acc, x : Turn("nodes", l, acc, x) = EmitNode(acc, l, x)
  BY DEF Turn
<1>7. \A k \in 1 .. Len(seq) : \A acc : Good(acc) => Good(Turn("nodes", l, acc, seq[k]))
  BY <1>6, GoodNode, Zenon
<1>8. Good(it[DOMAIN seq])
  BY <1>3, <1>4, <1>5, <1>7, GoodLoop, Zenon
<1>9. EmitList(s, l) = FoldNodes(l, base, seq)
  BY Zenon DEF EmitList, FoldNodes, base, seq, ends, head, end
<1> QED
  BY <1>5, <1>8, <1>9, Zenon

-----------------------------------------------------------------------------
(* The data generator. *)

GoodStrings(e) ==
    IsSeq(e) /\ \A k \in 1 .. Len(e) : Literal(e[k].label) /\ IsSeq(e[k].chars)
GoodFloats(e) == IsSeq(e) /\ \A k \in 1 .. Len(e) : Literal(e[k].label)
GoodTables(e) == IsSeq(e) /\ \A k \in 1 .. Len(e) : IsSeq(e[k].quads)
GoodLists(e) ==
    IsSeq(e) /\ \A k \in 1 .. Len(e) : Literal(e[k].label) /\ IsSeq(e[k].nodes)
DataFields == {"strings", "floats", "tables", "ftables", "lists", "next", "statics"}
GoodData(d) ==
    /\ DataFields \subseteq DOMAIN d
    /\ GoodStrings(d.strings) /\ GoodFloats(d.floats) /\ GoodTables(d.tables)
    /\ GoodTables(d.ftables) /\ GoodLists(d.lists)

(* The section of a good data generator.                                   *)
LEMMA GoodRodata ==
    ASSUME NEW s, Good(s), NEW d, GoodData(d)
    PROVE  Good(generate_rodata_section(s, d))
<1> DEFINE s1 == FoldLeft(EmitString, s, d.strings)
           s2 == FoldLeft(EmitFloat, s1, d.floats)
           t == d.tables \o d.ftables
           s3 == FoldLeft(EmitTable, s2, t)
           s4 == FoldLeft(EmitList, s3, d.lists)
<1>1. generate_rodata_section(s, d) = s4
  BY Zenon DEF generate_rodata_section
<1>2. Good(s1)
  <2> DEFINE seq == d.strings
  <2>1. GoodStrings(seq)
    BY Zenon DEF GoodData
  <2> HIDE DEF seq
  <2>2. PICK it : /\ IsFold(it, "strings", <<>>, s, seq, Len(seq))
                  /\ FoldLeft(EmitString, s, seq) = it[DOMAIN seq]
    BY <2>1, StringsLoop DEF GoodStrings
  <2>3. \A acc, x : Turn("strings", <<>>, acc, x) = EmitString(acc, x)
    BY DEF Turn
  <2>4. \A k \in 1 .. Len(seq) : \A acc : Good(acc) => Good(Turn("strings", <<>>, acc, seq[k]))
    BY <2>1, <2>3, GoodString, Zenon DEF GoodStrings
  <2>5. Good(it[DOMAIN seq])
    BY <2>1, <2>2, <2>4, GoodLoop, Zenon DEF GoodStrings
  <2> QED
    BY <2>2, <2>5, Zenon DEF seq
<1> HIDE DEF s1
<1>3. Good(s2)
  <2> DEFINE seq == d.floats
  <2>1. GoodFloats(seq)
    BY Zenon DEF GoodData
  <2> HIDE DEF seq
  <2>2. PICK it : /\ IsFold(it, "floats", <<>>, s1, seq, Len(seq))
                  /\ FoldLeft(EmitFloat, s1, seq) = it[DOMAIN seq]
    BY <2>1, FloatsLoop DEF GoodFloats
  <2>3. \A acc, x : Turn("floats", <<>>, acc, x) = EmitFloat(acc, x)
    BY DEF Turn
  <2>4. \A acc, x : Good(acc) => Good(EmitFloat(acc, x))
    BY GoodEmits, Zenon DEF EmitFloat
  <2>5. \A k \in 1 .. Len(seq) : \A acc : Good(acc) => Good(Turn("floats", <<>>, acc, seq[k]))
    BY <2>3, <2>4, Zenon
  <2>6. Good(it[DOMAIN seq])
    BY <1>2, <2>1, <2>2, <2>5, GoodLoop, Zenon DEF GoodFloats
  <2> QED
    BY <2>2, <2>6, Zenon DEF seq
<1> HIDE DEF s2
<1>4. IsSeq(t) /\ \A k \in 1 .. Len(t) : IsSeq(t[k].quads)
  <2> DEFINE a == d.tables
             b == d.ftables
  <2>1. GoodTables(a) /\ GoodTables(b)
    BY Zenon DEF GoodData
  <2> HIDE DEF a, b
  <2>2. /\ IsSeq(a \o b) /\ Len(a \o b) = Len(a) + Len(b)
        /\ \A k \in 1 .. Len(a) : (a \o b)[k] = a[k]
        /\ \A k \in 1 .. Len(b) : (a \o b)[Len(a) + k] = b[k]
    BY <2>1, CatLemma DEF GoodTables
  <2>3. Len(a) \in Nat /\ Len(b) \in Nat
    BY <2>1, SeqLemma DEF GoodTables
  <2>4. ASSUME NEW k \in 1 .. Len(a) + Len(b) PROVE IsSeq((a \o b)[k].quads)
    <3>1. k \in 1 .. Len(a) \/ (k - Len(a) \in 1 .. Len(b) /\ k = Len(a) + (k - Len(a)))
      BY <2>3, SMT
    <3>2. CASE k \in 1 .. Len(a)
      BY <2>1, <2>2, <3>2, Zenon DEF GoodTables
    <3>3. CASE k - Len(a) \in 1 .. Len(b) /\ k = Len(a) + (k - Len(a))
      BY <2>1, <2>2, <3>3, Zenon DEF GoodTables
    <3> QED
      BY <3>1, <3>2, <3>3
  <2> QED
    BY <2>2, <2>4, Zenon DEF a, b
<1> HIDE DEF t
<1>5. Good(s3)
  <2>2. PICK it : /\ IsFold(it, "tables", <<>>, s2, t, Len(t))
                  /\ FoldLeft(EmitTable, s2, t) = it[DOMAIN t]
    BY <1>4, TablesLoop
  <2>3. \A acc, x : Turn("tables", <<>>, acc, x) = EmitTable(acc, x)
    BY DEF Turn
  <2>4. \A k \in 1 .. Len(t) : \A acc : Good(acc) => Good(Turn("tables", <<>>, acc, t[k]))
    BY <1>4, <2>3, GoodTable, Zenon
  <2>5. Good(it[DOMAIN t])
    BY <1>3, <1>4, <2>2, <2>4, GoodLoop, Zenon
  <2> QED
    BY <2>2, <2>5, Zenon
<1> HIDE DEF s3
<1>6. Good(s4)
  <2> DEFINE seq == d.lists
  <2>1. GoodLists(seq)
    BY Zenon DEF GoodData
  <2> HIDE DEF seq
  <2>2. PICK it : /\ IsFold(it, "lists", <<>>, s3, seq, Len(seq))
                  /\ FoldLeft(EmitList, s3, seq) = it[DOMAIN seq]
    BY <2>1, ListsLoop DEF GoodLists
  <2>3. \A acc, x : Turn("lists", <<>>, acc, x) = EmitList(acc, x)
    BY DEF Turn
  <2>4. \A k \in 1 .. Len(seq) : \A acc : Good(acc) => Good(Turn("lists", <<>>, acc, seq[k]))
    BY <2>1, <2>3, GoodList, Zenon DEF GoodLists
  <2>5. Good(it[DOMAIN seq])
    BY <1>5, <2>1, <2>2, <2>4, GoodLoop, Zenon DEF GoodLists
  <2> QED
    BY <2>2, <2>5, Zenon DEF seq
<1> QED
  BY <1>1, <1>6, Zenon

(* The labels of literals and of loops are not names of routines.          *)
LEMMA LiteralLabels ==
    ASSUME NEW kind \in {"str", "float", "tbl", "ftbl", "list", "L"}, NEW n
    PROVE  Literal(<<kind, n>>)
<1>1. <<kind, n>> # <<>> /\ <<kind, n>>[1] # "name"
  BY SMT
<1> QED
  BY <1>1, Zenon DEF Literal, is_function_registered

(* The label of a literal that is known.                                   *)
LEMMA KnownLabel ==
    ASSUME NEW e, IsSeq(e), \A k \in 1 .. Len(e) : Literal(e[k].label), NEW key, Known(e, key)
    PROVE  Literal(LabelOf(e, key))
<1>1. DOMAIN e = 1 .. Len(e)
  BY SeqLemma
<1> QED
  BY <1>1, Zenon DEF Known, LabelOf

(* A new entry makes its key known.                                        *)
LEMMA KnownLast ==
    ASSUME NEW e, IsSeq(e), NEW x
    PROVE  /\ Known(Append(e, x), x.key) /\ IsSeq(Append(e, x)) /\ Len(Append(e, x)) = Len(e) + 1
           /\ Last(Append(e, x)) = x
           /\ \A k \in 1 .. Len(Append(e, x)) :
                (k \in 1 .. Len(e) /\ Append(e, x)[k] = e[k]) \/ Append(e, x)[k] = x
<1> DEFINE f == Append(e, x)
<1>1. /\ Len(e) \in Nat /\ IsSeq(f) /\ Len(f) = Len(e) + 1 /\ f[Len(e) + 1] = x
      /\ \A k \in 1 .. Len(e) : f[k] = e[k]
  BY SeqLemma
<1>2. DOMAIN f = 1 .. Len(f)
  BY <1>1, SeqLemma
<1> HIDE DEF f
<1>3. Len(e) + 1 \in 1 .. Len(f) /\ \A k \in 1 .. Len(f) : k \in 1 .. Len(e) \/ k = Len(e) + 1
  BY <1>1, SMT
<1>4. Last(f) = x
  BY <1>1, Zenon DEF Last
<1> QED
  BY <1>1, <1>2, <1>3, <1>4, Zenon DEF Known, f

(* A string that decodes is registered, or known already.                  *)
LEMMA AddString ==
    ASSUME NEW d, GoodData(d), NEW bytes, Decodes(bytes)
    PROVE  /\ GoodData(add_string_literal(d, bytes))
           /\ Literal(string_label(add_string_literal(d, bytes), bytes))
<1>1. GoodStrings(d.strings)
  BY Zenon DEF GoodData
<1>2. CASE Known(d.strings, bytes)
  <2>1. add_string_literal(d, bytes) = d
    BY <1>2, Zenon DEF add_string_literal
  <2>2. Literal(LabelOf(d.strings, bytes))
    BY <1>1, <1>2, KnownLabel, Zenon DEF GoodStrings
  <2> QED
    BY <2>1, <2>2, Zenon DEF string_label
<1>3. CASE ~Known(d.strings, bytes)
  <2> DEFINE e == d.strings
             chars == utf8_to_utf32(bytes) \o <<0, 0>>
             x == [label |-> <<"str", Len(e)>>, key |-> bytes, chars |-> chars]
             f == Append(e, x)
  <2>1. add_string_literal(d, bytes) = [d EXCEPT !.strings = f]
    BY <1>3, Zenon DEF add_string_literal
  <2>2. IsSeq(chars)
    <3>1. IsSeq(utf8_to_utf32(bytes))
      BY Zenon DEF Decodes, IsSeq
    <3>2. <<0, 0>> \in Seq(Nat)
      OBVIOUS
    <3>3. IsSeq(<<0, 0>>)
      BY <3>2, Zenon DEF IsSeq
    <3> QED
      BY <3>1, <3>3, CatLemma, Zenon
  <2> HIDE DEF chars
  <2>3. Literal(x.label) /\ x.chars = chars /\ x.key = bytes
    BY LiteralLabels, Zenon
  <2> HIDE DEF x
  <2>4. GoodStrings(f) /\ Known(f, bytes)
    BY <1>1, <2>2, <2>3, KnownLast, Zenon DEF GoodStrings
  <2>5. Literal(LabelOf(f, bytes))
    BY <2>4, KnownLabel, Zenon DEF GoodStrings
  <2> HIDE DEF f, e
  <2> DEFINE g == [d EXCEPT !.strings = f]
  <2>6. /\ g.strings = f /\ g.floats = d.floats /\ g.tables = d.tables /\ g.ftables = d.ftables
        /\ g.lists = d.lists /\ DOMAIN g = DOMAIN d
    BY Zenon DEF GoodData, DataFields
  <2> HIDE DEF g
  <2>7. GoodData(g)
    BY <2>4, <2>6, Zenon DEF GoodData
  <2>8. Literal(string_label(g, bytes))
    BY <2>5, <2>6, Zenon DEF string_label
  <2> QED
    BY <2>1, <2>7, <2>8, Zenon DEF g
<1> QED
  BY <1>2, <1>3

(* So is a float.                                                          *)
LEMMA AddFloat ==
    ASSUME NEW d, GoodData(d), NEW v
    PROVE  GoodData(add_float_literal(d, v)) /\ Literal(float_label(add_float_literal(d, v), v))
<1>1. GoodFloats(d.floats)
  BY Zenon DEF GoodData
<1>2. CASE Known(d.floats, v)
  <2>1. add_float_literal(d, v) = d
    BY <1>2, Zenon DEF add_float_literal
  <2>2. Literal(LabelOf(d.floats, v))
    BY <1>1, <1>2, KnownLabel, Zenon DEF GoodFloats
  <2> QED
    BY <2>1, <2>2, Zenon DEF float_label
<1>3. CASE ~Known(d.floats, v)
  <2> DEFINE e == d.floats
             x == [label |-> <<"float", Len(e)>>, key |-> v]
             f == Append(e, x)
  <2>1. add_float_literal(d, v) = [d EXCEPT !.floats = f]
    BY <1>3, Zenon DEF add_float_literal
  <2>3. Literal(x.label) /\ x.key = v
    BY LiteralLabels, Zenon
  <2> HIDE DEF x
  <2>4. GoodFloats(f) /\ Known(f, v)
    BY <1>1, <2>3, KnownLast, Zenon DEF GoodFloats
  <2>5. Literal(LabelOf(f, v))
    BY <2>4, KnownLabel, Zenon DEF GoodFloats
  <2> HIDE DEF f, e
  <2> DEFINE g == [d EXCEPT !.floats = f]
  <2>6. /\ g.floats = f /\ g.strings = d.strings /\ g.tables = d.tables /\ g.ftables = d.ftables
        /\ g.lists = d.lists /\ DOMAIN g = DOMAIN d
    BY Zenon DEF GoodData, DataFields
  <2> HIDE DEF g
  <2>7. GoodData(g)
    BY <2>4, <2>6, Zenon DEF GoodData
  <2>8. Literal(float_label(g, v))
    BY <2>5, <2>6, Zenon DEF float_label
  <2> QED
    BY <2>1, <2>7, <2>8, Zenon DEF g
<1> QED
  BY <1>2, <1>3

(* Tables are always new.                                                  *)
LEMMA AddTable ==
    ASSUME NEW d, GoodData(d), NEW quads, IsSeq(quads)
    PROVE  /\ GoodData(add_table_literal(d, quads))
           /\ Literal(Last(add_table_literal(d, quads).tables).label)
           /\ GoodData(add_float_table_literal(d, quads))
           /\ Literal(Last(add_float_table_literal(d, quads).ftables).label)
<1>1. GoodTables(d.tables) /\ GoodTables(d.ftables)
  BY Zenon DEF GoodData
<1>2. ASSUME NEW e, GoodTables(e), NEW name \in {"tbl", "ftbl"}
      PROVE  LET f == Append(e, [label |-> <<name, Len(e)>>, quads |-> quads])
             IN  GoodTables(f) /\ Literal(Last(f).label)
  <2> DEFINE x == [label |-> <<name, Len(e)>>, quads |-> quads]
  <2>1. Literal(x.label) /\ x.quads = quads
    BY LiteralLabels, Zenon
  <2> HIDE DEF x
  <2>2. GoodTables(Append(e, x)) /\ Last(Append(e, x)) = x
    BY <1>2, <2>1, KnownLast, Zenon DEF GoodTables
  <2> QED
    BY <2>1, <2>2, Zenon DEF x
<1>3. /\ GoodData(add_table_literal(d, quads))
      /\ Literal(Last(add_table_literal(d, quads).tables).label)
  <2> DEFINE f == Append(d.tables, [label |-> <<"tbl", Len(d.tables)>>, quads |-> quads])
             g == [d EXCEPT !.tables = f]
  <2>1. GoodTables(f) /\ Literal(Last(f).label)
    BY <1>1, <1>2, Zenon
  <2>2. add_table_literal(d, quads) = g
    BY Zenon DEF add_table_literal
  <2> HIDE DEF f
  <2>3. /\ g.tables = f /\ g.strings = d.strings /\ g.floats = d.floats /\ g.ftables = d.ftables
        /\ g.lists = d.lists /\ DOMAIN g = DOMAIN d
    BY Zenon DEF GoodData, DataFields
  <2> HIDE DEF g
  <2>4. GoodData(g)
    BY <2>1, <2>3, Zenon DEF GoodData
  <2> QED
    BY <2>1, <2>2, <2>3, <2>4, Zenon
<1>4. /\ GoodData(add_float_table_literal(d, quads))
      /\ Literal(Last(add_float_table_literal(d, quads).ftables).label)
  <2> DEFINE f == Append(d.ftables, [label |-> <<"ftbl", Len(d.ftables)>>, quads |-> quads])
             g == [d EXCEPT !.ftables = f]
  <2>1. GoodTables(f) /\ Literal(Last(f).label)
    BY <1>1, <1>2, Zenon
  <2>2. add_float_table_literal(d, quads) = g
    BY Zenon DEF add_float_table_literal
  <2> HIDE DEF f
  <2>3. /\ g.ftables = f /\ g.strings = d.strings /\ g.floats = d.floats /\ g.tables = d.tables
        /\ g.lists = d.lists /\ DOMAIN g = DOMAIN d
    BY Zenon DEF GoodData, DataFields
  <2> HIDE DEF g
  <2>4. GoodData(g)
    BY <2>1, <2>3, Zenon DEF GoodData
  <2> QED
    BY <2>1, <2>2, <2>3, <2>4, Zenon
<1> QED
  BY <1>3, <1>4

(* The state of the loops over the elements of a list.                     *)
GoodAcc(acc) == GoodData(acc.dg) /\ IsSeq(acc.nodes)

(* A loop whose turns keep it so.                                          *)
LEMMA AccLoop ==
    ASSUME NEW loop, NEW l, NEW base, NEW seq, IsSeq(seq), NEW it,
           IsFold(it, loop, l, base, seq, Len(seq)), GoodAcc(base),
           \A k \in 1 .. Len(seq) : \A acc : GoodAcc(acc) => GoodAcc(Turn(loop, l, acc, seq[k]))
    PROVE  GoodAcc(it[DOMAIN seq])
<1> DEFINE n == Len(seq)
<1>1. PICK r : Rounds(r, loop, l, base, seq) /\ r[Len(seq)] = it[DOMAIN seq]
  BY FoldLemma, Zenon
<1> DEFINE D == {k \in 0 .. n : GoodAcc(r[k])}
<1>2. n \in Nat
  BY SeqLemma
<1>3. 0 \in 0 .. n /\ n \in 0 .. n /\ \A k \in 0 .. n - 1 : k + 1 \in 1 .. n /\ k + 1 \in 0 .. n
  BY <1>2, SMT
<1>4. 0 \in D
  BY <1>1, <1>3, Zenon DEF Rounds
<1>5. ASSUME NEW k \in 0 .. n - 1, k \in D PROVE k + 1 \in D
  BY <1>1, <1>3, <1>5, Zenon DEF Rounds
<1>6. n \in D
  <2> HIDE DEF D
  <2> QED
    BY <1>2, <1>3, <1>4, <1>5, CountUp, Zenon
<1> QED
  BY <1>1, <1>6, Zenon

(* The elements of a list in a list.                                       *)
LEMMA FlatTurn ==
    ASSUME NEW acc, GoodAcc(acc), NEW e, e.t = "string" => Decodes(e.v)
    PROVE  GoodAcc(Turn("flat", <<>>, acc, e))
<1> DEFINE dg == CASE e.t = "string" -> add_string_literal(acc.dg, e.v)
                   [] e.t = "list" -> acc.dg
                   [] OTHER -> acc.dg
<1>1. GoodData(dg)
  <2>1. CASE e.t = "string"
    <3>1. dg = add_string_literal(acc.dg, e.v)
      BY <2>1
    <3> QED
      BY <2>1, <3>1, AddString, Zenon DEF GoodAcc
  <2>2. CASE e.t # "string"
    <3>1. dg = acc.dg
      BY <2>2
    <3> QED
      BY <3>1, Zenon DEF GoodAcc
  <2> QED
    BY <2>1, <2>2
<1>2. \E x : Turn("flat", <<>>, acc, e) = [dg |-> dg, nodes |-> Append(acc.nodes, x)]
  <2>1. Turn("flat", <<>>, acc, e) = AddElement(LAMBDA d, m : d, LAMBDA m : <<>>, acc, e)
    BY DEF Turn
  <2> QED
    BY <2>1, Zenon DEF AddElement
<1> HIDE DEF dg
<1>3. PICK x : Turn("flat", <<>>, acc, e) = [dg |-> dg, nodes |-> Append(acc.nodes, x)]
  BY <1>2
<1>4. IsSeq(Append(acc.nodes, x))
  BY SeqLemma, Zenon DEF GoodAcc
<1>5. /\ Turn("flat", <<>>, acc, e).dg = dg
      /\ Turn("flat", <<>>, acc, e).nodes = Append(acc.nodes, x)
  BY <1>3
<1> QED
  BY ONLY <1>1, <1>4, <1>5, Zenon DEF GoodAcc

(* A new list is the last of the lists.                                    *)
LEMMA NewList ==
    ASSUME NEW d, GoodData(d), NEW x, Literal(x.label), IsSeq(x.nodes)
    PROVE  /\ GoodData([d EXCEPT !.lists = Append(@, x)])
           /\ Known([d EXCEPT !.lists = Append(@, x)].lists, x.key)
<1> DEFINE f == Append(d.lists, x)
           g == [d EXCEPT !.lists = f]
<1>1. GoodLists(d.lists)
  BY Zenon DEF GoodData
<1>2. GoodLists(f) /\ Known(f, x.key)
  BY <1>1, KnownLast, Zenon DEF GoodLists
<1>3. [d EXCEPT !.lists = Append(@, x)] = g
  BY Zenon
<1> HIDE DEF f
<1>4. /\ g.lists = f /\ g.strings = d.strings /\ g.floats = d.floats /\ g.tables = d.tables
      /\ g.ftables = d.ftables /\ DOMAIN g = DOMAIN d
  BY Zenon DEF GoodData, DataFields
<1> HIDE DEF g
<1>5. GoodData(g)
  BY <1>2, <1>4, Zenon DEF GoodData
<1> QED
  BY <1>2, <1>3, <1>4, <1>5, Zenon

(* The data generator before the first element: the next number is taken.  *)
LEMMA NextTaken ==
    ASSUME NEW d, GoodData(d)
    PROVE  GoodAcc([dg |-> [d EXCEPT !.next = @ + 1], nodes |-> <<>>])
<1> DEFINE g == [d EXCEPT !.next = @ + 1]
<1>1. /\ g.lists = d.lists /\ g.strings = d.strings /\ g.floats = d.floats
      /\ g.tables = d.tables /\ g.ftables = d.ftables /\ DOMAIN g = DOMAIN d
  BY Zenon DEF GoodData, DataFields
<1> HIDE DEF g
<1>2. GoodData(g)
  BY <1>1, Zenon DEF GoodData
<1>3. IsSeq(<<>>)
  BY GoodShort, Zenon DEF Good
<1> QED
  BY <1>2, <1>3, Zenon DEF GoodAcc, g

(* A list in a list.                                                       *)
LEMMA AddFlat ==
    ASSUME NEW d, GoodData(d), NEW list, Flat(list)
    PROVE  GoodData(AddFlatList(d, list))
<1> DEFINE base == [dg |-> [d EXCEPT !.next = @ + 1], nodes |-> <<>>]
           all == FoldFlat(base, list)
           x == [label |-> <<"list", d.next>>, id |-> d.next, key |-> FlatKey(list),
                 nodes |-> all.nodes]
<1>1. AddFlatList(d, list) = IF Known(d.lists, FlatKey(list)) THEN d
                             ELSE [all.dg EXCEPT !.lists = Append(@, x)]
  BY Zenon DEF AddFlatList, AddListWith, FoldFlat
<1>2. GoodAcc(base)
  BY NextTaken, Zenon
<1> HIDE DEF base
<1>3. IsSeq(list) /\ \A k \in 1 .. Len(list) : list[k].t = "string" => Decodes(list[k].v)
  <2>1. IsSeq(list)
    BY Zenon DEF Flat, IsSeq
  <2>2. DOMAIN list = 1 .. Len(list)
    BY <2>1, SeqLemma
  <2> QED
    BY <2>1, <2>2, Zenon DEF Flat, Range
<1>4. PICK it : /\ IsFold(it, "flat", <<>>, base, list, Len(list))
                /\ FoldFlat(base, list) = it[DOMAIN list]
  BY <1>3, FlatLoop
<1>5. \A k \in 1 .. Len(list) : \A acc :
        GoodAcc(acc) => GoodAcc(Turn("flat", <<>>, acc, list[k]))
  BY <1>3, FlatTurn, Zenon
<1>6. GoodAcc(it[DOMAIN list])
  BY <1>2, <1>3, <1>4, <1>5, AccLoop, Zenon
<1>7. GoodData(all.dg) /\ IsSeq(all.nodes)
  BY <1>4, <1>6, Zenon DEF GoodAcc
<1> HIDE DEF all
<1>8. Literal(x.label) /\ x.nodes = all.nodes
  BY LiteralLabels, Zenon
<1> HIDE DEF x
<1>9. GoodData([all.dg EXCEPT !.lists = Append(@, x)])
  BY <1>7, <1>8, NewList, Zenon
<1> QED
  BY <1>1, <1>9, Zenon

(* The elements of a list.                                                 *)
LEMMA NestedTurn ==
    ASSUME NEW acc, GoodAcc(acc), NEW e, e.t = "string" => Decodes(e.v),
           e.t = "list" => Flat(e.v)
    PROVE  GoodAcc(Turn("nested", <<>>, acc, e))
<1> DEFINE dg == CASE e.t = "string" -> add_string_literal(acc.dg, e.v)
                   [] e.t = "list" -> AddFlatList(acc.dg, e.v)
                   [] OTHER -> acc.dg
<1>1. GoodData(dg)
  <2>1. CASE e.t = "string"
    <3>1. dg = add_string_literal(acc.dg, e.v)
      BY <2>1
    <3> QED
      BY <2>1, <3>1, AddString, Zenon DEF GoodAcc
  <2>2. CASE e.t = "list"
    <3>1. dg = AddFlatList(acc.dg, e.v)
      BY <2>2
    <3> QED
      BY <2>2, <3>1, AddFlat, Zenon DEF GoodAcc
  <2>3. CASE e.t \notin {"string", "list"}
    <3>1. dg = acc.dg
      BY <2>3
    <3> QED
      BY <3>1, Zenon DEF GoodAcc
  <2> QED
    BY <2>1, <2>2, <2>3
<1>2. \E x : Turn("nested", <<>>, acc, e) = [dg |-> dg, nodes |-> Append(acc.nodes, x)]
  <2>1. Turn("nested", <<>>, acc, e) = AddElement(AddFlatList, FlatKey, acc, e)
    BY DEF Turn
  <2> QED
    BY <2>1, Zenon DEF AddElement
<1> HIDE DEF dg
<1>3. PICK x : Turn("nested", <<>>, acc, e) = [dg |-> dg, nodes |-> Append(acc.nodes, x)]
  BY <1>2
<1>4. IsSeq(Append(acc.nodes, x))
  BY SeqLemma, Zenon DEF GoodAcc
<1>5. /\ Turn("nested", <<>>, acc, e).dg = dg
      /\ Turn("nested", <<>>, acc, e).nodes = Append(acc.nodes, x)
  BY <1>3
<1> QED
  BY ONLY <1>1, <1>4, <1>5, Zenon DEF GoodAcc

(* A list is registered with what it contains, or known already.           *)
LEMMA AddList ==
    ASSUME NEW d, GoodData(d), NEW list \in Lists
    PROVE  GoodData(add_list_literal(d, list)) /\ Literal(list_label(add_list_literal(d, list), list))
<1> DEFINE base == [dg |-> [d EXCEPT !.next = @ + 1], nodes |-> <<>>]
           all == FoldNested(base, list)
           key == generate_list_key(list)
           x == [label |-> <<"list", d.next>>, id |-> d.next, key |-> key,
                 nodes |-> all.nodes]
<1>1. add_list_literal(d, list) = IF Known(d.lists, key) THEN d
                                  ELSE [all.dg EXCEPT !.lists = Append(@, x)]
  BY Zenon DEF add_list_literal, AddListWith, FoldNested
<1>2. GoodAcc(base)
  BY NextTaken, Zenon
<1> HIDE DEF base
<1>3. IsSeq(list) /\ \A k \in 1 .. Len(list) : /\ list[k].t = "string" => Decodes(list[k].v)
                                               /\ list[k].t = "list" => Flat(list[k].v)
  <2>1. IsSeq(list)
    BY LiteralsAssumption, Zenon DEF Flat, IsSeq
  <2>2. DOMAIN list = 1 .. Len(list)
    BY <2>1, SeqLemma
  <2>3. \A k \in 1 .. Len(list) : list[k] \in Range(list)
    BY <2>2, Zenon DEF Range
  <2>4. \A e \in Range(list) : (e.t = "string" => Decodes(e.v)) /\ (e.t = "list" => Flat(e.v))
    <3>1. Flat(list) /\ \A e \in Range(list) : e.t = "list" => Flat(e.v)
      BY LiteralsAssumption, Zenon
    <3> QED
      BY <3>1, Zenon DEF Flat
  <2> QED
    BY <2>1, <2>3, <2>4, Zenon
<1>4. PICK it : /\ IsFold(it, "nested", <<>>, base, list, Len(list))
                /\ FoldNested(base, list) = it[DOMAIN list]
  BY <1>3, NestedLoop
<1>5. \A k \in 1 .. Len(list) : \A acc :
        GoodAcc(acc) => GoodAcc(Turn("nested", <<>>, acc, list[k]))
  BY <1>3, NestedTurn, Zenon
<1>6. GoodAcc(it[DOMAIN list])
  BY <1>2, <1>3, <1>4, <1>5, AccLoop, Zenon
<1>7. GoodData(all.dg) /\ IsSeq(all.nodes)
  BY <1>4, <1>6, Zenon DEF GoodAcc
<1> HIDE DEF all, key
<1>8. Literal(x.label) /\ x.nodes = all.nodes /\ x.key = key
  BY LiteralLabels, Zenon
<1> HIDE DEF x
<1>9. GoodData(add_list_literal(d, list)) /\ Known(add_list_literal(d, list).lists, key)
  BY <1>1, <1>7, <1>8, NewList, Zenon
<1>10. GoodLists(add_list_literal(d, list).lists)
  BY <1>9, Zenon DEF GoodData
<1>11. Literal(LabelOf(add_list_literal(d, list).lists, key))
  BY <1>9, <1>10, KnownLabel, Zenon DEF GoodLists
<1> QED
  BY <1>9, <1>11, Zenon DEF list_label, key

-----------------------------------------------------------------------------
(* The optimizer. *)

(* A part of a good stream.                                                *)
LEMMA GoodPart ==
    ASSUME NEW s, Good(s), NEW a \in 1 .. Len(s) + 1, NEW b \in a - 1 .. Len(s),
           b \in 1 .. Len(s) => b = Len(s) \/ s[b].opcode # "ADRP"
    PROVE  Good(SubSeq(s, a, b))
<1>1. PICK T : s \in Seq(T)
  BY DEF Good, IsSeq
<1>2. Len(s) \in Nat
  BY <1>1, LenProperties
<1>3. /\ SubSeq(s, a, b) \in Seq(T) /\ Len(SubSeq(s, a, b)) = b - a + 1
      /\ \A i \in 1 .. b - a + 1 : SubSeq(s, a, b)[i] = s[a + i - 1]
  BY <1>1, SubSeqProperties
<1> DEFINE t == SubSeq(s, a, b)
<1>4. ASSUME NEW i \in 1 .. Len(t) PROVE Stands(t, i)
  <2> DEFINE k == a + i - 1
  <2>1. k \in 1 .. Len(s) /\ (i + 1 \in 1 .. Len(t) => a + (i + 1) - 1 = k + 1)
    BY <1>2, <1>3, SMT
  <2>1a. PICK n \in Nat : n = Len(t)
    BY <1>2, <1>3
  <2>1b. n = b - a + 1 /\ i \in 1 .. n
    BY <1>3, <2>1a
  <2>2. i + 1 \notin 1 .. Len(t) => k = b
    <3>1. i + 1 \notin 1 .. n => a + i - 1 = b
      BY ONLY <2>1b, <1>2, n \in Nat, a \in 1 .. Len(s) + 1, b \in a - 1 .. Len(s), SMT
    <3> QED
      BY <2>1a, <3>1, Zenon
  <2>3. t[i] = s[k] /\ (i + 1 \in 1 .. Len(t) => t[i + 1] = s[k + 1])
    BY <1>2, <1>3, <2>1
  <2>4. b = Len(s) /\ k + 1 \in 1 .. Len(s) => i + 1 \in 1 .. Len(t)
    BY <1>2, <1>3, SMT
  <2>5. Stands(s, k)
    BY <2>1, Zenon DEF Good
  <2> HIDE DEF t, k
  <2> QED
    BY <2>1, <2>2, <2>3, <2>4, <2>5, Zenon DEF Stands
<1> QED
  BY <1>3, <1>4, Zenon DEF Good, IsSeq

(* The smallest number of a set is what Min says.                          *)
LEMMA MinLemma ==
    ASSUME NEW T, T \subseteq Nat, T # {}
    PROVE  Min(T) \in T
<1>1. \E n \in T : \A m \in T : n <= m
  BY SmallestLemma
<1> QED
  BY <1>1, Zenon DEF Min

(* What a pattern puts in the place of its window.                         *)
LEMMA TransformLemma ==
    ASSUME NEW s, Good(s), NEW k \in 1 .. Len(s), NEW p, Matches(p, s, k),
           ~wouldBreakLabelReferences(s, k, WindowOf(p))
    PROVE  Good(Transform(p, s, k)) /\ WindowOf(p) \in 1 .. 2 /\ k + WindowOf(p) - 1 <= Len(s)
<1>0. Len(s) \in Nat
  BY SeqLemma DEF Good
<1>1. WindowOf(p) \in 1 .. 2 /\ k + WindowOf(p) - 1 <= Len(s)
  BY DEF WindowOf, Matches
<1>2a. ASSUME NEW j \in 1 .. Len(s), s[j].target = <<>> PROVE Shaped(s[j])
  BY <1>2a, Zenon DEF Good, Stands, Formed, Shaped
<1>2. Shaped(s[k])
  <2>1. k \in k .. (k + WindowOf(p) - 1)
    BY <1>1, SMT
  <2> QED
    BY <1>2a, <2>1, Zenon DEF wouldBreakLabelReferences
<1>3. WindowOf(p) = 2 => Shaped(s[k + 1])
  <2>1. WindowOf(p) = 2 => k + 1 \in 1 .. Len(s) /\ k + 1 \in k .. (k + WindowOf(p) - 1)
    BY <1>0, <1>1
  <2> QED
    BY <1>2a, <2>1, Zenon DEF wouldBreakLabelReferences
<1>4. CASE p = "Identity"
  <2>1. MatchIdentity(s[k])
    BY <1>4 DEF Matches
  <2>2. s[k].dest_reg \in 0 .. 31 /\ s[k].src_reg1 \in 0 .. 31
    BY <1>2, <2>1 DEF MatchIdentity, Shaped, Formed
  <2>3. Transform(p, s, k)
          = <<create_mov_reg(getRegisterName(s[k].dest_reg), getRegisterName(s[k].src_reg1))>>
    BY <1>4 DEF Transform
  <2> QED
    BY <1>1, <2>2, <2>3, MoveShaped, GoodShort, Zenon
<1>5. CASE p \in {"RedundantMove", "SelfMove"}
  <2>1. Transform(p, s, k) = <<>>
    BY <1>5 DEF Transform
  <2> QED
    BY <1>1, <2>1, GoodShort, Zenon
<1>6. CASE p = "AdrFusion"
  <2>1. s[k].target # <<>>
    BY <1>6 DEF Matches, MatchAdrFusion
  <2>2. k \in k .. (k + WindowOf(p) - 1)
    BY <1>1, SMT
  <2> QED
    BY <2>1, <2>2, Zenon DEF wouldBreakLabelReferences
<1>7. CASE p = "LoadAfterStore"
  <2>1. Transform(p, s, k) = <<s[k]>>
    BY <1>7 DEF Transform
  <2> QED
    BY <1>1, <1>2, <2>1, GoodShort, Zenon
<1>8. CASE p = "RedundantLoad"
  <2>1. MatchRedundantLoad(s[k], s[k + 1])
    BY <1>8 DEF Matches
  <2>2. WindowOf(p) = 2
    BY <1>8 DEF WindowOf
  <2>3. s[k].dest_reg \in 0 .. 31 /\ s[k + 1].dest_reg \in 0 .. 31
    BY <1>2, <1>3, <2>1, <2>2 DEF MatchRedundantLoad, Shaped, Formed
  <2>4. Transform(p, s, k)
          = <<s[k], create_mov_reg(getRegisterName(s[k + 1].dest_reg),
                                   getRegisterName(s[k].dest_reg))>>
    BY <1>8 DEF Transform
  <2> QED
    BY <1>1, <1>2, <2>3, <2>4, MoveShaped, GoodShort, Zenon
<1>9. CASE p \in {"DeadStore", "RedundantStore"}
  <2>1. Transform(p, s, k) = <<s[k + 1]>>
    BY <1>9 DEF Transform
  <2>2. WindowOf(p) = 2
    BY <1>9 DEF WindowOf
  <2> QED
    BY <1>1, <1>3, <2>1, <2>2, GoodShort, Zenon
<1>10. CASE p = "CompareZeroBranch"
  <2>1. Transform(p, s, k) = <<s[k], s[k + 1]>>
    BY <1>10 DEF Transform
  <2>2. WindowOf(p) = 2
    BY <1>10 DEF WindowOf
  <2> QED
    BY <1>1, <1>2, <1>3, <2>1, <2>2, GoodShort, Zenon
<1>11. CASE p \notin {"Identity", "RedundantMove", "SelfMove", "AdrFusion", "LoadAfterStore",
                      "RedundantLoad", "DeadStore", "RedundantStore", "CompareZeroBranch"}
  BY <1>11 DEF Matches
<1> QED
  BY <1>4, <1>5, <1>6, <1>7, <1>8, <1>9, <1>10, <1>11

(* A rewrite keeps the stream good.                                        *)
LEMMA GoodRewrite ==
    ASSUME NEW s, Good(s), NEW k \in 1 .. Len(s), Applicable(s, k) # {}
    PROVE  Good(Rewrite(s, k))
<1> DEFINE m == Min(Applicable(s, k))
           p == Patterns[m]
<1>1. DOMAIN Patterns \subseteq Nat
  BY DEF Patterns
<1>2. m \in Applicable(s, k)
  <2>1. Applicable(s, k) \subseteq Nat
    BY <1>1, Zenon DEF Applicable
  <2> QED
    BY <2>1, MinLemma, Zenon
<1> HIDE DEF m
<1>3. Matches(p, s, k) /\ ~wouldBreakLabelReferences(s, k, WindowOf(p))
  BY <1>2, Zenon DEF Applicable
<1> HIDE DEF p
<1>4. Good(Transform(p, s, k)) /\ WindowOf(p) \in 1 .. 2 /\ k + WindowOf(p) - 1 <= Len(s)
  BY <1>3, TransformLemma, Zenon
<1>5. Len(s) \in Nat
  BY SeqLemma DEF Good
<1>6. /\ 1 \in 1 .. Len(s) + 1 /\ k - 1 \in 1 - 1 .. Len(s)
      /\ k + WindowOf(p) \in 1 .. Len(s) + 1 /\ Len(s) \in (k + WindowOf(p)) - 1 .. Len(s)
  BY <1>4, <1>5, SMT
<1>6a. ASSUME k - 1 \in 1 .. Len(s) PROVE s[k - 1].opcode # "ADRP"
  <2>1. (k - 1) + 1 = k /\ k \in k .. (k + WindowOf(p) - 1)
    BY <1>4, <1>5, SMT
  <2>2. s[k].target = <<>>
    BY <1>3, <2>1, Zenon DEF wouldBreakLabelReferences
  <2>3. Stands(s, k - 1)
    BY <1>6a, Zenon DEF Good
  <2>4. s[k - 1].opcode = "ADRP" => s[k].target = s[k - 1].target /\ s[k - 1].target # <<>>
    BY <2>1, <2>3 DEF Stands, Low, Formed
  <2> QED
    BY <2>2, <2>4, Zenon
<1>7. Good(SubSeq(s, 1, k - 1)) /\ Good(SubSeq(s, k + WindowOf(p), Len(s)))
  BY <1>6, <1>6a, GoodPart, Zenon
<1>8. Rewrite(s, k) = SubSeq(s, 1, k - 1) \o Transform(p, s, k) \o SubSeq(s, k + WindowOf(p), Len(s))
  BY Zenon DEF Rewrite, p, m
<1> QED
  BY <1>4, <1>7, <1>8, GoodCat, Zenon

-----------------------------------------------------------------------------
(* The linker. *)

Names(s) == {s[k].target : k \in Defines(s)}
Unique(s) == \A j, k \in Defines(s) : s[j].target = s[k].target => j = k
(* The first pass changes addresses only.                                  *)
Mirrors(t, s) ==
    /\ DOMAIN t = DOMAIN s
    /\ \A k \in DOMAIN s : t[k].relocation = s[k].relocation /\ t[k].target = s[k].target

(* There are as many names as definitions exactly when none is defined     *)
(* twice.                                                                  *)
LEMMA UniqueLemma ==
    ASSUME NEW s, Good(s)
    PROVE  Cardinality(Names(s)) = Cardinality(Defines(s)) <=> Unique(s)
<1> DEFINE f == [k \in Defines(s) |-> s[k].target]
<1>1. IsFiniteSet(Defines(s))
  <2>1. Len(s) \in Nat /\ DOMAIN s = 1 .. Len(s)
    BY SeqLemma DEF Good
  <2>2. IsFiniteSet(1 .. Len(s))
    BY <2>1, FS_Interval
  <2>3. Defines(s) \subseteq 1 .. Len(s)
    BY <2>1, Zenon DEF Defines
  <2> QED
    BY <2>2, <2>3, FS_Subset
<1>2. f \in Surjection(Defines(s), Names(s))
  BY Zenon DEF Surjection, Names
<1>3. f \in Injection(Defines(s), Names(s)) <=> Unique(s)
  <2>1. f \in [Defines(s) -> Names(s)]
    BY Zenon DEF Names
  <2>2. \A k \in Defines(s) : f[k] = s[k].target
    BY Zenon
  <2> HIDE DEF f
  <2> QED
    BY <2>1, <2>2, Zenon DEF Injection, IsInjective, Unique
<1> HIDE DEF f
<1> QED
  BY <1>1, <1>2, <1>3, FS_Surjection

(* Pass 1 succeeds exactly when no label is defined twice, and defines     *)
(* every label of the stream.                                              *)
LEMMA PassOne ==
    ASSUME NEW s, Good(s), NEW code_base, NEW data_base
    PROVE  LET one == assignAddressesAndResolveLabels(s, <<>>, code_base, data_base)
           IN  /\ one.ok <=> Unique(s)
               /\ DOMAIN one.labels = Names(s)
               /\ Mirrors(one.stream, s)
<1> DEFINE start == SegmentStarts(s, code_base, data_base)
           at == [n \in Names(s) \cup DOMAIN <<>> |->
                     IF n \in Names(s)
                     THEN Cursor(s, CHOOSE k \in Defines(s) : s[k].target = n, start)
                     ELSE <<>>[n]]
           t == [k \in DOMAIN s |-> IF Emits(s[k])
                                    THEN [s[k] EXCEPT !.address = Cursor(s, k, start)]
                                    ELSE s[k]]
           one == [ok |-> /\ Cardinality(Names(s)) = Cardinality(Defines(s))
                          /\ Names(s) \cap DOMAIN <<>> = {},
                   stream |-> t, labels |-> at]
<1>1. assignAddressesAndResolveLabels(s, <<>>, code_base, data_base) = one
  BY Zenon DEF assignAddressesAndResolveLabels, Names, Defines
<1>2. DOMAIN <<>> = {}
  OBVIOUS
<1>3. one.ok <=> Unique(s)
  BY <1>2, UniqueLemma, Zenon
<1>4. DOMAIN one.labels = Names(s)
  <2>1. DOMAIN at = Names(s) \cup DOMAIN <<>>
    BY Zenon
  <2> HIDE DEF at
  <2> QED
    BY <1>2, <2>1, Zenon
<1>5. Mirrors(t, s)
  <2>1. ASSUME NEW k \in DOMAIN s
        PROVE  t[k].relocation = s[k].relocation /\ t[k].target = s[k].target
    <3>1. {"relocation", "target"} \subseteq DOMAIN s[k]
      <4>1. DOMAIN s = 1 .. Len(s)
        BY SeqLemma DEF Good
      <4>2. Formed(s[k])
        BY <4>1, Zenon DEF Good, Stands
      <4> QED
        BY <4>2, Zenon DEF Formed
    <3> HIDE DEF start
    <3>2. t[k] = IF Emits(s[k]) THEN [s[k] EXCEPT !.address = Cursor(s, k, start)] ELSE s[k]
      BY Zenon
    <3> HIDE DEF t
    <3> QED
      BY <3>1, <3>2, Zenon
  <2> QED
    BY <2>1, Zenon DEF Mirrors
<1> HIDE DEF t, at
<1>6. one.stream = t
  BY Zenon
<1> QED
  BY <1>1, <1>3, <1>4, <1>5, <1>6, Zenon

(* Pass 2 succeeds exactly when every reference has a definition.          *)
LEMMA PassTwo ==
    ASSUME NEW s, Good(s), Unique(s), NEW t, Mirrors(t, s), NEW l, DOMAIN l = Names(s)
    PROVE  performRelocations(t, l).ok <=> Linkable(s)
<1>1. DOMAIN s = 1 .. Len(s)
  BY SeqLemma DEF Good
<1>2. ASSUME NEW k \in DOMAIN s
      PROVE  Relocated(t[k]) <=> s[k].relocation # "NONE"
  <2>1. Formed(s[k])
    BY <1>1, Zenon DEF Good, Stands
  <2> QED
    BY <2>1, Zenon DEF Formed, Relocated, Mirrors
<1>3. ASSUME NEW k \in DOMAIN s
      PROVE  Resolves(t[k].target, l) <=>
               \/ is_function_registered(s[k].target)
               \/ \E j \in Defines(s) : s[j].target = s[k].target
  <2>1. t[k].target = s[k].target
    BY Zenon DEF Mirrors
  <2>2. s[k].target \in DOMAIN l <=> \E j \in Defines(s) : s[j].target = s[k].target
    BY Zenon DEF Names
  <2> QED
    BY <2>1, <2>2, Zenon DEF Resolves
<1>4. performRelocations(t, l).ok
        = (\A k \in DOMAIN t : Relocated(t[k]) => Resolves(t[k].target, l))
  BY Zenon DEF performRelocations
<1>5. DOMAIN t = DOMAIN s
  BY Zenon DEF Mirrors
<1>6. (\A k \in DOMAIN t : Relocated(t[k]) => Resolves(t[k].target, l))
        <=> \A k \in DOMAIN s : s[k].relocation # "NONE" =>
              \/ is_function_registered(s[k].target)
              \/ \E j \in Defines(s) : s[j].target = s[k].target
  BY <1>2, <1>3, <1>5, Zenon
<1> QED
  BY <1>4, <1>6, Zenon DEF Linkable, Unique

-----------------------------------------------------------------------------
(* What the code generator emits. *)

(* A runtime function is registered under the name it is called by.        *)
LEMMA UpperLemma ==
    /\ \A f \in Range(RuntimeFunctions) : to_upper(f) \in Range(RuntimeFunctions)
    /\ \A f : is_function_registered(<<"name", f>>) => to_upper(f) \in Range(RuntimeFunctions)
<1>1. \A f \in Range(RuntimeFunctions) : to_upper(f) \in Range(RuntimeFunctions)
  BY NamesAreUpper, Zenon DEF to_upper
<1>2. \A f : <<"name", f>>[2] = f
  OBVIOUS
<1>3. \A f : is_function_registered(<<"name", f>>) => to_upper(f) \in Range(RuntimeFunctions)
  BY <1>2, Zenon DEF is_function_registered
<1> QED
  BY <1>1, <1>3, Zenon

(* A direct call, and one through the table.                               *)
LEMMA GoodCalls ==
    ASSUME NEW s, Good(s), NEW f
    PROVE  /\ Good(DirectCall(s, f))
           /\ to_upper(f) \in Range(RuntimeFunctions) => Good(ThroughTable(s, f))
<1>1. Good(DirectCall(s, f))
  <2>1. <<"name", f>> # <<>>
    BY SMT
  <2>2. Shaped(create_branch_with_link(<<"name", f>>))
    BY <2>1, BranchShaped, Zenon
  <2> QED
    BY <2>2, GoodAppend, Zenon DEF DirectCall
<1>2. ASSUME to_upper(f) \in Range(RuntimeFunctions) PROVE Good(ThroughTable(s, f))
  <2> DEFINE i == create_ldr_imm(<<"x", 9>>, <<"x", 19>>, get_function_offset(<<"name", f>>))
             j == [create_branch_with_link_register(<<"x", 9>>) EXCEPT !.target = <<"name", f>>]
  <2>1. Shaped(i)
    BY <1>2, PointerShaped, Zenon
  <2>2. Shaped(j)
    BY OtherShaped, Zenon
  <2>3. ThroughTable(s, f) = s \o <<i, j>>
    BY Zenon DEF ThroughTable
  <2> HIDE DEF i, j
  <2>4. Good(<<i, j>>)
    BY <2>1, <2>2, GoodShort, Zenon
  <2> QED
    BY <2>3, <2>4, GoodCat, Zenon
<1> QED
  BY <1>1, <1>2, Zenon

(* The address of a literal, and what uses it.                             *)
LEMMA GoodAddress ==
    ASSUME NEW s, Good(s), NEW label, Literal(label), NEW use, Good(use)
    PROVE  Good(s \o AddressOf(label, use))
<1> DEFINE i == create_adrp(<<"x", 0>>, label)
           j == create_add_literal(<<"x", 0>>, <<"x", 0>>, label)
<1>1. Formed(i) /\ Shaped(j) /\ Low(j, i)
  BY LiteralShaped, Zenon
<1>2. AddressOf(label, use) = <<i, j>> \o use
  BY Zenon DEF AddressOf
<1> HIDE DEF i, j
<1>3. Good(<<i, j>>)
  BY <1>1, GoodPair, Zenon
<1>4. Good(<<i, j>> \o use)
  BY <1>3, GoodCat, Zenon
<1> QED
  BY <1>2, <1>4, GoodCat, Zenon

(* The uses.                                                               *)
LEMMA GoodUses ==
    /\ Good(SkipLength) /\ Good(<<create_ldr_fp_imm(<<"d", 0>>, <<"x", 0>>, 0)>>)
    /\ Good(<<create_branch_with_link(<<"name", "DEEPCOPYLITERALLIST">>)>>)
<1>1. <<"name", "DEEPCOPYLITERALLIST">> # <<>>
  BY SMT
<1>2. Shaped(create_branch_with_link(<<"name", "DEEPCOPYLITERALLIST">>))
  BY <1>1, BranchShaped, Zenon
<1>3. /\ Shaped(create_add_imm(<<"x", 0>>, <<"x", 0>>, 8))
      /\ Shaped(create_ldr_fp_imm(<<"d", 0>>, <<"x", 0>>, 0))
  <2>1. Literal(<<"str", 0>>)
    BY LiteralLabels, Zenon
  <2> QED
    BY <2>1, LiteralShaped, Zenon
<1> QED
  BY <1>1, <1>2, <1>3, GoodShort, Zenon DEF SkipLength

(* A short-circuit AND, a loop, and a static declaration.                  *)
LEMMA GoodOthers ==
    ASSUME NEW s, Good(s), NEW n
    PROVE  /\ \A label : Good(define_label(s, label))
           /\ Good(add_data64(define_label(s, <<"L", n>>), Quad(5), <<"L", n>>, "DATA"))
           /\ Good(define_label(s, <<"L", n>>) \o
                     <<opt_create_cbz(<<"x", 1>>, <<"L", n>>),
                       create_branch_unconditional(<<"L", n>>)>>)
           /\ LET directive == [Instr("DIRECTIVE", {}) EXCEPT !.text = "quad"]
              IN  Good(s \o
                    <<create_cmp_imm(<<"x", 0>>, 0), create_branch_conditional("EQ", <<"L", n>>),
                      create_branch_unconditional(<<"end", n>>), directive,
                      create_movz_imm(<<"x", 0>>, 0, 0), directive>>)
<1>0. "CODE" \in Segments /\ "DATA" \in Segments
  BY DEF Segments
<1>1. \A label : Good(define_label(s, label))
  BY <1>0, GoodEmits, Zenon DEF define_label
<1>2. Good(add_data64(define_label(s, <<"L", n>>), Quad(5), <<"L", n>>, "DATA"))
  BY <1>0, <1>1, GoodEmits, Zenon
<1>3. <<"L", n>> # <<>> /\ <<"end", n>> # <<>>
  BY SMT
<1>4. /\ Shaped(opt_create_cbz(<<"x", 1>>, <<"L", n>>))
      /\ Shaped(create_branch_unconditional(<<"L", n>>))
      /\ Shaped(create_branch_unconditional(<<"end", n>>))
      /\ Shaped(create_branch_conditional("EQ", <<"L", n>>))
  BY <1>3, LiteralLabels, BranchShaped, Zenon
<1>5. Good(define_label(s, <<"L", n>>) \o
             <<opt_create_cbz(<<"x", 1>>, <<"L", n>>), create_branch_unconditional(<<"L", n>>)>>)
  BY <1>1, <1>4, GoodShort, GoodCat, Zenon
<1>6. ASSUME NEW a, NEW b, NEW c, NEW d, NEW e,
             Shaped(a), Shaped(b), Shaped(c), Shaped(d), Shaped(e)
      PROVE  Good(<<a, b, c, d, e, d>>)
  <2>1. <<a, b, c, d, e, d>> = (<<a, b>> \o <<c, d>>) \o <<e, d>>
    OBVIOUS
  <2>2. Good(<<a, b>>) /\ Good(<<c, d>>) /\ Good(<<e, d>>)
    BY <1>6, GoodShort, Zenon
  <2> QED
    BY <2>1, <2>2, GoodCat, Zenon
<1>7. LET directive == [Instr("DIRECTIVE", {}) EXCEPT !.text = "quad"]
      IN  Good(<<create_cmp_imm(<<"x", 0>>, 0), create_branch_conditional("EQ", <<"L", n>>),
                 create_branch_unconditional(<<"end", n>>), directive,
                 create_movz_imm(<<"x", 0>>, 0, 0), directive>>)
  BY <1>4, <1>6, OtherShaped, Zenon
<1> QED
  BY <1>1, <1>2, <1>5, <1>7, GoodCat, Zenon

-----------------------------------------------------------------------------
(* The outcome of linking. *)

(* What the generator and the optimizer keep.                              *)
Sound == Good(stream) /\ GoodData(data) /\ pos \in Nat \ {0}
(* Both links start without labels.                                        *)
Fresh ==
    phase \in {"generate", "generated", "optimize", "optimized", "reset"} => labels = <<>>
(* Between the two passes every label of the stream has its address.       *)
Addressed ==
    phase \in {"addressed", "jit addressed"} =>
        Unique(stream) /\ Mirrors(linked, stream) /\ DOMAIN labels = Names(stream)
LinkInv == focus = "program" => Sound /\ Fresh /\ Addressed /\ LinkOutcome

(* Initially nothing is emitted.                                           *)
LEMMA LinkInit == Init => LinkInv
<1> SUFFICES ASSUME Init PROVE LinkInv
  OBVIOUS
<1>1. GoodData(NewData)
  <2>1. IsSeq(<<>>) /\ \A k \in 1 .. Len(<<>>) : FALSE
    BY DEF IsSeq
  <2>2. GoodStrings(<<>>) /\ GoodFloats(<<>>) /\ GoodTables(<<>>) /\ GoodLists(<<>>)
    BY <2>1, Zenon DEF GoodStrings, GoodFloats, GoodTables, GoodLists
  <2> QED
    BY <2>2, Zenon DEF GoodData, NewData, DataFields
<1>2. Sound
  <2>1. pos \in Nat \ {0}
    BY SMT DEF Init
  <2> QED
    BY <1>1, <2>1, GoodShort, Zenon DEF Init, Sound
<1>3. Fresh /\ Addressed /\ LinkOutcome
  BY DEF Init, Fresh, Addressed, LinkOutcome
<1> QED
  BY <1>2, <1>3, Zenon DEF LinkInv

(* An operation of the code generator keeps the stream and the data good.  *)
LEMMA GenerateStep ==
    ASSUME Sound, focus = "program", Generate, ~FinishCode
    PROVE  Generated /\ phase = "generate" /\ Good(stream') /\ GoodData(data')
<1>0. Good(stream) /\ GoodData(data)
  BY Zenon DEF Sound
<1>1. CASE EmitWindow
  BY <1>1, Zenon DEF EmitWindow, Generating
<1>2. CASE DefineRoutine
  BY <1>0, <1>2, GoodOthers, Zenon DEF DefineRoutine, Generating
<1>3. CASE FunctionCall
  <2>1. PICK f \in UserRoutines \cup Range(RuntimeFunctions) :
          stream' = IF f \in UserRoutines \/ DirectBranchPossible(stream, f)
                    THEN DirectCall(stream, f) ELSE ThroughTable(stream, f)
    BY <1>3, Zenon DEF FunctionCall
  <2>2. Good(stream')
    BY <1>0, <2>1, GoodCalls, UpperLemma, Zenon
  <2> QED
    BY <1>0, <1>3, <2>2, Zenon DEF FunctionCall, Generating
<1>4. CASE RoutineCall
  <2>1. PICK f \in UserRoutines \cup Range(RuntimeFunctions) :
          stream' = IF is_function_registered(<<"name", f>>) THEN ThroughTable(stream, f)
                    ELSE DirectCall(stream, f)
    BY <1>4, Zenon DEF RoutineCall
  <2>2. Good(stream')
    BY <1>0, <2>1, GoodCalls, UpperLemma, Zenon
  <2> QED
    BY <1>0, <1>4, <2>2, Zenon DEF RoutineCall, Generating
<1>5. CASE LoadString
  <2>1. PICK str \in Strings :
          /\ data' = add_string_literal(data, str.bytes)
          /\ stream' = stream \o AddressOf(string_label(data', str.bytes), SkipLength)
    BY <1>5, Zenon DEF LoadString
  <2>2. Decodes(str.bytes)
    BY LiteralsAssumption, Zenon
  <2>3. GoodData(data') /\ Literal(string_label(data', str.bytes))
    BY <1>0, <2>1, <2>2, AddString, Zenon
  <2>4. Good(stream')
    BY <1>0, <2>1, <2>3, GoodUses, GoodAddress, Zenon
  <2> QED
    BY <1>5, <2>3, <2>4, Zenon DEF LoadString, Generating
<1>6. CASE LoadFloat
  <2>1. PICK f \in Floats :
          /\ data' = add_float_literal(data, f)
          /\ stream' = stream \o AddressOf(float_label(data', f),
                                           <<create_ldr_fp_imm(<<"d", 0>>, <<"x", 0>>, 0)>>)
    BY <1>6, Zenon DEF LoadFloat
  <2>2. GoodData(data') /\ Literal(float_label(data', f))
    BY <1>0, <2>1, AddFloat, Zenon
  <2>3. Good(stream')
    BY <1>0, <2>1, <2>2, GoodUses, GoodAddress, Zenon
  <2> QED
    BY <1>6, <2>2, <2>3, Zenon DEF LoadFloat, Generating
<1>7. CASE LoadTable
  <2>1. PICK float \in BOOLEAN, f \in Floats :
          LET quads == IF float THEN <<f.bits>> ELSE <<Quad(7), Quad(-1)>>
              d == IF float THEN add_float_table_literal(data, quads)
                   ELSE add_table_literal(data, quads)
              label == IF float THEN Last(d.ftables).label ELSE Last(d.tables).label
          IN  data' = d /\ stream' = stream \o AddressOf(label, SkipLength)
    BY <1>7, Zenon DEF LoadTable
  <2> DEFINE quads == IF float THEN <<f.bits>> ELSE <<Quad(7), Quad(-1)>>
             label == IF float THEN Last(data'.ftables).label ELSE Last(data'.tables).label
  <2>2. IsSeq(quads)
    <3>1. <<f.bits>> \in Seq({f.bits}) /\ <<Quad(7), Quad(-1)>> \in Seq({Quad(7), Quad(-1)})
      OBVIOUS
    <3> QED
      BY <3>1, Zenon DEF IsSeq
  <2>3. /\ data' = IF float THEN add_float_table_literal(data, quads)
                   ELSE add_table_literal(data, quads)
        /\ stream' = stream \o AddressOf(label, SkipLength)
    BY <2>1, Zenon
  <2> HIDE DEF quads
  <2>4. GoodData(data') /\ Literal(label)
    BY <1>0, <2>2, <2>3, AddTable, Zenon
  <2> HIDE DEF label
  <2>5. Good(stream')
    BY <1>0, <2>3, <2>4, GoodUses, GoodAddress, Zenon
  <2> QED
    BY <1>7, <2>4, <2>5, Zenon DEF LoadTable, Generating
<1>8. CASE LoadList
  <2>1. PICK list \in Lists, manifest \in BOOLEAN :
          /\ data' = add_list_literal(data, list)
          /\ stream' = stream \o AddressOf(list_label(data', list),
                          IF manifest THEN <<>>
                          ELSE <<create_branch_with_link(<<"name", "DEEPCOPYLITERALLIST">>)>>)
    BY <1>8, Zenon DEF LoadList
  <2> DEFINE use == IF manifest THEN <<>>
                    ELSE <<create_branch_with_link(<<"name", "DEEPCOPYLITERALLIST">>)>>
  <2>2. Good(use)
    BY GoodUses, GoodShort, Zenon
  <2>3. GoodData(data') /\ Literal(list_label(data', list))
    BY <1>0, <2>1, AddList, Zenon
  <2>4. Good(stream')
    BY <1>0, <2>1, <2>2, <2>3, GoodAddress, Zenon
  <2> QED
    BY <1>8, <2>3, <2>4, Zenon DEF LoadList, Generating
<1>9. CASE DeclareStatic
  BY <1>0, <1>9, GoodOthers, Zenon DEF DeclareStatic, Generating
<1>10. CASE DeclareGlobal
  <2>1. data' = [data EXCEPT !.statics = Append(@, ops)]
    BY <1>10, Zenon DEF DeclareGlobal, add_global_variable
  <2>2. /\ DOMAIN data' = DOMAIN data /\ data'.strings = data.strings
        /\ data'.floats = data.floats /\ data'.tables = data.tables
        /\ data'.ftables = data.ftables /\ data'.lists = data.lists
    BY <1>0, <2>1, Zenon DEF GoodData, DataFields
  <2>3. GoodData(data')
    BY <1>0, <2>2, Zenon DEF GoodData
  <2> QED
    BY <1>0, <1>10, <2>3, Zenon DEF DeclareGlobal, Generating
<1>11. CASE ShortCircuitAnd
  BY <1>0, <1>11, GoodOthers, Zenon DEF ShortCircuitAnd, Generating
<1>12. CASE EmitLoop
  BY <1>0, <1>12, GoodOthers, Zenon DEF EmitLoop, Generating
<1> QED
  BY <1>1, <1>2, <1>3, <1>4, <1>5, <1>6, <1>7, <1>8, <1>9, <1>10, <1>11, <1>12, Zenon DEF Generate

(* A step of the optimizer keeps them too.                                 *)
LEMMA OptimizeStep ==
    ASSUME Sound, focus = "program", Optimize
    PROVE  /\ Sound' /\ phase \in {"generated", "optimize"} /\ phase' \in {"optimize", "optimized"}
           /\ UNCHANGED <<focus, linker>>
<1>0. Good(stream) /\ GoodData(data) /\ pos \in Nat \ {0}
  BY Zenon DEF Sound
<1>1. Len(stream) \in Nat
  BY <1>0, SeqLemma, Zenon DEF Good
<1>2. 1 \in Nat \ {0}
  BY SMT
<1>3. CASE BeginPass
  BY <1>0, <1>2, <1>3, Zenon DEF BeginPass, Keep, Sound
<1>4. CASE RewriteWindow
  <2>1. pos \in 1 .. Len(stream)
    BY <1>0, <1>1, <1>4, SMT DEF RewriteWindow
  <2>2. Applicable(stream, pos) # {} /\ stream' = Rewrite(stream, pos)
    BY <1>4, Zenon DEF RewriteWindow, Rewritable
  <2>3. Good(stream')
    BY <1>0, <2>1, <2>2, GoodRewrite, Zenon
  <2> QED
    BY <1>0, <1>4, <2>3, Zenon DEF RewriteWindow, Keep, Sound
<1>5. CASE Advance
  <2> DEFINE T == {k \in (pos + 1) .. Len(stream) : Rewritable(stream, k)} \cup {Len(stream) + 1}
  <2>1. T \subseteq Nat \ {0} /\ T # {}
    <3>1. (pos + 1) .. Len(stream) \subseteq Nat \ {0} /\ Len(stream) + 1 \in Nat \ {0}
      BY <1>0, <1>1, SMT
    <3> QED
      BY <3>1, Zenon
  <2>2. pos' = Min(T)
    BY <1>5, Zenon DEF Advance
  <2> HIDE DEF T
  <2>3. pos' \in Nat \ {0}
    BY <2>1, <2>2, MinLemma, Zenon
  <2> QED
    BY <1>0, <1>5, <2>3, Zenon DEF Advance, Keep, Sound
<1>6. CASE EndPass
  <2>1. pos' = 1 \/ pos' = pos
    BY <1>6, Zenon DEF EndPass
  <2>2. phase' \in {"optimize", "optimized"}
    BY <1>6, Zenon DEF EndPass
  <2> QED
    BY <1>0, <1>2, <1>6, <2>1, <2>2, Zenon DEF EndPass, Keep, Sound
<1>7. CASE SkipOptimizer
  BY <1>0, <1>7 DEF SkipOptimizer, Keep, Sound
<1> QED
  BY <1>3, <1>4, <1>5, <1>6, <1>7, Zenon DEF Optimize

(* The first pass of a link, from no labels.                               *)
LEMMA FirstPass ==
    ASSUME NEW next \in {"addressed", "jit addressed"}, NEW code_base, NEW data_base,
           Sound, labels = <<>>, LinkPassOne(code_base, data_base, next), KeepProgram
    PROVE  Sound' /\ Fresh' /\ Addressed' /\ LinkOutcome' /\ focus' = focus
<1> DEFINE one == assignAddressesAndResolveLabels(stream, <<>>, code_base, data_base)
<1>1. /\ labels' = one.labels /\ linked' = one.stream
      /\ phase' = IF one.ok THEN next ELSE "failed"
  BY Zenon DEF LinkPassOne
<1>2. stream' = stream /\ data' = data /\ pos' = pos /\ focus' = focus
  BY Zenon DEF KeepProgram, optimizer
<1>3. Sound'
  BY <1>2, Zenon DEF Sound
<1>4. Good(stream)
  BY Zenon DEF Sound
<1>5. one.ok <=> Unique(stream)
  BY <1>4, PassOne, Zenon
<1>6. DOMAIN one.labels = Names(stream) /\ Mirrors(one.stream, stream)
  BY <1>4, PassOne, Zenon
<1> HIDE DEF one
<1>7. CASE one.ok
  <2>1. phase' = next
    BY <1>1, <1>7, Zenon
  <2>2. phase' \in {"addressed", "jit addressed"}
    BY <2>1, Zenon
  <2>3. Fresh' /\ LinkOutcome'
    BY <2>2 DEF Fresh, LinkOutcome
  <2>4. Addressed'
    BY <1>1, <1>2, <1>5, <1>6, <1>7, Zenon DEF Addressed
  <2> QED
    BY <1>2, <1>3, <2>3, <2>4, Zenon
<1>8. CASE ~one.ok
  <2>1. phase' = "failed"
    BY <1>1, <1>8, Zenon
  <2>2. ~Linkable(stream)
    BY <1>5, <1>8, Zenon DEF Linkable, Unique
  <2>3. Fresh' /\ Addressed'
    BY <2>1 DEF Fresh, Addressed
  <2>4. LinkOutcome'
    BY <1>2, <2>1, <2>2 DEF LinkOutcome
  <2> QED
    BY <1>2, <1>3, <2>3, <2>4, Zenon
<1> QED
  BY <1>7, <1>8, Zenon

(* The second pass.                                                        *)
LEMMA SecondPass ==
    ASSUME NEW next \in {"assembled", "linked"}, phase \in {"addressed", "jit addressed"},
           Sound, Addressed, LinkPassTwo(next), KeepProgram
    PROVE  Sound' /\ Fresh' /\ Addressed' /\ LinkOutcome' /\ focus' = focus
<1> DEFINE two == performRelocations(linked, labels)
<1>1. phase' = IF two.ok THEN next ELSE "failed"
  BY Zenon DEF LinkPassTwo
<1>2. stream' = stream /\ data' = data /\ pos' = pos /\ focus' = focus
  BY Zenon DEF KeepProgram, optimizer
<1>3. Sound'
  BY <1>2, Zenon DEF Sound
<1>4. two.ok <=> Linkable(stream)
  BY PassTwo, Zenon DEF Sound, Addressed
<1> HIDE DEF two
<1>5. phase' \in {"assembled", "linked", "failed"}
  BY <1>1, Zenon
<1>6. Fresh' /\ Addressed'
  BY <1>5 DEF Fresh, Addressed
<1>7. phase' = "failed" <=> ~two.ok
  BY <1>1
<1>8. LinkOutcome'
  <2>1. Linkable(stream') <=> Linkable(stream)
    BY <1>2, Zenon
  <2>2. phase' \in {"assembled", "linked"} => phase' # "failed"
    OBVIOUS
  <2> QED
    BY <1>4, <1>7, <2>1, <2>2, Zenon DEF LinkOutcome
<1> QED
  BY <1>2, <1>3, <1>6, <1>8, Zenon

(* A step of the driver after the optimizer.                               *)
LEMMA LinkStep ==
    ASSUME focus = "program", Sound, Fresh, Addressed, Link
    PROVE  Sound' /\ Fresh' /\ Addressed' /\ LinkOutcome' /\ focus' = focus
<1>1. CASE StaticLink
  <2>1. labels = <<>>
    BY <1>1, Zenon DEF StaticLink, Fresh
  <2> QED
    BY <1>1, <2>1, FirstPass, Zenon DEF StaticLink
<1>2. CASE StaticRelocate
  BY <1>2, SecondPass, Zenon DEF StaticRelocate
<1>3. CASE JitLink
  <2>1. labels = <<>>
    BY <1>3, Zenon DEF JitLink, Fresh
  <2> QED
    BY <1>3, <2>1, FirstPass, Zenon DEF JitLink
<1>4. CASE JitRelocate
  BY <1>4, SecondPass, Zenon DEF JitRelocate
<1>5. ASSUME KeepProgram, phase' \in {"reset", "loaded", "armed", "done"},
             phase' = "reset" => labels' = <<>>
      PROVE  Sound' /\ Fresh' /\ Addressed' /\ LinkOutcome' /\ focus' = focus
  <2>1. stream' = stream /\ data' = data /\ pos' = pos /\ focus' = focus
    BY <1>5, Zenon DEF KeepProgram, optimizer
  <2>2. Sound'
    BY <2>1, Zenon DEF Sound
  <2>3. Fresh'
    BY <1>5 DEF Fresh
  <2>4. Addressed' /\ LinkOutcome'
    BY <1>5 DEF Addressed, LinkOutcome
  <2> QED
    BY <2>1, <2>2, <2>3, <2>4, Zenon
<1>6. CASE ResetLabels
  BY <1>5, <1>6, Zenon DEF ResetLabels, reset
<1>7. CASE CopyToMemory \/ BreakAt \/ PopulateTable \/ EndWindow
  <2>1. KeepProgram /\ phase' \in {"loaded", "armed", "done"}
    BY <1>7, Zenon DEF CopyToMemory, BreakAt, PopulateTable, EndWindow
  <2>2. phase' # "reset"
    BY <2>1
  <2> QED
    BY <1>5, <2>1, <2>2, Zenon
<1> QED
  BY <1>1, <1>2, <1>3, <1>4, <1>6, <1>7, Zenon DEF Link

(* The invariant is inductive.                                             *)
LEMMA LinkNext == LinkInv /\ [Next]_vars => LinkInv'
<1> SUFFICES ASSUME LinkInv, [Next]_vars, focus' = "program" PROVE LinkInv'
  BY Zenon DEF LinkInv
<1>0. focus = "program" => Sound /\ Fresh /\ Addressed /\ LinkOutcome
  BY Zenon DEF LinkInv
<1>1. CASE Encode
  <2>1. focus = "encode" /\ focus' = focus
    BY <1>1 DEF Encode, EncodeThree, EncodeFp, EncodeTwoFp, EncodeTwo, EncodeOne,
                EncodeImmediate, EncodePair, EncodeBitfield, EncodeLogical, EncodeMoveWide,
                EncodeOther, Requested
  <2> QED
    BY <2>1
<1>2. CASE RelocateOne
  <2>1. focus = "relocate" /\ focus' = focus
    BY <1>2, Zenon DEF RelocateOne
  <2> QED
    BY <2>1
<1>3. CASE FinishCode
  <2>1. /\ focus' = focus /\ phase = "generate" /\ phase' = "generated"
        /\ stream' = generate_rodata_section(stream, data)
        /\ data' = data /\ pos' = pos /\ labels' = labels
    BY <1>3, Zenon DEF FinishCode, linker
  <2>2. Sound /\ Fresh
    BY <1>0, <2>1, Zenon
  <2>3. Sound'
    BY <2>1, <2>2, GoodRodata, Zenon DEF Sound
  <2>4. labels' = <<>>
    BY <2>1, <2>2, Zenon DEF Fresh
  <2>5. Fresh' /\ Addressed' /\ LinkOutcome'
    BY <2>1, <2>4 DEF Fresh, Addressed, LinkOutcome
  <2> QED
    BY <2>3, <2>5, Zenon DEF LinkInv
<1>4. CASE Generate /\ ~FinishCode
  <2>1. CASE EmitWindow
    <3>1. focus = "window" /\ focus' = focus
      BY <2>1, Zenon DEF EmitWindow, Generating, Generated
    <3> QED
      BY <3>1
  <2>2. CASE ~EmitWindow
    <3>1. Generated
      BY <1>4, <2>2, Zenon DEF Generate, DefineRoutine, FunctionCall, RoutineCall, LoadString,
         LoadFloat, LoadTable, LoadList, DeclareStatic, DeclareGlobal, ShortCircuitAnd, EmitLoop
    <3>2. focus' = focus /\ phase' = phase /\ pos' = pos /\ labels' = labels
      BY <3>1, Zenon DEF Generated, optimizer, linker
    <3>3. Sound /\ Fresh
      BY <1>0, <3>2, Zenon
    <3>4. phase = "generate" /\ Good(stream') /\ GoodData(data')
      BY <1>4, <3>2, <3>3, GenerateStep, Zenon
    <3>5. Sound'
      BY <3>2, <3>3, <3>4, Zenon DEF Sound
    <3>6. labels' = <<>> /\ phase' = "generate"
      BY <3>2, <3>3, <3>4, Zenon DEF Fresh
    <3>7. Fresh' /\ Addressed' /\ LinkOutcome'
      BY <3>6 DEF Fresh, Addressed, LinkOutcome
    <3> QED
      BY <3>5, <3>7, Zenon DEF LinkInv
  <2> QED
    BY <2>1, <2>2, Zenon
<1>5. CASE Optimize
  <2>1. focus' = focus
    BY <1>5, Zenon DEF Optimize, BeginPass, RewriteWindow, Advance, EndPass, SkipOptimizer, Keep
  <2>2. Sound /\ Fresh
    BY <1>0, <2>1, Zenon
  <2>3. /\ Sound' /\ phase \in {"generated", "optimize"} /\ phase' \in {"optimize", "optimized"}
        /\ UNCHANGED linker
    BY <1>5, <2>1, <2>2, OptimizeStep, Zenon
  <2>4. labels' = <<>>
    BY <2>2, <2>3, Zenon DEF Fresh, linker
  <2>5. Fresh' /\ Addressed' /\ LinkOutcome'
    BY <2>3, <2>4 DEF Fresh, Addressed, LinkOutcome
  <2> QED
    BY <2>3, <2>5, Zenon DEF LinkInv
<1>6. CASE Link
  <2>1. KeepProgram
    BY <1>6, Zenon DEF Link, StaticLink, StaticRelocate, ResetLabels, JitLink, JitRelocate,
       CopyToMemory, BreakAt, PopulateTable, EndWindow
  <2>2. focus = "program"
    BY <2>1, Zenon DEF KeepProgram
  <2> QED
    BY <1>0, <1>6, <2>2, LinkStep, Zenon DEF LinkInv
<1>7. CASE UNCHANGED vars
  <2>1. /\ focus' = focus /\ phase' = phase /\ stream' = stream /\ data' = data /\ pos' = pos
        /\ labels' = labels /\ linked' = linked
    BY <1>7, Zenon DEF vars
  <2> QED
    BY <1>0, <2>1, Zenon DEF LinkInv, Sound, Fresh, Addressed, LinkOutcome
<1> QED
  BY <1>1, <1>2, <1>3, <1>4, <1>5, <1>6, <1>7, Zenon DEF Next

(* However long the program, whatever literals it has and whichever        *)
(* windows the optimizer rewrites: Linker::process fails only for a label  *)
(* that is referenced and never defined, or defined twice, and accepts no  *)
(* stream that has one, the second link for the JIT included.              *)
THEOREM LinkSound == Spec => []LinkOutcome
<1>1. LinkInv => LinkOutcome
  BY Zenon DEF LinkInv, LinkOutcome
<1> QED
  BY <1>1, LinkInit, LinkNext, PTL DEF Spec

-----------------------------------------------------------------------------
(* Where the first pass puts a program. *)

(* The segments of the JIT, and the entries of its own segment that an     *)
(* entry comes after.                                                      *)
Start(s) == SegmentStarts(s, CodeBase, DataBase)
Before(s, k) == {j \in 1 .. (k - 1) : s[j].segment = s[k].segment /\ Emits(s[j])}
CodeWords(s) == {k \in DOMAIN s : s[k].segment = "CODE" /\ ~s[k].is_label_definition}
At(s, k) == Cursor(s, k, Start(s))

(* An address counts the entries before it.                                *)
LEMMA BeforeLemma ==
    ASSUME NEW s, Good(s), NEW k \in 1 .. Len(s)
    PROVE  /\ IsFiniteSet(Before(s, k)) /\ Cardinality(Before(s, k)) \in Nat
           /\ At(s, k) = Start(s)[s[k].segment] + 4 * Cardinality(Before(s, k))
<1>1. Len(s) \in Nat
  BY SeqLemma DEF Good
<1>2. IsFiniteSet(1 .. (k - 1))
  <2>1. 1 \in Int /\ k - 1 \in Int
    BY <1>1, SMT
  <2> QED
    BY <2>1, FS_Interval
<1>3. Before(s, k) \subseteq 1 .. (k - 1)
  BY Zenon DEF Before
<1>4. IsFiniteSet(Before(s, k))
  BY <1>2, <1>3, FS_Subset
<1>5. Cardinality(Before(s, k)) \in Nat
  BY <1>4, FS_CardinalityType
<1>6. At(s, k) = Start(s)[s[k].segment] + 4 * Cardinality(Before(s, k))
  BY Zenon DEF At, Cursor, Before
<1> QED
  BY <1>4, <1>5, <1>6

(* The segments are aligned, and .rodata comes after the code.             *)
LEMMA StartLemma ==
    ASSUME NEW s, Good(s)
    PROVE  /\ \A seg \in Segments : Start(s)[seg] \in Nat /\ Start(s)[seg] % 4 = 0
           /\ IsFiniteSet(CodeWords(s)) /\ Cardinality(CodeWords(s)) \in Nat
           /\ CodeBase + 4 * Cardinality(CodeWords(s)) <= Start(s)["RODATA"]
           /\ Start(s)["CODE"] = CodeBase /\ Start(s)["DATA"] = DataBase
<1>1. Len(s) \in Nat /\ DOMAIN s = 1 .. Len(s)
  BY SeqLemma DEF Good
<1>2. IsFiniteSet(CodeWords(s))
  <2>1. IsFiniteSet(1 .. Len(s))
    BY <1>1, FS_Interval, SMT
  <2>2. CodeWords(s) \subseteq 1 .. Len(s)
    BY <1>1, Zenon DEF CodeWords
  <2> QED
    BY <2>1, <2>2, FS_Subset
<1>3. Cardinality(CodeWords(s)) \in Nat
  BY <1>2, FS_CardinalityType
<1>4. PICK c \in Nat : c = Cardinality(CodeWords(s))
  BY <1>3, Zenon
<1>5. Start(s)["CODE"] = CodeBase /\ Start(s)["DATA"] = DataBase
      /\ Start(s)["RODATA"] = RodataStart(s, CodeBase)
  BY DEF Start, SegmentStarts
<1>6. RodataStart(s, CodeBase) = 4096 * ((CodeBase + 4 * c + 16384 + 4095) \div 4096)
  BY <1>4 DEF RodataStart, CodeWords, CODE_RODATA_GAP_BYTES
<1>7. PICK b \in Nat : b = CodeBase
  BY DistancesAssumption, Zenon
<1>8. PICK r \in Nat : r = Start(s)["RODATA"] /\ r % 4 = 0 /\ b + 4 * c <= r
  <2>1. PICK q \in Int : q = (b + 4 * c + 16384 + 4095) \div 4096
    BY SMT
  <2>2. q \in Nat /\ b + 4 * c <= 4096 * q
    BY <2>1, SMT
  <2>3. 4096 * q \in Nat /\ (4096 * q) % 4 = 0
    BY <2>2, SMT
  <2>4. Start(s)["RODATA"] = 4096 * q
    BY <1>5, <1>6, <1>7, <2>1
  <2> QED
    BY <2>2, <2>3, <2>4
<1>9. ASSUME NEW seg \in Segments PROVE Start(s)[seg] \in Nat /\ Start(s)[seg] % 4 = 0
  BY <1>5, <1>8, DistancesAssumption, BuffersAssumption, Zenon DEF Segments
<1>10. CodeBase + 4 * Cardinality(CodeWords(s)) <= Start(s)["RODATA"]
  BY <1>4, <1>7, <1>8, Zenon
<1> QED
  BY <1>2, <1>3, <1>5, <1>9, <1>10

(* So is every entry.                                                      *)
LEMMA AtLemma ==
    ASSUME NEW s, Good(s), NEW k \in 1 .. Len(s)
    PROVE  /\ At(s, k) \in Nat /\ At(s, k) % 4 = 0
           /\ Start(s)[s[k].segment] <= At(s, k)
<1>1. s[k].segment \in Segments
  BY Zenon DEF Good, Stands, Formed
<1>2. PICK b \in Nat : b = Start(s)[s[k].segment] /\ b % 4 = 0
  BY <1>1, StartLemma, Zenon
<1>3. PICK c \in Nat : c = Cardinality(Before(s, k)) /\ At(s, k) = b + 4 * c
  BY <1>2, BeforeLemma, Zenon
<1>4. b + 4 * c \in Nat /\ (b + 4 * c) % 4 = 0 /\ b <= b + 4 * c
  BY <1>2, SMT
<1> QED
  BY <1>2, <1>3, <1>4, Zenon

(* An entry leaves room for itself.                                        *)
LEMMA AtApart ==
    ASSUME NEW s, Good(s), NEW k \in 1 .. Len(s), NEW j \in 1 .. Len(s), j < k,
           s[j].segment = s[k].segment, Emits(s[j])
    PROVE  At(s, j) < At(s, k)
<1>1. Len(s) \in Nat
  BY SeqLemma DEF Good
<1>2. j \in 1 .. (k - 1) /\ (\A i \in 1 .. (j - 1) : i \in 1 .. (k - 1)) /\ j \notin 1 .. (j - 1)
  BY <1>1, SMT
<1>3. Before(s, j) \cup {j} \subseteq Before(s, k) /\ j \notin Before(s, j)
  BY <1>2, Zenon DEF Before
<1>4. IsFiniteSet(Before(s, j)) /\ IsFiniteSet(Before(s, k))
  BY BeforeLemma
<1>5. Cardinality(Before(s, j) \cup {j}) = Cardinality(Before(s, j)) + 1
  BY <1>3, <1>4, FS_AddElement
<1>6. Cardinality(Before(s, j) \cup {j}) <= Cardinality(Before(s, k))
  BY <1>3, <1>4, FS_Subset
<1>7. s[k].segment \in Segments
  BY Zenon DEF Good, Stands, Formed
<1>8. PICK b \in Nat : b = Start(s)[s[k].segment]
  BY <1>7, StartLemma, Zenon
<1>9. PICK c \in Nat : c = Cardinality(Before(s, j)) /\ At(s, j) = b + 4 * c
  BY <1>8, BeforeLemma, Zenon
<1>10. PICK d \in Nat : d = Cardinality(Before(s, k)) /\ At(s, k) = b + 4 * d
  BY <1>8, BeforeLemma, Zenon
<1>11. c + 1 <= d
  BY <1>5, <1>6, <1>9, <1>10, Zenon
<1>12. b + 4 * c < b + 4 * d
  BY <1>11, SMT
<1> QED
  BY <1>9, <1>10, <1>12, Zenon

(* And no more.                                                            *)
LEMMA AtNext ==
    ASSUME NEW s, Good(s), NEW k \in 1 .. Len(s), k + 1 \in 1 .. Len(s),
           s[k].segment = s[k + 1].segment, Emits(s[k])
    PROVE  At(s, k + 1) = At(s, k) + 4
<1>1. Len(s) \in Nat
  BY SeqLemma DEF Good
<1> DEFINE n == k + 1
<1>2. 1 .. (n - 1) = (1 .. (k - 1)) \cup {k} /\ k \notin 1 .. (k - 1)
  BY <1>1, SMT
<1>3. n \in 1 .. Len(s) /\ s[n].segment = s[k].segment
  OBVIOUS
<1> HIDE DEF n
<1>4. Before(s, n) = Before(s, k) \cup {k} /\ k \notin Before(s, k)
  BY <1>2, <1>3, Zenon DEF Before
<1>5. Cardinality(Before(s, n)) = Cardinality(Before(s, k)) + 1
  BY <1>4, BeforeLemma, FS_AddElement
<1>6. s[k].segment \in Segments
  BY Zenon DEF Good, Stands, Formed
<1>7. PICK b \in Nat : b = Start(s)[s[k].segment]
  BY <1>6, StartLemma, Zenon
<1>8. PICK c \in Nat : c = Cardinality(Before(s, k)) /\ At(s, k) = b + 4 * c
  BY <1>7, BeforeLemma, Zenon
<1>9. At(s, n) = b + 4 * (c + 1)
  BY <1>3, <1>5, <1>7, <1>8, BeforeLemma, Zenon
<1>10. b + 4 * (c + 1) = (b + 4 * c) + 4
  BY SMT
<1> QED
  BY <1>8, <1>9, <1>10, Zenon DEF n

(* The code ends before .rodata.                                           *)
LEMMA AtCode ==
    ASSUME NEW s, Good(s), NEW k \in 1 .. Len(s), s[k].segment = "CODE", Emits(s[k])
    PROVE  At(s, k) < Start(s)["RODATA"]
<1>1. Len(s) \in Nat /\ DOMAIN s = 1 .. Len(s)
  BY SeqLemma DEF Good
<1>2. k \notin 1 .. (k - 1) /\ \A j \in 1 .. (k - 1) : j \in 1 .. Len(s)
  BY <1>1, SMT
<1>3. \A j \in 1 .. Len(s) : Emits(s[j]) => ~s[j].is_label_definition
  BY Zenon DEF Good, Stands, Formed
<1>4. Before(s, k) \cup {k} \subseteq CodeWords(s) /\ k \notin Before(s, k)
  BY <1>1, <1>2, <1>3, Zenon DEF Before, CodeWords
<1>5. Cardinality(Before(s, k) \cup {k}) = Cardinality(Before(s, k)) + 1
  BY <1>4, BeforeLemma, FS_AddElement
<1>6. Cardinality(Before(s, k) \cup {k}) <= Cardinality(CodeWords(s))
  BY <1>4, StartLemma, FS_Subset
<1>7. PICK b \in Nat : b = CodeBase
  BY DistancesAssumption, Zenon
<1>8. PICK c \in Nat : c = Cardinality(Before(s, k)) /\ At(s, k) = b + 4 * c
  BY <1>7, BeforeLemma, StartLemma, Zenon
<1>9. PICK d \in Nat : d = Cardinality(CodeWords(s))
  BY StartLemma, Zenon
<1>10. "RODATA" \in Segments
  BY DEF Segments
<1>11. PICK r \in Nat : r = Start(s)["RODATA"] /\ b + 4 * d <= r
  BY <1>7, <1>9, <1>10, StartLemma, Zenon
<1>12. c + 1 <= d
  BY <1>5, <1>6, <1>8, <1>9, Zenon
<1>13. b + 4 * c < r
  BY <1>11, <1>12, SMT
<1> QED
  BY <1>8, <1>11, <1>13, Zenon

(* Two entries of the code and .rodata, or two of the data, are in         *)
(* different places.                                                       *)
LEMMA AtDistinct ==
    ASSUME NEW s, Good(s), NEW j \in 1 .. Len(s), NEW k \in 1 .. Len(s),
           Emits(s[j]), Emits(s[k]), s[j].segment = "DATA" <=> s[k].segment = "DATA",
           At(s, j) = At(s, k)
    PROVE  j = k
<1>1. j \in Int /\ k \in Int /\ (j < k \/ k < j \/ j = k)
  <2>1. Len(s) \in Nat
    BY SeqLemma DEF Good
  <2> QED
    BY <2>1, SMT
<1>2. PICK a \in Nat : a = At(s, j) /\ a = At(s, k)
  BY AtLemma, Zenon
<1>3. ~(a < a)
  BY SMT
<1>4. CASE s[j].segment = s[k].segment
  BY <1>1, <1>2, <1>3, <1>4, AtApart, Zenon
<1>5. ASSUME NEW x \in 1 .. Len(s), NEW y \in 1 .. Len(s), Emits(s[x]), s[x].segment = "CODE",
             s[y].segment = "RODATA", At(s, x) = a, At(s, y) = a
      PROVE  FALSE
  <2>1. "RODATA" \in Segments
    BY DEF Segments
  <2>2. PICK r \in Nat : r = Start(s)["RODATA"]
    BY <2>1, StartLemma, Zenon
  <2>3. a < r
    BY <1>5, <2>2, AtCode, Zenon
  <2>4. r <= a
    BY <1>5, <2>2, AtLemma, Zenon
  <2> QED
    BY <2>3, <2>4, SMT
<1>6. CASE s[j].segment # s[k].segment
  <2>1. s[j].segment \in Segments /\ s[k].segment \in Segments
    BY Zenon DEF Good, Stands, Formed
  <2>2. \/ s[j].segment = "CODE" /\ s[k].segment = "RODATA"
        \/ s[k].segment = "CODE" /\ s[j].segment = "RODATA"
    BY <1>6, <2>1, Zenon DEF Segments
  <2> QED
    BY <1>2, <1>5, <2>2, Zenon
<1> QED
  BY <1>4, <1>6

-----------------------------------------------------------------------------
(* The linked program. *)

PcKinds == {"PC_RELATIVE_26_BIT_OFFSET", "PC_RELATIVE_19_BIT_OFFSET",
            "PAGE_21_BIT_PC_RELATIVE", "ADD_12_BIT_UNSIGNED_OFFSET"}
(* The link for the JIT, pass by pass.                                     *)
JitOne(s) == assignAddressesAndResolveLabels(s, <<>>, CodeBase, DataBase)
JitTwo(s) == performRelocations(JitOne(s).stream, JitOne(s).labels)

(* The first pass gives every entry and every label its address.           *)
LEMMA JitOneLemma ==
    ASSUME NEW s, Good(s)
    PROVE  /\ DOMAIN JitOne(s).stream = 1 .. Len(s)
           /\ \A k \in 1 .. Len(s) :
                JitOne(s).stream[k] = IF Emits(s[k]) THEN [s[k] EXCEPT !.address = At(s, k)]
                                      ELSE s[k]
           /\ \A n \in DOMAIN JitOne(s).labels :
                JitOne(s).labels[n] \in Nat /\ JitOne(s).labels[n] % 4 = 0
<1> DEFINE start == Start(s)
           at == [n \in Names(s) \cup DOMAIN <<>> |->
                     IF n \in Names(s)
                     THEN Cursor(s, CHOOSE k \in Defines(s) : s[k].target = n, start)
                     ELSE <<>>[n]]
           t == [k \in DOMAIN s |-> IF Emits(s[k])
                                    THEN [s[k] EXCEPT !.address = Cursor(s, k, start)]
                                    ELSE s[k]]
<1>1. JitOne(s) = [ok |-> /\ Cardinality(Names(s)) = Cardinality(Defines(s))
                          /\ Names(s) \cap DOMAIN <<>> = {},
                   stream |-> t, labels |-> at]
  BY Zenon DEF JitOne, assignAddressesAndResolveLabels, Names, Defines, Start
<1>2. DOMAIN s = 1 .. Len(s)
  BY SeqLemma DEF Good
<1>3. DOMAIN t = 1 .. Len(s) /\ \A k \in 1 .. Len(s) :
        t[k] = IF Emits(s[k]) THEN [s[k] EXCEPT !.address = At(s, k)] ELSE s[k]
  BY <1>2, Zenon DEF At
<1>4. DOMAIN <<>> = {}
  OBVIOUS
<1>5. ASSUME NEW n \in DOMAIN at PROVE at[n] \in Nat /\ at[n] % 4 = 0
  <2> DEFINE k == CHOOSE k \in Defines(s) : s[k].target = n
  <2>1. n \in Names(s)
    BY <1>4, <1>5, Zenon
  <2>2. k \in Defines(s)
    BY <2>1, Zenon DEF Names
  <2>3. k \in 1 .. Len(s)
    BY <1>2, <2>2, Zenon DEF Defines
  <2>4. at[n] = At(s, k)
    BY <2>1, Zenon DEF At
  <2> HIDE DEF k, at
  <2> QED
    BY <2>3, <2>4, AtLemma, Zenon
<1> HIDE DEF t, at
<1>6. JitOne(s).stream = t /\ JitOne(s).labels = at
  <2>1. PICK o : JitOne(s) = [ok |-> o, stream |-> t, labels |-> at]
    BY ONLY <1>1
  <2> QED
    BY ONLY <2>1
<1> QED
  BY <1>3, <1>5, <1>6, Zenon

(* A record with another address.                                          *)
LEMMA PlacedLemma ==
    ASSUME NEW i, Formed(i), NEW a
    PROVE  LET j == [i EXCEPT !.address = a]
           IN  /\ j.relocation = i.relocation /\ j.target = i.target /\ j.opcode = i.opcode
               /\ j.segment = i.segment /\ j.text = i.text /\ j.is_data_value = i.is_data_value
               /\ j.is_label_definition = i.is_label_definition /\ j.word = i.word
               /\ j.address = a /\ DOMAIN j = DOMAIN i
<1> DEFINE Rest == {"relocation", "target", "opcode", "segment", "text", "is_data_value",
                    "is_label_definition", "word"}
           j == [i EXCEPT !.address = a]
<1>1. Rest \subseteq DOMAIN i /\ "address" \in DOMAIN i /\ "address" \notin Rest
  <2>1. "address" \notin Rest
    OBVIOUS
  <2> QED
    BY <2>1, Zenon DEF Formed
<1> HIDE DEF Rest
<1>2. j.address = a /\ DOMAIN j = DOMAIN i /\ \A x \in Rest : j[x] = i[x]
  BY <1>1, Zenon
<1> HIDE DEF j
<1>3. /\ j.relocation = i.relocation /\ j.target = i.target /\ j.opcode = i.opcode
      /\ j.segment = i.segment /\ j.text = i.text /\ j.is_data_value = i.is_data_value
      /\ j.is_label_definition = i.is_label_definition /\ j.word = i.word
  BY <1>2, Zenon DEF Rest
<1> QED
  BY <1>2, <1>3, Zenon DEF j

(* A record with another word.                                             *)
LEMMA PatchedLemma ==
    ASSUME NEW i, "word" \in DOMAIN i, NEW w, NEW other,
           other \in {"relocation", "target", "opcode", "segment", "text", "is_data_value",
                      "is_label_definition", "address"}, other \in DOMAIN i
    PROVE  [i EXCEPT !.word = w].word = w /\ [i EXCEPT !.word = w][other] = i[other]
<1>1. other # "word"
  OBVIOUS
<1> QED
  BY <1>1, Zenon

(* What the second pass leaves of an entry, and what it makes of a word    *)
(* that refers to a label.                                                 *)
LEMMA JitTwoLemma ==
    ASSUME NEW s, Good(s), NEW k \in 1 .. Len(s), JitTwo(s).ok
    PROVE  LET i == s[k]
               j == JitTwo(s).stream[k]
               labs == JitOne(s).labels
           IN  /\ j.relocation = i.relocation /\ j.target = i.target /\ j.opcode = i.opcode
               /\ j.segment = i.segment /\ j.is_label_definition = i.is_label_definition
               /\ Emits(j) <=> Emits(i)
               /\ Emits(i) => j.address = At(s, k)
               /\ Emits(i) /\ i.relocation \in PcKinds =>
                    /\ Resolves(i.target, labs)
                    /\ j.word = apply_pc_relative_relocation(i.word, At(s, k),
                                    TargetAddress(i.target, labs), i.relocation)
<1> DEFINE labs == JitOne(s).labels
           t == JitOne(s).stream
           i == s[k]
           p == t[k]
           j == JitTwo(s).stream[k]
<1>1. Formed(i)
  BY Zenon DEF Good, Stands
<1>2. k \in DOMAIN t /\ (p = IF Emits(i) THEN [i EXCEPT !.address = At(s, k)] ELSE i)
  BY JitOneLemma, Zenon
<1>3. /\ p.relocation = i.relocation /\ p.target = i.target /\ p.opcode = i.opcode
      /\ p.segment = i.segment /\ p.text = i.text /\ p.is_data_value = i.is_data_value
      /\ p.is_label_definition = i.is_label_definition /\ p.word = i.word
      /\ Emits(i) => p.address = At(s, k)
      /\ DOMAIN p = DOMAIN i
  <2> HIDE DEF p, i
  <2> QED
    BY <1>1, <1>2, PlacedLemma, Zenon
<1>4. j = IF Relocated(p) /\ Resolves(p.target, labs)
          THEN [p EXCEPT !.word = Relocate(p, labs)] ELSE p
  <2>1. JitTwo(s).stream = [n \in DOMAIN t |->
            IF Relocated(t[n]) /\ Resolves(t[n].target, labs)
            THEN [t[n] EXCEPT !.word = Relocate(t[n], labs)] ELSE t[n]]
    BY Zenon DEF JitTwo, performRelocations
  <2> HIDE DEF t, labs
  <2> QED
    BY <1>2, <2>1, Zenon
<1>5. Relocated(p) => Resolves(p.target, labs)
  <2>1. JitTwo(s).ok = (\A n \in DOMAIN t : Relocated(t[n]) => Resolves(t[n].target, labs))
    BY Zenon DEF JitTwo, performRelocations
  <2> HIDE DEF t, labs
  <2> QED
    BY <1>2, <2>1, Zenon
<1>6. {"relocation", "target", "is_label_definition", "address", "word", "segment", "opcode",
        "text", "is_data_value"} \subseteq DOMAIN p
  BY <1>1, <1>3, Zenon DEF Formed
<1> HIDE DEF labs, t, p, j
<1>7. /\ j.relocation = p.relocation /\ j.target = p.target /\ j.opcode = p.opcode
      /\ j.segment = p.segment /\ j.text = p.text /\ j.is_data_value = p.is_data_value
      /\ j.is_label_definition = p.is_label_definition /\ j.address = p.address
  <2>1. CASE j = p
    BY <2>1, Zenon
  <2>2. ASSUME NEW w, j = [p EXCEPT !.word = w]
        PROVE  /\ j.relocation = p.relocation /\ j.target = p.target /\ j.opcode = p.opcode
               /\ j.segment = p.segment /\ j.text = p.text /\ j.is_data_value = p.is_data_value
               /\ j.is_label_definition = p.is_label_definition /\ j.address = p.address
    BY <1>6, <2>2, PatchedLemma, Zenon
  <2> QED
    BY <1>4, <2>1, <2>2, Zenon
<1>8. ASSUME Emits(i), i.relocation \in PcKinds
      PROVE  /\ Resolves(i.target, labs)
             /\ j.word = apply_pc_relative_relocation(i.word, At(s, k),
                                    TargetAddress(i.target, labs), i.relocation)
  <2>1. i.relocation # "NONE"
    BY <1>8 DEF PcKinds
  <2>2. Relocated(p) /\ Resolves(p.target, labs)
    BY <1>1, <1>3, <1>5, <2>1, Zenon DEF Relocated, Formed
  <2>3. j = [p EXCEPT !.word = Relocate(p, labs)]
    BY <1>4, <2>2, Zenon
  <2>4. j.word = Relocate(p, labs)
    <3> DEFINE w == Relocate(p, labs)
    <3> HIDE DEF w
    <3>1. [p EXCEPT !.word = w].word = w
      BY <1>6, Zenon
    <3> QED
      BY <2>3, <3>1, Zenon DEF w
  <2>5. Relocate(p, labs) = apply_pc_relative_relocation(p.word, p.address,
                                TargetAddress(p.target, labs), p.relocation)
    <3>1. p.relocation \in PcKinds
      BY <1>3, <1>8, Zenon
    <3> DEFINE v == apply_pc_relative_relocation(p.word, p.address,
                                TargetAddress(p.target, labs), p.relocation)
    <3>2. Relocate(p, labs) = v
      BY <3>1, Zenon DEF Relocate, PcKinds
    <3> QED
      BY <3>2
  <2> QED
    BY <1>3, <1>8, <2>2, <2>4, <2>5, Zenon
<1>9. Emits(j) <=> Emits(i)
  BY <1>3, <1>7, Zenon DEF Emits
<1> QED
  BY <1>3, <1>7, <1>8, <1>9, Zenon DEF labs, j

(* Two words that agree on a field.                                        *)
LEMMA SameField ==
    ASSUME NEW w, NEW x, NEW start, NEW n,
           w \cap (start .. (start + n - 1)) = x \cap (start .. (start + n - 1))
    PROVE  Field(w, start, n) = Field(x, start, n)
  BY Zenon DEF Field

(* The entry at an address is the one that is copied there.                *)
Apart(t) ==
    \A j, k \in DOMAIN t : Emits(t[j]) /\ Emits(t[k]) /\ t[j].address = t[k].address =>
        (t[j].segment = "DATA" <=> t[k].segment = "DATA")
LEMMA ImageLemma ==
    ASSUME NEW s, Good(s), JitTwo(s).ok, Apart(JitTwo(s).stream), NEW k \in 1 .. Len(s),
           Emits(s[k])
    PROVE  PopulateImage(JitTwo(s).stream)[At(s, k)] = JitTwo(s).stream[k].word
<1> DEFINE t == JitTwo(s).stream
           emitted == {j \in DOMAIN t : ~t[j].is_label_definition}
           a == At(s, k)
           m == CHOOSE j \in emitted : t[j].address = a
<1>1. DOMAIN t = 1 .. Len(s)
  <2>1. DOMAIN t = DOMAIN JitOne(s).stream
    BY Zenon DEF JitTwo, performRelocations
  <2> QED
    BY <2>1, JitOneLemma, Zenon
<1>2. ASSUME NEW j \in 1 .. Len(s)
      PROVE  /\ t[j].is_label_definition <=> ~Emits(s[j])
             /\ Emits(t[j]) <=> Emits(s[j])
             /\ Emits(s[j]) => t[j].address = At(s, j)
             /\ t[j].segment = s[j].segment
  <2>1. s[j].is_label_definition <=> ~Emits(s[j])
    BY Zenon DEF Good, Stands, Formed
  <2> QED
    BY <2>1, JitTwoLemma, Zenon
<1>3. k \in emitted /\ t[k].address = a
  BY <1>1, <1>2, Zenon
<1>4. PopulateImage(t) = [b \in {t[j].address : j \in emitted} |->
                            t[CHOOSE j \in emitted : t[j].address = b].word]
  BY Zenon DEF PopulateImage
<1>5. PopulateImage(t)[a] = t[m].word
  <2>1. a \in {t[j].address : j \in emitted}
    BY <1>3, Zenon
  <2> HIDE DEF t, a, emitted
  <2> QED
    BY <1>4, <2>1, Zenon DEF m
<1>6. m \in emitted /\ t[m].address = a
  <2> HIDE DEF t, a, emitted
  <2> QED
    BY <1>3, Zenon DEF m
<1> HIDE DEF m
<1>7. m \in 1 .. Len(s) /\ Emits(s[m]) /\ At(s, m) = a
  BY <1>1, <1>2, <1>6, Zenon
<1>8. s[m].segment = "DATA" <=> s[k].segment = "DATA"
  BY <1>1, <1>2, <1>3, <1>6, <1>7, Zenon DEF Apart
<1>9. m = k
  BY <1>7, <1>8, AtDistinct, Zenon
<1> QED
  BY <1>5, <1>9, Zenon

(* What a signed field holds of a value is the value up to a multiple of   *)
(* the size of the field.                                                  *)
LEMMA CongruentLemma ==
    ASSUME NEW w, NEW v \in Int, NEW start \in Nat, NEW n \in 1 .. 31
    PROVE  \E q \in Int : SignedField(patch(w, v, start, n), start, n) = v + 2^n * q
<1> DEFINE x == patch(w, v, start, n)
           f == SignedField(x, start, n)
<1>1. n \in 0 .. 31 /\ n - 1 \in 0 .. 30 /\ (n - 1) + 1 = n
  BY SMT
<1>2. Field(x, start, n) = v % 2^n
  BY <1>1, PatchedField
<1>3. 2^(n - 1) \in Nat \ {0} /\ 2^n = 2 * 2^(n - 1)
  BY <1>1, PowerLemma, Zenon
<1>4. PICK p \in Nat \ {0} : p = 2^n
  <2>1. PICK h \in Nat \ {0} : 2^n = 2 * h
    BY <1>3, Zenon
  <2>2. 2 * h \in Nat \ {0}
    BY SMT
  <2> QED
    BY <2>1, <2>2, Zenon
<1>5. f = (v % p) - 0 \/ f = (v % p) - p
  BY <1>2, <1>4, Zenon DEF SignedField
<1> HIDE DEF f, x
<1>6. PICK d \in Int, r \in Int : r = v % p /\ v = p * d + r
  <2>1. v \div p \in Int /\ v % p \in 0 .. p - 1 /\ v = p * (v \div p) + (v % p)
    BY DivLemma
  <2>2. \A z \in 0 .. p - 1 : z \in Int
    BY SMT
  <2> QED
    BY <2>1, <2>2, Zenon
<1>7. CASE f = r
  <2>1. p * (-d) = -(p * d) /\ p * d \in Int
    BY SMT
  <2>2. f = v + p * (-d) /\ -d \in Int
    BY <1>6, <1>7, <2>1, SMT
  <2> QED
    BY <1>4, <2>2, Zenon DEF f, x
<1>8. CASE f = r - p
  <2>1. p * (-d - 1) = -(p * d) - p /\ p * d \in Int
    BY SMT
  <2>2. f = v + p * (-d - 1) /\ -d - 1 \in Int
    BY <1>6, <1>8, <2>1, SMT
  <2> QED
    BY <1>4, <2>2, Zenon DEF f, x
<1>9. r - 0 = r
  BY SMT
<1> QED
  BY <1>5, <1>6, <1>7, <1>8, <1>9, Zenon

(* A BL that is relocated to one address does not reach another, unless    *)
(* they are a multiple of 256M apart.                                      *)
LEMMA WrapLemma ==
    ASSUME NEW w, NEW pc \in Nat, NEW to \in Nat, NEW other \in Nat,
           pc % 4 = 0, to % 4 = 0, (to - other) % 2^28 # 0,
           NEW kind, kind = "PC_RELATIVE_26_BIT_OFFSET"
    PROVE  Reached(apply_pc_relative_relocation(w, pc, to, kind), pc, kind) # other
<1> DEFINE x == apply_pc_relative_relocation(w, pc, to, kind)
<1>1. PICK v \in Int : v = (to - pc) \div 4 /\ to - pc = 4 * v
  BY SMT
<1>2. x = patch(w, v, 0, 26)
  BY <1>1 DEF apply_pc_relative_relocation
<1> HIDE DEF x
<1>3. PICK n \in 1 .. 31 : n = 26
  BY SMT
<1>4. PICK q \in Int : SignedField(x, 0, n) = v + 2^n * q
  BY <1>2, <1>3, CongruentLemma
<1>5. 2^n = 67108864 /\ 2^28 = 268435456
  BY <1>3, SMT
<1>6. Reached(x, pc, kind) = pc + 4 * (v + 67108864 * q)
  BY <1>3, <1>4, <1>5 DEF Reached
<1>7. (to - other) % 268435456 # 0
  BY <1>5
<1>8. pc + 4 * (v + 67108864 * q) # other
  BY ONLY <1>1, <1>7, pc \in Nat, to \in Nat, other \in Nat, v \in Int, q \in Int, SMT
<1>9. PICK a \in Int : a = pc + 4 * (v + 67108864 * q)
  BY SMT
<1>10. Reached(x, pc, kind) = a /\ a # other
  BY <1>6, <1>8, <1>9, SMT
<1> QED
  BY ONLY <1>10, Zenon DEF x

(* ADRP and the ADD after it form the address, if it is in their reach.    *)
LEMMA PageLemma ==
    ASSUME NEW w, NEW u, NEW pc \in Nat, NEW next, NEW to \in Nat,
           (to \div 4096) - (pc \div 4096) \in -(2^20) .. (2^20 - 1),
           NEW x, x = apply_pc_relative_relocation(w, pc, to, "PAGE_21_BIT_PC_RELATIVE"),
           NEW y, y = apply_pc_relative_relocation(u, next, to, "ADD_12_BIT_UNSIGNED_OFFSET")
    PROVE  4096 * ((pc \div 4096) + Field(x, 29, 2) + 4 * SignedField(x, 5, 19))
             + Field(y, 10, 12) = to
<1>1. PICK a \in Int, b \in Int, r \in Int : /\ a = pc \div 4096 /\ b = to \div 4096
                                           /\ r = to % 4096 /\ to = 4096 * b + r /\ r \in 0 .. 4095
  BY SMT
<1>2. PICK pages \in Int : pages = b - a
  BY SMT
<1>3. 2^20 = 1048576 /\ 2^18 = 262144 /\ 2^12 = 4096 /\ 2^2 = 4
  BY SMT
<1>4. -1048576 <= pages /\ pages < 1048576
  <2>1. PICK c \in Nat : c = 2^20
    BY <1>3, SMT
  <2>2. \A z \in Int : z \in -c .. (c - 1) => -c <= z /\ z < c
    BY SMT
  <2>3. b - a \in -(2^20) .. (2^20 - 1)
    BY <1>1, SMT
  <2>4. -c <= pages /\ pages < c
    BY ONLY <1>2, <2>1, <2>2, <2>3, pages \in Int, Zenon
  <2> QED
    BY ONLY <1>3, <2>1, <2>4, SMT
<1>5. PICK h \in Int : h = pages \div 4
  BY SMT
<1>6. x = patch(patch(w, pages, 29, 2), h, 5, 19) /\ y = patch(u, r, 10, 12)
  <2>1. x = patch(patch(w, (to \div 4096) - (pc \div 4096), 29, 2),
                  ((to \div 4096) - (pc \div 4096)) \div 4, 5, 19)
    BY DEF apply_pc_relative_relocation
  <2>2. y = patch(u, to % 4096, 10, 12)
    BY DEF apply_pc_relative_relocation
  <2> QED
    BY <1>1, <1>2, <1>5, <2>1, <2>2, SMT
<1>7. SignedField(x, 5, 19) = h
  <2>1. PICK n \in 1 .. 31 : n = 19
    BY SMT
  <2>2. SignedField(x, 5, n) = h <=> -(2^(n - 1)) <= h /\ h < 2^(n - 1)
    BY <1>6, <2>1, SignedLemma
  <2>3. 2^(n - 1) = 262144
    BY <1>3, <2>1
  <2>4. -262144 <= h /\ h < 262144
    BY ONLY <1>4, <1>5, pages \in Int, h \in Int, SMT
  <2> QED
    BY <2>1, <2>2, <2>3, <2>4
<1>8. Field(x, 29, 2) = pages % 4
  <2> DEFINE z == patch(w, pages, 29, 2)
  <2>1. PICK n \in 0 .. 31 : n = 2
    BY SMT
  <2>2. Field(z, 29, n) = pages % 2^n
    BY <2>1, PatchedField
  <2> HIDE DEF z
  <2>3. x = patch(z, h, 5, 19)
    BY <1>6 DEF z
  <2>4. x \cap (29 .. (29 + 2 - 1)) = z \cap (29 .. (29 + 2 - 1))
    <3> DEFINE B == {5 + i : i \in {j \in 0 .. (19 - 1) : BitOf(h, j)}}
               S == 5 .. (5 + 19 - 1)
               F == 29 .. (29 + 2 - 1)
    <3>1. x = (z \ S) \cup B
      BY <2>3 DEF patch, BitsAt
    <3>2. B \cap F = {} /\ S \cap F = {}
      BY SMT
    <3> HIDE DEF B, S, F
    <3>3. x \cap F = z \cap F
      BY ONLY <3>1, <3>2, Zenon
    <3> QED
      BY ONLY <3>3, Zenon DEF F
  <2>5. Field(x, 29, 2) = Field(z, 29, 2)
    BY <2>4, SameField
  <2> QED
    BY <1>3, <2>1, <2>2, <2>5
<1>9. Field(y, 10, 12) = r
  <2>1. PICK n \in 0 .. 31 : n = 12
    BY SMT
  <2>2. Field(y, 10, n) = r % 2^n
    BY <1>6, <2>1, PatchedField
  <2>3. r % 4096 = r
    BY ONLY <1>1, r \in Int, SMT
  <2> QED
    BY <1>3, <2>1, <2>2, <2>3
<1>10. pages = 4 * h + (pages % 4) /\ pages % 4 \in Int
  BY <1>5, SMT
<1>11. 4096 * (a + (pages % 4) + 4 * h) + r = to
  BY ONLY <1>1, <1>2, <1>10, a \in Int, b \in Int, r \in Int, h \in Int, pages \in Int, SMT
<1>12. 4096 * (a + Field(x, 29, 2) + 4 * SignedField(x, 5, 19)) + Field(y, 10, 12) = to
  BY ONLY <1>7, <1>8, <1>9, <1>11, SMT
<1> QED
  BY ONLY <1>1, <1>12, SMT

(* The same as ReachLemma, between two aligned addresses.                  *)
LEMMA AlignedReach ==
    ASSUME NEW w, NEW pc \in Nat, NEW to \in Nat, pc % 4 = 0, to % 4 = 0,
           NEW kind \in {"PC_RELATIVE_26_BIT_OFFSET", "PC_RELATIVE_19_BIT_OFFSET"}
    PROVE  Reached(apply_pc_relative_relocation(w, pc, to, kind), pc, kind) = to
             <=> InRange(pc, to, kind)
<1>1. PICK d \in Int : d = to - pc /\ pc + d = to /\ d % 4 = 0
  BY SMT
<1>2. Reached(apply_pc_relative_relocation(w, pc, pc + d, kind), pc, kind) = pc + d
        <=> InRange(pc, pc + d, kind)
  BY <1>1, ReachLemma, Zenon
<1>3. pc + d = to
  BY <1>1
<1> QED
  BY <1>2, <1>3, Zenon

(* Every address a reference can get is aligned.                           *)
LEMMA TargetLemma ==
    ASSUME NEW s, Good(s), NEW label, Resolves(label, JitOne(s).labels)
    PROVE  LET to == TargetAddress(label, JitOne(s).labels) IN to \in Nat /\ to % 4 = 0
<1>1. CASE is_function_registered(label)
  <2>1. to_upper(label[2]) \in Range(RuntimeFunctions)
    BY <1>1, Zenon DEF is_function_registered
  <2> QED
    BY <1>1, <2>1, BuffersAssumption, Zenon DEF TargetAddress, get_function_address
<1>2. CASE ~is_function_registered(label)
  BY <1>2, JitOneLemma, Zenon DEF TargetAddress, Resolves
<1> QED
  BY <1>1, <1>2, Zenon

(* Where a reference of a program should lead, and routines that are not   *)
(* mistaken for a runtime function.                                        *)
Aim(labs, label) ==
    IF label \in DOMAIN labs THEN labs[label] ELSE get_function_address(label)
Far(labs) ==
    \A n \in DOMAIN labs :
        is_function_registered(n) => (get_function_address(n) - labs[n]) % 2^28 # 0

(* A branch of the loaded program.                                         *)
LEMMA BranchArrives ==
    ASSUME NEW s, Good(s), JitTwo(s).ok, Apart(JitTwo(s).stream), Far(JitOne(s).labels),
           NEW k \in 1 .. Len(s), s[k].opcode \in {"B", "BL", "B_COND", "CBZ"}
    PROVE  LET i == JitTwo(s).stream[k]
               labs == JitOne(s).labels
               w == PopulateImage(JitTwo(s).stream)[i.address]
           IN  Reached(w, i.address, i.relocation) = Aim(labs, i.target)
                 <=> /\ InRange(i.address, Aim(labs, i.target), i.relocation)
                     /\ i.target \in DOMAIN labs => ~is_function_registered(i.target)
<1> DEFINE i == JitTwo(s).stream[k]
           labs == JitOne(s).labels
           w == PopulateImage(JitTwo(s).stream)[i.address]
<1>1. /\ Formed(s[k]) /\ Emits(s[k])
      /\ s[k].opcode \in {"B", "BL"} => s[k].relocation = "PC_RELATIVE_26_BIT_OFFSET"
      /\ s[k].opcode \in {"B_COND", "CBZ"} => /\ s[k].relocation = "PC_RELATIVE_19_BIT_OFFSET"
                                             /\ ~is_function_registered(s[k].target)
  <2>1. Formed(s[k])
    BY Zenon DEF Good, Stands
  <2> QED
    BY <2>1, Zenon DEF Formed
<1>2. PICK kind \in {"PC_RELATIVE_26_BIT_OFFSET", "PC_RELATIVE_19_BIT_OFFSET"} :
        /\ kind = s[k].relocation
        /\ is_function_registered(s[k].target) => kind = "PC_RELATIVE_26_BIT_OFFSET"
  BY <1>1, Zenon
<1>3. PICK label : label = s[k].target
  OBVIOUS
<1>4. PICK pc \in Nat : pc = At(s, k) /\ pc % 4 = 0
  BY AtLemma, Zenon
<1>5. kind \in PcKinds
  BY <1>2, Zenon DEF PcKinds
<1>6. /\ i.relocation = kind /\ i.target = label /\ i.address = pc /\ Resolves(label, labs)
      /\ i.word = apply_pc_relative_relocation(s[k].word, pc, TargetAddress(label, labs), kind)
  <2>1. /\ i.relocation = s[k].relocation /\ i.target = s[k].target
        /\ Emits(s[k]) => i.address = At(s, k)
        /\ Emits(s[k]) /\ s[k].relocation \in PcKinds =>
             /\ Resolves(s[k].target, labs)
             /\ i.word = apply_pc_relative_relocation(s[k].word, At(s, k),
                             TargetAddress(s[k].target, labs), s[k].relocation)
    BY JitTwoLemma, Zenon
  <2> HIDE DEF i, labs
  <2> QED
    BY <1>1, <1>2, <1>3, <1>4, <1>5, <2>1, Zenon
<1>7. PICK to \in Nat : to = TargetAddress(label, labs) /\ to % 4 = 0
  BY <1>6, TargetLemma, Zenon
<1>8. w = apply_pc_relative_relocation(s[k].word, pc, to, kind)
  <2>1. PopulateImage(JitTwo(s).stream)[At(s, k)] = i.word
    BY <1>1, ImageLemma, Zenon
  <2>2. w = PopulateImage(JitTwo(s).stream)[At(s, k)]
    BY <1>4, <1>6, Zenon
  <2> HIDE DEF i, w, labs
  <2> QED
    BY <1>6, <1>7, <2>1, <2>2, Zenon
<1>9. CASE label \in DOMAIN labs /\ is_function_registered(label)
  <2>1. kind = "PC_RELATIVE_26_BIT_OFFSET"
    BY <1>2, <1>3, <1>9, Zenon
  <2>2. PICK other \in Nat : other = labs[label]
    BY <1>9, JitOneLemma, Zenon
  <2>3. (to - other) % 2^28 # 0
    BY <1>7, <1>9, <2>2, Zenon DEF Far, TargetAddress
  <2>4. Aim(labs, label) = other
    BY <1>9, <2>2, Zenon DEF Aim
  <2>5. Reached(w, pc, kind) # other
    <3>1. Reached(apply_pc_relative_relocation(s[k].word, pc, to, kind), pc, kind) # other
      BY <1>4, <1>7, <2>1, <2>3, WrapLemma, Zenon
    <3> QED
      BY <1>8, <3>1, Zenon
  <2> HIDE DEF i, labs, w
  <2>6. Reached(w, i.address, i.relocation) # Aim(labs, i.target)
    BY <1>6, <2>4, <2>5, Zenon
  <2> QED
    BY <1>6, <1>9, <2>6, Zenon DEF i, labs, w
<1>10. CASE ~(label \in DOMAIN labs /\ is_function_registered(label))
  <2>1. Aim(labs, label) = to
    BY <1>6, <1>7, <1>10, Zenon DEF Aim, TargetAddress, Resolves
  <2>2. Reached(w, pc, kind) = to <=> InRange(pc, to, kind)
    <3>1. Reached(apply_pc_relative_relocation(s[k].word, pc, to, kind), pc, kind) = to
            <=> InRange(pc, to, kind)
      BY ONLY <1>4, <1>7, pc \in Nat, to \in Nat, AlignedReach,
         kind \in {"PC_RELATIVE_26_BIT_OFFSET", "PC_RELATIVE_19_BIT_OFFSET"}, SMT
    <3> HIDE DEF w
    <3> QED
      BY <1>8, <3>1, Zenon
  <2> HIDE DEF i, labs, w
  <2>3. /\ Reached(w, i.address, i.relocation) = Aim(labs, i.target)
             <=> InRange(i.address, Aim(labs, i.target), i.relocation)
        /\ i.target \in DOMAIN labs => ~is_function_registered(i.target)
    BY <1>6, <1>10, <2>1, <2>2, Zenon
  <2> QED
    BY <2>3, Zenon DEF i, labs, w
<1> QED
  BY <1>9, <1>10, Zenon

(* An ADRP of the loaded program and the ADD after it.                     *)
LEMMA PageArrives ==
    ASSUME NEW s, Good(s), JitTwo(s).ok, Apart(JitTwo(s).stream),
           NEW k \in 1 .. Len(s), s[k].opcode = "ADRP",
           NEW pc, pc = JitTwo(s).stream[k].address,
           NEW to, to = Aim(JitOne(s).labels, JitTwo(s).stream[k].target),
           (to \div 4096) - (pc \div 4096) \in -(2^20) .. (2^20 - 1)
    PROVE  LET image_ == PopulateImage(JitTwo(s).stream)
           IN  4096 * ((pc \div 4096) + Field(image_[pc], 29, 2)
                         + 4 * SignedField(image_[pc], 5, 19))
                 + Field(image_[pc + 4], 10, 12) = to
<1> DEFINE labs == JitOne(s).labels
           t == JitTwo(s).stream
           im == PopulateImage(t)
           n == k + 1
           high == "PAGE_21_BIT_PC_RELATIVE"
           low == "ADD_12_BIT_UNSIGNED_OFFSET"
<1>1. Formed(s[k]) /\ n \in 1 .. Len(s) /\ Low(s[n], s[k]) /\ Formed(s[n])
  BY ONLY Good(s), k \in 1 .. Len(s), s[k].opcode = "ADRP", Zenon DEF Good, Stands
<1>2. /\ Emits(s[k]) /\ s[k].segment = "CODE" /\ s[k].relocation = high
      /\ ~is_function_registered(s[k].target)
  BY ONLY <1>1, s[k].opcode = "ADRP", Zenon DEF Formed
<1>3. /\ Emits(s[n]) /\ s[n].segment = "CODE" /\ s[n].relocation = low
      /\ s[n].target = s[k].target
  BY ONLY <1>1, Zenon DEF Formed, Low
<1>4. high \in PcKinds /\ low \in PcKinds
  BY ONLY TRUE, Zenon DEF PcKinds
<1>5. PICK label : label = s[k].target
  OBVIOUS
<1>6. At(s, k) \in Nat /\ At(s, k) % 4 = 0 /\ At(s, n) = At(s, k) + 4
  <2>1. k \in 1 .. Len(s) /\ s[k].segment = s[k + 1].segment
    BY ONLY <1>2, <1>3, k \in 1 .. Len(s), Zenon
  <2>2. At(s, k) \in Nat /\ At(s, k) % 4 = 0
    BY ONLY Good(s), <2>1, AtLemma, Zenon
  <2>3. At(s, k + 1) = At(s, k) + 4
    BY ONLY Good(s), <1>1, <1>2, <2>1, AtNext, Zenon DEF n
  <2> QED
    BY ONLY <2>2, <2>3, Zenon DEF n
<1> HIDE DEF n, high, low
<1>7. /\ t[k].target = label /\ t[k].address = At(s, k) /\ Resolves(label, labs)
      /\ t[k].word = apply_pc_relative_relocation(s[k].word, At(s, k),
                        TargetAddress(label, labs), high)
  <2>1. /\ t[k].target = s[k].target
        /\ Emits(s[k]) => t[k].address = At(s, k)
        /\ Emits(s[k]) /\ s[k].relocation \in PcKinds =>
             /\ Resolves(s[k].target, labs)
             /\ t[k].word = apply_pc_relative_relocation(s[k].word, At(s, k),
                             TargetAddress(s[k].target, labs), s[k].relocation)
    BY ONLY Good(s), JitTwo(s).ok, k \in 1 .. Len(s), JitTwoLemma, Zenon
  <2> HIDE DEF t, labs
  <2> QED
    BY ONLY <1>2, <1>4, <1>5, <2>1, Zenon
<1>8. t[n].word = apply_pc_relative_relocation(s[n].word, At(s, n),
                        TargetAddress(label, labs), low)
  <2>1. Emits(s[n]) /\ s[n].relocation \in PcKinds =>
             t[n].word = apply_pc_relative_relocation(s[n].word, At(s, n),
                             TargetAddress(s[n].target, labs), s[n].relocation)
    BY ONLY Good(s), JitTwo(s).ok, <1>1, JitTwoLemma, Zenon
  <2> HIDE DEF t, labs
  <2> QED
    BY ONLY <1>3, <1>4, <1>5, <2>1, Zenon
<1>9. im[At(s, k)] = t[k].word /\ im[At(s, n)] = t[n].word
  BY ONLY Good(s), JitTwo(s).ok, Apart(t), k \in 1 .. Len(s), <1>1, <1>2, <1>3, ImageLemma, Zenon
<1>10. to = TargetAddress(label, labs)
  <2>1. to = Aim(labs, label)
    BY ONLY <1>7, to = Aim(JitOne(s).labels, JitTwo(s).stream[k].target), Zenon
  <2>2. ~is_function_registered(label)
    BY ONLY <1>2, <1>5, Zenon
  <2> QED
    BY ONLY <1>7, <2>1, <2>2, Zenon DEF Aim, TargetAddress, Resolves
<1>11. to \in Nat
  BY ONLY Good(s), <1>7, <1>10, TargetLemma, Zenon
<1>12. pc = At(s, k) /\ pc \in Nat /\ pc + 4 = At(s, n)
  BY ONLY <1>6, <1>7, pc = JitTwo(s).stream[k].address, Zenon
<1>13. /\ im[pc] = apply_pc_relative_relocation(s[k].word, pc, to, "PAGE_21_BIT_PC_RELATIVE")
       /\ im[pc + 4] = apply_pc_relative_relocation(s[n].word, At(s, n), to,
                                                    "ADD_12_BIT_UNSIGNED_OFFSET")
  <2> HIDE DEF im, t, labs
  <2> QED
    BY ONLY <1>7, <1>8, <1>9, <1>10, <1>12, Zenon DEF high, low
<1> DEFINE x == apply_pc_relative_relocation(s[k].word, pc, to, "PAGE_21_BIT_PC_RELATIVE")
           y == apply_pc_relative_relocation(s[n].word, At(s, n), to, "ADD_12_BIT_UNSIGNED_OFFSET")
<1>14. 4096 * ((pc \div 4096) + Field(x, 29, 2) + 4 * SignedField(x, 5, 19))
         + Field(y, 10, 12) = to
  <2>1. (to \div 4096) - (pc \div 4096) \in -(2^20) .. (2^20 - 1)
    OBVIOUS
  <2> DEFINE wk == s[k].word
             wn == s[n].word
             next == At(s, n)
  <2>2. /\ x = apply_pc_relative_relocation(wk, pc, to, "PAGE_21_BIT_PC_RELATIVE")
        /\ y = apply_pc_relative_relocation(wn, next, to, "ADD_12_BIT_UNSIGNED_OFFSET")
    BY ONLY TRUE, Zenon
  <2> HIDE DEF x, y, wk, wn, next
  <2> QED
    BY ONLY <1>11, <1>12, <2>1, <2>2, PageLemma, SMT
<1>15. im[pc] = x /\ im[pc + 4] = y
  BY ONLY <1>13, Zenon
<1> HIDE DEF x, y, im
<1>16. 4096 * ((pc \div 4096) + Field(im[pc], 29, 2) + 4 * SignedField(im[pc], 5, 19))
         + Field(im[pc + 4], 10, 12) = to
  BY ONLY <1>14, <1>15, SMT
<1> QED
  BY ONLY <1>16, SMT DEF im, t

-----------------------------------------------------------------------------
(* The loaded program. *)

(* What the link for the JIT has reached.                                  *)
JitInv ==
    focus = "program" =>
        /\ phase \in {"jit addressed", "linked", "loaded"} => labels = JitOne(stream).labels
        /\ phase = "jit addressed" => linked = JitOne(stream).stream
        /\ phase \in {"linked", "loaded"} => linked = JitTwo(stream).stream /\ JitTwo(stream).ok
        /\ phase = "loaded" => image = PopulateImage(linked)

(* A step of the driver that links or loads.                               *)
LEMMA JitStep ==
    ASSUME JitInv, Fresh, focus = "program", Link
    PROVE  JitInv'
<1>0. /\ phase \in {"jit addressed", "linked", "loaded"} => labels = JitOne(stream).labels
      /\ phase = "jit addressed" => linked = JitOne(stream).stream
      /\ phase \in {"linked", "loaded"} => linked = JitTwo(stream).stream /\ JitTwo(stream).ok
      /\ phase = "loaded" => image = PopulateImage(linked)
  BY Zenon DEF JitInv
<1>1. stream' = stream
  BY Zenon DEF Link, StaticLink, StaticRelocate, ResetLabels, JitLink, JitRelocate,
     CopyToMemory, BreakAt, PopulateTable, EndWindow, KeepProgram
<1>2. ASSUME phase' \in {"addressed", "assembled", "failed", "reset", "armed", "done"} PROVE JitInv'
  BY <1>2 DEF JitInv
<1>3. CASE StaticLink \/ StaticRelocate
  <2>1. phase' \in {"addressed", "assembled", "failed"}
    BY <1>3, Zenon DEF StaticLink, StaticRelocate, LinkPassOne, LinkPassTwo
  <2> QED
    BY <1>2, <2>1, Zenon
<1>4. CASE ResetLabels \/ BreakAt \/ PopulateTable \/ EndWindow
  <2>1. phase' \in {"reset", "armed", "done"}
    BY <1>4, Zenon DEF ResetLabels, BreakAt, PopulateTable, EndWindow
  <2> QED
    BY <1>2, <2>1, Zenon
<1>5. CASE JitLink
  <2>1. labels = <<>>
    BY <1>5, Zenon DEF JitLink, Fresh
  <2>2. /\ labels' = JitOne(stream).labels /\ linked' = JitOne(stream).stream
        /\ phase' \in {"jit addressed", "failed"}
    BY <1>5, <2>1, Zenon DEF JitLink, LinkPassOne, JitOne
  <2>3. CASE phase' = "jit addressed"
    BY <1>1, <2>2, <2>3 DEF JitInv
  <2>4. CASE phase' = "failed"
    BY <1>2, <2>4, Zenon
  <2> QED
    BY <2>2, <2>3, <2>4, Zenon
<1>6. CASE JitRelocate
  <2>1. labels = JitOne(stream).labels /\ linked = JitOne(stream).stream /\ labels' = labels
    BY <1>0, <1>6, Zenon DEF JitRelocate
  <2>2. linked' = JitTwo(stream).stream
        /\ phase' = IF JitTwo(stream).ok THEN "linked" ELSE "failed"
    BY <1>6, <2>1, Zenon DEF JitRelocate, LinkPassTwo, JitTwo
  <2>3. CASE JitTwo(stream).ok
    <3>1. phase' = "linked"
      BY <2>2, <2>3, Zenon
    <3> QED
      BY <1>1, <2>1, <2>2, <2>3, <3>1 DEF JitInv
  <2>4. CASE ~JitTwo(stream).ok
    BY <1>2, <2>2, <2>4, Zenon
  <2> QED
    BY <2>3, <2>4, Zenon
<1>7. CASE CopyToMemory
  <2>1. /\ phase = "linked" /\ phase' = "loaded" /\ labels' = labels /\ linked' = linked
        /\ image' = PopulateImage(linked)
    BY <1>7, Zenon DEF CopyToMemory
  <2>2. labels = JitOne(stream).labels /\ linked = JitTwo(stream).stream /\ JitTwo(stream).ok
    BY <1>0, <2>1, Zenon
  <2> QED
    BY <1>1, <2>1, <2>2 DEF JitInv
<1> QED
  BY <1>3, <1>4, <1>5, <1>6, <1>7, Zenon DEF Link

(* With LinkInv, JitInv is inductive.                                      *)
LEMMA JitNext == LinkInv /\ JitInv /\ [Next]_vars => JitInv'
<1> SUFFICES ASSUME LinkInv, JitInv, [Next]_vars, focus' = "program" PROVE JitInv'
  BY Zenon DEF JitInv
<1>0. focus = "program" => Sound /\ Fresh
  BY Zenon DEF LinkInv
<1>1. ASSUME phase' \in {"generate", "generated", "optimize", "optimized"} PROVE JitInv'
  BY <1>1 DEF JitInv
<1>2. CASE Encode
  <2>1. focus = "encode" /\ focus' = focus
    BY <1>2 DEF Encode, EncodeThree, EncodeFp, EncodeTwoFp, EncodeTwo, EncodeOne,
                EncodeImmediate, EncodePair, EncodeBitfield, EncodeLogical, EncodeMoveWide,
                EncodeOther, Requested
  <2> QED
    BY <2>1
<1>3. CASE RelocateOne
  <2>1. focus = "relocate" /\ focus' = focus
    BY <1>3, Zenon DEF RelocateOne
  <2> QED
    BY <2>1
<1>4. CASE FinishCode
  <2>1. phase' = "generated"
    BY <1>4, Zenon DEF FinishCode
  <2> QED
    BY <1>1, <2>1, Zenon
<1>5. CASE Generate /\ ~FinishCode
  <2>1. CASE EmitWindow
    <3>1. focus = "window" /\ focus' = focus
      BY <2>1, Zenon DEF EmitWindow, Generating, Generated
    <3> QED
      BY <3>1
  <2>2. CASE ~EmitWindow
    <3>1. Generated
      BY <1>5, <2>2, Zenon DEF Generate, DefineRoutine, FunctionCall, RoutineCall, LoadString,
         LoadFloat, LoadTable, LoadList, DeclareStatic, DeclareGlobal, ShortCircuitAnd, EmitLoop
    <3>2. focus' = focus /\ phase' = phase
      BY <3>1, Zenon DEF Generated
    <3>3. phase = "generate"
      BY <1>0, <1>5, <3>2, GenerateStep, Zenon
    <3> QED
      BY <1>1, <3>2, <3>3, Zenon
  <2> QED
    BY <2>1, <2>2, Zenon
<1>6. CASE Optimize
  <2>1. focus' = focus
    BY <1>6, Zenon DEF Optimize, BeginPass, RewriteWindow, Advance, EndPass, SkipOptimizer, Keep
  <2>2. phase' \in {"optimize", "optimized"}
    BY <1>0, <1>6, <2>1, OptimizeStep, Zenon
  <2> QED
    BY <1>1, <2>2, Zenon
<1>7. CASE Link
  <2>1. KeepProgram
    BY <1>7, Zenon DEF Link, StaticLink, StaticRelocate, ResetLabels, JitLink, JitRelocate,
       CopyToMemory, BreakAt, PopulateTable, EndWindow
  <2>2. focus = "program"
    BY <2>1, Zenon DEF KeepProgram
  <2> QED
    BY <1>0, <1>7, <2>2, JitStep, Zenon
<1>8. CASE UNCHANGED vars
  <2>1. /\ focus' = focus /\ phase' = phase /\ stream' = stream
        /\ labels' = labels /\ linked' = linked /\ image' = image
    BY <1>8, Zenon DEF vars
  <2> QED
    BY <2>1, Zenon DEF JitInv
<1> QED
  BY <1>2, <1>3, <1>4, <1>5, <1>6, <1>7, <1>8, Zenon DEF Next

(* The loaded program of a link that fits.                                 *)
LEMMA LoadedReach == LinkInv /\ JitInv /\ Fits => CallsReach
<1> SUFFICES ASSUME LinkInv, JitInv, Fits, focus = "program", phase = "loaded",
                    NEW k \in DOMAIN linked
             PROVE  LET i == linked[k]
                        to == Intended(i.target)
                        w == image[i.address]
                    IN  /\ i.opcode \in {"B", "BL", "B_COND", "CBZ"} =>
                              (Reached(w, i.address, i.relocation) = to
                               <=> /\ InRange(i.address, to, i.relocation)
                                   /\ i.target \in DOMAIN labels => ~is_function_registered(i.target))
                        /\ i.opcode = "ADRP" =>
                              4096 * ((i.address \div 4096) + Field(w, 29, 2)
                                        + 4 * SignedField(w, 5, 19))
                              + Field(image[i.address + 4], 10, 12) = to
  BY SMT DEF CallsReach
<1> DEFINE s == stream
           i == linked[k]
           to == Intended(i.target)
<1>1. /\ Good(s) /\ labels = JitOne(s).labels /\ linked = JitTwo(s).stream /\ JitTwo(s).ok
      /\ image = PopulateImage(linked)
  <2>1. Good(s)
    BY Zenon DEF LinkInv, Sound
  <2>2. phase \in {"jit addressed", "linked", "loaded"} /\ phase \in {"linked", "loaded"}
    OBVIOUS
  <2> QED
    BY <2>1, <2>2, Zenon DEF JitInv
<1>2. Apart(linked)
  BY Zenon DEF Fits, Apart
<1>3. Far(labels)
  BY Zenon DEF Fits, Far
<1>4. k \in 1 .. Len(s)
  <2>1. DOMAIN JitTwo(s).stream = DOMAIN JitOne(s).stream
    BY Zenon DEF JitTwo, performRelocations
  <2> QED
    BY <1>1, <2>1, JitOneLemma, Zenon
<1>5. i.opcode = s[k].opcode
  BY <1>1, <1>4, JitTwoLemma, Zenon
<1>6. Aim(labels, i.target) = to
  BY Zenon DEF Aim, Intended
<1>7. ASSUME i.opcode \in {"B", "BL", "B_COND", "CBZ"}
      PROVE  Reached(image[i.address], i.address, i.relocation) = to
               <=> /\ InRange(i.address, to, i.relocation)
                   /\ i.target \in DOMAIN labels => ~is_function_registered(i.target)
  <2>1. s[k].opcode \in {"B", "BL", "B_COND", "CBZ"}
    BY <1>5, <1>7, Zenon
  <2>2. LET j == JitTwo(s).stream[k]
            labs == JitOne(s).labels
            w == PopulateImage(JitTwo(s).stream)[j.address]
        IN  Reached(w, j.address, j.relocation) = Aim(labs, j.target)
              <=> /\ InRange(j.address, Aim(labs, j.target), j.relocation)
                  /\ j.target \in DOMAIN labs => ~is_function_registered(j.target)
    BY <1>1, <1>2, <1>3, <1>4, <2>1, BranchArrives, Zenon
  <2>3. Reached(image[i.address], i.address, i.relocation) = Aim(labels, i.target)
              <=> /\ InRange(i.address, Aim(labels, i.target), i.relocation)
                  /\ i.target \in DOMAIN labels => ~is_function_registered(i.target)
    BY <1>1, <2>2, Zenon
  <2> HIDE DEF to, i
  <2> QED
    BY <1>6, <2>3, Zenon
<1>8. ASSUME i.opcode = "ADRP"
      PROVE  4096 * ((i.address \div 4096) + Field(image[i.address], 29, 2)
                       + 4 * SignedField(image[i.address], 5, 19))
               + Field(image[i.address + 4], 10, 12) = to
  <2>1. (to \div 4096) - (i.address \div 4096) \in -(2^20) .. (2^20 - 1)
    BY <1>8, SMT DEF Fits
  <2>2. s[k].opcode = "ADRP"
    BY ONLY <1>5, <1>8, Zenon
  <2> DEFINE pc == i.address
             im == PopulateImage(JitTwo(s).stream)
  <2>3. pc = JitTwo(s).stream[k].address /\ to = Aim(JitOne(s).labels, JitTwo(s).stream[k].target)
    BY ONLY <1>1, <1>6, Zenon
  <2>4. Apart(JitTwo(s).stream) /\ image = im
    BY ONLY <1>1, <1>2, Zenon
  <2> HIDE DEF to, pc
  <2>5. (to \div 4096) - (pc \div 4096) \in -(2^20) .. (2^20 - 1)
    BY ONLY <2>1, SMT DEF pc
  <2> HIDE DEF i, s
  <2>6. 4096 * ((pc \div 4096) + Field(im[pc], 29, 2) + 4 * SignedField(im[pc], 5, 19))
          + Field(im[pc + 4], 10, 12) = to
    BY ONLY <1>1, <1>4, <2>2, <2>3, <2>4, <2>5, PageArrives, SMT
  <2> HIDE DEF im
  <2> QED
    BY ONLY <2>4, <2>6, SMT DEF pc
<1> QED
  BY <1>7, <1>8, SMT

(* However long the program and wherever the buffers, the functions of the *)
(* runtime and the literals are: once NewBCPL has copied a linked program  *)
(* to its memory, a branch reaches what its source meant exactly when that *)
(* is in its range and no runtime function has the name of the routine,    *)
(* and ADRP with ADD forms the address of the literal, provided that the   *)
(* program fits: data apart from code, literals in the reach of ADRP, and  *)
(* no routine a multiple of 256M from the runtime function of its name.    *)
THEOREM CallsArrive == Spec => [](Fits => CallsReach)
<1>1. Init => JitInv
  BY DEF Init, JitInv
<1>2. LinkInv /\ JitInv => (Fits => CallsReach)
  BY LoadedReach, Zenon
<1> QED
  BY <1>1, <1>2, LinkInit, LinkNext, JitNext, PTL DEF Spec
=============================================================================
