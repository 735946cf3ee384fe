----------------------- MODULE RegisterManagerProof -----------------------
(***************************************************************************)
(* The invariants of RegisterManager, proved for pools of any size and any *)
(* set of variables.                                                       *)
(***************************************************************************)
EXTENDS RegisterManager, TLAPS, SequenceTheorems, WellFoundedInduction

-----------------------------------------------------------------------------
(* Lists of registers: what push_front, pop_back and remove do to the set  *)
(* of members and to the absence of repetitions.                           *)

(* push_front of a register that is not listed keeps the list free of      *)
(* repetitions.                                                            *)
LEMMA PushFrontLemma ==
    ASSUME NEW S, NEW s \in Seq(S), NEW r \in S
    PROVE  /\ PushFront(s, r) \in Seq(S)
           /\ Members(PushFront(s, r)) = Members(s) \cup {r}
           /\ NoRepeats(s) /\ r \notin Members(s) => NoRepeats(PushFront(s, r))
<1> DEFINE t == PushFront(s, r)
<1>1. /\ t \in Seq(S)
      /\ Len(t) = Len(s) + 1
      /\ t[1] = r
      /\ \A i \in 1 .. Len(s) : t[i + 1] = s[i]
  BY DEF PushFront
<1>2. /\ DOMAIN t = 1 .. (Len(s) + 1)
      /\ DOMAIN s = 1 .. Len(s)
      /\ Len(s) \in Nat
  BY <1>1, LenProperties
<1>3. \A i \in 1 .. (Len(s) + 1) : i # 1 => i - 1 \in 1 .. Len(s) /\ t[i] = s[i - 1]
  BY <1>1, <1>2
<1> HIDE DEF t
<1>4. Members(t) = Members(s) \cup {r}
  <2>1. Members(t) \subseteq Members(s) \cup {r}
    BY <1>1, <1>2, <1>3 DEF Members
  <2>2. r \in Members(t)
    BY <1>1, <1>2 DEF Members
  <2>3. ASSUME NEW x \in Members(s) PROVE x \in Members(t)
    <3>1. PICK i \in 1 .. Len(s) : x = s[i]
      BY <1>2 DEF Members
    <3>2. i + 1 \in DOMAIN t /\ t[i + 1] = x
      BY <3>1, <1>1, <1>2
    <3> QED
      BY <3>2 DEF Members
  <2> QED
    BY <2>1, <2>2, <2>3
<1>5. ASSUME NoRepeats(s), r \notin Members(s) PROVE NoRepeats(t)
  <2>1. \A i \in 1 .. Len(s) : s[i] # r
    BY <1>5, <1>2 DEF Members
  <2>2. ASSUME NEW i \in 1 .. (Len(s) + 1), NEW j \in 1 .. (Len(s) + 1), t[i] = t[j]
        PROVE  i = j
    <3>1. CASE i = 1 \/ j = 1
      BY <3>1, <2>1, <2>2, <1>1, <1>3
    <3>2. CASE i # 1 /\ j # 1
      <4>1. i - 1 \in DOMAIN s /\ j - 1 \in DOMAIN s /\ s[i - 1] = s[j - 1]
        BY <3>2, <2>2, <1>2, <1>3
      <4>2. i - 1 = j - 1
        BY <4>1, <1>5 DEF NoRepeats
      <4> QED
        BY <4>2, <1>2
    <3> QED
      BY <3>1, <3>2
  <2> QED
    BY <2>2, <1>2 DEF NoRepeats
<1> QED
  BY <1>1, <1>4, <1>5 DEF t

(* pop_back removes exactly the last register.                             *)
LEMMA PopBackLemma ==
    ASSUME NEW S, NEW s \in Seq(S), s # <<>>, NoRepeats(s)
    PROVE  /\ PopBack(s) \in Seq(S)
           /\ Back(s) \in Members(s) /\ Back(s) \in S
           /\ Members(PopBack(s)) = Members(s) \ {Back(s)}
           /\ NoRepeats(PopBack(s))
<1> DEFINE t == PopBack(s)
           n == Len(s)
<1>1. n \in Nat /\ n # 0 /\ DOMAIN s = 1 .. n
  BY EmptySeq, LenProperties
<1>2. /\ t \in Seq(S)
      /\ Len(t) = n - 1
      /\ \A i \in 1 .. (n - 1) : t[i] = s[i]
  BY <1>1 DEF PopBack
<1>3. DOMAIN t = 1 .. (n - 1)
  BY <1>2, LenProperties
<1>4. n \in DOMAIN s /\ Back(s) = s[n] /\ Back(s) \in S
  BY <1>1 DEF Back
<1> HIDE DEF t, n
<1>5. Members(t) = Members(s) \ {Back(s)}
  <2>1. ASSUME NEW x \in Members(t) PROVE x \in Members(s) /\ x # s[n]
    <3>1. PICK i \in 1 .. (n - 1) : x = t[i]
      BY <1>3 DEF Members
    <3>2. x = s[i] /\ i \in DOMAIN s /\ i # n
      BY <3>1, <1>1, <1>2
    <3> QED
      BY <3>2, <1>4 DEF Members, NoRepeats
  <2>2. ASSUME NEW x \in Members(s), x # s[n] PROVE x \in Members(t)
    <3>1. PICK i \in 1 .. n : x = s[i]
      BY <1>1 DEF Members
    <3>2. i \in DOMAIN t /\ t[i] = x
      BY <3>1, <2>2, <1>1, <1>2, <1>3
    <3> QED
      BY <3>2 DEF Members
  <2> QED
    BY <2>1, <2>2, <1>4
<1>6. NoRepeats(t)
  BY <1>1, <1>2, <1>3 DEF NoRepeats
<1>7. Back(s) \in Members(s)
  BY <1>4 DEF Members
<1> QED
  BY <1>2, <1>4, <1>5, <1>6, <1>7 DEF t

(* remove drops the register and keeps the others.                         *)
LEMMA RemoveLemma ==
    ASSUME NEW S, NEW s \in Seq(S), NoRepeats(s), NEW r
    PROVE  /\ Remove(s, r) \in Seq(S)
           /\ Members(Remove(s, r)) = Members(s) \ {r}
           /\ NoRepeats(Remove(s, r))
<1>1. CASE r \notin Members(s)
  BY <1>1 DEF Remove
<1>2. CASE r \in Members(s)
  <2> DEFINE n == Len(s)
             k == CHOOSE i \in DOMAIN s : s[i] = r
             t == [i \in 1 .. (n - 1) |-> IF i < k THEN s[i] ELSE s[i + 1]]
  <2>1. n \in Nat /\ DOMAIN s = 1 .. n
    BY LenProperties
  <2>2. k \in 1 .. n /\ s[k] = r
    BY <1>2, <2>1 DEF Members
  <2>3. Remove(s, r) = t
    BY <1>2 DEF Remove
  <2>4. \A i \in 1 .. n : s[i] \in S
    BY <2>1
  <2> HIDE DEF k, n
  <2>5. t \in Seq(S)
    <3>1. n - 1 \in Nat
      BY <2>1, <2>2
    <3>2. \A i \in 1 .. (n - 1) : t[i] \in S
      BY <2>1, <2>2, <2>4
    <3> QED
      BY <3>1, <3>2
  <2>6. DOMAIN t = 1 .. (n - 1)
    OBVIOUS
  <2>7. \A i \in 1 .. (n - 1) : t[i] = IF i < k THEN s[i] ELSE s[i + 1]
    OBVIOUS
  <2> HIDE DEF t
  <2>8. \A i, j \in 1 .. n : s[i] = s[j] => i = j
    BY <2>1 DEF NoRepeats
  <2>9. ASSUME NEW x \in Members(t) PROVE x \in Members(s) /\ x # r
    <3>1. PICK i \in 1 .. (n - 1) : x = t[i]
      BY <2>6 DEF Members
    <3>2. \E j \in 1 .. n : j # k /\ x = s[j]
      <4>1. CASE i < k
        BY <4>1, <3>1, <2>1, <2>7
      <4>2. CASE ~(i < k)
        <5>1. i + 1 \in 1 .. n /\ i + 1 # k /\ x = s[i + 1]
          BY <4>2, <3>1, <2>1, <2>2, <2>7
        <5> QED
          BY <5>1
      <4> QED
        BY <4>1, <4>2
    <3> QED
      BY <3>2, <2>1, <2>2, <2>8 DEF Members
  <2>10. ASSUME NEW x \in Members(s), x # r PROVE x \in Members(t)
    <3>1. PICK j \in 1 .. n : x = s[j]
      BY <2>1 DEF Members
    <3>2. j # k
      BY <3>1, <2>10, <2>2
    <3>3. \E i \in 1 .. (n - 1) : t[i] = x
      <4>1. CASE j < k
        BY <4>1, <3>1, <2>1, <2>2, <2>7
      <4>2. CASE j > k
        <5>1. j - 1 \in 1 .. (n - 1) /\ ~(j - 1 < k) /\ (j - 1) + 1 = j
          BY <4>2, <3>1, <2>1, <2>2
        <5>2. t[j - 1] = x
          BY <5>1, <2>7, <3>1
        <5> QED
          BY <5>1, <5>2
      <4> QED
        BY <4>1, <4>2, <3>2, <2>1, <2>2
    <3> QED
      BY <3>3, <2>6 DEF Members
  <2>11. NoRepeats(t)
    <3>1. ASSUME NEW i \in 1 .. (n - 1), NEW j \in 1 .. (n - 1), t[i] = t[j]
          PROVE  i = j
      <4> DEFINE f(m) == IF m < k THEN m ELSE m + 1
      <4>1. f(i) \in 1 .. n /\ f(j) \in 1 .. n
        BY <2>1, <2>2
      <4>2. s[f(i)] = s[f(j)]
        BY <3>1, <2>7
      <4>3. f(i) = f(j)
        BY <4>1, <4>2, <2>8
      <4> QED
        BY <4>3, <2>1, <2>2
    <3> QED
      BY <3>1, <2>6 DEF NoRepeats
  <2> QED
    BY <2>3, <2>5, <2>9, <2>10, <2>11
<1> QED
  BY <1>1, <1>2

-----------------------------------------------------------------------------
(* A set of positions that is not empty has a smallest one.                *)
LEMMA SmallestLemma ==
    ASSUME NEW T, T \subseteq Nat, T # {}
    PROVE  \E i \in T : \A j \in T : i <= j
<1>1. PICK i \in T : \A j \in T : ~(<<j, i>> \in OpToRel(<, Nat))
  BY NatLessThanWellFounded, WFMin, Zenon
<1>2. \A j \in T : ~(j < i)
  BY <1>1 DEF OpToRel
<1> QED
  BY <1>2

(* find_free_register returns a free member of the pool, and the empty     *)
(* string only when the pool has none.                                     *)
LEMMA FindFreeLemma ==
    ASSUME NEW pool \in Seq(Regs)
    PROVE  /\ find_free_register(pool) # NoReg =>
                 /\ find_free_register(pool) \in Members(pool)
                 /\ registers[find_free_register(pool)].status = "FREE"
           /\ find_free_register(pool) = NoReg =>
                 \A r \in Members(pool) : registers[r].status # "FREE"
<1> DEFINE F == FreeIn(pool)
<1>1. F \subseteq Nat /\ F \subseteq DOMAIN pool
  BY LenProperties DEF FreeIn
<1>2. CASE F = {}
  BY <1>2 DEF find_free_register, FreeIn, Members
<1>3. CASE F # {}
  <2> DEFINE m == CHOOSE i \in F : \A j \in F : i <= j
  <2>1. \E i \in F : \A j \in F : i <= j
    BY <1>1, <1>3, SmallestLemma
  <2>2. m \in F
    BY <2>1
  <2>3. find_free_register(pool) = pool[m]
    BY <1>3 DEF find_free_register
  <2>4. m \in DOMAIN pool /\ registers[pool[m]].status = "FREE"
    BY <2>2 DEF FreeIn
  <2>5. pool[m] \in Regs
    BY <2>4
  <2> HIDE DEF m
  <2>6. pool[m] \in Members(pool) /\ pool[m] # NoReg
    BY <2>4, <2>5, PoolsAssumption DEF Members
  <2> QED
    BY <2>3, <2>4, <2>6
<1> QED
  BY <1>2, <1>3
-----------------------------------------------------------------------------
(* The inductive invariant.  UseKinds is the strengthening: the statuses   *)
(* and the bound_to fields fit the pools they occur in, which is what      *)
(* keeps reset_caller_saved_registers and the evictions from disturbing    *)
(* the other parts.                                                        *)
UseKinds ==
    /\ \A r \in Regs : registers[r].status = "IN_USE_VARIABLE" =>
         r \in VarPool /\ registers[r].bound_to \in Vars \cup {"_temp_"}
    /\ \A r \in VarPool \cup ScratchPool : registers[r].status # "IN_USE_DATA_BASE"
    /\ registers[X28].status = "IN_USE_DATA_BASE"
    /\ registers[X19].status = "FREE"

RInv ==
    /\ TypeOK
    /\ MapExact
    /\ LruExact
    /\ LentPinned
    /\ NoLostUpdate
    /\ UndefinedOnlyIfAllLent
    /\ UseKinds

(* The initial state satisfies the invariant.                              *)
LEMMA InitRInv == Init => RInv
<1> SUFFICES ASSUME Init PROVE RInv
  OBVIOUS
<1>1. /\ registers \in [Regs -> [status : Status, bound_to : Vars \cup Labels,
                                dirty : BOOLEAN]]
      /\ registers[X28].status = "IN_USE_DATA_BASE"
      /\ \A r \in Regs \ {X28} : registers[r].status = "FREE"
      /\ \A r \in Regs : registers[r].bound_to \in Labels
  BY DEF Init, InitialRegisters, Info, Free, Status, Labels, Regs
<1>2. X19 \in Regs \ {X28} /\ VarPool \cup ScratchPool \subseteq Regs \ {X28}
  BY PoolsAssumption DEF Regs
<1>3. TypeOK
  BY <1>1 DEF TypeOK, Init, NoMapping
<1>4. MapExact
  BY <1>1, PoolsAssumption DEF MapExact, Init, NoMapping
<1>5. LruExact
  BY <1>1, <1>2 DEF LruExact, NoRepeats, Members, Init
<1>6. LentPinned /\ NoLostUpdate /\ UndefinedOnlyIfAllLent
  BY <1>1, <1>2 DEF LentPinned, NoLostUpdate, UndefinedOnlyIfAllLent, Init
<1>7. UseKinds
  BY <1>1, <1>2 DEF UseKinds
<1> QED
  BY <1>3, <1>4, <1>5, <1>6, <1>7 DEF RInv

-----------------------------------------------------------------------------
(* What the invariant says of the registers the acquire operations pick.   *)
LEMMA PoolLemma ==
    /\ VARIABLE_REGS \in Seq(Regs) /\ Members(VARIABLE_REGS) = VarPool
    /\ SCRATCH_REGS \in Seq(Regs) /\ Members(SCRATCH_REGS) = ScratchPool
    /\ VarPool \subseteq Regs /\ ScratchPool \subseteq Regs
    /\ X19 \in Regs /\ X28 \in Regs
<1>1. VarPool \subseteq Regs /\ ScratchPool \subseteq Regs
  BY DEF Regs
<1>2. VARIABLE_REGS \in Seq(Regs) /\ SCRATCH_REGS \in Seq(Regs)
  BY <1>1, PoolsAssumption, SeqMonotonic
<1> QED
  BY <1>1, <1>2 DEF Members, VarPool, ScratchPool, Regs

(* A free variable-pool register.                                          *)
LEMMA FreeVariableLemma ==
    /\ find_free_register(VARIABLE_REGS) # NoReg =>
         /\ find_free_register(VARIABLE_REGS) \in VarPool
         /\ registers[find_free_register(VARIABLE_REGS)].status = "FREE"
    /\ find_free_register(VARIABLE_REGS) = NoReg =>
         \A r \in VarPool : registers[r].status # "FREE"
  BY PoolLemma, FindFreeLemma

(* A free scratch-pool register.                                           *)
LEMMA FreeScratchLemma ==
    find_free_register(SCRATCH_REGS) # NoReg =>
         /\ find_free_register(SCRATCH_REGS) \in ScratchPool
         /\ registers[find_free_register(SCRATCH_REGS)].status = "FREE"
  BY PoolLemma, FindFreeLemma

(* The victim of an eviction.                                              *)
LEMMA VictimLemma ==
    ASSUME RInv, lru # <<>>
    PROVE  /\ Back(lru) \in VarPool
           /\ registers[Back(lru)].status = "IN_USE_VARIABLE"
           /\ registers[Back(lru)].bound_to \in Vars \cup {"_temp_"}
           /\ PopBack(lru) \in Seq(VarPool)
           /\ NoRepeats(PopBack(lru))
           /\ Members(PopBack(lru)) = Members(lru) \ {Back(lru)}
<1>1. lru \in Seq(VarPool) /\ NoRepeats(lru)
  BY DEF RInv, TypeOK, LruExact
<1>2. /\ Back(lru) \in VarPool
      /\ Back(lru) \in Members(lru)
      /\ PopBack(lru) \in Seq(VarPool)
      /\ NoRepeats(PopBack(lru))
      /\ Members(PopBack(lru)) = Members(lru) \ {Back(lru)}
  BY <1>1, PopBackLemma
<1>3. registers[Back(lru)].status = "IN_USE_VARIABLE"
  BY <1>2 DEF RInv, LruExact
<1>4. registers[Back(lru)].bound_to \in Vars \cup {"_temp_"}
  BY <1>2, <1>3, PoolLemma DEF RInv, UseKinds
<1> QED
  BY <1>2, <1>3, <1>4

(* A register that becomes or stays bound to a variable: the maps.         *)
LEMMA BindLemma ==
    ASSUME RInv, NEW v \in Vars, variable_to_reg_map[v] = NoReg,
           NEW r \in VarPool,
           NEW name, name = registers[r].bound_to,
           registers' = [registers EXCEPT ![r] = Info("IN_USE_VARIABLE", v, FALSE)],
           variable_to_reg_map' = [Unmap(name) EXCEPT ![v] = r]
    PROVE  MapExact'
<1>1. r \in Regs /\ r # NoReg
  BY PoolLemma, PoolsAssumption
<1>2. /\ registers'[r].status = "IN_USE_VARIABLE"
      /\ registers'[r].bound_to = v
      /\ \A q \in Regs \ {r} : registers'[q] = registers[q]
  BY <1>1 DEF RInv, TypeOK, Info
<1>3. /\ variable_to_reg_map'[v] = r
      /\ \A w \in Vars \ {v} : variable_to_reg_map'[w] =
            IF w = name THEN NoReg ELSE variable_to_reg_map[w]
  BY DEF Unmap
<1>4. ASSUME NEW w \in Vars, variable_to_reg_map'[w] # NoReg
      PROVE  /\ registers'[variable_to_reg_map'[w]].status = "IN_USE_VARIABLE"
             /\ registers'[variable_to_reg_map'[w]].bound_to = w
  <2>1. CASE w = v
    BY <2>1, <1>2, <1>3
  <2>2. CASE w # v
    <3>1. w # name /\ variable_to_reg_map'[w] = variable_to_reg_map[w]
      BY <2>2, <1>3, <1>4
    <3>2. variable_to_reg_map[w] \in Regs
      BY <3>1, <1>4, PoolLemma DEF RInv, TypeOK
    <3>3. variable_to_reg_map[w] # r
      BY <3>1, <1>4 DEF RInv, MapExact
    <3>4. registers'[variable_to_reg_map[w]] = registers[variable_to_reg_map[w]]
      BY <3>2, <3>3, <1>2
    <3>5. /\ registers[variable_to_reg_map[w]].status = "IN_USE_VARIABLE"
          /\ registers[variable_to_reg_map[w]].bound_to = w
      BY <3>1, <1>4 DEF RInv, MapExact
    <3> QED
      BY <3>1, <3>4, <3>5
  <2> QED
    BY <2>1, <2>2
<1>5. ASSUME NEW q \in Regs, registers'[q].bound_to \in Vars
      PROVE  variable_to_reg_map'[registers'[q].bound_to] = q
  <2> q # NoReg
    BY PoolsAssumption
  <2>1. CASE q = r
    BY <2>1, <1>2, <1>3
  <2>2. CASE q # r
    <3> DEFINE w == registers[q].bound_to
    <3>1. registers'[q].bound_to = w /\ w \in Vars /\ variable_to_reg_map[w] = q
      BY <2>2, <1>2, <1>5 DEF RInv, MapExact
    <3>2. w # v
      BY <3>1
    <3>3. w # name
      BY <3>1, <2>2, <1>1 DEF RInv, MapExact
    <3> QED
      BY <3>1, <3>2, <3>3, <1>3
  <2> QED
    BY <2>1, <2>2
<1> QED
  BY <1>4, <1>5 DEF MapExact

(* A register whose new label is not a variable: the maps.                 *)
LEMMA UnbindLemma ==
    ASSUME RInv, NEW r \in VarPool \cup ScratchPool,
           NEW info \in [status : Status, bound_to : Labels, dirty : BOOLEAN],
           NEW name, name = registers[r].bound_to,
           registers' = [registers EXCEPT ![r] = info],
           variable_to_reg_map' = Unmap(name)
    PROVE  MapExact'
<1>1. r \in Regs /\ r # NoReg
  BY PoolLemma, PoolsAssumption
<1>2. /\ registers'[r].bound_to \notin Vars
      /\ \A q \in Regs \ {r} : registers'[q] = registers[q]
  BY <1>1, PoolsAssumption DEF RInv, TypeOK
<1>3. \A w \in Vars : variable_to_reg_map'[w] =
            IF w = name THEN NoReg ELSE variable_to_reg_map[w]
  BY DEF Unmap
<1>4. ASSUME NEW w \in Vars, variable_to_reg_map'[w] # NoReg
      PROVE  /\ registers'[variable_to_reg_map'[w]].status = "IN_USE_VARIABLE"
             /\ registers'[variable_to_reg_map'[w]].bound_to = w
  <2>1. w # name /\ variable_to_reg_map'[w] = variable_to_reg_map[w]
    BY <1>3, <1>4
  <2>2. variable_to_reg_map[w] \in Regs
    BY <2>1, <1>4, PoolLemma DEF RInv, TypeOK
  <2>3. variable_to_reg_map[w] # r
    BY <2>1, <1>4 DEF RInv, MapExact
  <2> QED
    BY <2>1, <2>2, <2>3, <1>2, <1>4 DEF RInv, MapExact
<1>5. ASSUME NEW q \in Regs, registers'[q].bound_to \in Vars
      PROVE  variable_to_reg_map'[registers'[q].bound_to] = q
  <2>1. q # r
    BY <1>2, <1>5
  <2>2. /\ registers'[q].bound_to = registers[q].bound_to
        /\ variable_to_reg_map[registers[q].bound_to] = q
    BY <2>1, <1>2, <1>5 DEF RInv, MapExact
  <2>3. registers[q].bound_to # name
    BY <2>1, <2>2, <1>1, <1>5 DEF RInv, MapExact
  <2> QED
    BY <2>2, <2>3, <1>3, <1>5
<1> QED
  BY <1>4, <1>5 DEF MapExact

-----------------------------------------------------------------------------
(* One lemma per operation: it preserves the invariant.  The steps of each *)
(* are the parts of RInv that the operation can disturb.                   *)

(* What the parts of the invariant say, in the form the proofs use.        *)
LEMMA RInvFacts ==
    ASSUME RInv
    PROVE  /\ registers \in [Regs -> [status : Status, bound_to : Vars \cup Labels,
                                      dirty : BOOLEAN]]
           /\ variable_to_reg_map \in [Vars -> VarPool \cup {NoReg}]
           /\ lru \in Seq(VarPool)
           /\ spilled \in SUBSET (Vars \cup {"_temp_"})
           /\ held \in SUBSET (VarPool \cup ScratchPool)
           /\ unsaved \in SUBSET Vars
           /\ NoRepeats(lru)
           /\ Members(lru) = {r \in VarPool : registers[r].status = "IN_USE_VARIABLE"}
  BY DEF RInv, TypeOK, LruExact

(* acquire_reg_for_variable on a cached variable only reorders the list.   *)
LEMMA AcquireVariableHitLemma ==
    ASSUME RInv, NEW v \in Vars, AcquireVariableHit(v)
    PROVE  RInv'
<1> DEFINE r == variable_to_reg_map[v]
<1>1. /\ r \in VarPool
      /\ registers[r].status = "IN_USE_VARIABLE"
  BY RInvFacts DEF RInv, MapExact, AcquireVariableHit
<1>2. /\ Remove(lru, r) \in Seq(VarPool)
      /\ NoRepeats(Remove(lru, r))
      /\ Members(Remove(lru, r)) = Members(lru) \ {r}
  BY RInvFacts, RemoveLemma
<1>3. /\ lru' \in Seq(VarPool)
      /\ NoRepeats(lru')
      /\ Members(lru') = (Members(lru) \ {r}) \cup {r}
  BY <1>1, <1>2, PushFrontLemma DEF AcquireVariableHit
<1> USE DEF AcquireVariableHit
<1>4. TypeOK'
  BY <1>3 DEF RInv, TypeOK
<1>5. LruExact'
  BY <1>1, <1>3, RInvFacts DEF LruExact
<1>6. MapExact' /\ LentPinned' /\ NoLostUpdate' /\ UndefinedOnlyIfAllLent'
  BY DEF RInv, MapExact, LentPinned, NoLostUpdate, UndefinedOnlyIfAllLent
<1>7. UseKinds'
  BY DEF RInv, UseKinds
<1> QED
  BY <1>4, <1>5, <1>6, <1>7 DEF RInv

(* acquire_reg_for_variable with a free register.                          *)
LEMMA AcquireVariableFreeLemma ==
    ASSUME RInv, fault = "none", NEW v \in Vars, AcquireVariableFree(v)
    PROVE  RInv'
<1> DEFINE r == find_free_register(VARIABLE_REGS)
           info == Info("IN_USE_VARIABLE", v, FALSE)
<1>1. r \in VarPool /\ r \in Regs /\ registers[r].status = "FREE"
  BY FreeVariableLemma, PoolLemma DEF AcquireVariableFree
<1>2. r \notin Members(lru)
  BY <1>1, RInvFacts
<1>3. registers[r].bound_to \notin Vars
  BY <1>1, PoolsAssumption DEF RInv, MapExact
<1>4. info \in [status : Status, bound_to : Vars \cup Labels, dirty : BOOLEAN]
      /\ info.status = "IN_USE_VARIABLE" /\ info.bound_to = v
  BY DEF Info, Status
<1>5. registers' = [registers EXCEPT ![r] = info]
      /\ variable_to_reg_map' = [variable_to_reg_map EXCEPT ![v] = r]
      /\ lru' = PushFront(lru, r)
      /\ variable_to_reg_map[v] = NoReg
      /\ UNCHANGED <<spilled, held, unsaved, fault>>
  BY DEF AcquireVariableFree
<1> HIDE DEF r
<1>6. variable_to_reg_map' = [Unmap(registers[r].bound_to) EXCEPT ![v] = r]
  BY <1>3, <1>5, RInvFacts DEF Unmap
<1>7. MapExact'
  BY <1>1, <1>5, <1>6, BindLemma
<1> HIDE DEF info
<1>8. /\ lru' \in Seq(VarPool)
      /\ NoRepeats(lru')
      /\ Members(lru') = Members(lru) \cup {r}
  BY <1>1, <1>2, <1>5, RInvFacts, PushFrontLemma
<1>9. /\ registers'[r] = info
      /\ \A q \in Regs \ {r} : registers'[q] = registers[q]
  BY <1>1, <1>5, RInvFacts
<1>10. TypeOK'
  BY <1>1, <1>4, <1>5, <1>8 DEF RInv, TypeOK
<1>11. LruExact'
  BY <1>1, <1>4, <1>8, <1>9, RInvFacts, PoolLemma DEF LruExact
<1>12. LentPinned'
  BY <1>1, <1>4, <1>5, <1>9, PoolLemma DEF RInv, LentPinned
<1>13. NoLostUpdate'
  <2> SUFFICES ASSUME NEW w \in unsaved'
               PROVE  /\ variable_to_reg_map'[w] # NoReg
                      /\ registers'[variable_to_reg_map'[w]].dirty
    BY DEF NoLostUpdate
  <2>1. w \in Vars /\ variable_to_reg_map[w] # NoReg /\ registers[variable_to_reg_map[w]].dirty
    BY <1>5, RInvFacts DEF RInv, NoLostUpdate
  <2>2. w # v /\ variable_to_reg_map'[w] = variable_to_reg_map[w]
    BY <2>1, <1>5, RInvFacts
  <2>3. variable_to_reg_map[w] \in Regs /\ variable_to_reg_map[w] # r
    BY <2>1, <1>1, RInvFacts, PoolLemma DEF RInv, MapExact
  <2> QED
    BY <2>1, <2>2, <2>3, <1>9
<1>14. UndefinedOnlyIfAllLent'
  BY <1>5 DEF UndefinedOnlyIfAllLent
<1>15. UseKinds'
  BY <1>1, <1>4, <1>9, PoolLemma, PoolsAssumption DEF RInv, UseKinds
<1> QED
  BY <1>7, <1>10, <1>11, <1>12, <1>13, <1>14, <1>15 DEF RInv

(* An eviction loses no value: the victim's newest value is stored when it *)
(* is not in the stack slot already, and nobody else's register changes.   *)
LEMMA EvictUpdateLemma ==
    ASSUME RInv, NEW r \in VarPool,
           NEW info, registers' = [registers EXCEPT ![r] = info],
           unsaved' = StoreIfDirty(r),
           \A w \in Vars : variable_to_reg_map[w] # NoReg /\ w # registers[r].bound_to =>
                              variable_to_reg_map'[w] = variable_to_reg_map[w]
    PROVE  NoLostUpdate'
<1> SUFFICES ASSUME NEW w \in unsaved'
             PROVE  /\ variable_to_reg_map'[w] # NoReg
                    /\ registers'[variable_to_reg_map'[w]].dirty
  BY DEF NoLostUpdate
<1>1. /\ w \in Vars
      /\ variable_to_reg_map[w] # NoReg
      /\ registers[variable_to_reg_map[w]].dirty
  BY RInvFacts DEF RInv, NoLostUpdate, StoreIfDirty
<1>2. w # registers[r].bound_to
  <2> SUFFICES ASSUME w = registers[r].bound_to PROVE FALSE
    OBVIOUS
  <2>1. variable_to_reg_map[w] = r
    BY <1>1, PoolLemma DEF RInv, MapExact
  <2>2. registers[r].dirty
    BY <2>1, <1>1
  <2> QED
    BY <2>2 DEF StoreIfDirty
<1>3. variable_to_reg_map'[w] = variable_to_reg_map[w]
  BY <1>1, <1>2
<1>4. variable_to_reg_map[w] \in Regs /\ variable_to_reg_map[w] # r
  BY <1>1, <1>2, RInvFacts, PoolLemma DEF RInv, MapExact
<1> QED
  BY <1>1, <1>3, <1>4, RInvFacts

(* acquire_reg_for_variable when the least recently used register is taken. *)
LEMMA AcquireVariableEvictLemma ==
    ASSUME RInv, fault = "none", NEW v \in Vars, AcquireVariableEvict(v)
    PROVE  RInv'
<1> DEFINE r == Back(lru)
           info == Info("IN_USE_VARIABLE", v, FALSE)
<1>1. /\ r \in VarPool /\ r \in Regs
      /\ registers[r].status = "IN_USE_VARIABLE"
      /\ registers[r].bound_to \in Vars \cup {"_temp_"}
      /\ PopBack(lru) \in Seq(VarPool)
      /\ NoRepeats(PopBack(lru))
      /\ Members(PopBack(lru)) = Members(lru) \ {r}
  BY VictimLemma, PoolLemma DEF AcquireVariableEvict
<1>2. /\ info \in [status : Status, bound_to : Vars \cup Labels, dirty : BOOLEAN]
      /\ info.status = "IN_USE_VARIABLE" /\ info.bound_to = v
  BY DEF Info, Status
<1>3. /\ registers' = [registers EXCEPT ![r] = info]
      /\ variable_to_reg_map' = [Unmap(registers[r].bound_to) EXCEPT ![v] = r]
      /\ lru' = PushFront(PopBack(lru), r)
      /\ variable_to_reg_map[v] = NoReg
      /\ unsaved' = StoreIfDirty(r)
      /\ spilled' = (spilled \cup {registers[r].bound_to}) \ {v}
      /\ UNCHANGED <<held, fault>>
  BY DEF AcquireVariableEvict
<1> HIDE DEF r
<1>4. MapExact'
  BY <1>1, <1>3, BindLemma
<1> HIDE DEF info
<1>5. /\ lru' \in Seq(VarPool)
      /\ NoRepeats(lru')
      /\ Members(lru') = (Members(lru) \ {r}) \cup {r}
  BY <1>1, <1>3, PushFrontLemma
<1>6. /\ registers'[r] = info
      /\ \A q \in Regs \ {r} : registers'[q] = registers[q]
  BY <1>1, <1>3, RInvFacts
<1>7. TypeOK'
  <2>1. registers' \in [Regs -> [status : Status, bound_to : Vars \cup Labels, dirty : BOOLEAN]]
    BY <1>1, <1>2, <1>3, RInvFacts
  <2>2. variable_to_reg_map' \in [Vars -> VarPool \cup {NoReg}]
    BY <1>1, <1>3, RInvFacts DEF Unmap
  <2>3. unsaved' \in SUBSET Vars /\ spilled' \in SUBSET (Vars \cup {"_temp_"})
    BY <1>1, <1>3, RInvFacts DEF StoreIfDirty
  <2> QED
    BY <2>1, <2>2, <2>3, <1>3, <1>5 DEF RInv, TypeOK
<1>8. LruExact'
  BY <1>1, <1>2, <1>5, <1>6, RInvFacts, PoolLemma DEF LruExact
<1>9. LentPinned'
  BY <1>1, <1>2, <1>3, <1>6, PoolLemma DEF RInv, LentPinned
<1>10. NoLostUpdate'
  <2>1. \A w \in Vars : variable_to_reg_map[w] # NoReg /\ w # registers[r].bound_to =>
                           variable_to_reg_map'[w] = variable_to_reg_map[w]
    BY <1>3 DEF Unmap
  <2> QED
    BY <2>1, <1>1, <1>3, EvictUpdateLemma
<1>11. UndefinedOnlyIfAllLent'
  BY <1>3 DEF UndefinedOnlyIfAllLent
<1>12. UseKinds'
  BY <1>1, <1>2, <1>6, PoolLemma, PoolsAssumption DEF RInv, UseKinds
<1> QED
  BY <1>4, <1>7, <1>8, <1>9, <1>10, <1>11, <1>12 DEF RInv

(* acquire_spillable_temp_reg with a free register.                        *)
LEMMA AcquireTempFreeLemma ==
    ASSUME RInv, fault = "none", AcquireTempFree
    PROVE  RInv'
<1> DEFINE r == find_free_register(VARIABLE_REGS)
           info == Info("IN_USE_VARIABLE", "_temp_", FALSE)
<1>1. r \in VarPool /\ r \in Regs /\ registers[r].status = "FREE"
  BY FreeVariableLemma, PoolLemma DEF AcquireTempFree
<1>2. /\ info \in [status : Status, bound_to : Labels, dirty : BOOLEAN]
      /\ info.status = "IN_USE_VARIABLE" /\ info.bound_to = "_temp_"
  BY DEF Info, Status, Labels
<1>3. /\ registers' = [registers EXCEPT ![r] = info]
      /\ lru' = PushFront(lru, r)
      /\ UNCHANGED <<variable_to_reg_map, spilled, held, unsaved, fault>>
  BY DEF AcquireTempFree
<1> HIDE DEF r, info
<1>4. r \notin Members(lru) /\ registers[r].bound_to \notin Vars
  BY <1>1, RInvFacts, PoolsAssumption DEF RInv, MapExact
<1>5. variable_to_reg_map' = Unmap(registers[r].bound_to)
  BY <1>3, <1>4, RInvFacts DEF Unmap
<1>6. MapExact'
  BY <1>1, <1>2, <1>3, <1>5, UnbindLemma
<1>7. /\ lru' \in Seq(VarPool)
      /\ NoRepeats(lru')
      /\ Members(lru') = Members(lru) \cup {r}
  BY <1>1, <1>3, <1>4, RInvFacts, PushFrontLemma
<1>8. /\ registers'[r] = info
      /\ \A q \in Regs \ {r} : registers'[q] = registers[q]
  BY <1>1, <1>3, RInvFacts
<1>9. TypeOK'
  BY <1>1, <1>2, <1>3, <1>7 DEF RInv, TypeOK
<1>10. LruExact'
  BY <1>1, <1>2, <1>7, <1>8, RInvFacts, PoolLemma DEF LruExact
<1>11. LentPinned'
  BY <1>1, <1>2, <1>3, <1>8, PoolLemma DEF RInv, LentPinned
<1>12. NoLostUpdate'
  <2> SUFFICES ASSUME NEW w \in unsaved'
               PROVE  /\ variable_to_reg_map'[w] # NoReg
                      /\ registers'[variable_to_reg_map'[w]].dirty
    BY DEF NoLostUpdate
  <2>1. w \in Vars /\ variable_to_reg_map[w] # NoReg /\ registers[variable_to_reg_map[w]].dirty
    BY <1>3, RInvFacts DEF RInv, NoLostUpdate
  <2>2. variable_to_reg_map[w] \in Regs /\ variable_to_reg_map[w] # r
    BY <2>1, <1>1, RInvFacts, PoolLemma DEF RInv, MapExact
  <2> QED
    BY <2>1, <2>2, <1>3, <1>8
<1>13. UndefinedOnlyIfAllLent'
  BY <1>3 DEF UndefinedOnlyIfAllLent
<1>14. UseKinds'
  BY <1>1, <1>2, <1>8, PoolLemma, PoolsAssumption DEF RInv, UseKinds
<1> QED
  BY <1>6, <1>9, <1>10, <1>11, <1>12, <1>13, <1>14 DEF RInv

(* acquire_spillable_temp_reg when a register has to be taken.             *)
LEMMA AcquireTempEvictLemma ==
    ASSUME RInv, fault = "none", AcquireTempEvict
    PROVE  RInv'
<1> DEFINE r == Back(lru)
           info == Info("IN_USE_VARIABLE", "_temp_", FALSE)
<1>1. /\ r \in VarPool /\ r \in Regs
      /\ registers[r].status = "IN_USE_VARIABLE"
      /\ registers[r].bound_to \in Vars \cup {"_temp_"}
      /\ PopBack(lru) \in Seq(VarPool)
      /\ NoRepeats(PopBack(lru))
      /\ Members(PopBack(lru)) = Members(lru) \ {r}
  BY VictimLemma, PoolLemma DEF AcquireTempEvict
<1>2. /\ info \in [status : Status, bound_to : Labels, dirty : BOOLEAN]
      /\ info.status = "IN_USE_VARIABLE" /\ info.bound_to = "_temp_"
  BY DEF Info, Status, Labels
<1>3. /\ registers' = [registers EXCEPT ![r] = info]
      /\ variable_to_reg_map' = Unmap(registers[r].bound_to)
      /\ lru' = PushFront(PopBack(lru), r)
      /\ unsaved' = StoreIfDirty(r)
      /\ spilled' = spilled \cup {registers[r].bound_to}
      /\ UNCHANGED <<held, fault>>
  BY DEF AcquireTempEvict
<1> HIDE DEF r, info
<1>4. MapExact'
  BY <1>1, <1>2, <1>3, UnbindLemma
<1>5. /\ lru' \in Seq(VarPool)
      /\ NoRepeats(lru')
      /\ Members(lru') = (Members(lru) \ {r}) \cup {r}
  BY <1>1, <1>3, PushFrontLemma
<1>6. /\ registers'[r] = info
      /\ \A q \in Regs \ {r} : registers'[q] = registers[q]
  BY <1>1, <1>3, RInvFacts
<1>7. TypeOK'
  <2>1. registers' \in [Regs -> [status : Status, bound_to : Vars \cup Labels, dirty : BOOLEAN]]
    BY <1>1, <1>2, <1>3, RInvFacts
  <2>2. variable_to_reg_map' \in [Vars -> VarPool \cup {NoReg}]
    BY <1>3, RInvFacts DEF Unmap
  <2>3. unsaved' \in SUBSET Vars /\ spilled' \in SUBSET (Vars \cup {"_temp_"})
    BY <1>1, <1>3, RInvFacts DEF StoreIfDirty
  <2> QED
    BY <2>1, <2>2, <2>3, <1>3, <1>5 DEF RInv, TypeOK
<1>8. LruExact'
  BY <1>1, <1>2, <1>5, <1>6, RInvFacts, PoolLemma DEF LruExact
<1>9. LentPinned'
  BY <1>1, <1>2, <1>3, <1>6, PoolLemma DEF RInv, LentPinned
<1>10. NoLostUpdate'
  <2>1. \A w \in Vars : variable_to_reg_map[w] # NoReg /\ w # registers[r].bound_to =>
                           variable_to_reg_map'[w] = variable_to_reg_map[w]
    BY <1>3 DEF Unmap
  <2> QED
    BY <2>1, <1>1, <1>3, EvictUpdateLemma
<1>11. UndefinedOnlyIfAllLent'
  BY <1>3 DEF UndefinedOnlyIfAllLent
<1>12. UseKinds'
  BY <1>1, <1>2, <1>6, PoolLemma, PoolsAssumption DEF RInv, UseKinds
<1> QED
  BY <1>4, <1>7, <1>8, <1>9, <1>10, <1>11, <1>12 DEF RInv

(* A register that was and stays outside the LRU list changes its status   *)
(* and label; the maps, the list and the stack slots are left alone.       *)
LEMMA OutsideLemma ==
    ASSUME RInv, NEW r \in VarPool \cup ScratchPool,
           registers[r].status # "IN_USE_VARIABLE",
           NEW info \in [status : Status, bound_to : Labels, dirty : BOOLEAN],
           info.status \in {"FREE", "IN_USE_SCRATCH"},
           registers' = [registers EXCEPT ![r] = info],
           UNCHANGED <<variable_to_reg_map, lru, spilled, unsaved>>
    PROVE  /\ registers' \in [Regs -> [status : Status, bound_to : Vars \cup Labels,
                                       dirty : BOOLEAN]]
           /\ registers'[r] = info
           /\ \A q \in Regs \ {r} : registers'[q] = registers[q]
           /\ MapExact' /\ LruExact' /\ NoLostUpdate' /\ UseKinds'
<1>1. r \in Regs
  BY PoolLemma
<1>2. /\ registers' \in [Regs -> [status : Status, bound_to : Vars \cup Labels, dirty : BOOLEAN]]
      /\ registers'[r] = info
      /\ \A q \in Regs \ {r} : registers'[q] = registers[q]
  BY <1>1, RInvFacts
<1>3. registers[r].bound_to \notin Vars
  BY <1>1, PoolsAssumption DEF RInv, MapExact
<1>4. variable_to_reg_map' = Unmap(registers[r].bound_to)
  BY <1>3, RInvFacts DEF Unmap
<1>5. MapExact'
  BY <1>4, UnbindLemma
<1>6. LruExact'
  BY <1>2, RInvFacts, PoolLemma DEF LruExact
<1>7. NoLostUpdate'
  <2> SUFFICES ASSUME NEW w \in unsaved'
               PROVE  /\ variable_to_reg_map'[w] # NoReg
                      /\ registers'[variable_to_reg_map'[w]].dirty
    BY DEF NoLostUpdate
  <2>1. w \in Vars /\ variable_to_reg_map[w] # NoReg /\ registers[variable_to_reg_map[w]].dirty
    BY RInvFacts DEF RInv, NoLostUpdate
  <2>2. variable_to_reg_map[w] \in Regs /\ variable_to_reg_map[w] # r
    BY <2>1, RInvFacts, PoolLemma DEF RInv, MapExact
  <2> QED
    BY <2>1, <2>2, <1>2
<1>8. UseKinds'
  BY <1>1, <1>2, PoolLemma, PoolsAssumption DEF RInv, UseKinds
<1> QED
  BY <1>2, <1>5, <1>6, <1>7, <1>8

(* acquire_scratch_reg with a free register of either pool.                *)
LEMMA AcquireScratchFreeLemma ==
    ASSUME RInv, fault = "none", AcquireScratchFree
    PROVE  RInv'
<1> DEFINE r == IF find_free_register(SCRATCH_REGS) # NoReg
                THEN find_free_register(SCRATCH_REGS)
                ELSE find_free_register(VARIABLE_REGS)
           info == Info("IN_USE_SCRATCH", "scratch", FALSE)
<1>1. r \in VarPool \cup ScratchPool /\ registers[r].status = "FREE"
  BY FreeVariableLemma, FreeScratchLemma DEF AcquireScratchFree
<1>2. /\ info \in [status : Status, bound_to : Labels, dirty : BOOLEAN]
      /\ info.status = "IN_USE_SCRATCH"
  BY DEF Info, Status, Labels
<1>3. /\ registers' = [registers EXCEPT ![r] = info]
      /\ held' = held \cup {r}
      /\ UNCHANGED <<variable_to_reg_map, lru, spilled, unsaved, fault>>
  BY DEF AcquireScratchFree
<1> HIDE DEF r, info
<1>4. /\ registers' \in [Regs -> [status : Status, bound_to : Vars \cup Labels, dirty : BOOLEAN]]
      /\ registers'[r] = info
      /\ \A q \in Regs \ {r} : registers'[q] = registers[q]
      /\ MapExact' /\ LruExact' /\ NoLostUpdate' /\ UseKinds'
  BY <1>1, <1>2, <1>3, OutsideLemma
<1>5. TypeOK'
  BY <1>1, <1>3, <1>4 DEF RInv, TypeOK
<1>6. LentPinned'
  BY <1>1, <1>2, <1>3, <1>4, PoolLemma DEF RInv, LentPinned
<1>7. UndefinedOnlyIfAllLent'
  BY <1>3 DEF UndefinedOnlyIfAllLent
<1> QED
  BY <1>4, <1>5, <1>6, <1>7 DEF RInv

(* acquire_scratch_reg when a variable register has to be taken.           *)
LEMMA AcquireScratchEvictLemma ==
    ASSUME RInv, fault = "none", AcquireScratchEvict
    PROVE  RInv'
<1> DEFINE r == Back(lru)
           info == Info("IN_USE_SCRATCH", "scratch", FALSE)
<1>1. /\ r \in VarPool /\ r \in Regs
      /\ registers[r].status = "IN_USE_VARIABLE"
      /\ registers[r].bound_to \in Vars \cup {"_temp_"}
      /\ PopBack(lru) \in Seq(VarPool)
      /\ NoRepeats(PopBack(lru))
      /\ Members(PopBack(lru)) = Members(lru) \ {r}
  BY VictimLemma, PoolLemma DEF AcquireScratchEvict
<1>2. /\ info \in [status : Status, bound_to : Labels, dirty : BOOLEAN]
      /\ info.status = "IN_USE_SCRATCH"
  BY DEF Info, Status, Labels
<1>3. /\ registers' = [registers EXCEPT ![r] = info]
      /\ variable_to_reg_map' = Unmap(registers[r].bound_to)
      /\ lru' = PopBack(lru)
      /\ unsaved' = StoreIfDirty(r)
      /\ spilled' = spilled \cup {registers[r].bound_to}
      /\ held' = held \cup {r}
      /\ UNCHANGED fault
  BY DEF AcquireScratchEvict
<1> HIDE DEF r, info
<1>4. MapExact'
  BY <1>1, <1>2, <1>3, UnbindLemma
<1>5. /\ registers'[r] = info
      /\ \A q \in Regs \ {r} : registers'[q] = registers[q]
  BY <1>1, <1>3, RInvFacts
<1>6. TypeOK'
  <2>1. registers' \in [Regs -> [status : Status, bound_to : Vars \cup Labels, dirty : BOOLEAN]]
    BY <1>1, <1>2, <1>3, RInvFacts
  <2>2. variable_to_reg_map' \in [Vars -> VarPool \cup {NoReg}]
    BY <1>3, RInvFacts DEF Unmap
  <2>3. unsaved' \in SUBSET Vars /\ spilled' \in SUBSET (Vars \cup {"_temp_"})
    BY <1>1, <1>3, RInvFacts DEF StoreIfDirty
  <2> QED
    BY <2>1, <2>2, <2>3, <1>1, <1>3 DEF RInv, TypeOK
<1>7. LruExact'
  BY <1>1, <1>2, <1>3, <1>5, RInvFacts, PoolLemma DEF LruExact
<1>8. LentPinned'
  BY <1>1, <1>2, <1>3, <1>5, PoolLemma DEF RInv, LentPinned
<1>9. NoLostUpdate'
  <2>1. \A w \in Vars : variable_to_reg_map[w] # NoReg /\ w # registers[r].bound_to =>
                           variable_to_reg_map'[w] = variable_to_reg_map[w]
    BY <1>3 DEF Unmap
  <2> QED
    BY <2>1, <1>1, <1>3, EvictUpdateLemma
<1>10. UndefinedOnlyIfAllLent'
  BY <1>3 DEF UndefinedOnlyIfAllLent
<1>11. UseKinds'
  BY <1>1, <1>2, <1>5, PoolLemma, PoolsAssumption DEF RInv, UseKinds
<1> QED
  BY <1>4, <1>6, <1>7, <1>8, <1>9, <1>10, <1>11 DEF RInv

(* acquire_callee_saved_temp_reg, before and after the prologue.           *)
LEMMA AcquireCalleeSavedLemma ==
    ASSUME RInv, fault = "none", NEW p \in BOOLEAN, AcquireCalleeSaved(p)
    PROVE  RInv'
<1> DEFINE r == find_free_register(VARIABLE_REGS)
           info == [registers[r] EXCEPT !.status = "IN_USE_SCRATCH",
                                        !.bound_to = "_persistent_temp_"]
<1>1. r \in VarPool /\ r \in Regs /\ registers[r].status = "FREE"
  BY FreeVariableLemma, PoolLemma DEF AcquireCalleeSaved
<1>2. /\ info \in [status : Status, bound_to : Labels, dirty : BOOLEAN]
      /\ info.status = "IN_USE_SCRATCH"
  BY <1>1, RInvFacts DEF Status, Labels
<1>3. /\ registers' = [registers EXCEPT ![r] = info]
      /\ UNCHANGED <<variable_to_reg_map, lru, spilled, unsaved>>
      /\ \/ fault' = "throw" /\ held' = held
         \/ fault' = "none" /\ held' = held \cup {r}
  BY <1>1, RInvFacts DEF AcquireCalleeSaved
<1> HIDE DEF r, info
<1>4. /\ registers' \in [Regs -> [status : Status, bound_to : Vars \cup Labels, dirty : BOOLEAN]]
      /\ registers'[r] = info
      /\ \A q \in Regs \ {r} : registers'[q] = registers[q]
      /\ MapExact' /\ LruExact' /\ NoLostUpdate' /\ UseKinds'
  BY <1>1, <1>2, <1>3, OutsideLemma
<1>5. TypeOK'
  BY <1>1, <1>3, <1>4 DEF RInv, TypeOK
<1>6. LentPinned'
  BY <1>1, <1>2, <1>3, <1>4, PoolLemma DEF RInv, LentPinned
<1>7. UndefinedOnlyIfAllLent'
  BY <1>3 DEF UndefinedOnlyIfAllLent
<1> QED
  BY <1>4, <1>5, <1>6, <1>7 DEF RInv

(* mark_dirty: a variable that is unsaved afterwards is bound to a dirty   *)
(* register, for the flag goes down only where nothing is unsaved.         *)
LEMMA MarkDirtyLemma ==
    ASSUME RInv, NEW r \in Regs, NEW is_dirty \in BOOLEAN, mark_dirty(r, is_dirty)
    PROVE  RInv'
<1> DEFINE name == registers[r].bound_to
<1>1. /\ registers' = [registers EXCEPT ![r] = [registers[r] EXCEPT !.dirty = is_dirty]]
      /\ UNCHANGED <<variable_to_reg_map, lru, spilled, held, fault>>
  BY RInvFacts DEF mark_dirty
<1>2. \/ is_dirty = TRUE /\ name \in Vars /\ unsaved' = unsaved \cup {name}
      \/ is_dirty = FALSE /\ name \notin unsaved /\ unsaved' = unsaved
  BY DEF mark_dirty
<1>3. /\ registers' \in [Regs -> [status : Status, bound_to : Vars \cup Labels, dirty : BOOLEAN]]
      /\ \A q \in Regs : /\ registers'[q].status = registers[q].status
                         /\ registers'[q].bound_to = registers[q].bound_to
                         /\ q # r => registers'[q].dirty = registers[q].dirty
      /\ registers'[r].dirty = is_dirty
  BY <1>1, RInvFacts
<1>4. TypeOK'
  BY <1>1, <1>2, <1>3 DEF RInv, TypeOK
<1>5. MapExact'
  <2>1. \A w \in Vars : variable_to_reg_map[w] # NoReg => variable_to_reg_map[w] \in Regs
    BY RInvFacts, PoolLemma
  <2> QED
    BY <2>1, <1>1, <1>3 DEF RInv, MapExact
<1>6. LruExact'
  BY <1>1, <1>3, RInvFacts, PoolLemma DEF LruExact
<1>7. LentPinned' /\ UndefinedOnlyIfAllLent'
  BY <1>1, <1>3, PoolLemma DEF RInv, LentPinned, UndefinedOnlyIfAllLent
<1>8. NoLostUpdate'
  <2>1. \A w \in unsaved : /\ w \in Vars
                           /\ variable_to_reg_map[w] \in Regs
                           /\ variable_to_reg_map[w] # NoReg
                           /\ registers[variable_to_reg_map[w]].dirty
                           /\ registers[variable_to_reg_map[w]].bound_to = w
    BY RInvFacts, PoolLemma DEF RInv, NoLostUpdate, MapExact, TypeOK
  <2>2. CASE is_dirty = FALSE /\ name \notin unsaved /\ unsaved' = unsaved
    <3>1. \A w \in unsaved : variable_to_reg_map[w] # r
      BY <2>1, <2>2
    <3> QED
      BY <2>1, <2>2, <3>1, <1>1, <1>3 DEF NoLostUpdate
  <2>3. CASE is_dirty = TRUE /\ name \in Vars /\ unsaved' = unsaved \cup {name}
    <3>1. variable_to_reg_map[name] = r /\ r # NoReg
      BY <2>3, PoolLemma, PoolsAssumption DEF RInv, MapExact
    <3> QED
      BY <2>1, <2>3, <3>1, <1>1, <1>3 DEF NoLostUpdate
  <2> QED
    BY <1>2, <2>2, <2>3
<1>9. UseKinds'
  BY <1>3, PoolLemma DEF RInv, UseKinds
<1> QED
  BY <1>4, <1>5, <1>6, <1>7, <1>8, <1>9 DEF RInv

(* release_reg_for_variable: the register leaves the list with its binding. *)
LEMMA ReleaseVariableLemma ==
    ASSUME RInv, NEW v \in Vars, release_reg_for_variable(v)
    PROVE  RInv'
<1> DEFINE r == variable_to_reg_map[v]
<1>1. /\ r \in VarPool /\ r \in Regs /\ r # NoReg
      /\ registers[r].status = "IN_USE_VARIABLE"
      /\ registers[r].bound_to = v
  BY RInvFacts, PoolLemma DEF RInv, MapExact, release_reg_for_variable
<1>2. /\ Free \in [status : Status, bound_to : Labels, dirty : BOOLEAN]
      /\ Free.status = "FREE"
  BY DEF Free, Info, Status, Labels
<1>3. /\ registers' = [registers EXCEPT ![r] = Free]
      /\ variable_to_reg_map' = [variable_to_reg_map EXCEPT ![v] = NoReg]
      /\ lru' = Remove(lru, r)
      /\ unsaved' = unsaved \ {v}
      /\ UNCHANGED <<spilled, held, fault>>
  BY DEF release_reg_for_variable
<1>4. variable_to_reg_map' = Unmap(registers[r].bound_to)
  BY <1>1, <1>3, RInvFacts DEF Unmap
<1> HIDE DEF r
<1>5. MapExact'
  BY <1>1, <1>2, <1>3, <1>4, UnbindLemma
<1>6. /\ lru' \in Seq(VarPool)
      /\ NoRepeats(lru')
      /\ Members(lru') = Members(lru) \ {r}
  BY <1>3, RInvFacts, RemoveLemma
<1>7. /\ registers' \in [Regs -> [status : Status, bound_to : Vars \cup Labels, dirty : BOOLEAN]]
      /\ registers'[r] = Free
      /\ \A q \in Regs \ {r} : registers'[q] = registers[q]
  BY <1>1, <1>2, <1>3, RInvFacts
<1>8. TypeOK'
  BY <1>1, <1>3, <1>6, <1>7 DEF RInv, TypeOK
<1>9. LruExact'
  BY <1>1, <1>2, <1>6, <1>7, RInvFacts, PoolLemma DEF LruExact
<1>10. LentPinned'
  BY <1>1, <1>2, <1>3, <1>7, PoolLemma DEF RInv, LentPinned
<1>11. NoLostUpdate'
  <2> SUFFICES ASSUME NEW w \in unsaved'
               PROVE  /\ variable_to_reg_map'[w] # NoReg
                      /\ registers'[variable_to_reg_map'[w]].dirty
    BY DEF NoLostUpdate
  <2>1. /\ w \in Vars /\ w # v
        /\ variable_to_reg_map[w] # NoReg /\ registers[variable_to_reg_map[w]].dirty
    BY <1>3, RInvFacts DEF RInv, NoLostUpdate
  <2>2. variable_to_reg_map'[w] = variable_to_reg_map[w]
    BY <2>1, <1>3, RInvFacts
  <2>3. variable_to_reg_map[w] \in Regs /\ variable_to_reg_map[w] # r
    BY <2>1, <1>1, RInvFacts, PoolLemma DEF RInv, MapExact
  <2> QED
    BY <2>1, <2>2, <2>3, <1>7
<1>12. UndefinedOnlyIfAllLent'
  BY <1>3 DEF RInv, UndefinedOnlyIfAllLent
<1>13. UseKinds'
  BY <1>1, <1>2, <1>7, PoolLemma, PoolsAssumption DEF RInv, UseKinds
<1> QED
  BY <1>5, <1>8, <1>9, <1>10, <1>11, <1>12, <1>13 DEF RInv

(* release_register on any name, a stale one too: a scratch register       *)
(* becomes free, a temporary stays.                                        *)
LEMMA ReleaseRegisterLemma ==
    ASSUME RInv, fault = "none", NEW r \in Regs, release_register(r)
    PROVE  RInv'
<1>1. CASE registers[r].status = "IN_USE_SCRATCH"
  <2>1. r \in VarPool \cup ScratchPool
    BY <1>1, PoolsAssumption DEF RInv, UseKinds, Regs
  <2>2. /\ Free \in [status : Status, bound_to : Labels, dirty : BOOLEAN]
        /\ Free.status = "FREE"
    BY DEF Free, Info, Status, Labels
  <2>3. /\ registers' = [registers EXCEPT ![r] = Free]
        /\ held' = held \ {r}
        /\ UNCHANGED <<variable_to_reg_map, lru, spilled, unsaved, fault>>
    BY <1>1 DEF release_register
  <2>4. /\ registers' \in [Regs -> [status : Status, bound_to : Vars \cup Labels, dirty : BOOLEAN]]
        /\ registers'[r] = Free
        /\ \A q \in Regs \ {r} : registers'[q] = registers[q]
        /\ MapExact' /\ LruExact' /\ NoLostUpdate' /\ UseKinds'
    BY <1>1, <2>1, <2>2, <2>3, OutsideLemma
  <2>5. TypeOK'
    BY <2>3, <2>4 DEF RInv, TypeOK
  <2>6. LentPinned' /\ UndefinedOnlyIfAllLent'
    BY <2>2, <2>3, <2>4, PoolLemma DEF RInv, LentPinned, UndefinedOnlyIfAllLent
  <2> QED
    BY <2>4, <2>5, <2>6 DEF RInv
<1>2. CASE registers[r].status # "IN_USE_SCRATCH"
  <2>1. /\ held' = held \ {r}
        /\ UNCHANGED <<registers, variable_to_reg_map, lru, spilled, unsaved, fault>>
    BY <1>2 DEF release_register
  <2>2. TypeOK'
    BY <2>1 DEF RInv, TypeOK
  <2>3. LentPinned' /\ UndefinedOnlyIfAllLent'
    BY <1>2, <2>1 DEF RInv, LentPinned, UndefinedOnlyIfAllLent
  <2>4. MapExact' /\ LruExact' /\ NoLostUpdate' /\ UseKinds'
    BY <2>1 DEF RInv, MapExact, LruExact, NoLostUpdate, UseKinds
  <2> QED
    BY <2>2, <2>3, <2>4 DEF RInv
<1> QED
  BY <1>1, <1>2

(* release_callee_saved_temp_reg frees what acquire_callee_saved_temp_reg   *)
(* lent: the holder's register is never one bound to a variable.           *)
LEMMA ReleaseCalleeSavedLemma ==
    ASSUME RInv, fault = "none", NEW r \in held, release_callee_saved_temp_reg(r)
    PROVE  RInv'
<1> DEFINE info == [registers[r] EXCEPT !.status = "FREE", !.bound_to = ""]
<1>1. r \in VarPool \cup ScratchPool /\ r \in Regs
  BY RInvFacts, PoolLemma
<1>2. registers[r].status # "IN_USE_VARIABLE"
  BY <1>1, PoolsAssumption DEF RInv, LentPinned, UseKinds
<1>3. /\ info \in [status : Status, bound_to : Labels, dirty : BOOLEAN]
      /\ info.status = "FREE"
  BY <1>1, RInvFacts DEF Status, Labels
<1>4. /\ registers' = [registers EXCEPT ![r] = info]
      /\ held' = held \ {r}
      /\ UNCHANGED <<variable_to_reg_map, lru, spilled, unsaved, fault>>
  BY <1>1, RInvFacts DEF release_callee_saved_temp_reg
<1> HIDE DEF info
<1>5. /\ registers' \in [Regs -> [status : Status, bound_to : Vars \cup Labels, dirty : BOOLEAN]]
      /\ registers'[r] = info
      /\ \A q \in Regs \ {r} : registers'[q] = registers[q]
      /\ MapExact' /\ LruExact' /\ NoLostUpdate' /\ UseKinds'
  BY <1>1, <1>2, <1>3, <1>4, OutsideLemma
<1>6. TypeOK'
  BY <1>4, <1>5 DEF RInv, TypeOK
<1>7. LentPinned' /\ UndefinedOnlyIfAllLent'
  BY <1>3, <1>4, <1>5, PoolLemma DEF RInv, LentPinned, UndefinedOnlyIfAllLent
<1> QED
  BY <1>5, <1>6, <1>7 DEF RInv

(* invalidate_caller_saved_registers never finds a variable to invalidate. *)
LEMMA InvalidateLemma ==
    ASSUME RInv, invalidate_caller_saved_registers
    PROVE  RInv'
<1>1. Invalid = {}
  BY PoolLemma, PoolsAssumption DEF RInv, UseKinds, Invalid
<1>2. UNCHANGED vars
  <2>1. registers' = registers
    BY <1>1, RInvFacts DEF invalidate_caller_saved_registers
  <2>2. variable_to_reg_map' = variable_to_reg_map
    BY <1>1, RInvFacts DEF invalidate_caller_saved_registers
  <2> QED
    BY <1>1, <2>1, <2>2 DEF vars, invalidate_caller_saved_registers
<1> QED
  BY <1>2 DEF vars, RInv, TypeOK, MapExact, LruExact, LentPinned, NoLostUpdate,
              UndefinedOnlyIfAllLent, UseKinds

(* reset_caller_saved_registers touches no variable-pool register.         *)
LEMMA ResetCallerSavedLemma ==
    ASSUME RInv, fault = "none", reset_caller_saved_registers
    PROVE  RInv'
<1>1. /\ Free \in [status : Status, bound_to : Labels, dirty : BOOLEAN]
      /\ Free.status = "FREE" /\ Free.bound_to \notin Vars
  BY PoolsAssumption DEF Free, Info, Status, Labels
<1>2. variable_to_reg_map' = variable_to_reg_map
  BY RInvFacts, PoolsAssumption, PoolLemma DEF reset_caller_saved_registers
<1>3. /\ registers' \in [Regs -> [status : Status, bound_to : Vars \cup Labels, dirty : BOOLEAN]]
      /\ \A q \in ScratchPool : registers'[q] = Free
      /\ \A q \in Regs \ ScratchPool : registers'[q] = registers[q]
  BY <1>1, RInvFacts, PoolLemma DEF reset_caller_saved_registers
<1>4. UNCHANGED <<lru, spilled, held, unsaved, fault>>
  BY DEF reset_caller_saved_registers
<1>5. VarPool \subseteq Regs \ ScratchPool /\ {X19, X28} \subseteq Regs \ ScratchPool
  BY PoolLemma, PoolsAssumption
<1>6. TypeOK'
  BY <1>2, <1>3, <1>4 DEF RInv, TypeOK
<1>7. MapExact'
  <2>1. \A w \in Vars : variable_to_reg_map[w] # NoReg =>
                           registers'[variable_to_reg_map[w]] = registers[variable_to_reg_map[w]]
    BY <1>3, <1>5, RInvFacts
  <2>2. \A q \in Regs : registers'[q].bound_to \in Vars => registers'[q] = registers[q]
    BY <1>1, <1>3
  <2> QED
    BY <2>1, <2>2, <1>2 DEF RInv, MapExact
<1>8. LruExact'
  BY <1>3, <1>4, <1>5, RInvFacts DEF LruExact
<1>9. LentPinned' /\ UndefinedOnlyIfAllLent'
  BY <1>3, <1>4, <1>5 DEF RInv, LentPinned, UndefinedOnlyIfAllLent
<1>10. NoLostUpdate'
  <2>1. \A w \in unsaved : /\ variable_to_reg_map[w] # NoReg
                           /\ registers[variable_to_reg_map[w]].dirty
                           /\ variable_to_reg_map[w] \in VarPool
    BY RInvFacts DEF RInv, NoLostUpdate
  <2> QED
    BY <2>1, <1>2, <1>3, <1>4, <1>5 DEF NoLostUpdate
<1>11. UseKinds'
  <2>1. \A q \in Regs : registers'[q].status = "IN_USE_VARIABLE" => registers'[q] = registers[q]
    BY <1>1, <1>3
  <2>2. \A q \in VarPool \cup ScratchPool : registers'[q].status # "IN_USE_DATA_BASE"
    BY <1>1, <1>3, <1>5 DEF RInv, UseKinds
  <2>3. registers'[X28].status = "IN_USE_DATA_BASE" /\ registers'[X19].status = "FREE"
    BY <1>3, <1>5 DEF RInv, UseKinds
  <2> QED
    BY <2>1, <2>2, <2>3 DEF RInv, UseKinds
<1> QED
  BY <1>6, <1>7, <1>8, <1>9, <1>10, <1>11 DEF RInv

(* reset_for_new_function re-establishes the initial state.                *)
LEMMA ResetFunctionLemma ==
    ASSUME RInv, fault = "none", reset_for_new_function
    PROVE  RInv'
<1>1. Init'
  BY DEF Init, reset_for_new_function
<1>2. Init' => RInv'
  BY InitRInv, PTL
<1> QED
  BY <1>1, <1>2

(* back() of an empty list happens only when every variable register is    *)
(* lent: none is free, none is listed, and only scratch use is left.       *)
LEMMA UndefinedLemma ==
    ASSUME RInv, fault = "none", find_free_register(VARIABLE_REGS) = NoReg,
           lru = <<>>, UndefinedBack
    PROVE  RInv'
<1>1. \A r \in VarPool : registers[r].status # "FREE"
  BY FreeVariableLemma
<1>2. Members(lru) = {}
  BY DEF Members
<1>3. \A r \in VarPool : registers[r].status = "IN_USE_SCRATCH"
  BY <1>1, <1>2, RInvFacts, PoolLemma DEF RInv, UseKinds, Status
<1>4. VarPool \subseteq held
  BY <1>3 DEF RInv, LentPinned
<1>5. UndefinedOnlyIfAllLent'
  BY <1>4 DEF UndefinedOnlyIfAllLent, UndefinedBack
<1>6. TypeOK' /\ MapExact' /\ LruExact' /\ LentPinned' /\ NoLostUpdate' /\ UseKinds'
  BY DEF UndefinedBack, RInv, TypeOK, MapExact, LruExact, LentPinned, NoLostUpdate, UseKinds
<1> QED
  BY <1>5, <1>6 DEF RInv

(* A thrown exception changes nothing but fault.                           *)
LEMMA ThrowLemma ==
    ASSUME RInv, fault = "none", Throw
    PROVE  RInv'
  BY DEF Throw, RInv, TypeOK, MapExact, LruExact, LentPinned, NoLostUpdate,
         UndefinedOnlyIfAllLent, UseKinds

-----------------------------------------------------------------------------
(* Every step preserves the invariant.                                     *)
LEMMA NextRInv == RInv /\ [Next]_vars => RInv'
<1> SUFFICES ASSUME RInv, [Next]_vars PROVE RInv'
  OBVIOUS
<1>1. CASE UNCHANGED vars
  BY <1>1 DEF vars, RInv, TypeOK, MapExact, LruExact, LentPinned, NoLostUpdate,
              UndefinedOnlyIfAllLent, UseKinds
<1>2. CASE Halted
  BY <1>1, <1>2 DEF Halted
<1>3. CASE fault = "none" /\ Step
  <2>1. ASSUME NEW v \in Vars, acquire_reg_for_variable(v) PROVE RInv'
    BY <1>3, <2>1, AcquireVariableHitLemma, AcquireVariableFreeLemma,
       AcquireVariableEvictLemma, UndefinedLemma
       DEF acquire_reg_for_variable, AcquireVariableUndefined
  <2>2. ASSUME NEW r \in Regs, NEW is_dirty \in BOOLEAN, mark_dirty(r, is_dirty) PROVE RInv'
    BY <2>2, MarkDirtyLemma
  <2>3. ASSUME NEW v \in Vars, release_reg_for_variable(v) PROVE RInv'
    BY <2>3, ReleaseVariableLemma
  <2>4. CASE acquire_spillable_temp_reg
    BY <1>3, <2>4, AcquireTempFreeLemma, AcquireTempEvictLemma, UndefinedLemma
       DEF acquire_spillable_temp_reg, AcquireTempUndefined
  <2>5. CASE acquire_scratch_reg
    BY <1>3, <2>5, AcquireScratchFreeLemma, AcquireScratchEvictLemma, ThrowLemma
       DEF acquire_scratch_reg, AcquireScratchThrow
  <2>6. CASE acquire_callee_saved_temp_reg
    BY <1>3, <2>6, AcquireCalleeSavedLemma, ThrowLemma
       DEF acquire_callee_saved_temp_reg, AcquireCalleeSavedThrow
  <2>7. ASSUME NEW r \in Releasable, release_register(r) PROVE RInv'
    <3>1. r \in Regs
      BY RInvFacts, PoolLemma DEF Releasable
    <3> QED
      BY <1>3, <2>7, <3>1, ReleaseRegisterLemma
  <2>8. ASSUME NEW r \in held, release_callee_saved_temp_reg(r) PROVE RInv'
    BY <1>3, <2>8, ReleaseCalleeSavedLemma
  <2>9. CASE invalidate_caller_saved_registers
    BY <2>9, InvalidateLemma
  <2>10. CASE reset_caller_saved_registers
    BY <1>3, <2>10, ResetCallerSavedLemma
  <2>11. CASE reset_for_new_function
    BY <1>3, <2>11, ResetFunctionLemma
  <2> QED
    BY <1>3, <2>1, <2>2, <2>3, <2>4, <2>5, <2>6, <2>7, <2>8, <2>9, <2>10, <2>11 DEF Step
<1> QED
  BY <1>1, <1>2, <1>3 DEF Next

(* RInv is an invariant of the allocator.                                  *)
THEOREM RInvInvariant == Spec => []RInv
<1>1. Init => RInv
  BY InitRInv
<1>2. RInv /\ [Next]_vars => RInv'
  BY NextRInv
<1> QED
  BY <1>1, <1>2, PTL DEF Spec

(* For pools of any size, every state the allocator reaches is well typed. *)
THEOREM TypeCorrect == Spec => []TypeOK
<1>1. RInv => TypeOK
  BY DEF RInv
<1> QED
  BY <1>1, RInvInvariant, PTL

(* No two variables share a register, after any sequence of calls.         *)
THEOREM MapCorrect == Spec => []MapExact
<1>1. RInv => MapExact
  BY DEF RInv
<1> QED
  BY <1>1, RInvInvariant, PTL

(* The LRU list is exactly the set of evictable registers.                 *)
THEOREM LruCorrect == Spec => []LruExact
<1>1. RInv => LruExact
  BY DEF RInv
<1> QED
  BY <1>1, RInvInvariant, PTL

(* A register lent as scratch is not handed out again before its release.  *)
THEOREM LentCorrect == Spec => []LentPinned
<1>1. RInv => LentPinned
  BY DEF RInv
<1> QED
  BY <1>1, RInvInvariant, PTL

(* No eviction drops the only copy of a variable's newest value.           *)
THEOREM UpdatesKept == Spec => []NoLostUpdate
<1>1. RInv => NoLostUpdate
  BY DEF RInv
<1> QED
  BY <1>1, RInvInvariant, PTL

(* The unguarded back() is reached only with the whole pool lent out.      *)
THEOREM UndefinedOnlyExhausted == Spec => []UndefinedOnlyIfAllLent
<1>1. RInv => UndefinedOnlyIfAllLent
  BY DEF RInv
<1> QED
  BY <1>1, RInvInvariant, PTL
=============================================================================
