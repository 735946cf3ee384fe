------------------------ MODULE FunctionCodegenProof -------------------------
(***************************************************************************)
(* The invariants of FunctionCodegen, for pools of any size, expressions   *)
(* of any depth, any number of parameters and any pressure.                *)
(***************************************************************************)
EXTENDS FunctionCodegen, RegisterManagerProof, FiniteSetTheorems

-----------------------------------------------------------------------------
(* The inductive invariant. *)

Operands == [reg : Machine, temp : BOOLEAN, arg : BOOLEAN, param : BOOLEAN, age : Nat]

FTyped ==
    /\ phase \in {"reserve", "force_save", "prologue", "body"}
    /\ max_live \in Nat /\ uses_global_pointers \in BOOLEAN
    /\ stack \in Seq(Operands)
    /\ owner \in [Machine -> Nat]
    /\ moved \in Nat
    /\ address \in Machine \cup {NoReg}
    /\ used \subseteq VarPool
    /\ peak \in Nat
    /\ homes \subseteq ArgRegs
    /\ careful \in BOOLEAN
    /\ statement = "none" => stack = <<>> /\ moved = 0 /\ address = NoReg

(* The registers that the pressure asked for are on the list, and the body *)
(* has written no register of the pool beyond the first ones, as many as   *)
(* were in use at one time.  An operand is in a register the body wrote.   *)
Surplus == IF uses_global_pointers THEN 0 ELSE 1

Reserved ==
    \A k \in DOMAIN VARIABLE_REGS : k + Surplus <= max_live => VARIABLE_REGS[k] \in to_save

SaveInv ==
    /\ phase # "body" => used = {} /\ ~is_prologue_generated /\ statement = "none"
    /\ phase # "reserve" => Reserved
    /\ \A r \in used : \E k \in DOMAIN VARIABLE_REGS : k <= peak /\ VARIABLE_REGS[k] = r
    /\ \A i \in DOMAIN stack : stack[i].reg \in VarPool => stack[i].reg \in used

(* A register with its parameter in it holds no operand of an expression.  *)
HomesInv == \A r \in homes : owner[r] = 0

(* Why operand o is still where its visit left it: a parameter has its     *)
(* register for good; a temporary is listed, and fewer registers were used *)
(* since, or are lent, than it has allocations behind it; any other        *)
(* register of a pool is lent to the operand.                              *)
Placed(r, age) == \E p \in DOMAIN lru : lru[p] = r /\ p + Cardinality(Lent) <= age + 1

Kept(o) ==
    IF o.param THEN o.reg \in ArgRegs /\ ~o.temp
    ELSE IF o.temp THEN Placed(o.reg, o.age)
    ELSE o.reg \in Regs => registers[o.reg].status = "IN_USE_SCRATCH"

WaitInv ==
    careful /\ fault = "none" =>
      /\ WithinPool(stack)
      /\ address \in ArgRegs => address \in homes
      /\ \A i \in DOMAIN stack : i > moved =>
           /\ Intact(i) /\ Kept(stack[i])
           /\ stack[i].reg = address => address \in ArgRegs

FInv == RInv /\ FTyped /\ SaveInv /\ HomesInv /\ WaitInv

-----------------------------------------------------------------------------
(* Counting registers. *)

(* The first k members of a list without repetitions are k registers.      *)
LEMMA CountLemma ==
    ASSUME NEW s, NEW k \in Nat, 1 .. k \subseteq DOMAIN s, NoRepeats(s)
    PROVE  /\ IsFiniteSet({s[j] : j \in 1 .. k})
           /\ Cardinality({s[j] : j \in 1 .. k}) = k
<1> DEFINE S == {s[j] : j \in 1 .. k}
           f == [j \in 1 .. k |-> s[j]]
<1>1. f \in Bijection(1 .. k, S)
  BY DEF Bijection, Injection, Surjection, IsInjective, NoRepeats
<1>2. ExistsBijection(1 .. k, S)
  BY <1>1 DEF ExistsBijection
<1>3. IsFiniteSet(1 .. k)
  BY FS_Interval
<1> QED
  BY <1>2, <1>3, FS_CountingElements, FS_Bijection

(* The pool has as many registers as its list is long, and so have its     *)
(* parts a cardinality.                                                    *)
LEMMA PoolCount ==
    /\ PoolSize \in Nat /\ DOMAIN VARIABLE_REGS = 1 .. PoolSize
    /\ IsFiniteSet(VarPool) /\ Cardinality(VarPool) = PoolSize
    /\ \A S \in SUBSET VarPool : /\ IsFiniteSet(S) /\ Cardinality(S) \in Nat
                                 /\ Cardinality(S) <= PoolSize
<1>1. PoolSize \in Nat /\ DOMAIN VARIABLE_REGS = 1 .. PoolSize
  BY PoolsAssumption DEF PoolSize
<1>2. VarPool = {VARIABLE_REGS[j] : j \in 1 .. PoolSize}
  BY <1>1 DEF VarPool
<1>3. IsFiniteSet(VarPool) /\ Cardinality(VarPool) = PoolSize
  BY <1>1, <1>2, CountLemma, CodegenAssumption
<1>4. \A S \in SUBSET VarPool : /\ IsFiniteSet(S) /\ Cardinality(S) \in Nat
                                /\ Cardinality(S) <= PoolSize
  BY <1>3, FS_Subset, FS_CardinalityType
<1> QED
  BY <1>1, <1>3, <1>4

(* Without a free register, every register of the pool is listed or lent.  *)
LEMMA FullLemma ==
    ASSUME RInv, \A r \in VarPool : registers[r].status # "FREE"
    PROVE  /\ Len(lru) \in Nat /\ DOMAIN lru = 1 .. Len(lru)
           /\ Len(lru) + Cardinality(Lent) = PoolSize
<1>1. lru \in Seq(VarPool) /\ NoRepeats(lru)
  BY DEF RInv, TypeOK, LruExact
<1>2. Len(lru) \in Nat /\ DOMAIN lru = 1 .. Len(lru)
  BY <1>1
<1>3. Members(lru) = {lru[j] : j \in 1 .. Len(lru)}
  BY <1>2 DEF Members
<1>4. IsFiniteSet(Members(lru)) /\ Cardinality(Members(lru)) = Len(lru)
  BY <1>1, <1>2, <1>3, CountLemma
<1>5. \A r \in VarPool : registers[r].status \in Status /\ registers[r].status # "IN_USE_DATA_BASE"
  BY PoolLemma DEF RInv, TypeOK, UseKinds
<1>6. VarPool = Members(lru) \cup Lent /\ Members(lru) \cap Lent = {}
  BY <1>5 DEF RInv, LruExact, Lent, Status
<1>7. IsFiniteSet(Lent) /\ Cardinality(Lent) \in Nat
  BY PoolCount DEF Lent
<1>8. Cardinality({}) = 0
  BY FS_EmptySet
<1>9. Cardinality(VarPool) =
        Cardinality(Members(lru)) + Cardinality(Lent) - Cardinality(Members(lru) \cap Lent)
  BY <1>4, <1>6, <1>7, FS_Union
<1>10. Cardinality(Members(lru) \cap Lent) = 0
  BY <1>6, <1>8
<1>11. Cardinality(VarPool) = PoolSize
  BY PoolCount
<1> QED
  BY <1>2, <1>4, <1>7, <1>9, <1>10, <1>11

(* find_free_register returns the first free register of the pool.         *)
LEMMA FirstFreeLemma ==
    ASSUME find_free_register(VARIABLE_REGS) # NoReg
    PROVE  \E k \in DOMAIN VARIABLE_REGS :
             /\ VARIABLE_REGS[k] = find_free_register(VARIABLE_REGS)
             /\ \A j \in 1 .. (k - 1) : registers[VARIABLE_REGS[j]].status # "FREE"
<1> DEFINE F == FreeIn(VARIABLE_REGS)
           m == CHOOSE i \in F : \A j \in F : i <= j
<1>1. F \subseteq Nat /\ F \subseteq 1 .. PoolSize /\ F # {}
  BY PoolCount DEF FreeIn, find_free_register
<1>2. \E i \in F : \A j \in F : i <= j
  BY <1>1, SmallestLemma
<1>3. m \in F /\ \A j \in F : m <= j
  BY <1>2
<1>4. find_free_register(VARIABLE_REGS) = VARIABLE_REGS[m]
  BY <1>1 DEF find_free_register
<1> HIDE DEF m
<1>5. ASSUME NEW j \in 1 .. (m - 1) PROVE registers[VARIABLE_REGS[j]].status # "FREE"
  <2>1. j \in DOMAIN VARIABLE_REGS /\ j \notin F
    BY <1>1, <1>3, PoolCount
  <2> QED
    BY <2>1 DEF FreeIn
<1> QED
  BY <1>1, <1>3, <1>4, <1>5, PoolCount

(* A register is handed out only when the ones before it are in use: at    *)
(* that moment as many registers are in use as its place in the pool says. *)
LEMMA PeakLemma ==
    ASSUME NEW r \in VarPool,
           find_free_register(VARIABLE_REGS) # NoReg => r = find_free_register(VARIABLE_REGS),
           \A q \in VarPool : registers[q].status # "FREE" => registers'[q].status # "FREE",
           registers'[r].status # "FREE"
    PROVE  /\ Cardinality(InUse') \in Nat
           /\ \E k \in DOMAIN VARIABLE_REGS :
                VARIABLE_REGS[k] = r /\ k <= Cardinality(InUse')
<1>1. InUse' \in SUBSET VarPool
  BY DEF InUse
<1>2. IsFiniteSet(InUse') /\ Cardinality(InUse') \in Nat
  BY <1>1, PoolCount
<1>3. CASE find_free_register(VARIABLE_REGS) = NoReg
  <2>1. InUse' = VarPool
    BY <1>3, FreeVariableLemma DEF InUse
  <2>2. PICK k \in DOMAIN VARIABLE_REGS : VARIABLE_REGS[k] = r
    BY DEF VarPool
  <2> QED
    BY <1>2, <2>1, <2>2, PoolCount
<1>4. CASE find_free_register(VARIABLE_REGS) # NoReg
  <2>1. PICK k \in DOMAIN VARIABLE_REGS :
          /\ VARIABLE_REGS[k] = r
          /\ \A j \in 1 .. (k - 1) : registers[VARIABLE_REGS[j]].status # "FREE"
    BY <1>4, FirstFreeLemma
  <2>2. k \in 1 .. PoolSize /\ PoolSize \in Nat /\ DOMAIN VARIABLE_REGS = 1 .. PoolSize
    BY PoolCount
  <2> DEFINE S == {VARIABLE_REGS[j] : j \in 1 .. k}
  <2>3. S \in SUBSET (InUse')
    <3>1. ASSUME NEW j \in 1 .. k PROVE VARIABLE_REGS[j] \in InUse'
      <4>1. j \in DOMAIN VARIABLE_REGS /\ (j = k \/ j \in 1 .. (k - 1))
        BY <2>2
      <4>2. VARIABLE_REGS[j] \in VarPool
        BY <4>1 DEF VarPool
      <4> QED
        BY <2>1, <4>1, <4>2 DEF InUse
    <3> QED
      BY <3>1
  <2>4. Cardinality(S) = k
    <3>1. k \in Nat /\ 1 .. k \subseteq DOMAIN VARIABLE_REGS
      BY <2>2
    <3> QED
      BY <3>1, CountLemma, CodegenAssumption
  <2>5. Cardinality(S) <= Cardinality(InUse')
    BY <1>2, <2>3, FS_Subset
  <2> QED
    BY <1>2, <2>1, <2>4, <2>5
<1> QED
  BY <1>2, <1>3, <1>4

-----------------------------------------------------------------------------
(* What the calls of the allocator do to the operands that wait. *)

(* push_front and pop_back keep the order of the others.                   *)
LEMMA OrderLemma ==
    ASSUME NEW s \in Seq(VarPool), NEW r \in VarPool
    PROVE  /\ PushFront(s, r) \in Seq(VarPool) /\ 1 \in DOMAIN PushFront(s, r)
           /\ PushFront(s, r)[1] = r
           /\ \A p \in DOMAIN s : /\ p + 1 \in DOMAIN PushFront(s, r)
                                  /\ PushFront(s, r)[p + 1] = s[p]
           /\ s # <<>> =>
                /\ PopBack(s) \in Seq(VarPool)
                /\ \A p \in DOMAIN s : p < Len(s) => /\ p \in DOMAIN PopBack(s)
                                                     /\ PopBack(s)[p] = s[p]
<1>1. Len(s) \in Nat /\ DOMAIN s = 1 .. Len(s)
  OBVIOUS
<1>2. /\ PushFront(s, r) \in Seq(VarPool) /\ Len(PushFront(s, r)) = Len(s) + 1
      /\ PushFront(s, r)[1] = r
      /\ \A i \in 1 .. Len(s) : PushFront(s, r)[i + 1] = s[i]
  BY DEF PushFront
<1>3. DOMAIN PushFront(s, r) = 1 .. (Len(s) + 1)
  BY <1>2
<1>4. ASSUME s # <<>>
      PROVE  /\ PopBack(s) \in Seq(VarPool)
             /\ \A p \in DOMAIN s : p < Len(s) => /\ p \in DOMAIN PopBack(s)
                                                  /\ PopBack(s)[p] = s[p]
  <2>1. Len(s) # 0
    BY <1>4, EmptySeq
  <2>2. /\ PopBack(s) \in Seq(VarPool) /\ Len(PopBack(s)) = Len(s) - 1
        /\ \A i \in 1 .. (Len(s) - 1) : PopBack(s)[i] = s[i]
    BY <1>1, <2>1 DEF PopBack
  <2>3. DOMAIN PopBack(s) = 1 .. (Len(s) - 1)
    BY <2>2
  <2> QED
    BY <1>1, <2>2, <2>3
<1> QED
  BY <1>1, <1>2, <1>3, <1>4

(* A register that is listed is in use for a temporary or a variable.      *)
LEMMA PlacedFacts ==
    ASSUME RInv, NEW q, NEW a \in Nat, Placed(q, a)
    PROVE  q \in VarPool /\ registers[q].status = "IN_USE_VARIABLE"
<1>1. q \in Members(lru)
  BY DEF Placed, Members
<1> QED
  BY <1>1 DEF RInv, LruExact

(* A temporary that is taken over is the last of the list: it is older     *)
(* than the pool is large.                                                 *)
LEMMA EvictOrderLemma ==
    ASSUME RInv, \A q \in VarPool : registers[q].status # "FREE", lru # <<>>,
           NEW q, NEW a \in Nat, a + 1 < PoolSize,
           NEW p \in DOMAIN lru, lru[p] = q, p + Cardinality(Lent) <= a + 1
    PROVE  /\ q # Back(lru)
           /\ p \in DOMAIN PopBack(lru) /\ PopBack(lru)[p] = q
<1>1. /\ Len(lru) \in Nat /\ DOMAIN lru = 1 .. Len(lru)
      /\ Len(lru) + Cardinality(Lent) = PoolSize
  BY FullLemma
<1>2. Cardinality(Lent) \in Nat /\ PoolSize \in Nat
  BY PoolCount DEF Lent
<1>3. p < Len(lru)
  BY <1>1, <1>2
<1>4. lru \in Seq(VarPool) /\ NoRepeats(lru)
  BY DEF RInv, TypeOK, LruExact
<1>5. Len(lru) \in DOMAIN lru
  BY <1>1, <1>3
<1>6. q # Back(lru)
  BY <1>1, <1>3, <1>4, <1>5 DEF NoRepeats, Back
<1>7. q \in VarPool
  BY <1>4
<1> QED
  BY <1>3, <1>4, <1>6, <1>7, OrderLemma

(* acquire_spillable_temp_reg, where it does not run out of registers: no  *)
(* lent register is handed out, nor a temporary younger than the pool is   *)
(* large; the new one is listed first.                                     *)
LEMMA TempLemma ==
    ASSUME RInv, fault = "none", acquire_spillable_temp_reg, fault' = "none",
           NEW r, r = TempReg
    PROVE  /\ RInv' /\ r \in VarPool
           /\ registers[r].status # "IN_USE_SCRATCH"
           /\ \A q \in Regs : q # r => registers'[q] = registers[q]
           /\ \A q : \A a \in Nat : Placed(q, a) /\ a + 1 < PoolSize =>
                                      q # r /\ Placed(q, a + 1)'
           /\ \A a \in Nat : a = Cardinality(Lent) => Placed(r, a)'
           /\ Cardinality(InUse') \in Nat
           /\ \E k \in DOMAIN VARIABLE_REGS :
                VARIABLE_REGS[k] = r /\ k <= Cardinality(InUse')
<1> DEFINE info == Info("IN_USE_VARIABLE", "_temp_", FALSE)
<1>1. info.status = "IN_USE_VARIABLE"
  BY DEF Info
<1> HIDE DEF info
<1>2. /\ registers \in [Regs -> [status : Status, bound_to : Vars \cup Labels, dirty : BOOLEAN]]
      /\ lru \in Seq(VarPool) /\ VarPool \subseteq Regs
  BY PoolLemma DEF RInv, TypeOK
<1>3. Cardinality(Lent) \in Nat
  BY PoolCount DEF Lent
<1>4. CASE AcquireTempFree
  <2>1. /\ r \in VarPool /\ registers[r].status = "FREE"
        /\ r = find_free_register(VARIABLE_REGS)
    BY <1>4, FreeVariableLemma DEF AcquireTempFree, TempReg
  <2>2. registers' = [registers EXCEPT ![r] = info] /\ lru' = PushFront(lru, r)
    BY <1>4, <2>1 DEF AcquireTempFree, info
  <2>3. registers'[r] = info /\ \A q \in Regs : q # r => registers'[q] = registers[q]
    BY <1>2, <2>1, <2>2
  <2>4. Lent' = Lent
    BY <1>1, <1>2, <2>1, <2>3 DEF Lent
  <2>4a. /\ 1 \in DOMAIN PushFront(lru, r) /\ PushFront(lru, r)[1] = r
         /\ \A p \in DOMAIN lru : /\ p + 1 \in DOMAIN PushFront(lru, r)
                                  /\ PushFront(lru, r)[p + 1] = lru[p]
    BY <1>2, <2>1, OrderLemma
  <2>5. ASSUME NEW q, NEW a \in Nat, Placed(q, a), a + 1 < PoolSize
        PROVE  q # r /\ Placed(q, a + 1)'
    <3>1. q # r
      BY <2>1, <2>5, PlacedFacts
    <3>2. PICK p \in DOMAIN lru : lru[p] = q /\ p + Cardinality(Lent) <= a + 1
      BY <2>5 DEF Placed
    <3>3. p + 1 \in DOMAIN lru' /\ lru'[p + 1] = q
      BY <2>2, <2>4a, <3>2
    <3>4. (p + 1) + Cardinality(Lent') <= (a + 1) + 1
      <4>1. p \in Nat
        BY <1>2
      <4> QED
        BY <1>3, <2>4, <3>2, <4>1
    <3> QED
      BY <3>1, <3>3, <3>4 DEF Placed
  <2>6. ASSUME NEW a \in Nat, a = Cardinality(Lent) PROVE Placed(r, a)'
    <3>1. 1 \in DOMAIN lru' /\ lru'[1] = r
      BY <2>2, <2>4a
    <3>2. 1 + Cardinality(Lent') <= a + 1
      BY <1>3, <2>4, <2>6
    <3> QED
      BY <3>1, <3>2 DEF Placed
  <2>7. RInv'
    BY <1>4, AcquireTempFreeLemma
  <2>8. /\ Cardinality(InUse') \in Nat
        /\ \E k \in DOMAIN VARIABLE_REGS : VARIABLE_REGS[k] = r /\ k <= Cardinality(InUse')
    <3>1. /\ \A q \in VarPool : registers[q].status # "FREE" => registers'[q].status # "FREE"
          /\ registers'[r].status # "FREE"
      BY <1>1, <1>2, <2>3
    <3> QED
      BY <2>1, <3>1, PeakLemma
  <2> QED
    BY <2>1, <2>3, <2>5, <2>6, <2>7, <2>8
<1>5. CASE AcquireTempEvict
  <2>1. /\ find_free_register(VARIABLE_REGS) = NoReg /\ lru # <<>> /\ r = Back(lru)
        /\ registers' = [registers EXCEPT ![r] = info]
        /\ lru' = PushFront(PopBack(lru), r)
    BY <1>5 DEF AcquireTempEvict, TempReg, info
  <2>2. r \in VarPool /\ registers[r].status = "IN_USE_VARIABLE" /\ PopBack(lru) \in Seq(VarPool)
    BY <2>1, VictimLemma
  <2>3. registers'[r] = info /\ \A q \in Regs : q # r => registers'[q] = registers[q]
    BY <1>2, <2>1, <2>2
  <2>4. Lent' = Lent
    BY <1>1, <1>2, <2>2, <2>3 DEF Lent
  <2>4a. LET l == PopBack(lru)
         IN  /\ 1 \in DOMAIN PushFront(l, r) /\ PushFront(l, r)[1] = r
             /\ \A p \in DOMAIN l : /\ p + 1 \in DOMAIN PushFront(l, r)
                                    /\ PushFront(l, r)[p + 1] = l[p]
    BY <2>2, OrderLemma
  <2>5. ASSUME NEW q, NEW a \in Nat, Placed(q, a), a + 1 < PoolSize
        PROVE  q # r /\ Placed(q, a + 1)'
    <3>1. PICK p \in DOMAIN lru : lru[p] = q /\ p + Cardinality(Lent) <= a + 1
      BY <2>5 DEF Placed
    <3>2. q # r /\ p \in DOMAIN PopBack(lru) /\ PopBack(lru)[p] = q
      BY <2>1, <2>5, <3>1, FreeVariableLemma, EvictOrderLemma
    <3>3. p + 1 \in DOMAIN lru' /\ lru'[p + 1] = q
      BY <2>1, <2>4a, <3>2
    <3>4. (p + 1) + Cardinality(Lent') <= (a + 1) + 1
      <4>1. p \in Nat
        BY <1>2
      <4> QED
        BY <1>3, <2>4, <3>1, <4>1
    <3> QED
      BY <3>2, <3>3, <3>4 DEF Placed
  <2>6. ASSUME NEW a \in Nat, a = Cardinality(Lent) PROVE Placed(r, a)'
    <3>1. 1 \in DOMAIN lru' /\ lru'[1] = r
      BY <2>1, <2>4a
    <3>2. 1 + Cardinality(Lent') <= a + 1
      BY <1>3, <2>4, <2>6
    <3> QED
      BY <3>1, <3>2 DEF Placed
  <2>7. RInv'
    BY <1>5, AcquireTempEvictLemma
  <2>8. /\ Cardinality(InUse') \in Nat
        /\ \E k \in DOMAIN VARIABLE_REGS : VARIABLE_REGS[k] = r /\ k <= Cardinality(InUse')
    <3>1. /\ \A q \in VarPool : registers[q].status # "FREE" => registers'[q].status # "FREE"
          /\ registers'[r].status # "FREE"
      BY <1>1, <1>2, <2>3
    <3> QED
      BY <2>1, <2>2, <3>1, PeakLemma
  <2> QED
    BY <2>2, <2>3, <2>5, <2>6, <2>7, <2>8
<1>6. CASE AcquireTempUndefined
  BY <1>6 DEF AcquireTempUndefined, UndefinedBack
<1> QED
  BY <1>4, <1>5, <1>6 DEF acquire_spillable_temp_reg

(* acquire_scratch_reg, where it does not run out of registers.  A         *)
(* register of the variable pool that is lent ages the temporaries, as it  *)
(* leaves one register less for them.                                      *)
LEMMA ScratchLemma ==
    ASSUME RInv, fault = "none", acquire_scratch_reg, fault' = "none",
           NEW r, r = ScratchReg
    PROVE  /\ RInv' /\ r \in VarPool \cup ScratchPool
           /\ registers[r].status # "IN_USE_SCRATCH"
           /\ registers'[r].status = "IN_USE_SCRATCH"
           /\ \A q \in Regs : q # r => registers'[q] = registers[q]
           /\ r \in VarPool =>
                \A q : \A a \in Nat : Placed(q, a) /\ a + 1 < PoolSize =>
                                        q # r /\ Placed(q, a + 1)'
           /\ r \notin VarPool =>
                \A q : \A a \in Nat : Placed(q, a) => q # r /\ Placed(q, a)'
           /\ Cardinality(InUse') \in Nat
           /\ r \in VarPool =>
                \E k \in DOMAIN VARIABLE_REGS :
                  VARIABLE_REGS[k] = r /\ k <= Cardinality(InUse')
<1> DEFINE info == Info("IN_USE_SCRATCH", "scratch", FALSE)
<1>1. info.status = "IN_USE_SCRATCH"
  BY DEF Info
<1> HIDE DEF info
<1>2. /\ registers \in [Regs -> [status : Status, bound_to : Vars \cup Labels, dirty : BOOLEAN]]
      /\ lru \in Seq(VarPool) /\ VarPool \subseteq Regs /\ ScratchPool \subseteq Regs
  BY PoolLemma DEF RInv, TypeOK
<1>3. IsFiniteSet(Lent) /\ Cardinality(Lent) \in Nat
  BY PoolCount DEF Lent
<1>4. Cardinality(InUse') \in Nat
  BY PoolCount DEF InUse
<1>5. CASE AcquireScratchFree
  <2>1. /\ r \in VarPool \cup ScratchPool /\ registers[r].status = "FREE"
        /\ r \in VarPool => r = find_free_register(VARIABLE_REGS)
    BY <1>5, FreeVariableLemma, FreeScratchLemma, PoolsAssumption
       DEF AcquireScratchFree, ScratchReg, TempReg
  <2>2. registers' = [registers EXCEPT ![r] = info] /\ lru' = lru
    BY <1>5 DEF AcquireScratchFree, ScratchReg, TempReg, info
  <2>3. registers'[r] = info /\ \A q \in Regs : q # r => registers'[q] = registers[q]
    BY <1>2, <2>1, <2>2
  <2>4. ASSUME NEW q, NEW a \in Nat, Placed(q, a)
        PROVE  /\ q # r
               /\ r \notin VarPool => Placed(q, a)'
               /\ r \in VarPool => Placed(q, a + 1)'
    <3>1. q # r
      BY <2>1, <2>4, PlacedFacts
    <3>2. PICK p \in DOMAIN lru : lru[p] = q /\ p + Cardinality(Lent) <= a + 1
      BY <2>4 DEF Placed
    <3>3. p \in Nat
      BY <1>2
    <3>4. CASE r \notin VarPool
      <4>1. Lent' = Lent
        BY <1>2, <2>3, <3>4 DEF Lent
      <4> QED
        BY <2>2, <3>1, <3>2, <3>4, <4>1 DEF Placed
    <3>5. CASE r \in VarPool
      <4>1. Lent' = Lent \cup {r} /\ r \notin Lent
        BY <1>1, <1>2, <2>1, <2>3, <3>5 DEF Lent
      <4>2. Cardinality(Lent') = Cardinality(Lent) + 1
        BY <1>3, <4>1, FS_AddElement
      <4>3. p + Cardinality(Lent') <= (a + 1) + 1
        BY <1>3, <3>2, <3>3, <4>2
      <4> QED
        BY <2>2, <3>1, <3>2, <3>5, <4>3 DEF Placed
    <3> QED
      BY <3>4, <3>5
  <2>5. RInv'
    BY <1>5, AcquireScratchFreeLemma
  <2>6. r \in VarPool => \E k \in DOMAIN VARIABLE_REGS :
                           VARIABLE_REGS[k] = r /\ k <= Cardinality(InUse')
    <3>1. /\ \A q \in VarPool : registers[q].status # "FREE" => registers'[q].status # "FREE"
          /\ registers'[r].status # "FREE"
      BY <1>1, <1>2, <2>3
    <3> QED
      BY <2>1, <3>1, PeakLemma
  <2> QED
    BY <1>1, <1>4, <2>1, <2>3, <2>4, <2>5, <2>6
<1>6. CASE AcquireScratchEvict
  <2>1. /\ find_free_register(VARIABLE_REGS) = NoReg /\ lru # <<>> /\ r = Back(lru)
        /\ registers' = [registers EXCEPT ![r] = info]
        /\ lru' = PopBack(lru)
    BY <1>6 DEF AcquireScratchEvict, ScratchReg, TempReg, info
  <2>2. r \in VarPool /\ registers[r].status = "IN_USE_VARIABLE"
    BY <2>1, VictimLemma
  <2>3. registers'[r] = info /\ \A q \in Regs : q # r => registers'[q] = registers[q]
    BY <1>2, <2>1, <2>2
  <2>4. Lent' = Lent \cup {r} /\ r \notin Lent
    BY <1>1, <1>2, <2>2, <2>3 DEF Lent
  <2>5. Cardinality(Lent') = Cardinality(Lent) + 1
    BY <1>3, <2>4, FS_AddElement
  <2>6. ASSUME NEW q, NEW a \in Nat, Placed(q, a), a + 1 < PoolSize
        PROVE  q # r /\ Placed(q, a + 1)'
    <3>1. PICK p \in DOMAIN lru : lru[p] = q /\ p + Cardinality(Lent) <= a + 1
      BY <2>6 DEF Placed
    <3>2. q # r /\ p \in DOMAIN PopBack(lru) /\ PopBack(lru)[p] = q
      BY <2>1, <2>6, <3>1, FreeVariableLemma, EvictOrderLemma
    <3>3. p + Cardinality(Lent') <= (a + 1) + 1
      <4>1. p \in Nat
        BY <1>2
      <4> QED
        BY <1>3, <2>5, <3>1, <4>1
    <3> QED
      BY <2>1, <3>2, <3>3 DEF Placed
  <2>7. RInv'
    BY <1>6, AcquireScratchEvictLemma
  <2>8. \E k \in DOMAIN VARIABLE_REGS : VARIABLE_REGS[k] = r /\ k <= Cardinality(InUse')
    <3>1. /\ \A q \in VarPool : registers[q].status # "FREE" => registers'[q].status # "FREE"
          /\ registers'[r].status # "FREE"
      BY <1>1, <1>2, <2>3
    <3> QED
      BY <2>1, <2>2, <3>1, PeakLemma
  <2> QED
    BY <1>1, <1>4, <2>2, <2>3, <2>6, <2>7, <2>8
<1>7. CASE AcquireScratchThrow
  BY <1>7 DEF AcquireScratchThrow, Throw
<1> QED
  BY <1>5, <1>6, <1>7 DEF acquire_scratch_reg

(* release_register on any name: only a lent register changes, and the     *)
(* temporaries stay listed where they are.                                 *)
LEMMA ReleaseLemma ==
    ASSUME RInv, fault = "none", NEW r, ReleaseAny(r)
    PROVE  /\ RInv' /\ fault' = "none"
           /\ \A q \in Regs : q # r => registers'[q] = registers[q]
           /\ \A q : \A a \in Nat : Placed(q, a) => Placed(q, a)'
<1>1. /\ registers \in [Regs -> [status : Status, bound_to : Vars \cup Labels, dirty : BOOLEAN]]
      /\ lru \in Seq(VarPool) /\ VarPool \subseteq Regs
  BY PoolLemma DEF RInv, TypeOK
<1>2. RInv' /\ fault' = "none"
  <2>1. CASE r \in Regs
    BY <2>1, ReleaseRegisterLemma DEF ReleaseAny, release_register
  <2>2. CASE r \notin Regs
    BY <2>2 DEF ReleaseAny, vars, RInv, TypeOK, MapExact, LruExact, LentPinned, NoLostUpdate,
                UndefinedOnlyIfAllLent, UseKinds
  <2> QED
    BY <2>1, <2>2
<1>3. /\ lru' = lru /\ \A q \in Regs : q # r => registers'[q] = registers[q]
      /\ \A q \in VarPool : registers'[q].status = "IN_USE_SCRATCH" =>
                              registers[q].status = "IN_USE_SCRATCH"
  BY <1>1 DEF ReleaseAny, release_register, vars, Free, Info
<1>4. Lent' \in SUBSET Lent
  BY <1>3 DEF Lent
<1>5. /\ IsFiniteSet(Lent) /\ Cardinality(Lent) \in Nat
  BY PoolCount DEF Lent
<1>6. Cardinality(Lent') <= Cardinality(Lent) /\ Cardinality(Lent') \in Nat
  BY <1>4, <1>5, FS_Subset, FS_CardinalityType
<1>7. ASSUME NEW q, NEW a \in Nat, Placed(q, a) PROVE Placed(q, a)'
  <2>1. PICK p \in DOMAIN lru : lru[p] = q /\ p + Cardinality(Lent) <= a + 1
    BY <1>7 DEF Placed
  <2>2. p \in Nat
    BY <1>1
  <2>3. p + Cardinality(Lent') <= a + 1
    BY <1>5, <1>6, <2>1, <2>2
  <2> QED
    BY <1>3, <2>1, <2>3 DEF Placed
<1> QED
  BY <1>2, <1>3, <1>7

-----------------------------------------------------------------------------
(* The operands on the stack. *)

(* The types of what the invariant speaks of.                              *)
LEMMA FFacts ==
    ASSUME FTyped
    PROVE  /\ Top \in Nat /\ DOMAIN stack = 1 .. Top
           /\ \A i \in 1 .. Top : /\ stack[i] \in Operands /\ stack[i].reg \in Machine
                                  /\ stack[i].temp \in BOOLEAN /\ stack[i].param \in BOOLEAN
                                  /\ stack[i].age \in Nat
           /\ \A q \in Machine : owner[q] \in Nat
           /\ NoReg \notin Machine /\ ArgRegs \cap Regs = {} /\ ArgRegs \subseteq Machine
           /\ Regs \subseteq Machine /\ VarPool \subseteq Regs /\ ScratchPool \subseteq Regs
           /\ X0 \in ArgRegs
<1>1. Top \in Nat /\ DOMAIN stack = 1 .. Top
  BY DEF FTyped, Top
<1>2. ASSUME NEW i \in 1 .. Top
      PROVE  /\ stack[i] \in Operands /\ stack[i].reg \in Machine
             /\ stack[i].temp \in BOOLEAN /\ stack[i].param \in BOOLEAN
             /\ stack[i].age \in Nat
  <2>1. stack[i] \in Operands
    BY <1>1 DEF FTyped
  <2> QED
    BY <2>1 DEF Operands
<1>3. \A q \in Machine : owner[q] \in Nat
  BY DEF FTyped
<1>4. NoReg \notin Machine /\ ArgRegs \cap Regs = {}
  BY PoolsAssumption, CodegenAssumption DEF Machine, ArgRegs
<1>5. X0 \in ArgRegs
  <2>1. Len(ARG_REGS) \in Nat /\ DOMAIN ARG_REGS = 1 .. Len(ARG_REGS) /\ Len(ARG_REGS) # 0
    BY CodegenAssumption, EmptySeq, LenProperties
  <2> QED
    BY <2>1 DEF X0, ArgRegs
<1> QED
  BY <1>1, <1>2, <1>3, <1>4, <1>5, PoolLemma DEF Machine

(* Ageing changes the ages only, and those of waiting temporaries by one.  *)
LEMMA AgedLemma ==
    ASSUME NEW b \in Seq(Operands), NEW r, NEW s, s = Aged(b, r)
    PROVE  /\ s \in Seq(Operands) /\ Len(s) = Len(b) /\ DOMAIN s = DOMAIN b
           /\ r \notin VarPool => s = b
           /\ \A i \in DOMAIN b : /\ s[i].reg = b[i].reg /\ s[i].temp = b[i].temp
                                  /\ s[i].arg = b[i].arg /\ s[i].param = b[i].param
                                  /\ s[i].age \in Nat
           /\ \A i \in DOMAIN b :
                r \in VarPool /\ b[i].reg \in VarPool /\ b[i].temp /\ b[i].age < PoolSize =>
                  s[i].age = b[i].age + 1
<1>1. Len(b) \in Nat /\ DOMAIN b = 1 .. Len(b) /\ \A i \in DOMAIN b : b[i] \in Operands
  OBVIOUS
<1>2. CASE r \notin VarPool
  <2>1. s = b
    BY <1>2 DEF Aged
  <2> QED
    BY <1>1, <1>2, <2>1 DEF Operands
<1>3. CASE r \in VarPool
  <2> DEFINE older(i) == b[i].reg \in VarPool /\ b[i].temp /\ b[i].age < PoolSize
             one(i) == IF older(i) THEN [b[i] EXCEPT !.age = b[i].age + 1] ELSE b[i]
  <2>1. s = [i \in DOMAIN b |-> one(i)]
    BY <1>3 DEF Aged
  <2>2. ASSUME NEW i \in DOMAIN b
        PROVE  /\ one(i) \in Operands /\ one(i).reg = b[i].reg /\ one(i).temp = b[i].temp
               /\ one(i).arg = b[i].arg /\ one(i).param = b[i].param /\ one(i).age \in Nat
               /\ older(i) => one(i).age = b[i].age + 1
    <3>1. b[i] \in Operands
      BY <1>1
    <3>2. CASE older(i)
      <4>1. one(i) = [b[i] EXCEPT !.age = b[i].age + 1]
        BY <3>2
      <4>2. b[i].age + 1 \in Nat
        BY <3>1 DEF Operands
      <4> HIDE DEF one, older
      <4> QED
        BY <3>1, <4>1, <4>2 DEF Operands
    <3>3. CASE ~older(i)
      <4>1. one(i) = b[i]
        BY <3>3
      <4> HIDE DEF one
      <4> QED
        BY <3>1, <3>3, <4>1 DEF Operands
    <3> QED
      BY <3>2, <3>3
  <2> HIDE DEF one
  <2>3. /\ DOMAIN s = DOMAIN b /\ \A i \in DOMAIN b : s[i] = one(i)
    BY <2>1
  <2>4. s \in Seq(Operands) /\ Len(s) = Len(b)
    BY <1>1, <2>1, <2>2
  <2> QED
    BY <1>3, <2>2, <2>3, <2>4
<1> QED
  BY <1>2, <1>3

(* A new operand on top of the others.                                     *)
LEMMA AppendLemma ==
    ASSUME NEW s \in Seq(Operands), NEW o \in Operands
    PROVE  /\ Append(s, o) \in Seq(Operands)
           /\ Len(Append(s, o)) = Len(s) + 1
           /\ DOMAIN Append(s, o) = 1 .. (Len(s) + 1)
           /\ \A i \in 1 .. Len(s) : Append(s, o)[i] = s[i]
           /\ Append(s, o)[Len(s) + 1] = o
<1>1. Append(s, o) \in Seq(Operands) /\ Len(Append(s, o)) = Len(s) + 1
  OBVIOUS
<1>2. DOMAIN Append(s, o) = 1 .. (Len(s) + 1)
  BY <1>1
<1> QED
  BY <1>1, <1>2

(* What both acquire calls promise of the register they hand out.          *)
Granted(r) ==
    /\ r \in VarPool \cup ScratchPool
    /\ registers[r].status # "IN_USE_SCRATCH"
    /\ \A q \in Regs : q # r => registers'[q] = registers[q]
    /\ r \in VarPool =>
         \A q : \A a \in Nat : Placed(q, a) /\ a + 1 < PoolSize => q # r /\ Placed(q, a + 1)'
    /\ r \notin VarPool =>
         \A q : \A a \in Nat : Placed(q, a) => q # r /\ Placed(q, a)'

(* The operands below the top are kept when a register is handed out: a    *)
(* temporary that is not too old, and a register that is lent.             *)
LEMMA KeepLemma ==
    ASSUME RInv, FTyped, WaitInv, fault = "none", NEW r, Granted(r),
           NEW b \in Seq(Operands), Len(b) <= Top, \A i \in 1 .. Len(b) : b[i] = stack[i],
           NEW s, s = Aged(b, r), careful, WithinPool(s),
           NEW i \in 1 .. Len(b), i > moved
    PROVE  Kept(s[i])' /\ stack[i].reg # r /\ Intact(i)
<1>1. /\ Top \in Nat /\ DOMAIN stack = 1 .. Top
      /\ NoReg \notin Machine /\ ArgRegs \cap Regs = {}
      /\ VarPool \subseteq Regs /\ ScratchPool \subseteq Regs
  BY FFacts
<1>2. Len(b) \in Nat /\ DOMAIN b = 1 .. Len(b)
  OBVIOUS
<1>3. i \in 1 .. Top /\ b[i] = stack[i]
  BY <1>1, <1>2
<1>3a. PICK o : o = stack[i]
  OBVIOUS
<1>4. /\ s[i].reg = stack[i].reg /\ s[i].temp = stack[i].temp /\ s[i].param = stack[i].param
      /\ r \notin VarPool => s = b
      /\ r \in VarPool /\ stack[i].reg \in VarPool /\ stack[i].temp /\ stack[i].age < PoolSize =>
           s[i].age = stack[i].age + 1
      /\ DOMAIN s = DOMAIN b
  BY <1>2, <1>3, AgedLemma
<1>5. Intact(i) /\ Kept(stack[i]) /\ WithinPool(stack)
  BY <1>1, <1>3 DEF WaitInv
<1>6. stack[i].age \in Nat /\ PoolSize \in Nat
  BY <1>3, FFacts, PoolCount
<1>7. CASE stack[i].param
  BY <1>1, <1>4, <1>5, <1>7 DEF Kept, Granted
<1>8. CASE ~stack[i].param /\ stack[i].temp
  <2>1. Placed(stack[i].reg, stack[i].age)
    BY <1>5, <1>8 DEF Kept
  <2>2. stack[i].reg \in VarPool
    BY <1>6, <2>1, PlacedFacts
  <2>3. CASE r \in VarPool
    <3>1. stack[i].age < PoolSize
      BY <1>1, <1>3, <1>5, <1>8 DEF WithinPool
    <3>2. s[i].age = stack[i].age + 1
      BY <1>4, <1>8, <2>2, <2>3, <3>1
    <3>3. s[i].age < PoolSize
      BY <1>2, <1>4, <1>8 DEF WithinPool
    <3>4. o.reg # r /\ Placed(o.reg, o.age + 1)'
      BY <1>3a, <1>6, <2>1, <2>3, <3>2, <3>3 DEF Granted
    <3>5. Placed(s[i].reg, s[i].age)'
      BY <1>3a, <1>4, <3>2, <3>4
    <3> QED
      BY <1>3a, <1>4, <1>5, <1>8, <3>4, <3>5 DEF Kept
  <2>4. CASE r \notin VarPool
    <3>1. o.reg # r /\ Placed(o.reg, o.age)'
      BY <1>3a, <1>6, <2>1, <2>4 DEF Granted
    <3>2. s[i] = o
      BY <1>3, <1>3a, <1>4, <2>4
    <3>3. Placed(s[i].reg, s[i].age)'
      BY <3>1, <3>2
    <3> QED
      BY <1>3a, <1>4, <1>5, <1>8, <3>1, <3>3 DEF Kept
  <2> QED
    BY <2>3, <2>4
<1>9. CASE ~stack[i].param /\ ~stack[i].temp
  <2>1. stack[i].reg \in Regs => registers[stack[i].reg].status = "IN_USE_SCRATCH"
    BY <1>5, <1>9 DEF Kept
  <2>2. stack[i].reg # r
    BY <1>1, <2>1 DEF Granted
  <2>3. stack[i].reg \in Regs => registers'[stack[i].reg].status = "IN_USE_SCRATCH"
    BY <2>1, <2>2 DEF Granted
  <2> QED
    BY <1>4, <1>5, <1>9, <2>2, <2>3 DEF Kept
<1> QED
  BY <1>7, <1>8, <1>9

-----------------------------------------------------------------------------
(* Every step preserves the invariant. *)

(* The invariant of the allocator depends on its own variables only.       *)
LEMMA SameRInv ==
    ASSUME RInv, UNCHANGED vars
    PROVE  RInv'
  BY DEF vars, RInv, TypeOK, MapExact, LruExact, LentPinned, NoLostUpdate,
         UndefinedOnlyIfAllLent, UseKinds

(* A call of the allocator that ends the compilation.                      *)
LEMMA FailLemma ==
    ASSUME FInv, RInv', fault' # "none", UNCHANGED <<frame_vars, phase, max_live, eval_vars>>
    PROVE  FInv'
<1> USE DEF FInv, frame_vars, eval_vars
<1>1. FTyped'
  BY DEF FTyped
<1>2. SaveInv'
  BY DEF SaveInv, Reserved, Surplus
<1>3. HomesInv' /\ WaitInv'
  BY DEF HomesInv, WaitInv
<1> QED
  BY <1>1, <1>2, <1>3

(* The body writes r, which was handed out: the list of the registers to   *)
(* save is still right when the pressure was.                              *)
LEMMA WroteLemma ==
    ASSUME FInv, phase = "body", NEW r,
           UNCHANGED <<to_save, is_prologue_generated, uses_global_pointers, phase, max_live>>,
           Cardinality(InUse') \in Nat,
           r \in VarPool => \E k \in DOMAIN VARIABLE_REGS :
                              VARIABLE_REGS[k] = r /\ k <= Cardinality(InUse'),
           Wrote(r), Peak,
           \A i \in DOMAIN stack' : stack'[i].reg = r \/
                \E j \in DOMAIN stack : stack'[i].reg = stack[j].reg
    PROVE  SaveInv' /\ used' \subseteq VarPool /\ peak' \in Nat
<1>1. /\ peak \in Nat /\ used \subseteq VarPool /\ PoolSize \in Nat
      /\ DOMAIN VARIABLE_REGS = 1 .. PoolSize
  BY PoolCount DEF FInv, FTyped
<1>2. peak' \in Nat /\ peak' >= peak /\ peak' >= Cardinality(InUse')
  BY <1>1 DEF Peak
<1>3. used' = IF r \in VarPool THEN used \cup {r} ELSE used
  BY DEF Wrote
<1>4. Reserved'
  BY DEF FInv, SaveInv, Reserved, Surplus
<1>5. ASSUME NEW q \in used'
      PROVE  \E k \in DOMAIN VARIABLE_REGS : k <= peak' /\ VARIABLE_REGS[k] = q
  <2>1. CASE q \in used
    <3>1. PICK k \in DOMAIN VARIABLE_REGS : k <= peak /\ VARIABLE_REGS[k] = q
      BY <2>1 DEF FInv, SaveInv
    <3> QED
      BY <1>1, <1>2, <3>1
  <2>2. CASE q = r /\ r \in VarPool
    <3>1. PICK k \in DOMAIN VARIABLE_REGS : VARIABLE_REGS[k] = r /\ k <= Cardinality(InUse')
      BY <2>2
    <3> QED
      BY <1>1, <1>2, <2>2, <3>1
  <2> QED
    BY <1>3, <2>1, <2>2
<1>6. ASSUME NEW i \in DOMAIN stack', stack'[i].reg \in VarPool PROVE stack'[i].reg \in used'
  BY <1>3, <1>6 DEF FInv, SaveInv
<1> QED
  BY <1>1, <1>2, <1>3, <1>4, <1>5, <1>6 DEF SaveInv

(* An expression, or the address of a callee, goes to a register that was  *)
(* handed out, above the operands b; before, arguments went to the         *)
(* argument registers gone.                                                *)
Handed(r) ==
    /\ Granted(r) /\ Cardinality(InUse') \in Nat
    /\ r \in VarPool => \E k \in DOMAIN VARIABLE_REGS :
                          VARIABLE_REGS[k] = r /\ k <= Cardinality(InUse')
    /\ Wrote(r) /\ Peak

Above(r, b, s, gone) ==
    /\ b \in Seq(Operands) /\ Len(b) <= Top /\ \A i \in 1 .. Len(b) : b[i] = stack[i]
    /\ s = Aged(b, r)
    /\ gone \subseteq ArgRegs /\ homes' = homes \ gone
    /\ owner' \in [Machine -> Nat]
    /\ \A q \in Machine : q # r =>
         owner'[q] = IF q \in gone \/ owner[q] > Len(b) THEN 0 ELSE owner[q]
    /\ careful' = (careful /\ WithinPool(stack')
                           /\ \A i \in 1 .. Len(b) : stack[i].reg \notin gone)
    /\ \/ stack' = s /\ address' = r
       \/ \E o \in Operands : /\ stack' = Append(s, o) /\ address' = address
                              /\ o.reg = r /\ ~o.param /\ Kept(o)'
                              /\ careful => owner'[r] = Len(b) + 1

(* A step that does so preserves the invariant.                            *)
LEMMA GrantLemma ==
    ASSUME FInv, Body, RInv', UNCHANGED moved,
           NEW r, Handed(r), NEW b, NEW s, NEW gone, Above(r, b, s, gone)
    PROVE  FInv'
<1>a. /\ Granted(r) /\ Cardinality(InUse') \in Nat
      /\ r \in VarPool => \E k \in DOMAIN VARIABLE_REGS :
                            VARIABLE_REGS[k] = r /\ k <= Cardinality(InUse')
      /\ Wrote(r) /\ Peak
  BY DEF Handed
<1>b. /\ b \in Seq(Operands) /\ Len(b) <= Top /\ \A i \in 1 .. Len(b) : b[i] = stack[i]
      /\ s = Aged(b, r)
      /\ gone \subseteq ArgRegs /\ homes' = homes \ gone
      /\ owner' \in [Machine -> Nat]
      /\ \A q \in Machine : q # r =>
           owner'[q] = IF q \in gone \/ owner[q] > Len(b) THEN 0 ELSE owner[q]
      /\ careful' = (careful /\ WithinPool(stack')
                             /\ \A i \in 1 .. Len(b) : stack[i].reg \notin gone)
      /\ \/ stack' = s /\ address' = r
         \/ \E o \in Operands : /\ stack' = Append(s, o) /\ address' = address
                                /\ o.reg = r /\ ~o.param /\ Kept(o)'
                                /\ careful => owner'[r] = Len(b) + 1
  BY DEF Above
<1>c. /\ phase = "body" /\ statement # "none" /\ address = NoReg /\ fault = "none"
      /\ UNCHANGED <<to_save, is_prologue_generated, uses_global_pointers, phase, max_live,
                     statement, moved>>
  BY DEF Body, frame_vars
<1> USE <1>a, <1>b, <1>c
<1>1. /\ Top \in Nat /\ DOMAIN stack = 1 .. Top
      /\ NoReg \notin Machine /\ ArgRegs \cap Regs = {} /\ ArgRegs \subseteq Machine
      /\ Regs \subseteq Machine /\ VarPool \subseteq Regs /\ ScratchPool \subseteq Regs
      /\ \A q \in Machine : owner[q] \in Nat
      /\ \A i \in 1 .. Top : stack[i].reg \in Machine
  BY FFacts DEF FInv
<1>2. /\ Len(b) \in Nat /\ DOMAIN b = 1 .. Len(b)
  OBVIOUS
<1>3. /\ s \in Seq(Operands) /\ Len(s) = Len(b) /\ DOMAIN s = 1 .. Len(b)
      /\ \A i \in 1 .. Len(b) : s[i].reg = b[i].reg /\ s[i].param = b[i].param
  BY <1>2, AgedLemma
<1>4. r \in Regs /\ r \in Machine /\ r # NoReg
  BY <1>1 DEF Granted
<1>5. /\ stack' \in Seq(Operands)
      /\ \A i \in DOMAIN stack' : i \in 1 .. Len(b) \/ i = Len(b) + 1
      /\ \A i \in 1 .. Len(b) : i \in DOMAIN stack' /\ stack'[i] = s[i]
      /\ Len(b) + 1 \in DOMAIN stack' =>
           /\ stack'[Len(b) + 1].reg = r /\ ~stack'[Len(b) + 1].param
           /\ address' = NoReg
           /\ Kept(stack[Len(b) + 1])'
           /\ careful => owner'[r] = Len(b) + 1
      /\ address' \in {r, NoReg}
  <2> DEFINE Goal ==
          /\ stack' \in Seq(Operands)
          /\ \A i \in DOMAIN stack' : i \in 1 .. Len(b) \/ i = Len(b) + 1
          /\ \A i \in 1 .. Len(b) : i \in DOMAIN stack' /\ stack'[i] = s[i]
          /\ Len(b) + 1 \in DOMAIN stack' =>
               /\ stack'[Len(b) + 1].reg = r /\ ~stack'[Len(b) + 1].param
               /\ address' = NoReg
               /\ Kept(stack[Len(b) + 1])'
               /\ careful => owner'[r] = Len(b) + 1
          /\ address' \in {r, NoReg}
  <2>1. ASSUME stack' = s /\ address' = r
        PROVE  Goal
    BY <1>2, <1>3, <2>1
  <2>2. ASSUME NEW o \in Operands,
               /\ stack' = Append(s, o) /\ address' = address
               /\ o.reg = r /\ ~o.param /\ Kept(o)'
               /\ careful => owner'[r] = Len(b) + 1
        PROVE  /\ stack' \in Seq(Operands)
               /\ DOMAIN stack' = 1 .. (Len(b) + 1)
               /\ \A i \in 1 .. Len(b) : stack'[i] = s[i]
               /\ stack'[Len(b) + 1] = o
    <3>1. /\ Append(s, o) \in Seq(Operands)
          /\ DOMAIN Append(s, o) = 1 .. (Len(s) + 1)
          /\ \A i \in 1 .. Len(s) : Append(s, o)[i] = s[i]
          /\ Append(s, o)[Len(s) + 1] = o
      BY <1>3, AppendLemma
    <3> QED
      BY <1>3, <2>2, <3>1
  <2>3. ASSUME NEW o \in Operands,
               /\ stack' = Append(s, o) /\ address' = address
               /\ o.reg = r /\ ~o.param /\ Kept(o)'
               /\ careful => owner'[r] = Len(b) + 1
        PROVE  Kept(stack[Len(b) + 1])'
    BY <2>2, <2>3
  <2>4. ASSUME NEW o \in Operands,
               /\ stack' = Append(s, o) /\ address' = address
               /\ o.reg = r /\ ~o.param /\ Kept(o)'
               /\ careful => owner'[r] = Len(b) + 1
        PROVE  Goal
    <3>1. /\ stack' \in Seq(Operands) /\ DOMAIN stack' = 1 .. (Len(b) + 1)
          /\ \A i \in 1 .. Len(b) : stack'[i] = s[i]
          /\ stack'[Len(b) + 1] = o
      BY <2>2, <2>4
    <3>2. Kept(stack[Len(b) + 1])'
      BY <2>3, <2>4
    <3>3. address' = NoReg
      BY <2>4
    <3>4. /\ \A i \in DOMAIN stack' : i \in 1 .. Len(b) \/ i = Len(b) + 1
          /\ \A i \in 1 .. Len(b) : i \in DOMAIN stack'
      BY ONLY <1>2, <3>1
    <3> QED
      BY ONLY <2>4, <3>1, <3>2, <3>3, <3>4
  <2>5. \/ stack' = s /\ address' = r
        \/ \E o \in Operands : /\ stack' = Append(s, o) /\ address' = address
                               /\ o.reg = r /\ ~o.param /\ Kept(o)'
                               /\ careful => owner'[r] = Len(b) + 1
    BY <1>b
  <2> HIDE DEF Goal
  <2>6. Goal
    BY ONLY <2>1, <2>4, <2>5, Zenon
  <2> QED
    BY ONLY <2>6, Zenon DEF Goal
<1>6. \A i \in DOMAIN stack' : stack'[i].reg = r \/
           \E j \in DOMAIN stack : stack'[i].reg = stack[j].reg
  <2> SUFFICES ASSUME NEW i \in DOMAIN stack'
               PROVE  stack'[i].reg = r \/ \E j \in DOMAIN stack : stack'[i].reg = stack[j].reg
    OBVIOUS
  <2>1. CASE i \in 1 .. Len(b)
    <3>1. stack'[i].reg = stack[i].reg
      BY <1>3, <1>5, <2>1
    <3>2. i \in DOMAIN stack
      BY <1>1, <1>2, <2>1
    <3> QED
      BY <3>1, <3>2
  <2>2. CASE i = Len(b) + 1
    BY <1>5, <2>2
  <2> QED
    BY <1>5, <2>1, <2>2
<1>7. SaveInv' /\ used' \subseteq VarPool /\ peak' \in Nat
  BY <1>6, WroteLemma
<1>8. FTyped'
  <2>1. careful' \in BOOLEAN
    BY DEF FInv, FTyped, WithinPool
  <2> QED
    BY <1>4, <1>5, <1>7, <2>1 DEF FInv, FTyped
<1>9. HomesInv'
  <2>1. homes \subseteq Machine /\ r \notin homes
    BY <1>1, <1>4 DEF FInv, FTyped
  <2> QED
    BY <1>1, <1>2, <2>1 DEF FInv, HomesInv
<1>10. WaitInv'
  <2> SUFFICES ASSUME careful', fault' = "none"
               PROVE  /\ WithinPool(stack')
                      /\ \A i \in DOMAIN stack' : i > moved' =>
                            Intact(i)' /\ Kept(stack[i])' /\ stack'[i].reg # address'
    BY <1>1, <1>4, <1>5 DEF WaitInv, WithinPool
  <2>1. careful /\ WithinPool(stack') /\ \A i \in 1 .. Len(b) : stack[i].reg \notin gone
    OBVIOUS
  <2>2. WithinPool(s)
    BY <1>3, <1>5, <2>1 DEF WithinPool
  <2>3. ASSUME NEW i \in DOMAIN stack', i > moved'
        PROVE  Intact(i)' /\ Kept(stack[i])' /\ stack'[i].reg # address'
    <3>1. CASE i \in 1 .. Len(b)
      <4>1. Kept(s[i])' /\ stack[i].reg # r /\ Intact(i)
        BY <2>1, <2>2, <2>3, <3>1, KeepLemma DEF FInv
      <4>2. stack'[i] = s[i] /\ s[i].reg = stack[i].reg /\ s[i].param = stack[i].param
        BY <1>3, <1>5, <3>1
      <4>3. stack[i].reg \in Machine /\ i <= Len(b)
        BY <1>1, <1>2, <3>1
      <4>4. ~stack[i].param => owner'[stack[i].reg] = i
        BY <1>1, <1>2, <2>1, <3>1, <4>1, <4>3 DEF Intact
      <4>5. stack[i].param => stack[i].reg \in homes'
        BY <2>1, <3>1, <4>1 DEF Intact
      <4>6. Intact(i)'
        BY <4>2, <4>4, <4>5 DEF Intact
      <4>7. Kept(stack[i])'
        BY <4>1, <4>2
      <4> QED
        BY <1>1, <1>5, <4>1, <4>2, <4>3, <4>6, <4>7
    <3>2. CASE i = Len(b) + 1
      <4>1. Intact(i)'
        BY <1>5, <2>1, <2>3, <3>2 DEF Intact
      <4> QED
        BY <1>4, <1>5, <2>3, <3>2, <4>1
    <3> QED
      BY <1>5, <2>3, <3>1, <3>2
  <2> QED
    BY <2>1, <2>3
<1> QED
  BY <1>7, <1>8, <1>9, <1>10 DEF FInv

(* The allocator keeps its invariant, whether it finds a register or not.  *)
LEMMA AcquireRInv ==
    ASSUME RInv, fault = "none", acquire_spillable_temp_reg \/ acquire_scratch_reg
    PROVE  RInv'
<1>1. CASE acquire_spillable_temp_reg
  BY <1>1, AcquireTempFreeLemma, AcquireTempEvictLemma, UndefinedLemma
     DEF acquire_spillable_temp_reg, AcquireTempUndefined
<1>2. CASE acquire_scratch_reg
  BY <1>2, AcquireScratchFreeLemma, AcquireScratchEvictLemma, ThrowLemma
     DEF acquire_scratch_reg, AcquireScratchThrow
<1> QED
  BY <1>1, <1>2

(* The same as TempLemma and ScratchLemma say, for the operands.           *)
LEMMA TempGranted ==
    ASSUME FInv, fault = "none", acquire_spillable_temp_reg, fault' = "none",
           NEW r, r = TempReg, NEW o, o.reg = r, ~o.param, o.temp, o.age = Cardinality(Lent)
    PROVE  /\ Granted(r) /\ Kept(o)' /\ Cardinality(InUse') \in Nat
           /\ r \in VarPool => \E k \in DOMAIN VARIABLE_REGS :
                                 VARIABLE_REGS[k] = r /\ k <= Cardinality(InUse')
<1>1. /\ r \in VarPool /\ registers[r].status # "IN_USE_SCRATCH"
      /\ \A q \in Regs : q # r => registers'[q] = registers[q]
      /\ \A q : \A a \in Nat : Placed(q, a) /\ a + 1 < PoolSize => q # r /\ Placed(q, a + 1)'
      /\ \A a \in Nat : a = Cardinality(Lent) => Placed(r, a)'
      /\ Cardinality(InUse') \in Nat
      /\ \E k \in DOMAIN VARIABLE_REGS : VARIABLE_REGS[k] = r /\ k <= Cardinality(InUse')
  BY TempLemma DEF FInv
<1>2. Cardinality(Lent) \in Nat
  BY PoolCount DEF Lent
<1>3. Placed(o.reg, o.age)'
  BY <1>1, <1>2
<1>4. Kept(o)'
  BY <1>3 DEF Kept
<1> QED
  BY <1>1, <1>4 DEF Granted

(* A register from acquire_scratch_reg is lent to the operand.             *)
LEMMA ScratchGranted ==
    ASSUME FInv, fault = "none", acquire_scratch_reg, fault' = "none",
           NEW r, r = ScratchReg, NEW o, o.reg = r, ~o.param, ~o.temp
    PROVE  /\ Granted(r) /\ Kept(o)' /\ Cardinality(InUse') \in Nat
           /\ r \in VarPool => \E k \in DOMAIN VARIABLE_REGS :
                                 VARIABLE_REGS[k] = r /\ k <= Cardinality(InUse')
<1>1. /\ r \in VarPool \cup ScratchPool
      /\ registers[r].status # "IN_USE_SCRATCH"
      /\ registers'[r].status = "IN_USE_SCRATCH"
      /\ \A q \in Regs : q # r => registers'[q] = registers[q]
      /\ r \in VarPool =>
           \A q : \A a \in Nat : Placed(q, a) /\ a + 1 < PoolSize =>
                                   q # r /\ Placed(q, a + 1)'
      /\ r \notin VarPool =>
           \A q : \A a \in Nat : Placed(q, a) => q # r /\ Placed(q, a)'
      /\ Cardinality(InUse') \in Nat
      /\ r \in VarPool =>
           \E k \in DOMAIN VARIABLE_REGS :
             VARIABLE_REGS[k] = r /\ k <= Cardinality(InUse')
  BY ScratchLemma DEF FInv
<1>2. Kept(o)'
  BY <1>1 DEF Kept
<1> QED
  BY <1>1, <1>2 DEF Granted

(* The operands at the bottom of the stack. *)
LEMMA BottomLemma ==
    ASSUME FTyped, NEW n \in Nat, n <= Top
    PROVE  /\ SubSeq(stack, 1, n) \in Seq(Operands) /\ Len(SubSeq(stack, 1, n)) = n
           /\ \A i \in 1 .. n : SubSeq(stack, 1, n)[i] = stack[i]
<1>1. stack \in Seq(Operands) /\ Top \in Nat /\ Len(stack) = Top
  BY FFacts DEF FTyped, Top
<1>2. \A i \in 1 .. n : stack[i] \in Operands
  BY <1>1, FFacts
<1>3. SubSeq(stack, 1, n) = [i \in 1 .. n |-> stack[i]]
  BY <1>1
<1> QED
  BY <1>2, <1>3

(* The new operand. *)
LEMMA OperandLemma ==
    ASSUME NEW r \in Machine, NEW t \in BOOLEAN, NEW a \in BOOLEAN, NEW o, o = Operand(r, t, a)
    PROVE  /\ o \in Operands /\ o.reg = r /\ o.temp = t /\ o.arg = a /\ o.param = FALSE
           /\ t => o.age = Cardinality(Lent)
<1>1. Cardinality(Lent) \in Nat
  BY PoolCount DEF Lent
<1> QED
  BY <1>1 DEF Operand, Operands

(* What Owns says of the registers that are not written.                   *)
LEMMA OwnsLemma ==
    ASSUME FTyped, NEW r, NEW n \in Nat
    PROVE  /\ Owns(r, n + 1) \in [Machine -> Nat]
           /\ \A q \in Machine : q # r =>
                Owns(r, n + 1)[q] = IF owner[q] > n THEN 0 ELSE owner[q]
           /\ r \in Machine => Owns(r, n + 1)[r] = n + 1
<1>1. \A q \in Machine : owner[q] \in Nat
  BY FFacts
<1> QED
  BY <1>1 DEF Owns

(* VariableAccess and the literals: the value goes on top of the others.   *)
LEMMA PushLemma ==
    ASSUME FInv, fault = "none", Body, moved = 0, RInv', fault' = "none",
           NEW r, Granted(r), Cardinality(InUse') \in Nat,
           r \in VarPool => \E k \in DOMAIN VARIABLE_REGS :
                              VARIABLE_REGS[k] = r /\ k <= Cardinality(InUse'),
           NEW t \in BOOLEAN, NEW o, o = Operand(r, t, FALSE), Kept(o)', Push(r, t)
    PROVE  FInv'
<1>0. Handed(r)
  BY DEF Handed, Push
<1>1. /\ Top \in Nat /\ Regs \subseteq Machine
      /\ VarPool \subseteq Regs /\ ScratchPool \subseteq Regs
  BY FFacts DEF FInv
<1>2. r \in Machine
  BY <1>1 DEF Granted
<1>3. o \in Operands /\ o.reg = r /\ ~o.param
  BY <1>2, OperandLemma, Zenon
<1>4. PICK b \in Seq(Operands) : b = stack
  BY DEF FInv, FTyped
<1>5. PICK s : s = Aged(b, r)
  OBVIOUS
<1>6. Len(b) = Top /\ \A i \in 1 .. Len(b) : b[i] = stack[i]
  BY <1>4 DEF Top
<1>7. /\ stack' = Append(s, o) /\ owner' = Owns(r, Top + 1) /\ Wrote(r) /\ Peak
      /\ careful' = (careful /\ WithinPool(Append(s, o)))
      /\ UNCHANGED <<moved, address, homes>>
  BY <1>4, <1>5 DEF Push
<1>8. /\ careful' = (careful /\ WithinPool(stack')
                           /\ \A i \in 1 .. Len(b) : stack[i].reg \notin {})
      /\ {} \subseteq ArgRegs /\ homes' = homes \ {}
  BY <1>7
<1>9. /\ owner' \in [Machine -> Nat] /\ owner'[r] = Len(b) + 1
      /\ \A q \in Machine : q # r =>
           owner'[q] = IF q \in {} \/ owner[q] > Len(b) THEN 0 ELSE owner[q]
  BY <1>1, <1>2, <1>6, <1>7, OwnsLemma DEF FInv
<1>10. \E e \in Operands : /\ stack' = Append(s, e) /\ address' = address
                           /\ e.reg = r /\ ~e.param /\ Kept(e)'
                           /\ careful => owner'[r] = Len(b) + 1
  BY <1>3, <1>7, <1>9, Zenon
<1>11. Len(b) <= Top
  BY <1>1, <1>6
<1>12. Above(r, b, s, {})
  BY <1>5, <1>6, <1>8, <1>9, <1>10, <1>11, Zenon DEF Above
<1> QED
  BY <1>0, <1>7, <1>12, GrantLemma

(* A visit that acquires a register and finds none.                        *)
LEMMA AcquireFails ==
    ASSUME FInv, Body, acquire_spillable_temp_reg \/ acquire_scratch_reg,
           fault' # "none", Failed
    PROVE  FInv'
<1>1. RInv'
  BY AcquireRInv DEF FInv, Body
<1> QED
  BY <1>1, FailLemma DEF Body, Failed, eval_vars

(* The load of a variable preserves the invariant.                         *)
LEMMA LoadVariableLemma ==
    ASSUME FInv, LoadVariable
    PROVE  FInv'
<1>1. Body /\ moved = 0 /\ acquire_spillable_temp_reg /\ fault = "none"
  BY DEF LoadVariable, Body
<1>2. CASE fault' = "none"
  <2>1. PICK r : r = TempReg
    OBVIOUS
  <2>2. PICK o : o = Operand(r, TRUE, FALSE)
    OBVIOUS
  <2>3. Push(r, TRUE)
    BY <1>2, <2>1 DEF LoadVariable
  <2>4. o.reg = r /\ ~o.param /\ o.temp /\ o.age = Cardinality(Lent)
    BY <2>2 DEF Operand
  <2>5. /\ Granted(r) /\ Kept(o)' /\ Cardinality(InUse') \in Nat
        /\ r \in VarPool => \E k \in DOMAIN VARIABLE_REGS :
                              VARIABLE_REGS[k] = r /\ k <= Cardinality(InUse')
    BY <1>1, <1>2, <2>1, <2>4, TempGranted
  <2>6. RInv'
    BY <1>1, AcquireRInv DEF FInv
  <2> QED
    BY <1>1, <1>2, <2>2, <2>3, <2>5, <2>6, PushLemma
<1>3. CASE fault' # "none"
  BY <1>1, <1>3, AcquireFails DEF LoadVariable
<1> QED
  BY <1>2, <1>3

(* The load of a literal preserves the invariant.                          *)
LEMMA LoadLiteralLemma ==
    ASSUME FInv, LoadLiteral
    PROVE  FInv'
<1>1. Body /\ moved = 0 /\ acquire_scratch_reg /\ fault = "none"
  BY DEF LoadLiteral, Body
<1>2. CASE fault' = "none"
  <2>1. PICK r : r = ScratchReg
    OBVIOUS
  <2>2. PICK o : o = Operand(r, FALSE, FALSE)
    OBVIOUS
  <2>3. Push(r, FALSE)
    BY <1>2, <2>1 DEF LoadLiteral
  <2>4. o.reg = r /\ ~o.param /\ ~o.temp
    BY <2>2 DEF Operand
  <2>5. /\ Granted(r) /\ Kept(o)' /\ Cardinality(InUse') \in Nat
        /\ r \in VarPool => \E k \in DOMAIN VARIABLE_REGS :
                              VARIABLE_REGS[k] = r /\ k <= Cardinality(InUse')
    BY <1>1, <1>2, <2>1, <2>4, ScratchGranted
  <2>6. RInv'
    BY <1>1, AcquireRInv DEF FInv
  <2> QED
    BY <1>1, <1>2, <2>2, <2>3, <2>5, <2>6, PushLemma
<1>3. CASE fault' # "none"
  BY <1>1, <1>3, AcquireFails DEF LoadLiteral
<1> QED
  BY <1>2, <1>3

(* FunctionCall: the copy of an argument replaces what it was copied from. *)
LEMMA CopyArgumentLemma ==
    ASSUME FInv, CopyArgument
    PROVE  FInv'
<1>1. /\ Body /\ moved = 0 /\ Top >= 1 /\ acquire_spillable_temp_reg /\ fault = "none"
  BY DEF CopyArgument, Body
<1>2. /\ Top \in Nat /\ Regs \subseteq Machine /\ DOMAIN stack = 1 .. Top
      /\ VarPool \subseteq Regs /\ ScratchPool \subseteq Regs
  BY FFacts DEF FInv
<1>3. CASE fault' = "none"
  <2>1. PICK r : r = TempReg
    OBVIOUS
  <2>2. PICK o : o = Operand(r, TRUE, TRUE)
    OBVIOUS
  <2>3. PICK n \in Nat : n + 1 = Top
    BY <1>1, <1>2
  <2>4. PICK b : b = SubSeq(stack, 1, n)
    OBVIOUS
  <2>5. n <= Top /\ b \in Seq(Operands) /\ Len(b) = n /\ \A i \in 1 .. n : b[i] = stack[i]
    BY <1>2, <2>3, <2>4, BottomLemma DEF FInv
  <2>6. PICK s : s = Aged(b, r)
    OBVIOUS
  <2>7. Top - 1 = n
    BY <1>2, <2>3
  <2>8. /\ stack' = Append(s, o)
        /\ owner' = [Owns(r, n + 1) EXCEPT ![r] = IF Intact(Top) THEN Top ELSE 0]
        /\ careful' = (careful /\ WithinPool(Append(s, o)))
        /\ Wrote(r) /\ Peak /\ UNCHANGED <<moved, address, homes>>
    BY <1>3, <2>1, <2>2, <2>3, <2>4, <2>6, <2>7 DEF CopyArgument
  <2>9. o.reg = r /\ ~o.param /\ o.temp /\ o.age = Cardinality(Lent)
    BY <2>2 DEF Operand
  <2>10. /\ Granted(r) /\ Kept(o)' /\ Cardinality(InUse') \in Nat
         /\ r \in VarPool => \E k \in DOMAIN VARIABLE_REGS :
                               VARIABLE_REGS[k] = r /\ k <= Cardinality(InUse')
    BY <1>1, <1>3, <2>1, <2>9, TempGranted
  <2>11. RInv'
    BY <1>1, AcquireRInv DEF FInv
  <2>12. r \in Machine
    BY <1>2, <2>10 DEF Granted
  <2>13. o \in Operands
    BY <2>2, <2>12, OperandLemma, Zenon
  <2>14. careful => Intact(Top)
    BY <1>1, <1>2 DEF FInv, WaitInv
  <2>15. /\ owner' \in [Machine -> Nat]
         /\ \A q \in Machine : q # r => owner'[q] = IF owner[q] > n THEN 0 ELSE owner[q]
         /\ careful => owner'[r] = n + 1
    <3>1. /\ Owns(r, n + 1) \in [Machine -> Nat]
          /\ \A q \in Machine : q # r =>
               Owns(r, n + 1)[q] = IF owner[q] > n THEN 0 ELSE owner[q]
      BY OwnsLemma, Zenon DEF FInv
    <3> QED
      BY <1>2, <2>3, <2>8, <2>12, <2>14, <3>1
  <2>16. \E e \in Operands : /\ stack' = Append(s, e) /\ address' = address
                             /\ e.reg = r /\ ~e.param /\ Kept(e)'
                             /\ careful => owner'[r] = n + 1
    BY <2>8, <2>9, <2>10, <2>13, <2>15, Zenon
  <2>17. /\ careful' = (careful /\ WithinPool(stack')
                              /\ \A i \in 1 .. Len(b) : stack[i].reg \notin {})
         /\ {} \subseteq ArgRegs /\ homes' = homes \ {}
    BY <2>8
  <2>18. Above(r, b, s, {})
    <3>1. /\ \A q \in Machine : q # r =>
               owner'[q] = IF q \in {} \/ owner[q] > Len(b) THEN 0 ELSE owner[q]
          /\ \A i \in 1 .. Len(b) : b[i] = stack[i]
      BY <2>5, <2>15
    <3>2. \E e \in Operands : /\ stack' = Append(s, e) /\ address' = address
                              /\ e.reg = r /\ ~e.param /\ Kept(e)'
                              /\ careful => owner'[r] = Len(b) + 1
      BY <2>5, <2>16
    <3> QED
      BY <2>5, <2>6, <2>15, <2>17, <3>1, <3>2, Zenon DEF Above
  <2>19. Handed(r)
    BY <2>8, <2>10 DEF Handed
  <2> QED
    BY <1>1, <2>8, <2>11, <2>18, <2>19, GrantLemma
<1>4. CASE fault' # "none"
  BY <1>1, <1>4, AcquireFails DEF CopyArgument
<1> QED
  BY <1>3, <1>4

(* Arguments go to argument registers. *)
LEMMA PassedLemma ==
    ASSUME NEW n \in 0 .. Len(ARG_REGS)
    PROVE  Passed(n) \subseteq ArgRegs
<1>1. \A i \in 1 .. n : i \in DOMAIN ARG_REGS
  BY CodegenAssumption
<1> QED
  BY <1>1 DEF Passed, ArgRegs

(* The address of a callee, where a register was found for it.             *)
LEMMA AddressLemma ==
    ASSUME FInv, Body, RInv', NEW n \in 0 .. Len(ARG_REGS), n <= Top, NEW r, Granted(r),
           Cardinality(InUse') \in Nat,
           r \in VarPool => \E k \in DOMAIN VARIABLE_REGS :
                              VARIABLE_REGS[k] = r /\ k <= Cardinality(InUse'),
           Address(n, r)
    PROVE  FInv'
<1>1. /\ Top \in Nat /\ Regs \subseteq Machine
      /\ VarPool \subseteq Regs /\ ScratchPool \subseteq Regs
      /\ \A q \in Machine : owner[q] \in Nat
  BY FFacts DEF FInv
<1>2. PICK m \in Nat : m = Top - n
  BY <1>1, CodegenAssumption
<1>3. PICK b : b = SubSeq(stack, 1, m)
  OBVIOUS
<1>4. b \in Seq(Operands) /\ Len(b) = m /\ \A i \in 1 .. m : b[i] = stack[i]
  BY <1>1, <1>2, <1>3, BottomLemma DEF FInv
<1>5. PICK s : s = Aged(b, r)
  OBVIOUS
<1>6. PICK gone : gone = Passed(n)
  OBVIOUS
<1>7. /\ address' = r /\ stack' = s /\ homes' = homes \ gone
      /\ owner' = [q \in Machine |-> IF q = r \/ q \in gone \/ owner[q] > m THEN 0 ELSE owner[q]]
      /\ careful' = (careful /\ WithinPool(s) /\ \A i \in 1 .. m : stack[i].reg \notin gone)
      /\ Wrote(r) /\ Peak /\ UNCHANGED moved
  BY <1>2, <1>3, <1>5, <1>6 DEF Address, NonePassedOver
<1>8. gone \subseteq ArgRegs
  BY <1>6, PassedLemma
<1>9. /\ owner' \in [Machine -> Nat]
      /\ \A q \in Machine : q # r =>
           owner'[q] = IF q \in gone \/ owner[q] > Len(b) THEN 0 ELSE owner[q]
  BY <1>1, <1>4, <1>7
<1>10. careful' = (careful /\ WithinPool(stack') /\ \A i \in 1 .. Len(b) : stack[i].reg \notin gone)
  BY <1>4, <1>7
<1>11. Len(b) <= Top /\ \A i \in 1 .. Len(b) : b[i] = stack[i]
  BY <1>1, <1>2, <1>4
<1>12. Above(r, b, s, gone)
  BY <1>4, <1>5, <1>7, <1>8, <1>9, <1>10, <1>11, Zenon DEF Above
<1>13. Handed(r)
  BY <1>7 DEF Handed
<1> QED
  BY <1>7, <1>12, <1>13, GrantLemma

(* A release leaves every operand where it was, unless it is the operand's *)
(* own register that is released and the register was lent.                *)
LEMMA ReleaseKept ==
    ASSUME RInv, fault = "none", NEW r, ReleaseAny(r), NEW o \in Operands, Kept(o),
           o.reg = r => o.param \/ o.temp \/ o.reg \notin Regs
    PROVE  Kept(o)'
<1>1. /\ \A q \in Regs : q # r => registers'[q] = registers[q]
      /\ \A q : \A a \in Nat : Placed(q, a) => Placed(q, a)'
  BY ReleaseLemma
<1>2. o.age \in Nat
  BY DEF Operands
<1>3. CASE o.param
  BY <1>3 DEF Kept
<1>4. CASE ~o.param /\ o.temp
  BY <1>1, <1>2, <1>4 DEF Kept
<1>5. CASE ~o.param /\ ~o.temp
  BY <1>1, <1>5 DEF Kept
<1> QED
  BY <1>3, <1>4, <1>5

(* The address of a callee that is a parameter: nothing is acquired.       *)
LEMMA ParameterAddressLemma ==
    ASSUME FInv, Body, NEW n \in 0 .. Len(ARG_REGS), n <= Top, moved = 0 \/ n = 0,
           NEW r \in ArgRegs, ParameterAddress(n, r)
    PROVE  FInv'
<1>1. /\ Top \in Nat /\ DOMAIN stack = 1 .. Top /\ ArgRegs \subseteq Machine
      /\ NoReg \notin Machine /\ ArgRegs \cap Regs = {}
      /\ \A q \in Machine : owner[q] \in Nat
      /\ \A j \in 1 .. Top : stack[j] \in Operands
  BY FFacts DEF FInv
<1>2. /\ phase = "body" /\ statement # "none" /\ fault = "none" /\ address = NoReg
      /\ UNCHANGED <<to_save, is_prologue_generated, uses_global_pointers, phase, max_live,
                     statement, moved, used, peak>> /\ UNCHANGED vars
  BY DEF ParameterAddress, Body, frame_vars
<1>3. PICK m \in Nat : m = Top - n /\ m <= Top
  BY <1>1, CodegenAssumption
<1>4. PICK b : b = SubSeq(stack, 1, m)
  OBVIOUS
<1>5. b \in Seq(Operands) /\ Len(b) = m /\ DOMAIN b = 1 .. m /\ \A j \in 1 .. m : b[j] = stack[j]
  BY <1>1, <1>3, <1>4, BottomLemma DEF FInv
<1>6. PICK gone : gone = Passed(n)
  OBVIOUS
<1>7. /\ address' = r /\ stack' = b /\ homes' = homes \ gone
      /\ owner' = [q \in Machine |-> IF q \in gone \/ owner[q] > m THEN 0 ELSE owner[q]]
      /\ careful' = (careful /\ (\A i \in 1 .. m : stack[i].reg \notin gone) /\ r \in homes \ gone)
  BY <1>3, <1>4, <1>6 DEF ParameterAddress, NonePassedOver
<1>8. /\ owner' \in [Machine -> Nat]
      /\ \A q \in Machine : owner'[q] = IF q \in gone \/ owner[q] > m THEN 0 ELSE owner[q]
  BY <1>1, <1>7
<1>9. RInv'
  BY <1>2, SameRInv DEF FInv
<1>10. FTyped'
  <2>1. homes' \subseteq ArgRegs /\ careful' \in BOOLEAN /\ address' \in Machine
    BY <1>1, <1>7 DEF FInv, FTyped
  <2> QED
    BY <1>2, <1>5, <1>7, <1>8, <2>1 DEF FInv, FTyped
<1>11. SaveInv'
  <2>1. ASSUME NEW j \in DOMAIN stack', stack'[j].reg \in VarPool PROVE stack'[j].reg \in used
    <3>1. j \in DOMAIN stack /\ stack'[j] = stack[j]
      BY <1>1, <1>3, <1>5, <1>7
    <3> QED
      BY <2>1, <3>1 DEF FInv, SaveInv
  <2> QED
    BY <1>2, <2>1 DEF FInv, SaveInv, Reserved, Surplus
<1>12. HomesInv'
  <2>1. \A q \in homes : q \in Machine /\ owner[q] = 0
    BY <1>1 DEF FInv, FTyped, HomesInv
  <2> QED
    BY <1>3, <1>7, <1>8, <2>1 DEF HomesInv
<1>13. WaitInv'
  <2> SUFFICES ASSUME careful', fault' = "none"
               PROVE  /\ WithinPool(stack')
                      /\ \A j \in DOMAIN stack' : j > moved' => Intact(j)' /\ Kept(stack[j])'
    BY <1>7 DEF WaitInv, WithinPool
  <2>1. /\ careful /\ \A i \in 1 .. m : stack[i].reg \notin gone
    BY <1>7
  <2>2. /\ WithinPool(stack) /\ \A j \in 1 .. Top : j > moved => Intact(j) /\ Kept(stack[j])
    BY <1>1, <1>2, <2>1 DEF FInv, WaitInv
  <2>3. WithinPool(stack')
    BY <1>1, <1>3, <1>5, <1>7, <2>2 DEF WithinPool
  <2>4. ReleaseAny(NoReg)
    BY <1>2, PoolsAssumption DEF ReleaseAny
  <2>5. ASSUME NEW j \in DOMAIN stack', j > moved' PROVE Intact(j)' /\ Kept(stack[j])'
    <3>1. PICK e : e = stack[j]
      OBVIOUS
    <3>2. /\ j \in 1 .. m /\ j \in 1 .. Top /\ j > moved /\ stack'[j] = e
          /\ e \in Operands /\ e.reg \in Machine
      BY <1>1, <1>2, <1>3, <1>5, <1>7, <2>5, <3>1 DEF Operands
    <3>3. Kept(e) /\ IF e.param THEN e.reg \in homes ELSE owner[e.reg] = j
      BY <2>2, <3>1, <3>2 DEF Intact
    <3>4. e.reg \notin gone /\ e.reg # NoReg /\ j <= m
      BY <1>1, <2>1, <3>1, <3>2
    <3>5. Kept(e)'
      BY <1>2, <2>4, <3>2, <3>3, <3>4, ReleaseKept DEF FInv
    <3>6. IF e.param THEN e.reg \in homes' ELSE owner'[e.reg] = j
      BY <1>3, <1>7, <1>8, <3>2, <3>3, <3>4
    <3>7. Kept(stack[j])'
      BY <3>2, <3>5
    <3> QED
      BY <3>2, <3>6, <3>7 DEF Intact
  <2> QED
    BY <2>3, <2>5
<1> QED
  BY <1>9, <1>10, <1>11, <1>12, <1>13 DEF FInv

(* The address of a callee, from either pool or a parameter, preserves the *)
(* invariant.                                                              *)
LEMMA LoadAddressLemma ==
    ASSUME FInv, NEW n \in 0 .. Len(ARG_REGS), LoadAddress(n)
    PROVE  FInv'
<1>1. Body /\ fault = "none" /\ (n = 0 \/ n <= Top) /\ (moved = 0 \/ n = 0)
  BY DEF LoadAddress, Body, Arguments
<1>2. n \in Nat /\ n <= Top
  BY <1>1, FFacts, CodegenAssumption DEF FInv
<1>3. CASE acquire_scratch_reg /\ IF fault' = "none" THEN Address(n, ScratchReg) ELSE Failed
  <2>1. CASE fault' = "none"
    <3>1. PICK r : r = ScratchReg
      OBVIOUS
    <3>2. PICK o : o = Operand(r, FALSE, FALSE)
      OBVIOUS
    <3>3. o.reg = r /\ ~o.param /\ ~o.temp
      BY <3>2 DEF Operand
    <3>4. /\ Granted(r) /\ Cardinality(InUse') \in Nat
          /\ r \in VarPool => \E k \in DOMAIN VARIABLE_REGS :
                                VARIABLE_REGS[k] = r /\ k <= Cardinality(InUse')
      BY <1>1, <1>3, <2>1, <3>1, <3>3, ScratchGranted
    <3>5. RInv'
      BY <1>1, <1>3, AcquireRInv DEF FInv
    <3>6. Address(n, r)
      BY <1>3, <2>1, <3>1
    <3> QED
      BY <1>1, <1>2, <3>4, <3>5, <3>6, AddressLemma
  <2>2. CASE fault' # "none"
    BY <1>1, <1>3, <2>2, AcquireFails
  <2> QED
    BY <2>1, <2>2
<1>4. CASE acquire_spillable_temp_reg /\ IF fault' = "none" THEN Address(n, TempReg) ELSE Failed
  <2>1. CASE fault' = "none"
    <3>1. PICK r : r = TempReg
      OBVIOUS
    <3>2. PICK o : o = Operand(r, TRUE, FALSE)
      OBVIOUS
    <3>3. o.reg = r /\ ~o.param /\ o.temp /\ o.age = Cardinality(Lent)
      BY <3>2 DEF Operand
    <3>4. /\ Granted(r) /\ Cardinality(InUse') \in Nat
          /\ r \in VarPool => \E k \in DOMAIN VARIABLE_REGS :
                                VARIABLE_REGS[k] = r /\ k <= Cardinality(InUse')
      BY <1>1, <1>4, <2>1, <3>1, <3>3, TempGranted
    <3>5. RInv'
      BY <1>1, <1>4, AcquireRInv DEF FInv
    <3>6. Address(n, r)
      BY <1>4, <2>1, <3>1
    <3> QED
      BY <1>1, <1>2, <3>4, <3>5, <3>6, AddressLemma
  <2>2. CASE fault' # "none"
    BY <1>1, <1>4, <2>2, AcquireFails
  <2> QED
    BY <2>1, <2>2
<1>5. ASSUME NEW i \in 1 .. NumParams, ParameterAddress(n, ARG_REGS[i]) PROVE FInv'
  <2>1. ARG_REGS[i] \in ArgRegs
    BY CodegenAssumption DEF ArgRegs
  <2> QED
    BY <1>1, <1>2, <1>5, <2>1, ParameterAddressLemma
<1> QED
  BY <1>3, <1>4, <1>5 DEF LoadAddress

(* The result o of a visit goes on top of the operands b, in a register    *)
(* that the allocator did not have to give.                                *)
Result(b, o) ==
    /\ b \in Seq(Operands) /\ Len(b) <= Top /\ \A i \in 1 .. Len(b) : b[i] = stack[i]
    /\ o \in Operands /\ stack' = Append(b, o)
    /\ o.reg \in VarPool => o.reg \in used
    /\ owner' \in [Machine -> Nat] /\ homes' \subseteq ArgRegs
    /\ address' = NoReg /\ moved' = 0 /\ used' = used /\ peak' = peak
    /\ HomesInv'
    /\ careful' \in BOOLEAN
    /\ careful' =>
         /\ WithinPool(b) /\ (o.temp => o.age < PoolSize)
         /\ Kept(o)' /\ o.reg # NoReg
         /\ IF o.param THEN o.reg \in homes' ELSE owner'[o.reg] = Len(b) + 1
         /\ \A i \in 1 .. Len(b) :
              /\ Kept(b[i])'
              /\ IF b[i].param THEN b[i].reg \in homes' ELSE owner'[b[i].reg] = i

(* A step that leaves such a result preserves the invariant.               *)
LEMMA ResultLemma ==
    ASSUME FInv, phase = "body", statement # "none", RInv',
           UNCHANGED <<to_save, is_prologue_generated, uses_global_pointers, phase, max_live,
                       statement>>,
           NEW b, NEW o, Result(b, o)
    PROVE  FInv'
<1>1. /\ Top \in Nat /\ DOMAIN stack = 1 .. Top /\ NoReg \notin Machine
      /\ \A i \in 1 .. Top : stack[i].reg \in Machine
  BY FFacts DEF FInv
<1>2. /\ b \in Seq(Operands) /\ Len(b) <= Top /\ \A i \in 1 .. Len(b) : b[i] = stack[i]
      /\ o \in Operands /\ stack' = Append(b, o)
      /\ Len(b) \in Nat /\ DOMAIN b = 1 .. Len(b)
  BY DEF Result
<1>3. PICK n \in Nat : n = Len(b)
  BY <1>2
<1>4. /\ stack' \in Seq(Operands) /\ DOMAIN stack' = 1 .. (n + 1)
      /\ \A i \in 1 .. n : stack'[i] = b[i]
      /\ stack'[n + 1] = o
  BY <1>2, <1>3, AppendLemma
<1>5. FTyped'
  BY <1>4 DEF Result, FInv, FTyped
<1>6. SaveInv'
  <2>1. ASSUME NEW i \in DOMAIN stack', stack'[i].reg \in VarPool PROVE stack'[i].reg \in used
    <3>1. CASE i \in 1 .. n
      <4>1. i \in DOMAIN stack /\ stack'[i] = stack[i]
        BY <1>1, <1>2, <1>3, <1>4, <3>1
      <4> QED
        BY <2>1, <4>1 DEF FInv, SaveInv
    <3>2. CASE i = n + 1
      BY <1>4, <2>1, <3>2 DEF Result
    <3> QED
      BY <1>4, <3>1, <3>2
  <2>2. used' = used /\ peak' = peak
    BY DEF Result
  <2> QED
    BY <2>1, <2>2 DEF FInv, SaveInv, Reserved, Surplus
<1>7. WaitInv'
  <2> SUFFICES ASSUME careful', fault' = "none"
               PROVE  /\ WithinPool(stack')
                      /\ \A i \in DOMAIN stack' :
                            Intact(i)' /\ Kept(stack[i])' /\ stack'[i].reg # address'
    <3>1. address' = NoReg /\ NoReg \notin ArgRegs
      BY <1>1, FFacts DEF Result, FInv
    <3> QED
      BY <3>1 DEF WaitInv, WithinPool
  <2>1. /\ WithinPool(b) /\ (o.temp => o.age < PoolSize)
        /\ Kept(o)' /\ o.reg # NoReg
        /\ IF o.param THEN o.reg \in homes' ELSE owner'[o.reg] = n + 1
        /\ \A i \in 1 .. n :
             /\ Kept(b[i])'
             /\ IF b[i].param THEN b[i].reg \in homes' ELSE owner'[b[i].reg] = i
        /\ address' = NoReg
    BY <1>3 DEF Result
  <2>2. ASSUME NEW i \in DOMAIN stack'
        PROVE  /\ stack'[i].temp => stack'[i].age < PoolSize
               /\ Intact(i)' /\ Kept(stack[i])' /\ stack'[i].reg # address'
    <3>1. CASE i \in 1 .. n
      <4>1. stack'[i] = b[i] /\ b[i].reg # NoReg /\ i \in DOMAIN b
        BY <1>1, <1>2, <1>3, <1>4, <3>1
      <4>2. Kept(stack[i])'
        BY <2>1, <3>1, <4>1
      <4> QED
        BY <2>1, <3>1, <4>1, <4>2 DEF Intact, WithinPool
    <3>2. CASE i = n + 1
      <4>1. stack'[i] = o
        BY <1>4, <3>2
      <4>2. Kept(stack[i])'
        BY <2>1, <4>1
      <4> QED
        BY <2>1, <3>2, <4>1, <4>2 DEF Intact
    <3> QED
      BY <1>4, <3>1, <3>2
  <2> QED
    BY <2>2 DEF WithinPool
<1> QED
  BY <1>5, <1>6, <1>7 DEF Result, FInv

(* get_variable_register for a parameter.                                  *)
LEMMA LoadParameterLemma ==
    ASSUME FInv, NEW i \in 1 .. NumParams, LoadParameter(i)
    PROVE  FInv'
<1>1. /\ phase = "body" /\ statement # "none" /\ fault = "none" /\ address = NoReg /\ moved = 0
      /\ UNCHANGED <<to_save, is_prologue_generated, uses_global_pointers, phase, max_live,
                     statement>>
      /\ UNCHANGED <<owner, moved, address, used, peak, homes>> /\ UNCHANGED vars
  BY DEF LoadParameter, Body, frame_vars
<1>2. PICK a : a = ARG_REGS[i]
  OBVIOUS
<1>3. PICK o : o = [Operand(a, FALSE, FALSE) EXCEPT !.param = TRUE]
  OBVIOUS
<1>4. PICK b \in Seq(Operands) : b = stack
  BY DEF FInv, FTyped
<1>5. /\ stack' = Append(b, o) /\ careful' = (careful /\ a \in homes)
  BY <1>2, <1>3, <1>4 DEF LoadParameter
<1>6. /\ Top \in Nat /\ DOMAIN stack = 1 .. Top /\ ArgRegs \cap Regs = {} /\ NoReg \notin Machine
      /\ ArgRegs \subseteq Machine /\ VarPool \subseteq Regs
  BY FFacts DEF FInv
<1>7. a \in ArgRegs /\ a \in Machine /\ a \notin Regs /\ a \notin VarPool
  <2>1. i \in DOMAIN ARG_REGS
    BY CodegenAssumption
  <2> QED
    BY <1>2, <1>6, <2>1 DEF ArgRegs
<1>8. o \in Operands /\ o.reg = a /\ o.param /\ ~o.temp
  BY <1>3, <1>7 DEF Operand, Operands
<1>9. Len(b) = Top /\ DOMAIN b = 1 .. Top /\ \A j \in 1 .. Top : b[j] = stack[j]
  BY <1>4, <1>6 DEF Top
<1>10. RInv'
  BY <1>1, SameRInv DEF FInv
<1>11. ReleaseAny(NoReg)
  BY <1>1, PoolsAssumption DEF ReleaseAny
<1>12. ASSUME careful'
       PROVE  /\ WithinPool(b) /\ (o.temp => o.age < PoolSize)
              /\ Kept(o)' /\ o.reg # NoReg
              /\ IF o.param THEN o.reg \in homes' ELSE owner'[o.reg] = Len(b) + 1
              /\ \A j \in 1 .. Len(b) :
                   /\ Kept(b[j])'
                   /\ IF b[j].param THEN b[j].reg \in homes' ELSE owner'[b[j].reg] = j
  <2>1. careful /\ a \in homes
    BY <1>5, <1>12
  <2>2. WithinPool(b)
    BY <1>1, <1>4, <2>1 DEF FInv, WaitInv
  <2>3. Kept(o)' /\ o.reg # NoReg
    BY <1>6, <1>7, <1>8 DEF Kept
  <2>4. ASSUME NEW j \in 1 .. Len(b)
        PROVE  /\ Kept(b[j])'
               /\ IF b[j].param THEN b[j].reg \in homes' ELSE owner'[b[j].reg] = j
    <3>1. j \in DOMAIN stack /\ j > moved /\ b[j] = stack[j] /\ b[j] \in Operands
      BY <1>1, <1>6, <1>9
    <3>2. Intact(j) /\ Kept(stack[j])
      BY <1>1, <2>1, <3>1 DEF FInv, WaitInv
    <3>3. b[j].reg # NoReg
      BY <1>6, <3>1 DEF Operands
    <3>4. Kept(b[j])'
      BY <1>1, <1>11, <3>1, <3>2, <3>3, ReleaseKept DEF FInv
    <3> QED
      BY <1>1, <3>1, <3>2, <3>4 DEF Intact
  <2> QED
    BY <1>1, <1>8, <2>1, <2>2, <2>3, <2>4
<1>13. HomesInv' /\ homes' \subseteq ArgRegs /\ owner' \in [Machine -> Nat]
       /\ careful' \in BOOLEAN
  BY <1>1, <1>5 DEF FInv, FTyped, HomesInv
<1>14. Result(b, o)
  BY <1>1, <1>5, <1>6, <1>7, <1>8, <1>9, <1>12, <1>13 DEF Result
<1> QED
  BY <1>1, <1>10, <1>14, ResultLemma

(* BinaryOp: the result stays in the register of the left operand, which   *)
(* no operand below has; the right operand's register is released.         *)
LEMMA BinaryOpLemma ==
    ASSUME FInv, BinaryOp
    PROVE  FInv'
<1>1. /\ phase = "body" /\ statement # "none" /\ fault = "none" /\ address = NoReg /\ moved = 0
      /\ UNCHANGED <<to_save, is_prologue_generated, uses_global_pointers, phase, max_live,
                     statement, moved, address, peak>>
      /\ Top >= 2
  BY DEF BinaryOp, Body, frame_vars
<1>2. /\ Top \in Nat /\ DOMAIN stack = 1 .. Top /\ ArgRegs \cap Regs = {} /\ NoReg \notin Machine
      /\ ArgRegs \subseteq Machine /\ VarPool \subseteq Regs /\ Regs \subseteq Machine
      /\ \A q \in Machine : owner[q] \in Nat
      /\ \A j \in 1 .. Top : stack[j] \in Operands
  BY FFacts DEF FInv
<1>3. PICK n \in Nat : Top = n + 2
  BY <1>1, <1>2
<1>4. Top - 1 = n + 1 /\ Top - 2 = n
  BY <1>3
<1>5. PICK L : L = stack[Top]
  OBVIOUS
<1>6. PICK R : R = stack[n + 1]
  OBVIOUS
<1>7. PICK o : o = [L EXCEPT !.param = FALSE]
  OBVIOUS
<1>8. PICK b : b = SubSeq(stack, 1, n)
  OBVIOUS
<1>9. b \in Seq(Operands) /\ Len(b) = n /\ n <= Top /\ \A j \in 1 .. n : b[j] = stack[j]
  <2>1. n <= Top
    BY <1>3
  <2> QED
    BY <1>8, <2>1, BottomLemma DEF FInv
<1>10. /\ ReleaseAny(R.reg) /\ stack' = Append(b, o) /\ owner' = Owns(L.reg, n + 1)
       /\ homes' = homes \ {L.reg}
       /\ careful' = (careful /\ \A j \in 1 .. n : stack[j].param => stack[j].reg # L.reg)
       /\ Wrote(L.reg)
  BY <1>4, <1>5, <1>6, <1>7, <1>8 DEF BinaryOp
<1>11. L \in Operands /\ R \in Operands /\ Top \in DOMAIN stack /\ n + 1 \in DOMAIN stack
  BY <1>2, <1>3, <1>5, <1>6
<1>12. /\ o \in Operands /\ o.reg = L.reg /\ ~o.param /\ o.temp = L.temp /\ o.age = L.age
       /\ L.reg \in Machine /\ R.reg \in Machine
  BY <1>7, <1>11 DEF Operands
<1>13. L.reg \in VarPool => L.reg \in used
  BY <1>5, <1>11 DEF FInv, SaveInv
<1>14. used' = used
  BY <1>10, <1>13 DEF Wrote
<1>15. RInv'
  BY <1>1, <1>10, ReleaseLemma DEF FInv
<1>16. /\ owner' \in [Machine -> Nat] /\ owner'[L.reg] = n + 1
       /\ \A q \in Machine : q # L.reg => owner'[q] = IF owner[q] > n THEN 0 ELSE owner[q]
  <2>1. FTyped
    BY DEF FInv
  <2>2. /\ Owns(L.reg, n + 1) \in [Machine -> Nat]
        /\ \A q \in Machine : q # L.reg =>
             Owns(L.reg, n + 1)[q] = IF owner[q] > n THEN 0 ELSE owner[q]
        /\ L.reg \in Machine => Owns(L.reg, n + 1)[L.reg] = n + 1
    BY ONLY <2>1, n \in Nat, OwnsLemma, Zenon
  <2> QED
    BY <1>10, <1>12, <2>2
<1>17. HomesInv' /\ homes' \subseteq ArgRegs /\ careful' \in BOOLEAN
  <2>1. homes' \subseteq ArgRegs /\ careful' \in BOOLEAN
    BY <1>10 DEF FInv, FTyped
  <2>2. ASSUME NEW q \in homes' PROVE owner'[q] = 0
    <3>1. q \in homes /\ q # L.reg /\ q \in Machine
      BY <1>2, <1>10, <2>1, <2>2
    <3>2. owner[q] = 0
      BY <3>1 DEF FInv, HomesInv
    <3> QED
      BY <1>16, <3>1, <3>2
  <2> QED
    BY <2>1, <2>2 DEF HomesInv
<1>18. ASSUME careful'
       PROVE  /\ WithinPool(b) /\ (o.temp => o.age < PoolSize)
              /\ Kept(o)' /\ o.reg # NoReg
              /\ IF o.param THEN o.reg \in homes' ELSE owner'[o.reg] = n + 1
              /\ \A j \in 1 .. n :
                   /\ Kept(b[j])'
                   /\ IF b[j].param THEN b[j].reg \in homes' ELSE owner'[b[j].reg] = j
  <2>1. careful /\ \A j \in 1 .. n : stack[j].param => stack[j].reg # L.reg
    BY <1>10, <1>18
  <2>2. /\ WithinPool(stack)
        /\ \A j \in 1 .. Top : Intact(j) /\ Kept(stack[j])
    BY <1>1, <1>2, <2>1 DEF FInv, WaitInv
  <2>3. WithinPool(b)
    BY <1>2, <1>3, <1>9, <2>2 DEF WithinPool
  <2>4. o.temp => o.age < PoolSize
    BY <1>5, <1>11, <1>12, <2>2 DEF WithinPool
  <2>5. /\ Kept(L) /\ Kept(R)
        /\ IF L.param THEN L.reg \in homes ELSE owner[L.reg] = Top
        /\ IF R.param THEN R.reg \in homes ELSE owner[R.reg] = n + 1
    BY <1>2, <1>3, <1>5, <1>6, <2>2 DEF Intact
  <2>6. homes \subseteq ArgRegs /\ \A q \in homes : owner[q] = 0
    BY DEF FInv, FTyped, HomesInv
  <2>7. Kept(o)'
    <3>1. o.reg \notin Regs \/ o.reg # R.reg \/ o.temp
      BY <1>2, <1>3, <1>12, <2>5, <2>6
    <3>2. Kept(o)
      BY <1>2, <1>12, <2>5 DEF Kept
    <3> QED
      BY <1>1, <1>10, <1>12, <3>1, <3>2, ReleaseKept DEF FInv
  <2>8. ASSUME NEW j \in 1 .. n
        PROVE  /\ Kept(b[j])'
               /\ IF b[j].param THEN b[j].reg \in homes' ELSE owner'[b[j].reg] = j
    <3>1. /\ j \in 1 .. Top /\ b[j] = stack[j] /\ b[j] \in Operands /\ b[j].reg \in Machine
          /\ j \in Nat /\ j # 0 /\ j < n + 1
      BY <1>2, <1>3, <1>9 DEF Operands
    <3>2. /\ Kept(b[j]) /\ IF b[j].param THEN b[j].reg \in homes ELSE owner[b[j].reg] = j
      BY <2>2, <3>1 DEF Intact
    <3>3. ~b[j].param => owner[b[j].reg] # owner[L.reg] /\ b[j].reg # L.reg
      BY <1>3, <2>5, <2>6, <3>1, <3>2
    <3>4. b[j].reg = R.reg => b[j].param \/ b[j].reg \notin Regs
      BY <1>2, <2>5, <2>6, <3>1, <3>2
    <3>5. Kept(b[j])'
      BY <1>1, <1>10, <3>1, <3>2, <3>4, ReleaseKept DEF FInv
    <3>6. IF b[j].param THEN b[j].reg \in homes' ELSE owner'[b[j].reg] = j
      BY <1>10, <1>16, <2>1, <3>1, <3>2, <3>3
    <3> QED
      BY <3>5, <3>6
  <2> QED
    BY <1>2, <1>12, <1>16, <2>3, <2>4, <2>7, <2>8
<1>19. Result(b, o)
  BY <1>1, <1>9, <1>10, <1>12, <1>13, <1>14, <1>16, <1>17, <1>18 DEF Result
<1> QED
  BY <1>1, <1>15, <1>19, ResultLemma

(* FunctionCall: what waits below the arguments is in no register that the *)
(* callee may overwrite.                                                   *)
LEMMA FunctionCallLemma ==
    ASSUME FInv, NEW n \in 0 .. Len(ARG_REGS), FunctionCall(n)
    PROVE  FInv'
<1>1. /\ phase = "body" /\ statement # "none" /\ fault = "none" /\ moved = 0 /\ n <= Top
      /\ UNCHANGED <<to_save, is_prologue_generated, uses_global_pointers, phase, max_live,
                     statement, moved, used, peak>>
      /\ address' = NoReg /\ homes' = {} /\ ReleaseAny(address)
  BY DEF FunctionCall, frame_vars, Arguments
<1>2. /\ Top \in Nat /\ DOMAIN stack = 1 .. Top /\ ArgRegs \cap Regs = {} /\ NoReg \notin Machine
      /\ ArgRegs \subseteq Machine /\ VarPool \subseteq Regs /\ Regs \subseteq Machine
      /\ X0 \in ArgRegs /\ \A q \in Machine : owner[q] \in Nat
      /\ \A j \in 1 .. Top : stack[j] \in Operands
  BY FFacts DEF FInv
<1>3. PICK m \in Nat : m = Top - n /\ m <= Top
  BY <1>1, <1>2
<1>4. PICK a : a = address
  OBVIOUS
<1>5. PICK o : o = Operand(X0, FALSE, FALSE)
  OBVIOUS
<1>6. PICK b : b = SubSeq(stack, 1, m)
  OBVIOUS
<1>7. b \in Seq(Operands) /\ Len(b) = m /\ \A j \in 1 .. m : b[j] = stack[j]
  BY <1>3, <1>6, BottomLemma DEF FInv
<1>8. /\ stack' = Append(b, o) /\ owner' = [AfterCall(m) EXCEPT ![X0] = m + 1]
      /\ careful' = (careful /\ NoneExposed(m)) /\ ReleaseAny(a)
  BY <1>1, <1>3, <1>4, <1>5, <1>6 DEF FunctionCall
<1>9. o \in Operands /\ o.reg = X0 /\ ~o.param /\ ~o.temp
  BY <1>2, <1>5, OperandLemma, Zenon
<1>10. X0 \in Machine /\ X0 \notin Regs /\ X0 \notin VarPool /\ X0 # NoReg
  BY <1>2
<1>11. /\ owner' \in [Machine -> Nat] /\ owner'[X0] = m + 1
       /\ \A q \in Machine : q # X0 /\ q \notin CallerSaved /\ owner[q] <= m =>
                               owner'[q] = owner[q]
  BY <1>2, <1>8, <1>10 DEF AfterCall
<1>12. RInv'
  BY <1>1, <1>8, ReleaseLemma DEF FInv
<1>13. HomesInv' /\ homes' \subseteq ArgRegs /\ careful' \in BOOLEAN
  BY <1>1, <1>8 DEF FInv, FTyped, HomesInv
<1>14. ASSUME careful'
       PROVE  /\ WithinPool(b) /\ (o.temp => o.age < PoolSize)
              /\ Kept(o)' /\ o.reg # NoReg
              /\ IF o.param THEN o.reg \in homes' ELSE owner'[o.reg] = m + 1
              /\ \A j \in 1 .. m :
                   /\ Kept(b[j])'
                   /\ IF b[j].param THEN b[j].reg \in homes' ELSE owner'[b[j].reg] = j
  <2>1. careful /\ \A j \in 1 .. m : stack[j].reg \notin CallerSaved
    BY <1>8, <1>14 DEF NoneExposed
  <2>2. /\ WithinPool(stack)
        /\ \A j \in 1 .. Top : /\ Intact(j) /\ Kept(stack[j])
                               /\ stack[j].reg = a => a \in ArgRegs
    BY <1>1, <1>2, <1>4, <2>1 DEF FInv, WaitInv
  <2>3. WithinPool(b)
    BY <1>2, <1>3, <1>7, <2>2 DEF WithinPool
  <2>4. Kept(o)'
    BY <1>9, <1>10 DEF Kept
  <2>5. ASSUME NEW j \in 1 .. m
        PROVE  /\ Kept(b[j])'
               /\ IF b[j].param THEN b[j].reg \in homes' ELSE owner'[b[j].reg] = j
    <3>1. /\ j \in 1 .. Top /\ b[j] = stack[j] /\ b[j] \in Operands /\ b[j].reg \in Machine
          /\ j <= m
      BY <1>2, <1>3, <1>7 DEF Operands
    <3>2. /\ Kept(b[j]) /\ IF b[j].param THEN b[j].reg \in homes ELSE owner[b[j].reg] = j
          /\ b[j].reg = a => a \in ArgRegs
          /\ b[j].reg \notin CallerSaved
      BY <2>1, <2>2, <3>1 DEF Intact
    <3>3. ~b[j].param /\ b[j].reg # X0
      BY <1>2, <3>2 DEF Kept, CallerSaved
    <3>4. Kept(b[j])'
      BY <1>1, <1>2, <1>8, <3>1, <3>2, ReleaseKept DEF FInv
    <3> QED
      BY <1>11, <3>1, <3>2, <3>3, <3>4
  <2> QED
    BY <1>9, <1>10, <1>11, <2>3, <2>4, <2>5
<1>15. Result(b, o)
  BY <1>1, <1>3, <1>7, <1>8, <1>9, <1>10, <1>11, <1>13, <1>14 DEF Result
<1> QED
  BY <1>1, <1>12, <1>15, ResultLemma

(* Between two statements, and at the start of one, nothing waits.         *)
LEMMA EmptyLemma ==
    ASSUME FInv, phase = "body", RInv',
           UNCHANGED <<to_save, is_prologue_generated, uses_global_pointers, phase, max_live,
                       used, peak, careful>>,
           stack' = <<>>, moved' = 0, address' = NoReg,
           owner' \in [Machine -> Nat], homes' \subseteq ArgRegs, HomesInv'
    PROVE  FInv'
<1>1. stack' \in Seq(Operands) /\ DOMAIN stack' = {}
  OBVIOUS
<1>2. FTyped'
  BY <1>1 DEF FInv, FTyped
<1>3. SaveInv'
  BY <1>1 DEF FInv, SaveInv, Reserved, Surplus
<1>4. WaitInv'
  <2>1. NoReg \notin ArgRegs
    BY FFacts DEF FInv
  <2> QED
    BY <1>1, <2>1 DEF WaitInv, WithinPool
<1> QED
  BY <1>2, <1>3, <1>4 DEF FInv

(* AssignmentStatement and RoutineCallStatement, at both ends.             *)
LEMMA StatementLemma ==
    ASSUME FInv, BeginAssignment \/ EndAssignment \/ BeginRoutineCall \/ EndRoutineCall
    PROVE  FInv'
<1>1. FTyped /\ RInv /\ HomesInv
  BY DEF FInv
<1>2. CASE BeginAssignment
  <2>1. /\ phase = "body" /\ UNCHANGED vars
        /\ UNCHANGED <<to_save, is_prologue_generated, uses_global_pointers, phase, max_live,
                       used, peak, careful>>
        /\ stack' = <<>> /\ moved' = 0 /\ address' = NoReg /\ UNCHANGED <<owner, homes>>
    BY <1>1, <1>2 DEF BeginAssignment, frame_vars, FTyped
  <2>2. /\ RInv' /\ owner' \in [Machine -> Nat] /\ homes' \subseteq ArgRegs /\ HomesInv'
    BY <1>1, <2>1, SameRInv DEF FTyped, HomesInv
  <2> QED
    BY <2>1, <2>2, EmptyLemma
<1>3. CASE EndAssignment
  <2>1. /\ phase = "body" /\ UNCHANGED vars
        /\ UNCHANGED <<to_save, is_prologue_generated, uses_global_pointers, phase, max_live,
                       used, peak, careful, homes>>
        /\ stack' = <<>> /\ address' = NoReg /\ moved' = 0
        /\ owner' = [q \in Machine |-> 0]
    BY <1>1, <1>3 DEF EndAssignment, frame_vars
  <2>2. RInv'
    BY <1>1, <2>1, SameRInv
  <2>3. homes' \subseteq ArgRegs
    BY <1>1, <2>1 DEF FTyped
  <2>4. owner' \in [Machine -> Nat] /\ HomesInv'
    BY <2>1, <2>3, FFacts, <1>1 DEF HomesInv
  <2> QED
    BY <2>1, <2>2, <2>3, <2>4, EmptyLemma
<1>4. CASE BeginRoutineCall
  <2>1. /\ phase = "body" /\ fault = "none" /\ reset_caller_saved_registers
        /\ UNCHANGED <<to_save, is_prologue_generated, uses_global_pointers, phase, max_live,
                       used, peak, careful>>
        /\ stack' = <<>> /\ moved' = 0 /\ address' = NoReg /\ UNCHANGED <<owner, homes>>
    BY <1>1, <1>4 DEF BeginRoutineCall, frame_vars, FTyped
  <2>2. /\ RInv' /\ owner' \in [Machine -> Nat] /\ homes' \subseteq ArgRegs /\ HomesInv'
    BY <1>1, <2>1, ResetCallerSavedLemma DEF FTyped, HomesInv
  <2> QED
    BY <2>1, <2>2, EmptyLemma
<1>5. CASE EndRoutineCall
  <2>1. /\ phase = "body" /\ fault = "none"
        /\ UNCHANGED <<to_save, is_prologue_generated, uses_global_pointers, phase, max_live,
                       used, peak, careful>>
        /\ stack' = <<>> /\ address' = NoReg /\ moved' = 0
        /\ owner' = [q \in Machine |-> 0] /\ homes' = {}
    BY <1>5 DEF EndRoutineCall, frame_vars
  <2>2. PICK r : ReleaseAny(r)
    BY <1>5 DEF EndRoutineCall
  <2>3. RInv'
    BY <1>1, <2>1, <2>2, ReleaseLemma
  <2>4. owner' \in [Machine -> Nat] /\ homes' \subseteq ArgRegs /\ HomesInv'
    BY <2>1 DEF HomesInv
  <2> QED
    BY <2>1, <2>3, <2>4, EmptyLemma
<1> QED
  BY <1>2, <1>3, <1>4, <1>5

(* moveArgumentsToCallRegisters: the argument in turn leaves its register, *)
(* and the argument register it goes to holds no later argument.           *)
LEMMA MoveArgumentLemma ==
    ASSUME FInv, MoveArgument
    PROVE  FInv'
<1>1. /\ phase = "body" /\ fault = "none" /\ address = NoReg /\ statement = "routine"
      /\ UNCHANGED <<to_save, is_prologue_generated, uses_global_pointers, phase, max_live,
                     statement, stack, address, used, peak>>
      /\ moved + 1 <= Top /\ Top <= Len(ARG_REGS) /\ moved' = moved + 1
  BY DEF MoveArgument, Body, frame_vars
<1>2. /\ Top \in Nat /\ DOMAIN stack = 1 .. Top /\ ArgRegs \cap Regs = {} /\ NoReg \notin Machine
      /\ ArgRegs \subseteq Machine /\ moved \in Nat
      /\ \A q \in Machine : owner[q] \in Nat
      /\ \A j \in 1 .. Top : stack[j] \in Operands
  BY FFacts DEF FInv, FTyped
<1>3. PICK i \in Nat : i = moved + 1
  BY <1>2
<1>4. PICK o : o = stack[i]
  OBVIOUS
<1>5. PICK a : a = ARG_REGS[i]
  OBVIOUS
<1>6. /\ ReleaseAny(o.reg) /\ owner' = [owner EXCEPT ![a] = 0]
      /\ homes' = IF o.param /\ o.reg = a THEN homes ELSE homes \ {a}
      /\ careful' = (careful /\ ((o.param /\ o.reg = a)
                                 \/ \A j \in DOMAIN stack : j > i => stack[j].reg # a))
  BY <1>3, <1>4, <1>5 DEF MoveArgument
<1>7. i \in 1 .. Top /\ a \in ArgRegs /\ a \in Machine /\ a \notin Regs
  <2>1. i \in 1 .. Top /\ i \in 1 .. Len(ARG_REGS)
    BY <1>1, <1>2, <1>3, CodegenAssumption
  <2>2. i \in DOMAIN ARG_REGS
    BY <2>1, CodegenAssumption
  <2> QED
    BY <1>2, <1>5, <2>1, <2>2 DEF ArgRegs
<1>8. RInv'
  BY <1>1, <1>6, ReleaseLemma DEF FInv
<1>9. owner' \in [Machine -> Nat] /\ \A q \in Machine : owner'[q] = IF q = a THEN 0 ELSE owner[q]
  BY <1>6, <1>7 DEF FInv, FTyped
<1>10. homes' \subseteq homes /\ homes \subseteq ArgRegs /\ careful' \in BOOLEAN
  BY <1>6 DEF FInv, FTyped
<1>11. FTyped'
  BY <1>1, <1>2, <1>9, <1>10 DEF FInv, FTyped
<1>12. SaveInv'
  BY <1>1 DEF FInv, SaveInv, Reserved, Surplus
<1>13. HomesInv'
  BY <1>2, <1>9, <1>10 DEF FInv, HomesInv
<1>14. WaitInv'
  <2> SUFFICES ASSUME careful', fault' = "none"
               PROVE  /\ WithinPool(stack')
                      /\ \A j \in DOMAIN stack' : j > moved' =>
                            Intact(j)' /\ Kept(stack[j])' /\ stack'[j].reg # address'
    BY <1>1, <1>2 DEF WaitInv, WithinPool
  <2>1. /\ careful
        /\ (o.param /\ o.reg = a) \/ \A j \in DOMAIN stack : j > i => stack[j].reg # a
    BY <1>6
  <2>2. /\ WithinPool(stack) /\ \A j \in 1 .. Top : j > moved => Intact(j) /\ Kept(stack[j])
    BY <1>1, <1>2, <2>1 DEF FInv, WaitInv
  <2>3. Kept(o) /\ IF o.param THEN o.reg \in homes ELSE owner[o.reg] = i
    BY <1>2, <1>3, <1>4, <1>7, <2>2 DEF Intact
  <2>4. \A q \in homes : owner[q] = 0
    BY DEF FInv, HomesInv
  <2>5. ASSUME NEW j \in DOMAIN stack', j > moved'
        PROVE  Intact(j)' /\ Kept(stack[j])' /\ stack'[j].reg # address'
    <3>1. PICK e : e = stack[j]
      OBVIOUS
    <3>2. /\ j \in 1 .. Top /\ j > i /\ j > moved /\ j # 0 /\ j # i
          /\ e \in Operands /\ e.reg \in Machine
      BY <1>1, <1>2, <1>3, <2>5, <3>1 DEF Operands
    <3>3. Kept(e) /\ IF e.param THEN e.reg \in homes ELSE owner[e.reg] = j
      BY <2>2, <3>1, <3>2 DEF Intact
    <3>4. e.reg = o.reg => e.param \/ e.reg \notin Regs
      BY <1>2, <1>10, <2>3, <3>2, <3>3
    <3>5. Kept(e)'
      BY <1>1, <1>6, <3>2, <3>3, <3>4, ReleaseKept DEF FInv
    <3>6. IF e.param THEN e.reg \in homes' ELSE owner'[e.reg] = j
      <4>1. CASE o.param /\ o.reg = a
        BY <1>6, <1>9, <2>3, <2>4, <3>2, <3>3, <4>1
      <4>2. CASE \A k \in DOMAIN stack : k > i => stack[k].reg # a
        <5>1. e.reg # a
          BY <1>2, <3>1, <3>2, <4>2
        <5> QED
          BY <1>6, <1>9, <3>2, <3>3, <5>1
      <4> QED
        BY <2>1, <4>1, <4>2
    <3>7. stack'[j] = e
      BY <1>1, <3>1
    <3>8. Kept(stack[j])'
      BY <3>5, <3>7
    <3> QED
      BY <1>1, <1>2, <3>2, <3>6, <3>7, <3>8 DEF Intact
  <2>6. WithinPool(stack')
    BY <1>1, <2>2
  <2> QED
    BY <2>5, <2>6
<1> QED
  BY <1>8, <1>11, <1>12, <1>13, <1>14 DEF FInv

(* The operands after a store to the register h of a parameter: types and  *)
(* registers are as before.                                                *)
LEMMA StoredLemma ==
    ASSUME FTyped, NEW h \in ArgRegs, NEW i \in 1 .. Top, StoreToParameter(i, h)
    PROVE  /\ stack' \in Seq(Operands) /\ DOMAIN stack' = DOMAIN stack
           /\ \A j \in DOMAIN stack : /\ stack'[j].reg = stack[j].reg
                                      /\ stack'[j].temp = stack[j].temp
                                      /\ stack'[j].age = stack[j].age
           /\ \A j \in DOMAIN stack :
                \/ stack'[j] = stack[j]
                \/ /\ j > i /\ stack[j].reg = h
                   /\ ~(stack[i].param /\ stack[i].reg = h /\ h \in homes)
<1>1. Top \in Nat /\ DOMAIN stack = 1 .. Top /\ \A j \in 1 .. Top : stack[j] \in Operands
  BY FFacts
<1> DEFINE lost(j) == /\ j > i /\ stack[j].reg = h
                      /\ ~(stack[i].param /\ stack[i].reg = h /\ h \in homes)
           one(j) == IF lost(j) THEN [stack[j] EXCEPT !.param = FALSE] ELSE stack[j]
<1>2. stack' = [j \in 1 .. Top |-> one(j)]
  BY <1>1 DEF StoreToParameter
<1>3. ASSUME NEW j \in 1 .. Top
      PROVE  /\ one(j) \in Operands /\ one(j).reg = stack[j].reg
             /\ one(j).temp = stack[j].temp /\ one(j).age = stack[j].age
             /\ one(j) = stack[j] \/ lost(j)
  <2>1. stack[j] \in Operands
    BY <1>1
  <2>2. /\ [stack[j] EXCEPT !.param = FALSE] \in Operands
        /\ [stack[j] EXCEPT !.param = FALSE].reg = stack[j].reg
        /\ [stack[j] EXCEPT !.param = FALSE].temp = stack[j].temp
        /\ [stack[j] EXCEPT !.param = FALSE].age = stack[j].age
    BY <2>1 DEF Operands
  <2> QED
    BY <2>1, <2>2
<1> HIDE DEF one, lost
<1>4. stack' \in Seq(Operands) /\ DOMAIN stack' = 1 .. Top /\ \A j \in 1 .. Top : stack'[j] = one(j)
  BY <1>1, <1>2, <1>3
<1>5. \A j \in 1 .. Top : /\ stack'[j].reg = stack[j].reg /\ stack'[j].temp = stack[j].temp
                          /\ stack'[j].age = stack[j].age
                          /\ stack'[j] = stack[j] \/ lost(j)
  BY <1>3, <1>4
<1> QED
  BY <1>1, <1>4, <1>5 DEF lost

(* AssignmentStatement, the store of one value: a parameter's register     *)
(* that it is moved to holds no value that is still to be stored.          *)
LEMMA StoreValueLemma ==
    ASSUME FInv, StoreValue
    PROVE  FInv'
<1>1. /\ phase = "body" /\ fault = "none" /\ address = NoReg /\ statement = "assignment"
      /\ UNCHANGED <<to_save, is_prologue_generated, uses_global_pointers, phase, max_live,
                     statement, address, used, peak>>
      /\ moved + 1 <= Top /\ moved' = moved + 1
  BY DEF StoreValue, Body, frame_vars
<1>2. /\ Top \in Nat /\ DOMAIN stack = 1 .. Top /\ ArgRegs \cap Regs = {} /\ NoReg \notin Machine
      /\ ArgRegs \subseteq Machine /\ moved \in Nat
      /\ \A q \in Machine : owner[q] \in Nat
      /\ \A j \in 1 .. Top : stack[j] \in Operands
  BY FFacts DEF FInv, FTyped
<1>3. PICK i \in 1 .. Top : i = moved + 1
  BY <1>1, <1>2
<1>4. PICK o : o = stack[i]
  OBVIOUS
<1>5. /\ ReleaseAny(o.reg)
      /\ \/ UNCHANGED <<stack, owner, homes, careful>>
         \/ \E p \in 1 .. NumParams : StoreToParameter(i, ARG_REGS[p])
  BY <1>3, <1>4 DEF StoreValue
<1>6. RInv'
  BY <1>1, <1>5, ReleaseLemma DEF FInv
<1>7. /\ stack' \in Seq(Operands) /\ DOMAIN stack' = DOMAIN stack
      /\ \A j \in DOMAIN stack : /\ stack'[j].reg = stack[j].reg
                                 /\ stack'[j].temp = stack[j].temp
                                 /\ stack'[j].age = stack[j].age
      /\ owner' \in [Machine -> Nat] /\ homes' \subseteq ArgRegs /\ careful' \in BOOLEAN
      /\ HomesInv'
      /\ careful' =>
           /\ careful
           /\ \A j \in DOMAIN stack : j > i =>
                /\ stack'[j] = stack[j]
                /\ stack[j].param => (stack[j].reg \in homes => stack[j].reg \in homes')
                /\ ~stack[j].param =>
                     owner'[stack[j].reg] = owner[stack[j].reg] \/ owner[stack[j].reg] = 0
  <2>1. CASE UNCHANGED <<stack, owner, homes, careful>>
    BY <2>1 DEF FInv, FTyped, HomesInv
  <2>2. ASSUME NEW p \in 1 .. NumParams, StoreToParameter(i, ARG_REGS[p])
        PROVE  /\ stack' \in Seq(Operands) /\ DOMAIN stack' = DOMAIN stack
               /\ \A j \in DOMAIN stack : /\ stack'[j].reg = stack[j].reg
                                          /\ stack'[j].temp = stack[j].temp
                                          /\ stack'[j].age = stack[j].age
               /\ owner' \in [Machine -> Nat] /\ homes' \subseteq ArgRegs /\ careful' \in BOOLEAN
               /\ HomesInv'
               /\ careful' =>
                    /\ careful
                    /\ \A j \in DOMAIN stack : j > i =>
                         /\ stack'[j] = stack[j]
                         /\ stack[j].param => (stack[j].reg \in homes => stack[j].reg \in homes')
                         /\ ~stack[j].param =>
                              owner'[stack[j].reg] = owner[stack[j].reg] \/ owner[stack[j].reg] = 0
    <3>1. PICK h \in ArgRegs : h = ARG_REGS[p]
      BY CodegenAssumption DEF ArgRegs
    <3>2. /\ owner' = [owner EXCEPT ![h] = 0] /\ homes' = homes \cup {h}
          /\ careful' = (careful /\ \/ stack[i].param /\ stack[i].reg = h /\ h \in homes
                                    \/ \A j \in DOMAIN stack : j > i => stack[j].reg # h)
      BY <2>2, <3>1 DEF StoreToParameter
    <3>3. /\ stack' \in Seq(Operands) /\ DOMAIN stack' = DOMAIN stack
          /\ \A j \in DOMAIN stack : /\ stack'[j].reg = stack[j].reg
                                     /\ stack'[j].temp = stack[j].temp
                                     /\ stack'[j].age = stack[j].age
          /\ \A j \in DOMAIN stack :
               \/ stack'[j] = stack[j]
               \/ /\ j > i /\ stack[j].reg = h
                  /\ ~(stack[i].param /\ stack[i].reg = h /\ h \in homes)
      BY <2>2, <3>1, StoredLemma DEF FInv
    <3>4. /\ owner' \in [Machine -> Nat]
          /\ \A q \in Machine : owner'[q] = IF q = h THEN 0 ELSE owner[q]
      BY <1>2, <3>2 DEF FInv, FTyped
    <3>5. homes' \subseteq ArgRegs /\ homes \subseteq ArgRegs /\ careful' \in BOOLEAN
      BY <3>2 DEF FInv, FTyped
    <3>6. HomesInv'
      BY <1>2, <3>2, <3>4, <3>5 DEF FInv, HomesInv
    <3>7. ASSUME careful', NEW j \in DOMAIN stack, j > i
          PROVE  /\ careful
                 /\ stack'[j] = stack[j]
                 /\ stack[j].reg \in homes => stack[j].reg \in homes'
                 /\ owner'[stack[j].reg] = owner[stack[j].reg] \/ owner[stack[j].reg] = 0
      <4>1. stack[j].reg \in Machine
        BY <1>2 DEF Operands
      <4>2. \A q \in homes : owner[q] = 0
        BY DEF FInv, HomesInv
      <4> QED
        BY <3>2, <3>3, <3>4, <3>7, <4>1, <4>2
    <3>8. careful' => careful
      BY <3>2
    <3> QED
      BY <3>3, <3>4, <3>5, <3>6, <3>7, <3>8
  <2> QED
    BY <1>5, <2>1, <2>2
<1>8. FTyped'
  BY <1>1, <1>2, <1>7 DEF FInv, FTyped
<1>9. SaveInv'
  BY <1>1, <1>7 DEF FInv, SaveInv, Reserved, Surplus
<1>10. WaitInv'
  <2> SUFFICES ASSUME careful', fault' = "none"
               PROVE  /\ WithinPool(stack')
                      /\ \A j \in DOMAIN stack' : j > moved' =>
                            Intact(j)' /\ Kept(stack[j])' /\ stack'[j].reg # address'
    BY <1>1, <1>2 DEF WaitInv, WithinPool
  <2>1. /\ careful /\ WithinPool(stack)
        /\ \A j \in 1 .. Top : j > moved => Intact(j) /\ Kept(stack[j])
    BY <1>1, <1>2, <1>7 DEF FInv, WaitInv
  <2>2. Kept(o) /\ IF o.param THEN o.reg \in homes ELSE owner[o.reg] = i
    BY <1>2, <1>3, <1>4, <2>1 DEF Intact
  <2>3. \A q \in homes : q \in ArgRegs /\ owner[q] = 0
    BY DEF FInv, FTyped, HomesInv
  <2>4. ASSUME NEW j \in DOMAIN stack', j > moved'
        PROVE  Intact(j)' /\ Kept(stack[j])' /\ stack'[j].reg # address'
    <3>1. PICK e : e = stack[j]
      OBVIOUS
    <3>2. /\ j \in 1 .. Top /\ j > i /\ j > moved /\ j # 0 /\ j # i
          /\ e \in Operands /\ e.reg \in Machine
      BY <1>1, <1>2, <1>3, <1>7, <2>4, <3>1 DEF Operands
    <3>3. Kept(e) /\ IF e.param THEN e.reg \in homes ELSE owner[e.reg] = j
      BY <2>1, <3>1, <3>2 DEF Intact
    <3>4. e.reg = o.reg => e.param \/ e.reg \notin Regs
      BY <1>2, <2>2, <2>3, <3>2, <3>3
    <3>5. Kept(e)'
      BY <1>1, <1>5, <3>2, <3>3, <3>4, ReleaseKept DEF FInv
    <3>6. /\ stack'[j] = e
          /\ IF e.param THEN e.reg \in homes' ELSE owner'[e.reg] = j
      BY <1>2, <1>7, <3>1, <3>2, <3>3
    <3>7. Kept(stack[j])'
      BY <3>5, <3>6
    <3> QED
      BY <1>1, <1>2, <3>2, <3>6, <3>7 DEF Intact
  <2>5. WithinPool(stack')
    BY <1>7, <2>1 DEF WithinPool
  <2> QED
    BY <2>4, <2>5
<1> QED
  BY <1>6, <1>7, <1>8, <1>9, <1>10 DEF FInv

-----------------------------------------------------------------------------
(* The calls before the body. *)

(* X19 and X28 enclose the small pool in the extended one.                 *)
LEMMA ExtendedLemma ==
    ASSUME NEW E, E = <<X19>> \o VARIABLE_REGS \o <<X28>>
    PROVE  /\ E \in Seq(Regs) /\ Len(E) = PoolSize + 2
           /\ \A k \in 1 .. PoolSize : E[k + 1] = VARIABLE_REGS[k]
           /\ Len(SubSeq(E, 2, Len(E) - 1)) = PoolSize
           /\ \A k \in 1 .. PoolSize : SubSeq(E, 2, Len(E) - 1)[k] = VARIABLE_REGS[k]
<1>1. /\ VARIABLE_REGS \in Seq(Regs) /\ Len(VARIABLE_REGS) = PoolSize /\ PoolSize \in Nat
      /\ X19 \in Regs /\ X28 \in Regs
  BY PoolLemma, PoolCount DEF PoolSize
<1>2. PICK D : D = <<X19>> \o VARIABLE_REGS
  OBVIOUS
<1>3. /\ D \in Seq(Regs) /\ Len(D) = PoolSize + 1
      /\ \A k \in 1 .. PoolSize : D[k + 1] = VARIABLE_REGS[k]
  BY <1>1, <1>2
<1>4. /\ E \in Seq(Regs) /\ Len(E) = PoolSize + 2
      /\ \A k \in 1 .. (PoolSize + 1) : E[k] = D[k]
  BY <1>1, <1>2, <1>3
<1>5. \A k \in 1 .. PoolSize : E[k + 1] = VARIABLE_REGS[k]
  BY <1>1, <1>3, <1>4
<1>6. SubSeq(E, 2, PoolSize + 1) = [i \in 1 .. PoolSize |-> E[i + 1]]
  <2>1. SubSeq(E, 2, PoolSize + 1) = [i \in 1 .. (PoolSize + 1 - 2 + 1) |-> E[2 + i - 1]]
    BY <1>1, <1>4
  <2>2. /\ 1 .. (PoolSize + 1 - 2 + 1) = 1 .. PoolSize
        /\ \A i \in 1 .. PoolSize : 2 + i - 1 = i + 1
    BY <1>1
  <2> QED
    BY <2>1, <2>2
<1>7. [i \in 1 .. PoolSize |-> E[i + 1]] = VARIABLE_REGS
  BY <1>1, <1>5
<1>8. Len(E) - 1 = PoolSize + 1
  BY <1>1, <1>4
<1>9. SubSeq(E, 2, Len(E) - 1) = VARIABLE_REGS
  BY <1>6, <1>7, <1>8
<1> QED
  BY <1>1, <1>4, <1>5, <1>9

(* Before the body the list of the registers to save can only grow.        *)
LEMMA SetupLemma ==
    ASSUME FInv, phase # "body", UNCHANGED <<vars, max_live, eval_vars>>,
           uses_global_pointers' = uses_global_pointers,
           phase' \in {"force_save", "prologue", "body"},
           phase' # "body" => ~is_prologue_generated',
           to_save \subseteq to_save', Reserved'
    PROVE  FInv'
<1>1. UNCHANGED <<statement, stack, owner, moved, address, used, peak, homes, careful>>
  BY DEF eval_vars
<1>2. RInv'
  BY SameRInv DEF FInv
<1>3. stack' = <<>> /\ DOMAIN stack' = {}
  BY <1>1 DEF FInv, SaveInv, FTyped
<1>4. FTyped' /\ HomesInv'
  BY <1>1 DEF FInv, FTyped, HomesInv
<1>5. SaveInv'
  BY <1>1, <1>3 DEF FInv, SaveInv
<1>6. address' \notin ArgRegs
  <2>1. address = NoReg /\ NoReg \notin Machine /\ ArgRegs \subseteq Machine
    BY FFacts DEF FInv, SaveInv, FTyped
  <2> QED
    BY <1>1, <2>1
<1>7. WaitInv'
  BY <1>3, <1>6 DEF WaitInv, WithinPool
<1> QED
  BY <1>2, <1>4, <1>5, <1>7 DEF FInv

(* reserve_registers_based_on_pressure lists what the pressure asks for.   *)
LEMMA ReserveLemma ==
    ASSUME FInv, Reserve
    PROVE  FInv'
<1>1. /\ phase = "reserve" /\ phase' = "force_save" /\ UNCHANGED <<vars, max_live, eval_vars>>
      /\ ~is_prologue_generated
  BY DEF Reserve, Setup, FInv, SaveInv
<1>2. PICK E : E = <<X19>> \o VARIABLE_REGS \o <<X28>>
  OBVIOUS
<1>3. PICK A : A = IF uses_global_pointers THEN SubSeq(E, 2, Len(E) - 1) ELSE E
  OBVIOUS
<1>4. /\ to_save' = to_save \cup {A[i] : i \in {j \in DOMAIN A : j <= max_live}}
      /\ UNCHANGED <<is_prologue_generated, uses_global_pointers>>
  BY <1>1, <1>2, <1>3 DEF Reserve, Frame!reserve_registers_based_on_pressure,
                          Frame!active_variable_regs, Frame!mode_vars
<1>5. Reserved'
  <2> SUFFICES ASSUME NEW k \in DOMAIN VARIABLE_REGS, k + Surplus <= max_live
               PROVE  VARIABLE_REGS[k] \in to_save'
    BY <1>1, <1>4 DEF Reserved, Surplus
  <2>1. k \in 1 .. PoolSize /\ PoolSize \in Nat /\ max_live \in Nat
    BY PoolCount DEF FInv, FTyped
  <2>2. /\ E \in Seq(Regs) /\ Len(E) = PoolSize + 2 /\ E[k + 1] = VARIABLE_REGS[k]
        /\ DOMAIN SubSeq(E, 2, Len(E) - 1) = 1 .. PoolSize
        /\ SubSeq(E, 2, Len(E) - 1)[k] = VARIABLE_REGS[k]
    <3>1. /\ E \in Seq(Regs) /\ Len(E) = PoolSize + 2
          /\ \A j \in 1 .. PoolSize : E[j + 1] = VARIABLE_REGS[j]
          /\ Len(SubSeq(E, 2, Len(E) - 1)) = PoolSize
          /\ \A j \in 1 .. PoolSize : SubSeq(E, 2, Len(E) - 1)[j] = VARIABLE_REGS[j]
      BY <1>2, ExtendedLemma
    <3>2. DOMAIN SubSeq(E, 2, Len(E) - 1) = 1 .. PoolSize
      BY <2>1, <3>1
    <3> QED
      BY <2>1, <3>1, <3>2
  <2>3. CASE uses_global_pointers
    <3>1. k \in DOMAIN A /\ k <= max_live /\ A[k] = VARIABLE_REGS[k]
      BY <1>3, <2>1, <2>2, <2>3 DEF Surplus
    <3> QED
      BY <1>4, <3>1
  <2>4. CASE ~uses_global_pointers
    <3>1. k + 1 \in DOMAIN A /\ k + 1 <= max_live /\ A[k + 1] = VARIABLE_REGS[k]
      BY <1>3, <2>1, <2>2, <2>4 DEF Surplus
    <3> QED
      BY <1>4, <3>1
  <2> QED
    BY <2>3, <2>4
<1> QED
  BY <1>1, <1>4, <1>5, SetupLemma

(* force_save_register takes nothing from the list.                        *)
LEMMA ForceSaveLemma ==
    ASSUME FInv, ForceSave
    PROVE  FInv'
<1>1. /\ phase = "force_save" /\ phase' = "prologue" /\ UNCHANGED <<vars, max_live, eval_vars>>
      /\ ~is_prologue_generated /\ Reserved
  BY DEF ForceSave, Setup, FInv, SaveInv
<1>2. PICK r : IF uses_global_pointers THEN UNCHANGED frame_vars ELSE Frame!force_save_register(r)
  BY DEF ForceSave
<1>3. to_save \subseteq to_save' /\ UNCHANGED <<is_prologue_generated, uses_global_pointers>>
  BY <1>1, <1>2 DEF frame_vars, Frame!force_save_register, Frame!mode_vars
<1>4. Reserved'
  BY <1>1, <1>3 DEF Reserved, Surplus
<1> QED
  BY <1>1, <1>3, <1>4, SetupLemma

(* generate_prologue takes nothing from the list.                          *)
LEMMA PrologueLemma ==
    ASSUME FInv, Prologue
    PROVE  FInv'
<1>1. /\ phase = "prologue" /\ phase' = "body" /\ UNCHANGED <<vars, max_live, eval_vars>>
      /\ ~is_prologue_generated /\ Reserved
  BY DEF Prologue, Setup, FInv, SaveInv
<1>2. to_save \subseteq to_save' /\ uses_global_pointers' = uses_global_pointers
  BY <1>1 DEF Prologue, Frame!generate_prologue, Frame!Saved, Frame!mode_vars
<1>3. Reserved'
  BY <1>1, <1>2 DEF Reserved, Surplus
<1> QED
  BY <1>1, <1>2, <1>3, SetupLemma

-----------------------------------------------------------------------------
(* The theorems. *)

(* The invariant holds before the first call of the frame manager.         *)
LEMMA InitFInv == FunctionInit => FInv
<1> SUFFICES ASSUME FunctionInit PROVE FInv
  OBVIOUS
<1>1. RInv
  BY InitRInv DEF FunctionInit
<1>2. /\ stack = <<>> /\ stack \in Seq(Operands) /\ DOMAIN stack = {}
  BY DEF FunctionInit
<1>3. \A i \in 1 .. NumParams : ARG_REGS[i] \in ArgRegs
  BY CodegenAssumption DEF ArgRegs
<1>4. max_live \in Nat
  BY CodegenAssumption DEF FunctionInit
<1>5. FTyped
  BY <1>2, <1>3, <1>4 DEF FTyped, FunctionInit, Frame!FrameInit
<1>6. SaveInv
  BY <1>2 DEF SaveInv, FunctionInit, Frame!FrameInit
<1>7. HomesInv
  BY <1>3 DEF HomesInv, FunctionInit, Machine
<1>8. WaitInv
  <2>1. address \notin ArgRegs
    BY <1>5, FFacts DEF FunctionInit
  <2> QED
    BY <1>2, <2>1 DEF WaitInv, WithinPool
<1> QED
  BY <1>1, <1>5, <1>6, <1>7, <1>8 DEF FInv

(* Every step preserves the invariant.                                     *)
LEMMA NextFInv == FInv /\ [FunctionNext]_all_vars => FInv'
<1> SUFFICES ASSUME FInv, [FunctionNext]_all_vars PROVE FInv'
  OBVIOUS
<1>1. CASE UNCHANGED all_vars
  <2>1. UNCHANGED vars /\ UNCHANGED frame_vars /\ UNCHANGED <<phase, max_live>>
        /\ UNCHANGED eval_vars
    BY <1>1 DEF all_vars
  <2>2. RInv'
    BY <2>1, SameRInv DEF FInv
  <2>3. Lent' = Lent /\ lru' = lru /\ registers' = registers /\ fault' = fault
    BY <2>1 DEF Lent, vars
  <2>4. FTyped' /\ SaveInv' /\ HomesInv'
    BY <2>1 DEF FInv, FTyped, SaveInv, HomesInv, Reserved, Surplus, frame_vars, eval_vars
  <2>5. WaitInv'
    BY <2>1, <2>3 DEF FInv, WaitInv, WithinPool, Intact, Kept, Placed, eval_vars
  <2> QED
    BY <2>2, <2>4, <2>5 DEF FInv
<1>2. CASE Reserve \/ ForceSave \/ Prologue
  BY <1>2, ReserveLemma, ForceSaveLemma, PrologueLemma
<1>3. CASE BeginAssignment \/ EndAssignment \/ BeginRoutineCall \/ EndRoutineCall
  BY <1>3, StatementLemma
<1>4. CASE MoveArgument \/ StoreValue
  BY <1>4, MoveArgumentLemma, StoreValueLemma
<1>5. CASE LoadVariable \/ LoadLiteral
  BY <1>5, LoadVariableLemma, LoadLiteralLemma
<1>6. CASE BinaryOp \/ CopyArgument
  BY <1>6, BinaryOpLemma, CopyArgumentLemma
<1>7. ASSUME NEW i \in 1 .. NumParams, LoadParameter(i) PROVE FInv'
  BY <1>7, LoadParameterLemma
<1>8. ASSUME NEW n \in 0 .. Len(ARG_REGS), LoadAddress(n) \/ FunctionCall(n) PROVE FInv'
  BY <1>8, LoadAddressLemma, FunctionCallLemma
<1> QED
  BY <1>1, <1>2, <1>3, <1>4, <1>5, <1>6, <1>7, <1>8 DEF FunctionNext, Finished

(* The inductive invariant holds in every state of every function body.    *)
THEOREM FInvInvariant == FunctionSpec => []FInv
  BY InitFInv, NextFInv, PTL DEF FunctionSpec

(* Every pending operand of an expression is still in the register that    *)
(* its visit named, in every body that stays within the limits the code    *)
(* generator relies on: for pools of any size, any nesting of operators    *)
(* and calls and any number of parameters.                                 *)
THEOREM WaitingOperandsKept == FunctionSpec => []CarefulIntact
<1>1. FInv => CarefulIntact
  BY DEF FInv, WaitInv, CarefulIntact, OperandsIntact
<1> QED
  BY <1>1, FInvInvariant, PTL

(* The prologue saves every callee-saved register that the body writes,    *)
(* whenever max_live_variables was not less than the registers in use.     *)
THEOREM PressureSaves == FunctionSpec => []SavedIfPressureRight
<1>1. FInv => SavedIfPressureRight
  <2> SUFFICES ASSUME FInv, peak + Surplus <= max_live, NEW r \in used PROVE r \in to_save
    BY DEF SavedIfPressureRight, SaveListCorrect, Surplus
  <2>1. peak \in Nat /\ max_live \in Nat /\ Surplus \in Nat /\ PoolSize \in Nat
        /\ DOMAIN VARIABLE_REGS = 1 .. PoolSize
    BY PoolCount DEF FInv, FTyped, Surplus
  <2>2. PICK k \in DOMAIN VARIABLE_REGS : k <= peak /\ VARIABLE_REGS[k] = r
    BY DEF FInv, SaveInv
  <2>3. k + Surplus <= max_live
    BY <2>1, <2>2
  <2>4. Reserved
    BY DEF FInv, SaveInv
  <2> QED
    BY <2>2, <2>3, <2>4 DEF Reserved
<1> QED
  BY <1>1, FInvInvariant, PTL
==============================================================================
