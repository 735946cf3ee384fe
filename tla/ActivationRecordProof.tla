------------------------ MODULE ActivationRecordProof ------------------------
(***************************************************************************)
(* The invariants of ActivationRecord, proved for any number of registers, *)
(* any declarations and any limit of STP.                                  *)
(***************************************************************************)
EXTENDS ActivationRecord, TLAPS, SequenceTheorems, FiniteSetTheorems

-----------------------------------------------------------------------------
(* The inductive invariant. *)

Base == 16 + CanarySpace
OwnSlots == to_save \ Declared
SpillBase == Base + locals_total_size + 8 * Cardinality(OwnSlots)
Generated == {"body", "entry", "run", "returned", "trapped"}

(* The fields have their types. *)
Typed ==
    /\ local_declarations \in Seq([name : Names, size : {8, 16}, start : Nat])
    /\ locals_total_size \in Nat
    /\ variable_offsets \in [Keys -> Nat \cup {NoOffset}]
    /\ variable_types \in [Names -> Types]
    /\ to_save \in SUBSET CalleeSaved
    /\ spill_area_size \in Nat /\ next_spill_offset \in Nat
    /\ final_frame_size \in Nat /\ preallocated \in Nat
    /\ spill_variable_offsets \in [Names -> Nat \cup {NoOffset}]
    /\ is_prologue_generated \in BOOLEAN /\ uses_global_pointers \in BOOLEAN
    /\ enable_stack_canaries \in BOOLEAN /\ error \in BOOLEAN
    /\ max_live \in Nat

(* The declarations follow each other without overlap in whole words, and  *)
(* no name is declared twice.                                              *)
DeclarationsInv ==
    /\ locals_total_size % 8 = 0
    /\ \A i \in DOMAIN local_declarations :
         /\ local_declarations[i].start % 8 = 0
         /\ local_declarations[i].start + local_declarations[i].size <= locals_total_size
    /\ \A i, j \in DOMAIN local_declarations : i < j =>
         /\ local_declarations[i].start + local_declarations[i].size
              <= local_declarations[j].start
         /\ local_declarations[i].name # local_declarations[j].name

(* Before the prologue, exactly the declared names have an offset and      *)
(* nothing has been spilled.                                               *)
BeforeInv ==
    /\ preallocated % 8 = 0
    /\ ~is_prologue_generated =>
         /\ spill_area_size = preallocated
         /\ \A n \in Names : spill_variable_offsets[n] = NoOffset
         /\ ~error => /\ phase \notin Generated
                      /\ \A k \in Keys : variable_offsets[k] # NoOffset <=> k \in Declared
    /\ is_prologue_generated => phase \in Generated
    /\ phase \in {"entry", "run", "returned", "trapped"} => is_prologue_generated

(* The final layout: locals, then the registers with a slot of their own,  *)
(* each eight bytes from the next.                                         *)
LayoutInv ==
    is_prologue_generated =>
      /\ \A i \in DOMAIN local_declarations :
           variable_offsets[local_declarations[i].name] = Base + local_declarations[i].start
      /\ \A r \in OwnSlots :
           /\ variable_offsets[r] \in Nat
           /\ variable_offsets[r] % 8 = 0
           /\ Base + locals_total_size <= variable_offsets[r]
           /\ variable_offsets[r] + 8 <= SpillBase
      /\ \A r, s \in OwnSlots : r # s =>
           \/ variable_offsets[r] + 8 <= variable_offsets[s]
           \/ variable_offsets[s] + 8 <= variable_offsets[r]
      /\ \A k \in Keys : k \notin Declared \cup to_save => variable_offsets[k] = NoOffset

(* The size of the frame, and the spill slots behind the layout.           *)
SpillInv ==
    is_prologue_generated =>
      /\ SpillBase + preallocated <= final_frame_size
      /\ final_frame_size % 8 = 0
      /\ final_frame_size <= StpLimit
      /\ preallocated <= spill_area_size
      /\ spill_area_size % 8 = 0
      /\ next_spill_offset = SpillBase + (spill_area_size - preallocated)
      /\ \A n \in Names : spill_variable_offsets[n] # NoOffset =>
           /\ spill_variable_offsets[n] % 8 = 0
           /\ SpillBase <= spill_variable_offsets[n]
           /\ spill_variable_offsets[n] + 8 <= next_spill_offset
      /\ \A n, m \in Names :
           n # m /\ spill_variable_offsets[n] # NoOffset /\ spill_variable_offsets[m] # NoOffset =>
             \/ spill_variable_offsets[n] + 8 <= spill_variable_offsets[m]
             \/ spill_variable_offsets[m] + 8 <= spill_variable_offsets[n]

(* The machine: untouched until the code runs; then the frame holds what   *)
(* the prologue stored, outside of the slots of the body.                  *)
MachineInv ==
    /\ cpu \in [Cpu -> Values] /\ mem \in [Words -> Values]
    /\ phase \notin {"run", "returned", "trapped"} =>
         /\ sp = Top
         /\ cpu = [r \in Cpu |-> Entry(r)]
         /\ \A w \in Words : w >= Top => mem[w] = <<"caller">>
    /\ phase = "run" =>
         /\ sp = Top - final_frame_size \div 8
         /\ mem[sp] = Entry("X29") /\ mem[sp + 1] = Entry("X30")
         /\ enable_stack_canaries => mem[sp + 2] = <<"upper">> /\ mem[sp + 3] = <<"lower">>
         /\ \A r \in OwnSlots : mem[WordOf(sp, variable_offsets[r])] = Entry(r)
    /\ phase = "returned" =>
         /\ sp = Top - final_frame_size \div 8 + 2
         /\ \A r \in OwnSlots \cup {"X29", "X30"} : cpu[r] = Entry(r)
    /\ phase # "trapped"
    /\ CallerFrameIntact

AInv == /\ Typed /\ DeclarationsInv /\ BeforeInv /\ LayoutInv /\ SpillInv /\ MachineInv

-----------------------------------------------------------------------------
(* Bytes and words. *)

(* align_to_16 rounds up to whole words.                                   *)
LEMMA AlignLemma ==
    ASSUME NEW n \in Nat
    PROVE  /\ align_to_16(n) \in Nat
           /\ align_to_16(n) >= n
           /\ align_to_16(n) % 8 = 0
  BY DEF align_to_16

(* Offsets that are eight bytes apart lie in different words.              *)
LEMMA WordLemma ==
    ASSUME NEW a \in Nat, NEW b \in Nat, a % 8 = 0, a + 8 <= b
    PROVE  a \div 8 + 1 <= b \div 8
  OBVIOUS

-----------------------------------------------------------------------------
(* Registers. *)

(* The place of a register in the list of their names.                     *)
Index(r) == CHOOSE i \in DOMAIN EXTENDED_VARIABLE_REGS : EXTENDED_VARIABLE_REGS[i] = r

(* A register of the extended pool has one index there.                    *)
LEMMA IndexLemma ==
    ASSUME NEW r \in CalleeSaved
    PROVE  /\ Index(r) \in DOMAIN EXTENDED_VARIABLE_REGS
           /\ EXTENDED_VARIABLE_REGS[Index(r)] = r
  BY DEF Index, CalleeSaved

(* The names of the registers are a finite set, and so are the indices.    *)
LEMMA RegistersFinite ==
    /\ DOMAIN EXTENDED_VARIABLE_REGS = 1 .. Len(EXTENDED_VARIABLE_REGS)
    /\ Len(EXTENDED_VARIABLE_REGS) \in Nat
    /\ IsFiniteSet(DOMAIN EXTENDED_VARIABLE_REGS)
    /\ IsFiniteSet(CalleeSaved)
<1>1. /\ DOMAIN EXTENDED_VARIABLE_REGS = 1 .. Len(EXTENDED_VARIABLE_REGS)
      /\ Len(EXTENDED_VARIABLE_REGS) \in Nat
  BY FrameAssumption, LenProperties
<1>2. IsFiniteSet(DOMAIN EXTENDED_VARIABLE_REGS)
  BY <1>1, FS_Interval
<1>3. EXTENDED_VARIABLE_REGS \in Surjection(DOMAIN EXTENDED_VARIABLE_REGS, CalleeSaved)
  BY FrameAssumption, <1>1 DEF Surjection, CalleeSaved
<1>4. IsFiniteSet(CalleeSaved)
  BY <1>2, <1>3, FS_Surjection
<1> QED
  BY <1>1, <1>2, <1>4

(* The registers the frame manager adds of its own accord are registers.   *)
LEMMA SpecialRegisters ==
    /\ GlobalsReg \in CalleeSaved /\ DataBaseReg \in CalleeSaved
    /\ \A i \in DOMAIN active_variable_regs : active_variable_regs[i] \in CalleeSaved
<1> DEFINE n == Len(EXTENDED_VARIABLE_REGS)
<1>1. n \in Nat /\ n > 1 /\ DOMAIN EXTENDED_VARIABLE_REGS = 1 .. n
  BY RegistersFinite, FrameAssumption
<1>2. \A i \in 1 .. n : EXTENDED_VARIABLE_REGS[i] \in CalleeSaved
  BY <1>1 DEF CalleeSaved
<1>3. GlobalsReg \in CalleeSaved /\ DataBaseReg \in CalleeSaved
  BY <1>1, <1>2 DEF GlobalsReg, DataBaseReg
<1>4. ASSUME NEW i \in DOMAIN active_variable_regs
      PROVE  active_variable_regs[i] \in CalleeSaved
  <2>1. CASE uses_global_pointers
    <3>1. SubSeq(EXTENDED_VARIABLE_REGS, 2, n - 1) \in Seq(CalleeSaved)
      BY <1>1, FrameAssumption, SubSeqProperties
    <3> QED
      BY <3>1, <2>1, <1>4 DEF active_variable_regs
  <2>2. CASE ~uses_global_pointers
    BY <1>1, <1>2, <2>2, <1>4 DEF active_variable_regs
  <2> QED
    BY <2>1, <2>2
<1> QED
  BY <1>3, <1>4

(* Counting the registers before one of the list gives each register with  *)
(* a slot of its own a different number below their number.                *)
LEMMA CountLemma ==
    ASSUME NEW S \in SUBSET CalleeSaved
    PROVE  /\ Cardinality(S) \in Nat
           /\ Cardinality(S \ Declared) \in Nat
           /\ Cardinality(S \ Declared) <= Cardinality(S)
           /\ \A r \in S \ Declared :
                /\ Cardinality(SavedBefore(S, Index(r))) \in Nat
                /\ Cardinality(SavedBefore(S, Index(r))) + 1 <= Cardinality(S \ Declared)
           /\ \A r, s \in S \ Declared : r # s =>
                \/ Cardinality(SavedBefore(S, Index(r))) + 1
                     <= Cardinality(SavedBefore(S, Index(s)))
                \/ Cardinality(SavedBefore(S, Index(s))) + 1
                     <= Cardinality(SavedBefore(S, Index(r)))
<1> DEFINE Own == S \ Declared
           Before(k) == SavedBefore(S, k)
<1>1. IsFiniteSet(S) /\ IsFiniteSet(Own) /\ Cardinality(Own) <= Cardinality(S)
  BY RegistersFinite, FS_Subset
<1>2. Cardinality(S) \in Nat /\ Cardinality(Own) \in Nat
  BY <1>1, FS_CardinalityType
<1>3. ASSUME NEW k \in DOMAIN EXTENDED_VARIABLE_REGS
      PROVE  /\ IsFiniteSet(Before(k)) /\ Cardinality(Before(k)) \in Nat
             /\ IsFiniteSet(Before(k) \cup {k})
             /\ Cardinality(Before(k) \cup {k}) = Cardinality(Before(k)) + 1
  <2>1. Before(k) \in SUBSET DOMAIN EXTENDED_VARIABLE_REGS
    BY DEF SavedBefore
  <2>2. IsFiniteSet(Before(k)) /\ Cardinality(Before(k)) \in Nat
    BY <2>1, RegistersFinite, FS_Subset, FS_CardinalityType
  <2>3. k \notin Before(k)
    BY RegistersFinite DEF SavedBefore
  <2> QED
    BY <2>2, <2>3, FS_AddElement
<1>4. ASSUME NEW r \in Own
      PROVE  Cardinality(Before(Index(r))) + 1 <= Cardinality(Own)
  <2> DEFINE k == Index(r)
             B == Before(k) \cup {k}
             f == [i \in B |-> EXTENDED_VARIABLE_REGS[i]]
  <2>1. k \in DOMAIN EXTENDED_VARIABLE_REGS /\ EXTENDED_VARIABLE_REGS[k] = r
    BY IndexLemma
  <2>2. \A i \in B : i \in DOMAIN EXTENDED_VARIABLE_REGS /\ EXTENDED_VARIABLE_REGS[i] \in Own
    BY <2>1 DEF SavedBefore
  <2>3. f \in Injection(B, Own)
    <3>1. f \in [B -> Own]
      BY <2>2
    <3>2. \A i, j \in B : f[i] = f[j] => i = j
      BY <2>2, FrameAssumption
    <3> QED
      BY <3>1, <3>2 DEF Injection, IsInjective
  <2>4. Cardinality(B) <= Cardinality(Own)
    BY <2>3, <1>1, FS_Injection
  <2> QED
    BY <2>1, <2>4, <1>3
<1>5. ASSUME NEW r \in Own, NEW s \in Own, Index(r) < Index(s)
      PROVE  Cardinality(Before(Index(r))) + 1 <= Cardinality(Before(Index(s)))
  <2>1. /\ Index(r) \in DOMAIN EXTENDED_VARIABLE_REGS /\ EXTENDED_VARIABLE_REGS[Index(r)] = r
        /\ Index(s) \in DOMAIN EXTENDED_VARIABLE_REGS
    BY IndexLemma
  <2>2. Before(Index(r)) \cup {Index(r)} \in SUBSET Before(Index(s))
    BY <2>1, <1>5, RegistersFinite DEF SavedBefore
  <2>3. Cardinality(Before(Index(r)) \cup {Index(r)}) <= Cardinality(Before(Index(s)))
    BY <2>1, <2>2, <1>3, FS_Subset
  <2> QED
    BY <2>1, <2>3, <1>3
<1>6. \A r, s \in Own : r # s => Index(r) < Index(s) \/ Index(s) < Index(r)
  BY IndexLemma, RegistersFinite
<1>7. \A r \in Own : Cardinality(Before(Index(r))) \in Nat
  BY IndexLemma, <1>3
<1> QED
  BY <1>1, <1>2, <1>4, <1>5, <1>6, <1>7

(* What generate_prologue assigns: a local keeps its place, a register     *)
(* with a slot of its own comes behind the locals, other keys get none.    *)
LEMMA LayoutLemma ==
    ASSUME Typed, DeclarationsInv, NEW S \in SUBSET CalleeSaved
    PROVE  /\ \A i \in DOMAIN local_declarations :
                LayoutOffsets(S)[local_declarations[i].name] = Base + local_declarations[i].start
           /\ \A r \in S \ Declared :
                LayoutOffsets(S)[r] = Base + locals_total_size
                                        + 8 * Cardinality(SavedBefore(S, Index(r)))
           /\ \A k \in Keys : k \notin Declared \cup S => LayoutOffsets(S)[k] = NoOffset
           /\ LayoutOffsets(S) \in [Keys -> Nat \cup {NoOffset}]
<1> DEFINE ld == local_declarations
           At(key) == CHOOSE i \in DOMAIN ld : ld[i].name = key
           V == LayoutOffsets(S)
<1>1. DOMAIN ld = 1 .. Len(ld) /\ Len(ld) \in Nat
  BY LenProperties DEF Typed
<1>2. \A i \in DOMAIN ld : ld[i].name \in Names /\ ld[i].start \in Nat /\ ld[i].name \in Declared
  <2>1. \A i \in DOMAIN ld : ld[i] \in [name : Names, size : {8, 16}, start : Nat]
    BY <1>1, ElementOfSeq DEF Typed
  <2> QED
    BY <2>1 DEF Declared
<1>3. \A i \in DOMAIN ld : At(ld[i].name) = i
  <2> SUFFICES ASSUME NEW i \in DOMAIN ld PROVE At(ld[i].name) = i
    OBVIOUS
  <2>1. At(ld[i].name) \in DOMAIN ld /\ ld[At(ld[i].name)].name = ld[i].name
    OBVIOUS
  <2> HIDE DEF At
  <2> QED
    BY <2>1, <1>1 DEF DeclarationsInv
<1>4. Base \in Nat
  BY DEF Base, CanarySpace
<1>5. S \subseteq Keys /\ Declared \subseteq Keys
  BY <1>2 DEF Keys, Declared
<1>6. \A k \in Keys :
        V[k] = IF k \in Declared THEN Base + ld[At(k)].start
               ELSE IF k \in S THEN Base + locals_total_size
                                      + 8 * Cardinality(SavedBefore(S, Index(k)))
               ELSE NoOffset
  BY DEF LayoutOffsets, LayoutFrom, Base, Index
<1>7. DOMAIN V = Keys /\ V = [k \in Keys |-> V[k]]
  BY DEF LayoutOffsets, LayoutFrom
<1> HIDE DEF V, At
<1>8. \A i \in DOMAIN ld : V[ld[i].name] = Base + ld[i].start
  BY <1>2, <1>3, <1>5, <1>6
<1>9. \A k \in Declared : V[k] \in Nat
  BY <1>2, <1>4, <1>8 DEF Declared
<1>10. \A r \in S \ Declared : V[r] \in Nat
  <2> SUFFICES ASSUME NEW r \in S \ Declared PROVE V[r] \in Nat
    OBVIOUS
  <2>1. Cardinality(SavedBefore(S, Index(r))) \in Nat
    BY CountLemma
  <2>2. V[r] = Base + locals_total_size + 8 * Cardinality(SavedBefore(S, Index(r)))
    BY <1>5, <1>6
  <2> QED
    BY <2>1, <2>2, <1>4 DEF Typed
<1>11. \A k \in Keys : V[k] \in Nat \cup {NoOffset}
  BY <1>6, <1>9, <1>10
<1> QED
  BY <1>5, <1>6, <1>7, <1>8, <1>11 DEF V

-----------------------------------------------------------------------------
(* Steps that leave parts of the state alone. *)

(* The invariant holds when the frame manager has been constructed.        *)
LEMMA InitAInv == Init => AInv
<1> SUFFICES ASSUME Init PROVE AInv
  OBVIOUS
<1> USE DEF Init, FrameInit
<1>1. Typed
  <2>1. local_declarations \in Seq([name : Names, size : {8, 16}, start : Nat])
    OBVIOUS
  <2>2. /\ is_prologue_generated \in BOOLEAN /\ uses_global_pointers \in BOOLEAN
        /\ enable_stack_canaries \in BOOLEAN /\ error \in BOOLEAN
    BY Zenon
  <2>3. max_live \in Nat
    BY RunAssumption
  <2>4. /\ variable_offsets \in [Keys -> Nat \cup {NoOffset}]
        /\ variable_types \in [Names -> Types]
        /\ spill_variable_offsets \in [Names -> Nat \cup {NoOffset}]
    BY DEF Types
  <2> QED
    BY <2>1, <2>2, <2>3, <2>4 DEF Typed
<1>2. Declared = {}
  BY DEF Declared
<1>3. DeclarationsInv
  BY DEF DeclarationsInv
<1>4. BeforeInv
  BY <1>2 DEF BeforeInv, Generated
<1>5. LayoutInv /\ SpillInv
  BY DEF LayoutInv, SpillInv
<1>6. cpu \in [Cpu -> Values] /\ mem \in [Words -> Values]
  BY DEF Values, Entry
<1>7. \A w \in Words : w >= Top => mem[w] = <<"caller">>
  OBVIOUS
<1>8. MachineInv
  BY <1>6, <1>7 DEF MachineInv, CallerFrameIntact
<1> QED
  BY <1>1, <1>3, <1>4, <1>5, <1>8 DEF AInv

(* The frame manager is not called. *)
LEMMA FrameSame ==
    ASSUME AInv, UNCHANGED <<frame_vars, max_live>>
    PROVE  /\ Typed' /\ DeclarationsInv' /\ LayoutInv' /\ SpillInv'
           /\ Declared' = Declared /\ OwnSlots' = OwnSlots
<1> USE DEF frame_vars, decl_vars, spill_vars, mode_vars
<1>1. Declared' = Declared /\ CanarySpace' = CanarySpace
  BY DEF Declared, CanarySpace
<1>2. OwnSlots' = OwnSlots /\ Base' = Base
  BY <1>1 DEF OwnSlots, Base
<1>3. SpillBase' = SpillBase
  BY <1>2 DEF SpillBase
<1>4. Typed' /\ DeclarationsInv'
  BY DEF AInv, Typed, DeclarationsInv
<1>5. LayoutInv'
  BY <1>1, <1>2, <1>3 DEF AInv, LayoutInv
<1>6. SpillInv'
  BY <1>3 DEF AInv, SpillInv
<1> QED
  BY <1>1, <1>2, <1>4, <1>5, <1>6

(* The code does not run yet. *)
LEMMA NotRunning ==
    ASSUME AInv, phase \notin {"run", "returned", "trapped"},
           phase' \notin {"run", "returned", "trapped"}, UNCHANGED run_vars
    PROVE  MachineInv'
  BY DEF AInv, MachineInv, CallerFrameIntact, run_vars

-----------------------------------------------------------------------------
(* Declarations and reservations. *)

(* A new declaration is appended behind the others.                        *)
LEMMA AddLocalLemma ==
    ASSUME AInv, ~error, NEW n \in Names, NEW t \in {"INTEGER", "VEC"}, add_local(n, t),
           phase \in {"parameters", "locals"}, phase' \in {"parameters", "locals"},
           UNCHANGED <<max_live, run_vars>>
    PROVE  AInv'
<1>1. MachineInv'
  BY NotRunning
<1>2. ~is_prologue_generated
  BY DEF AInv, BeforeInv, Generated
<1>3. CASE variable_offsets[n] # NoOffset
  <2>1. UNCHANGED frame_vars
    BY <1>3 DEF add_local
  <2>2. /\ Typed' /\ DeclarationsInv' /\ LayoutInv' /\ SpillInv'
        /\ Declared' = Declared
    BY <2>1, FrameSame
  <2>3. BeforeInv'
    BY <2>1, <2>2 DEF AInv, BeforeInv, Generated, frame_vars, decl_vars, spill_vars, mode_vars
  <2> QED
    BY <1>1, <2>2, <2>3 DEF AInv
<1>4. CASE variable_offsets[n] = NoOffset
  <2> DEFINE ld == local_declarations
             size == get_size_for_type(t)
             d == [name |-> n, size |-> size, start |-> locals_total_size]
  <2>1. /\ variable_offsets' = [variable_offsets EXCEPT ![n] = 16 + CanarySpace
                                                                 + locals_total_size]
        /\ variable_types' = [variable_types EXCEPT ![n] = t]
        /\ local_declarations' = Append(ld, d)
        /\ locals_total_size' = locals_total_size + size
        /\ UNCHANGED <<to_save, spill_vars, final_frame_size, is_prologue_generated,
                       mode_vars, preallocated, error>>
    BY <1>4 DEF add_local
  <2>2. size \in {8, 16}
    BY DEF get_size_for_type
  <2> HIDE DEF size
  <2>3. d \in [name : Names, size : {8, 16}, start : Nat]
    BY <2>2 DEF AInv, Typed
  <2>4. /\ Len(ld) \in Nat /\ DOMAIN ld = 1 .. Len(ld)
        /\ ld \in Seq([name : Names, size : {8, 16}, start : Nat])
    BY LenProperties DEF AInv, Typed
  <2>5. /\ ld' \in Seq([name : Names, size : {8, 16}, start : Nat])
        /\ DOMAIN ld' = 1 .. (Len(ld) + 1)
        /\ \A i \in 1 .. Len(ld) : ld'[i] = ld[i]
        /\ ld'[Len(ld) + 1] = d
    BY <2>1, <2>3, <2>4, AppendProperties
  <2> HIDE DEF d
  <2>6. Declared' = Declared \cup {n}
    <3>1. d.name = n
      BY DEF d
    <3>2. Declared' = {ld'[i].name : i \in 1 .. (Len(ld) + 1)}
      BY <2>5 DEF Declared
    <3>3. Declared = {ld[i].name : i \in 1 .. Len(ld)}
      BY <2>4 DEF Declared
    <3>4. 1 .. (Len(ld) + 1) = 1 .. Len(ld) \cup {Len(ld) + 1}
      BY <2>4
    <3> QED
      BY <3>1, <3>2, <3>3, <3>4, <2>5
  <2>7. n \notin Declared
    BY <1>2, <1>4 DEF AInv, BeforeInv, Keys
  <2>8. Typed'
    <3>1. CanarySpace \in Nat
      BY DEF CanarySpace
    <3>2. /\ locals_total_size' \in Nat
          /\ variable_offsets' \in [Keys -> Nat \cup {NoOffset}]
          /\ variable_types' \in [Names -> Types]
      BY <2>1, <2>2, <3>1 DEF AInv, Typed, Keys, Types
    <3> QED
      BY <2>1, <2>5, <3>2 DEF AInv, Typed, spill_vars, mode_vars
  <2>9. DeclarationsInv'
    <3>1. /\ d.name = n /\ d.size = size /\ d.start = locals_total_size
          /\ locals_total_size \in Nat
      BY DEF d, AInv, Typed
    <3>2. \A i \in 1 .. Len(ld) : /\ ld[i].name \in Declared
                                  /\ ld[i].start \in Nat /\ ld[i].size \in {8, 16}
      <4>1. \A i \in 1 .. Len(ld) : ld[i] \in [name : Names, size : {8, 16}, start : Nat]
        BY <2>4, ElementOfSeq
      <4> QED
        BY <2>4, <4>1 DEF Declared
    <3>3. /\ locals_total_size % 8 = 0
          /\ \A i \in 1 .. Len(ld) : /\ ld[i].start % 8 = 0
                                     /\ ld[i].start + ld[i].size <= locals_total_size
          /\ \A i, j \in 1 .. Len(ld) : i < j =>
               ld[i].start + ld[i].size <= ld[j].start /\ ld[i].name # ld[j].name
      BY <2>4 DEF AInv, DeclarationsInv
    <3>4. locals_total_size' % 8 = 0
      BY <2>1, <2>2, <3>1, <3>3
    <3>5. \A i \in DOMAIN ld' : /\ ld'[i].start % 8 = 0
                                /\ ld'[i].start + ld'[i].size <= locals_total_size'
      <4> SUFFICES ASSUME NEW i \in 1 .. (Len(ld) + 1)
                   PROVE  /\ ld'[i].start % 8 = 0
                          /\ ld'[i].start + ld'[i].size <= locals_total_size'
        BY <2>5
      <4>1. CASE i = Len(ld) + 1
        BY <4>1, <2>1, <2>2, <2>5, <3>1, <3>3
      <4>2. CASE i \in 1 .. Len(ld)
        <5>1. /\ ld'[i] = ld[i] /\ ld[i].start \in Nat /\ ld[i].size \in Nat
              /\ ld[i].start % 8 = 0 /\ ld[i].start + ld[i].size <= locals_total_size
          BY <4>2, <2>5, <3>2, <3>3
        <5>2. locals_total_size <= locals_total_size'
          BY <2>1, <2>2, <3>1
        <5> QED
          BY <5>1, <5>2, <2>1, <2>2, <3>1
      <4> QED
        BY <4>1, <4>2, <2>4
    <3>6. \A i, j \in DOMAIN ld' : i < j =>
            ld'[i].start + ld'[i].size <= ld'[j].start /\ ld'[i].name # ld'[j].name
      <4> SUFFICES ASSUME NEW i \in 1 .. (Len(ld) + 1), NEW j \in 1 .. (Len(ld) + 1), i < j
                   PROVE  ld'[i].start + ld'[i].size <= ld'[j].start
                          /\ ld'[i].name # ld'[j].name
        BY <2>5
      <4>1. i \in 1 .. Len(ld)
        BY <2>4
      <4>2. CASE j = Len(ld) + 1
        BY <4>1, <4>2, <2>5, <2>7, <3>1, <3>2, <3>3
      <4>3. CASE j \in 1 .. Len(ld)
        BY <4>1, <4>3, <2>5, <3>3
      <4> QED
        BY <4>2, <4>3, <2>4
    <3> QED
      BY <3>4, <3>5, <3>6 DEF DeclarationsInv
  <2>10. BeforeInv'
    <3>1. 16 + CanarySpace + locals_total_size \in Nat /\ NoOffset \notin Nat
      BY FrameAssumption DEF CanarySpace, AInv, Typed
    <3>2. \A k \in Keys : variable_offsets'[k] # NoOffset <=> k \in Declared'
      BY <1>2, <2>1, <2>6, <3>1 DEF AInv, BeforeInv, Typed
    <3> QED
      BY <1>2, <2>1, <3>2 DEF AInv, BeforeInv, Generated, spill_vars
  <2>11. LayoutInv' /\ SpillInv'
    BY <1>2, <2>1 DEF LayoutInv, SpillInv
  <2> QED
    BY <1>1, <2>8, <2>9, <2>10, <2>11 DEF AInv
<1> QED
  BY <1>3, <1>4

(* Before the prologue, the declarations do not change and neither do the  *)
(* offsets: what is reserved is a number of slots or a set of registers.   *)
LEMMA ReserveLemma ==
    ASSUME AInv, ~error, phase \notin Generated,
           phase' \notin Generated,
           UNCHANGED <<decl_vars, next_spill_offset, spill_variable_offsets, final_frame_size,
                       is_prologue_generated, mode_vars, error, max_live, run_vars>>,
           to_save' \in SUBSET CalleeSaved,
           NEW k \in Nat,
           spill_area_size' = spill_area_size + k * 8,
           preallocated' = preallocated + k * 8
    PROVE  AInv'
<1>1. ~is_prologue_generated /\ ~is_prologue_generated'
  BY DEF AInv, BeforeInv
<1>2. MachineInv'
  BY NotRunning DEF Generated
<1>3. Declared' = Declared
  BY DEF Declared, decl_vars
<1>4. spill_area_size \in Nat /\ preallocated \in Nat /\ preallocated % 8 = 0
  BY DEF AInv, Typed, BeforeInv
<1>5. spill_area_size' \in Nat /\ preallocated' \in Nat /\ preallocated' % 8 = 0
  BY <1>4
<1>6. Typed'
  BY <1>5 DEF AInv, Typed, decl_vars, mode_vars
<1>7. DeclarationsInv'
  BY DEF AInv, DeclarationsInv, decl_vars
<1>8. BeforeInv'
  BY <1>1, <1>3, <1>4, <1>5 DEF AInv, BeforeInv, decl_vars, Generated
<1>9. LayoutInv' /\ SpillInv'
  BY <1>1 DEF LayoutInv, SpillInv
<1> QED
  BY <1>2, <1>6, <1>7, <1>8, <1>9 DEF AInv

(* preallocate_spill_slots preserves the invariant.                        *)
LEMMA PreallocateLemma ==
    ASSUME AInv, ~error, Preallocate
    PROVE  AInv'
<1> DEFINE available == Len(EXTENDED_VARIABLE_REGS) - 2
           k == IF max_live > available THEN max_live - available ELSE 0
<1>1. k \in Nat
  BY RegistersFinite, FrameAssumption DEF AInv, Typed
<1>2. ~is_prologue_generated
  BY DEF AInv, BeforeInv, Preallocate, Generated
<1> HIDE DEF k
<1>3. preallocate_spill_slots(k)
  BY DEF Preallocate, k
<1>4. /\ spill_area_size' = spill_area_size + k * 8
      /\ preallocated' = preallocated + k * 8
      /\ UNCHANGED <<decl_vars, to_save, next_spill_offset, spill_variable_offsets,
                     final_frame_size, is_prologue_generated, mode_vars, error>>
  BY <1>2, <1>3 DEF preallocate_spill_slots
<1>5. phase \notin Generated /\ phase' \notin Generated /\ UNCHANGED <<max_live, run_vars>>
  BY DEF Preallocate, Generated
<1>6. to_save' \in SUBSET CalleeSaved
  BY <1>4 DEF AInv, Typed
<1> QED
  BY <1>1, <1>4, <1>5, <1>6, ReserveLemma

(* reserve_registers_based_on_pressure and force_save_register preserve    *)
(* it.                                                                     *)
LEMMA ReserveRegistersLemma ==
    ASSUME AInv, ~error, Reserve \/ ForceSave
    PROVE  AInv'
<1>1. /\ phase \notin Generated /\ phase' \notin Generated /\ UNCHANGED <<max_live, run_vars>>
      /\ ~is_prologue_generated
  BY DEF AInv, BeforeInv, Reserve, ForceSave, Goto, Generated
<1>2. /\ to_save' \in SUBSET CalleeSaved
      /\ UNCHANGED <<decl_vars, spill_vars, final_frame_size, is_prologue_generated,
                     mode_vars, preallocated, error>>
  <2>1. to_save \in SUBSET CalleeSaved
    BY DEF AInv, Typed
  <2>2. CASE Reserve
    BY <1>1, <2>1, <2>2, SpecialRegisters DEF Reserve, reserve_registers_based_on_pressure
  <2>3. CASE ForceSave
    BY <1>1, <2>1, <2>3, SpecialRegisters DEF ForceSave, force_save_register, frame_vars
  <2> QED
    BY <2>2, <2>3
<1>3. /\ spill_area_size' = spill_area_size + 0 * 8
      /\ preallocated' = preallocated + 0 * 8
  BY <1>2 DEF spill_vars, AInv, Typed
<1> QED
  BY <1>1, <1>2, <1>3, ReserveLemma DEF spill_vars

-----------------------------------------------------------------------------
(* The prologue. *)

(* generate_prologue lays the frame out, or refuses a frame that is too    *)
(* large and ends the compilation.                                         *)
LEMMA PrologueLemma ==
    ASSUME AInv, ~error, Prologue
    PROVE  AInv'
<1> DEFINE S == Saved
           own == Cardinality(S \ Declared)
           size == locals_total_size + 8 * Cardinality(S) + 16 + CanarySpace + spill_area_size
           ld == local_declarations
           V == LayoutOffsets(S)
<1>1. /\ phase = "prologue" /\ phase' = "body" /\ UNCHANGED <<max_live, run_vars>>
      /\ ~is_prologue_generated
  BY DEF AInv, BeforeInv, Prologue, Goto, Generated
<1>2. /\ to_save' = S
      /\ final_frame_size' = align_to_16(size)
      /\ variable_offsets' = V
      /\ next_spill_offset' = 16 + CanarySpace + locals_total_size + 8 * own
      /\ IF align_to_16(size) > StpLimit
         THEN error' = TRUE /\ UNCHANGED is_prologue_generated
         ELSE is_prologue_generated' = TRUE /\ UNCHANGED error
      /\ UNCHANGED <<local_declarations, locals_total_size, variable_types, spill_area_size,
                     spill_variable_offsets, mode_vars, preallocated>>
  BY <1>1 DEF Prologue, generate_prologue, FrameSize
<1>3. /\ Typed /\ DeclarationsInv /\ BeforeInv
      /\ locals_total_size \in Nat /\ spill_area_size \in Nat /\ preallocated \in Nat
  BY DEF AInv, Typed
<1>4. S \in SUBSET CalleeSaved
  BY <1>3, SpecialRegisters DEF Saved, Typed
<1> HIDE DEF S
<1>5. /\ Cardinality(S) \in Nat /\ own \in Nat /\ own <= Cardinality(S)
      /\ \A r \in S \ Declared :
           /\ Cardinality(SavedBefore(S, Index(r))) \in Nat
           /\ Cardinality(SavedBefore(S, Index(r))) + 1 <= own
      /\ \A r, s \in S \ Declared : r # s =>
           \/ Cardinality(SavedBefore(S, Index(r))) + 1 <= Cardinality(SavedBefore(S, Index(s)))
           \/ Cardinality(SavedBefore(S, Index(s))) + 1 <= Cardinality(SavedBefore(S, Index(r)))
  BY <1>4, CountLemma
<1>6. /\ \A i \in DOMAIN ld : V[ld[i].name] = Base + ld[i].start
      /\ \A r \in S \ Declared :
           V[r] = Base + locals_total_size + 8 * Cardinality(SavedBefore(S, Index(r)))
      /\ \A k \in Keys : k \notin Declared \cup S => V[k] = NoOffset
      /\ V \in [Keys -> Nat \cup {NoOffset}]
  BY <1>3, <1>4, LayoutLemma
<1> HIDE DEF V, own
<1>7. CanarySpace \in {0, 16} /\ Base \in {16, 32} /\ Base = 16 + CanarySpace
  BY DEF CanarySpace, Base
<1>8. /\ size \in Nat /\ final_frame_size' \in Nat
      /\ size <= final_frame_size' /\ final_frame_size' % 8 = 0
  <2>1. size \in Nat
    BY <1>3, <1>5, <1>7
  <2> HIDE DEF size
  <2> QED
    BY <2>1, <1>2, AlignLemma
<1>9. /\ Declared' = Declared /\ CanarySpace' = CanarySpace
  BY <1>2 DEF Declared, CanarySpace, mode_vars
<1>10. OwnSlots' = S \ Declared /\ Base' = Base
  BY <1>2, <1>9 DEF OwnSlots, Base
<1>11. SpillBase' = Base + locals_total_size + 8 * own /\ next_spill_offset' = SpillBase'
  BY <1>2, <1>7, <1>10 DEF SpillBase, own
<1>12. Typed'
  <2>1. next_spill_offset' \in Nat
    BY <1>2, <1>3, <1>5, <1>7
  <2>2. error' \in BOOLEAN /\ is_prologue_generated' \in BOOLEAN
    BY <1>2, <1>3 DEF Typed
  <2>3. to_save' \in SUBSET CalleeSaved /\ variable_offsets' \in [Keys -> Nat \cup {NoOffset}]
    BY <1>2, <1>4, <1>6
  <2> QED
    BY <1>1, <1>2, <1>3, <1>8, <2>1, <2>2, <2>3 DEF Typed, mode_vars
<1>13. DeclarationsInv'
  BY <1>2, <1>3 DEF DeclarationsInv
<1>14. BeforeInv'
  <2>1. \/ error' = TRUE /\ is_prologue_generated' = FALSE
        \/ is_prologue_generated' = TRUE
    BY <1>1, <1>2, <1>3 DEF Typed
  <2> QED
    BY <1>1, <1>2, <1>3, <2>1 DEF BeforeInv, Generated
<1>15. MachineInv'
  BY <1>1, NotRunning
<1>16. LayoutInv'
  <2>1. ASSUME NEW r \in S \ Declared
        PROVE  /\ V[r] \in Nat /\ V[r] % 8 = 0
               /\ Base + locals_total_size <= V[r]
               /\ V[r] + 8 <= Base + locals_total_size + 8 * own
    <3> DEFINE c == Cardinality(SavedBefore(S, Index(r)))
    <3>1. c \in Nat /\ c + 1 <= own /\ V[r] = Base + locals_total_size + 8 * c
      BY <1>5, <1>6
    <3>2. locals_total_size % 8 = 0 /\ own \in Nat
      BY <1>3, <1>5 DEF DeclarationsInv
    <3> HIDE DEF c
    <3> QED
      BY <3>1, <3>2, <1>3, <1>7
  <2>2. ASSUME NEW r \in S \ Declared, NEW s \in S \ Declared, r # s
        PROVE  V[r] + 8 <= V[s] \/ V[s] + 8 <= V[r]
    <3> DEFINE c == Cardinality(SavedBefore(S, Index(r)))
               e == Cardinality(SavedBefore(S, Index(s)))
    <3>1. /\ c \in Nat /\ V[r] = Base + locals_total_size + 8 * c
          /\ e \in Nat /\ V[s] = Base + locals_total_size + 8 * e
          /\ c + 1 <= e \/ e + 1 <= c
      BY <1>5, <1>6, <2>2
    <3> HIDE DEF c, e
    <3> QED
      BY <3>1, <1>3, <1>7
  <2> QED
    BY <2>1, <2>2, <1>2, <1>6, <1>9, <1>10, <1>11 DEF LayoutInv
<1>17. SpillInv'
  <2> SUFFICES ASSUME is_prologue_generated' PROVE SpillInv'
    BY DEF SpillInv
  <2>1. final_frame_size' <= StpLimit
    <3>1. ~(align_to_16(size) > StpLimit)
      BY <1>1, <1>2, Zenon
    <3> QED
      BY <3>1, <1>2, <1>8, FrameAssumption
  <2>2. spill_area_size = preallocated /\ preallocated % 8 = 0
    BY <1>1, <1>3 DEF BeforeInv
  <2>3. SpillBase' + preallocated <= final_frame_size'
    <3>1. SpillBase' + preallocated <= size
      BY <1>3, <1>5, <1>7, <1>11, <2>2
    <3>2. SpillBase' + preallocated \in Nat
      BY <1>3, <1>5, <1>7, <1>11
    <3> HIDE DEF size
    <3> QED
      BY <3>1, <3>2, <1>8
  <2>4. \A n \in Names : spill_variable_offsets'[n] = NoOffset
    BY <1>1, <1>2, <1>3 DEF BeforeInv
  <2>5. SpillBase' \in Nat
    BY <1>3, <1>5, <1>7, <1>11
  <2>6. next_spill_offset' = SpillBase' + (spill_area_size' - preallocated')
    BY <2>2, <2>5, <1>2, <1>3, <1>11
  <2> QED
    BY <1>2, <1>3, <1>8, <2>1, <2>2, <2>3, <2>4, <2>6 DEF SpillInv
<1> QED
  BY <1>12, <1>13, <1>14, <1>15, <1>16, <1>17 DEF AInv

-----------------------------------------------------------------------------
(* The body is generated. *)

(* A call that only sets a type, throws, or ends the body.                 *)
LEMMA BodyLemma ==
    ASSUME AInv, ~error, phase = "body", phase' \in {"body", "entry"},
           UNCHANGED <<max_live, run_vars>>,
           UNCHANGED <<local_declarations, locals_total_size, variable_offsets, to_save,
                       spill_vars, final_frame_size, is_prologue_generated, mode_vars,
                       preallocated>>,
           variable_types' \in [Names -> Types], error' \in BOOLEAN
    PROVE  AInv'
<1> USE DEF spill_vars, mode_vars
<1>1. MachineInv'
  BY NotRunning
<1>2. is_prologue_generated
  BY DEF AInv, BeforeInv, Generated
<1>3. Declared' = Declared /\ CanarySpace' = CanarySpace
  BY DEF Declared, CanarySpace
<1>4. OwnSlots' = OwnSlots /\ Base' = Base
  BY <1>3 DEF OwnSlots, Base
<1>5. SpillBase' = SpillBase
  BY <1>4 DEF SpillBase
<1>6. Typed'
  BY DEF AInv, Typed
<1>7. DeclarationsInv'
  BY DEF AInv, DeclarationsInv
<1>8. LayoutInv'
  BY <1>3, <1>4, <1>5 DEF AInv, LayoutInv
<1>9. SpillInv'
  BY <1>5 DEF AInv, SpillInv
<1>10. BeforeInv'
  BY <1>2 DEF AInv, BeforeInv, Generated
<1> QED
  BY <1>1, <1>6, <1>7, <1>8, <1>9, <1>10 DEF AInv

(* A first spill of a name takes the bytes behind the last slot.           *)
LEMMA SpillLemma ==
    ASSUME AInv, ~error, NEW n \in Names, Spill(n)
    PROVE  AInv'
<1>1. phase = "body" /\ phase' = "body" /\ UNCHANGED <<max_live, run_vars>>
  BY DEF Spill, Goto
<1>2. is_prologue_generated
  BY <1>1 DEF AInv, BeforeInv, Generated
<1>3. CASE spill_variable_offsets[n] # NoOffset
  <2>1. UNCHANGED frame_vars
    BY <1>3 DEF Spill, get_spill_offset
  <2>2. variable_types' \in [Names -> Types] /\ error' \in BOOLEAN
    BY <2>1 DEF AInv, Typed, frame_vars, decl_vars
  <2> QED
    BY <1>1, <2>1, <2>2, BodyLemma DEF frame_vars, decl_vars
<1>4. CASE spill_variable_offsets[n] = NoOffset
  <2> DEFINE size == get_size_for_type(variable_types[n])
             so == spill_variable_offsets
  <2>1. /\ so' = [so EXCEPT ![n] = next_spill_offset]
        /\ next_spill_offset' = next_spill_offset + size
        /\ spill_area_size' = spill_area_size + size
        /\ UNCHANGED <<decl_vars, to_save, final_frame_size, is_prologue_generated, mode_vars,
                       preallocated, error>>
    BY <1>4 DEF Spill, get_spill_offset
  <2>2. size \in {8, 16}
    BY DEF get_size_for_type
  <2> HIDE DEF size
  <2>3. Declared' = Declared /\ CanarySpace' = CanarySpace
    BY <2>1 DEF Declared, CanarySpace, decl_vars, mode_vars
  <2>4. OwnSlots' = OwnSlots /\ Base' = Base
    BY <2>1, <2>3 DEF OwnSlots, Base
  <2>5. SpillBase' = SpillBase
    BY <2>1, <2>4 DEF SpillBase, decl_vars
  <2>6. /\ next_spill_offset \in Nat /\ spill_area_size \in Nat /\ preallocated \in Nat
        /\ so \in [Names -> Nat \cup {NoOffset}]
    BY DEF AInv, Typed
  <2>7. Typed'
    <3>1. /\ next_spill_offset' \in Nat /\ spill_area_size' \in Nat
          /\ so' \in [Names -> Nat \cup {NoOffset}]
      BY <2>1, <2>2, <2>6
    <3> QED
      BY <1>1, <2>1, <3>1 DEF AInv, Typed, decl_vars, mode_vars
  <2>8. DeclarationsInv'
    BY <2>1 DEF AInv, DeclarationsInv, decl_vars
  <2>9. LayoutInv'
    BY <2>1, <2>3, <2>4, <2>5 DEF AInv, LayoutInv, decl_vars
  <2>10. BeforeInv'
    BY <1>1, <1>2, <2>1 DEF AInv, BeforeInv, Generated
  <2>11. MachineInv'
    BY <1>1, NotRunning
  <2>12. SpillBase \in Nat /\ SpillBase % 8 = 0
    <3>1. Base \in {16, 32}
      BY DEF Base, CanarySpace
    <3>2. locals_total_size \in Nat /\ locals_total_size % 8 = 0
      BY DEF AInv, Typed, DeclarationsInv
    <3>3. Cardinality(OwnSlots) \in Nat
      BY CountLemma DEF AInv, Typed, OwnSlots
    <3> QED
      BY <3>1, <3>2, <3>3 DEF SpillBase
  <2>13. SpillInv'
    <3>1. /\ preallocated <= spill_area_size /\ spill_area_size % 8 = 0
          /\ next_spill_offset = SpillBase + (spill_area_size - preallocated)
          /\ preallocated % 8 = 0
      BY <1>2 DEF AInv, SpillInv, BeforeInv
    <3>2. next_spill_offset % 8 = 0 /\ SpillBase <= next_spill_offset
      BY <2>6, <2>12, <3>1
    <3>3. /\ preallocated <= spill_area_size' /\ spill_area_size' % 8 = 0
          /\ next_spill_offset' = SpillBase + (spill_area_size' - preallocated)
          /\ next_spill_offset + 8 <= next_spill_offset'
      BY <2>1, <2>2, <2>6, <2>12, <3>1
    <3>4. /\ \A m \in Names : so[m] # NoOffset =>
               so[m] \in Nat /\ so[m] % 8 = 0 /\ SpillBase <= so[m]
                 /\ so[m] + 8 <= next_spill_offset
          /\ \A l, m \in Names : l # m /\ so[l] # NoOffset /\ so[m] # NoOffset =>
               so[l] + 8 <= so[m] \/ so[m] + 8 <= so[l]
      BY <1>2, <2>6 DEF AInv, SpillInv
    <3>5. so'[n] = next_spill_offset /\ \A m \in Names : m # n => so'[m] = so[m]
      BY <2>1, <2>6
    <3>6. ASSUME NEW m \in Names, so'[m] # NoOffset
          PROVE  so'[m] % 8 = 0 /\ SpillBase <= so'[m] /\ so'[m] + 8 <= next_spill_offset'
      <4>1. CASE m = n
        BY <4>1, <3>2, <3>3, <3>5
      <4>2. CASE m # n
        BY <4>2, <3>6, <3>3, <3>4, <3>5, <2>1, <2>2, <2>6
      <4> QED
        BY <4>1, <4>2
    <3>7. ASSUME NEW l \in Names, NEW m \in Names, l # m, so'[l] # NoOffset, so'[m] # NoOffset
          PROVE  so'[l] + 8 <= so'[m] \/ so'[m] + 8 <= so'[l]
      <4>1. CASE m = n
        BY <4>1, <3>7, <3>4, <3>5
      <4>2. CASE l = n
        BY <4>2, <3>7, <3>4, <3>5
      <4>3. CASE m # n /\ l # n
        BY <4>3, <3>7, <3>4, <3>5
      <4> QED
        BY <4>1, <4>2, <4>3
    <3>8. /\ SpillBase' + preallocated' <= final_frame_size'
          /\ final_frame_size' % 8 = 0 /\ final_frame_size' <= StpLimit
      BY <1>2, <2>1, <2>5 DEF AInv, SpillInv
    <3>9. preallocated' = preallocated
      BY <2>1
    <3> QED
      BY <3>3, <3>6, <3>7, <3>8, <3>9, <2>5 DEF SpillInv
  <2> QED
    BY <2>7, <2>8, <2>9, <2>10, <2>11, <2>13 DEF AInv
<1> QED
  BY <1>3, <1>4

(* Every call made while the body is generated keeps the invariant.        *)
LEMMA BodyCalls ==
    ASSUME AInv, ~error, Epilogue \/ (\E n \in Names : LookUp(n) \/ SetType(n))
                           \/ (\E r \in CalleeSaved : ForceSaveLate(r))
    PROVE  AInv'
<1> DEFINE rest == <<local_declarations, locals_total_size, variable_offsets, to_save,
                     spill_vars, final_frame_size, is_prologue_generated, mode_vars,
                     preallocated>>
<1>1. phase = "body" /\ phase' \in {"body", "entry"} /\ UNCHANGED <<max_live, run_vars>>
  BY DEF Epilogue, LookUp, SetType, ForceSaveLate, Goto
<1>2. is_prologue_generated
  BY <1>1 DEF AInv, BeforeInv, Generated
<1>3. variable_types \in [Names -> Types] /\ error \in BOOLEAN
  BY DEF AInv, Typed
<1>4. CASE Epilogue
  BY <1>1, <1>3, <1>4, BodyLemma DEF Epilogue, frame_vars, decl_vars
<1>5. ASSUME NEW n \in Names, LookUp(n)
      PROVE  AInv'
  <2>1. UNCHANGED frame_vars \/ FrameThrow
    BY <1>5 DEF LookUp, get_offset
  <2>2. UNCHANGED rest /\ UNCHANGED variable_types /\ error' \in BOOLEAN
    BY <2>1, <1>3 DEF FrameThrow, frame_vars, decl_vars
  <2> QED
    BY <1>1, <1>3, <2>2, BodyLemma
<1>6. ASSUME NEW n \in Names, SetType(n)
      PROVE  AInv'
  <2>1. /\ variable_types' = [variable_types EXCEPT ![n] = "INTEGER"]
        /\ UNCHANGED rest /\ UNCHANGED error
    BY <1>6 DEF SetType, set_variable_type
  <2>2. variable_types' \in [Names -> Types] /\ error' \in BOOLEAN
    BY <2>1, <1>3 DEF Types
  <2> QED
    BY <1>1, <2>1, <2>2, BodyLemma
<1>7. ASSUME NEW r \in CalleeSaved, ForceSaveLate(r)
      PROVE  AInv'
  <2>1. FrameThrow
    BY <1>2, <1>7 DEF ForceSaveLate, force_save_register
  <2>2. UNCHANGED rest /\ UNCHANGED variable_types /\ error' \in BOOLEAN
    BY <2>1, <1>3 DEF FrameThrow, decl_vars
  <2> QED
    BY <1>1, <1>3, <2>2, BodyLemma
<1> QED
  BY <1>4, <1>5, <1>6, <1>7

-----------------------------------------------------------------------------
(* The words of the finished frame. *)

FrameWords == final_frame_size \div 8
HeaderWords == Base \div 8
SlotWord(key) == variable_offsets[key] \div 8

(* Locals, saved registers and spill slots lie above the saved X29 and X30 *)
(* and the canaries; no store of the body hits a register's own slot, and  *)
(* none leaves the frame while the spilled bytes stay within the budget.   *)
LEMMA WordsLemma ==
    ASSUME AInv, is_prologue_generated
    PROVE  /\ Top \in Nat /\ FrameWords \in Nat /\ FrameWords <= Top
           /\ HeaderWords \in {2, 4} /\ HeaderWords <= FrameWords
           /\ enable_stack_canaries => HeaderWords = 4
           /\ \A r \in to_save : /\ SlotWord(r) \in Nat
                                 /\ HeaderWords <= SlotWord(r)
                                 /\ SlotWord(r) + 1 <= FrameWords
           /\ \A r \in OwnSlots, s \in to_save : r # s => SlotWord(r) # SlotWord(s)
           /\ \A i \in DOMAIN local_declarations :
                \A part \in 0 .. (local_declarations[i].size \div 8 - 1) :
                  LET w == SlotWord(local_declarations[i].name) + part
                  IN  /\ w \in Nat /\ HeaderWords <= w /\ w + 1 <= FrameWords
                      /\ \A r \in OwnSlots : w # SlotWord(r)
           /\ \A n \in Names : spill_variable_offsets[n] # NoOffset =>
                LET w == spill_variable_offsets[n] \div 8
                IN  /\ w \in Nat /\ HeaderWords <= w
                    /\ WithinBudget => w + 1 <= FrameWords
                    /\ \A r \in OwnSlots : w # SlotWord(r)
<1> DEFINE ld == local_declarations
           so == spill_variable_offsets
<1>1. /\ Base \in {16, 32} /\ HeaderWords \in {2, 4}
      /\ enable_stack_canaries => HeaderWords = 4
      /\ HeaderWords * 8 = Base
  BY DEF Base, CanarySpace, HeaderWords
<1>2. /\ final_frame_size \in Nat /\ StpLimit \in Nat /\ final_frame_size <= StpLimit
      /\ final_frame_size % 8 = 0 /\ SpillBase + preallocated <= final_frame_size
      /\ preallocated \in Nat /\ locals_total_size \in Nat /\ locals_total_size % 8 = 0
  BY FrameAssumption DEF AInv, Typed, SpillInv, DeclarationsInv
<1>3. Cardinality(OwnSlots) \in Nat
  BY CountLemma DEF AInv, Typed, OwnSlots
<1>4. SpillBase \in Nat /\ SpillBase = Base + locals_total_size + 8 * Cardinality(OwnSlots)
  BY <1>1, <1>2, <1>3 DEF SpillBase
<1>5. SpillBase <= final_frame_size /\ Base + locals_total_size <= final_frame_size
  BY <1>1, <1>2, <1>3, <1>4
<1>6. /\ Top \in Nat /\ FrameWords \in Nat /\ FrameWords <= Top
      /\ FrameWords * 8 = final_frame_size /\ HeaderWords <= FrameWords
  BY <1>1, <1>2, <1>5 DEF Top, FrameWords
<1>7. ASSUME NEW r \in OwnSlots
      PROVE  /\ variable_offsets[r] \in Nat /\ SlotWord(r) \in Nat
             /\ SlotWord(r) * 8 = variable_offsets[r]
             /\ Base + locals_total_size <= variable_offsets[r]
             /\ variable_offsets[r] + 8 <= SpillBase
    BY DEF AInv, LayoutInv, SlotWord
<1>8. ASSUME NEW i \in DOMAIN ld
      PROVE  /\ SlotWord(ld[i].name) \in Nat /\ ld[i].size \in {8, 16}
             /\ HeaderWords <= SlotWord(ld[i].name)
             /\ SlotWord(ld[i].name) * 8 + ld[i].size <= Base + locals_total_size
  <2>1. ld[i].start \in Nat /\ ld[i].size \in {8, 16}
    <3>1. ld \in Seq([name : Names, size : {8, 16}, start : Nat]) /\ i \in 1 .. Len(ld)
      BY LenProperties DEF AInv, Typed
    <3>2. ld[i] \in [name : Names, size : {8, 16}, start : Nat]
      BY <3>1, ElementOfSeq
    <3> QED
      BY <3>2
  <2>2. /\ ld[i].start % 8 = 0 /\ ld[i].start + ld[i].size <= locals_total_size
        /\ variable_offsets[ld[i].name] = Base + ld[i].start
    BY DEF AInv, DeclarationsInv, LayoutInv
  <2> QED
    BY <2>1, <2>2, <1>1, <1>2 DEF SlotWord
<1>9. ASSUME NEW i \in DOMAIN ld, NEW part \in 0 .. (ld[i].size \div 8 - 1)
      PROVE  /\ SlotWord(ld[i].name) + part \in Nat
             /\ HeaderWords <= SlotWord(ld[i].name) + part
             /\ SlotWord(ld[i].name) + part + 1 <= FrameWords
             /\ \A r \in OwnSlots : SlotWord(ld[i].name) + part # SlotWord(r)
  <2>1. /\ part \in Nat /\ part * 8 + 8 <= ld[i].size
    BY <1>8
  <2>2. (SlotWord(ld[i].name) + part) * 8 + 8 <= Base + locals_total_size
    BY <2>1, <1>1, <1>2, <1>8
  <2>3. SlotWord(ld[i].name) + part \in Nat /\ HeaderWords <= SlotWord(ld[i].name) + part
    BY <2>1, <1>1, <1>8
  <2>4. SlotWord(ld[i].name) + part + 1 <= FrameWords
    BY <2>2, <2>3, <1>1, <1>2, <1>5, <1>6
  <2>5. ASSUME NEW r \in OwnSlots PROVE SlotWord(ld[i].name) + part # SlotWord(r)
    <3>1. /\ SlotWord(r) \in Nat /\ variable_offsets[r] \in Nat
          /\ SlotWord(r) * 8 = variable_offsets[r]
          /\ Base + locals_total_size <= variable_offsets[r]
      BY <1>7
    <3> QED
      BY <3>1, <2>2, <2>3, <1>1, <1>2
  <2> QED
    BY <2>3, <2>4, <2>5
<1>10. ASSUME NEW r \in OwnSlots
       PROVE  HeaderWords <= SlotWord(r) /\ SlotWord(r) + 1 <= FrameWords
  BY <1>1, <1>2, <1>4, <1>5, <1>6, <1>7
<1>11. ASSUME NEW s \in to_save, s \notin OwnSlots
       PROVE  \E i \in DOMAIN ld : ld[i].name = s /\ 0 \in 0 .. (ld[i].size \div 8 - 1)
  <2>1. PICK i \in DOMAIN ld : ld[i].name = s
    BY <1>11 DEF OwnSlots, Declared
  <2> QED
    BY <2>1, <1>8
<1>12. ASSUME NEW s \in to_save, s \notin OwnSlots
       PROVE  /\ SlotWord(s) \in Nat /\ HeaderWords <= SlotWord(s)
              /\ SlotWord(s) + 1 <= FrameWords
              /\ \A r \in OwnSlots : SlotWord(s) # SlotWord(r)
  <2>1. PICK i \in DOMAIN ld : ld[i].name = s /\ 0 \in 0 .. (ld[i].size \div 8 - 1)
    BY <1>11, <1>12
  <2>2. SlotWord(s) \in Nat /\ SlotWord(s) + 0 = SlotWord(s)
    BY <2>1, <1>8
  <2> QED
    BY <2>1, <2>2, <1>9
<1>13. ASSUME NEW r \in OwnSlots, NEW s \in to_save, r # s
       PROVE  SlotWord(r) # SlotWord(s)
  <2>1. CASE s \in OwnSlots
    <3>1. \/ variable_offsets[r] + 8 <= variable_offsets[s]
          \/ variable_offsets[s] + 8 <= variable_offsets[r]
      BY <1>13, <2>1 DEF AInv, LayoutInv
    <3> QED
      BY <3>1, <1>7, <2>1
  <2>2. CASE s \notin OwnSlots
    BY <2>2, <1>12
  <2> QED
    BY <2>1, <2>2
<1>14. ASSUME NEW n \in Names, so[n] # NoOffset
       PROVE  /\ so[n] \div 8 \in Nat /\ HeaderWords <= so[n] \div 8
              /\ WithinBudget => so[n] \div 8 + 1 <= FrameWords
              /\ \A r \in OwnSlots : so[n] \div 8 # SlotWord(r)
  <2>1. /\ so[n] \in Nat /\ so[n] % 8 = 0 /\ SpillBase <= so[n]
        /\ so[n] + 8 <= next_spill_offset
        /\ next_spill_offset = SpillBase + (spill_area_size - preallocated)
        /\ spill_area_size \in Nat
    BY <1>14 DEF AInv, Typed, SpillInv
  <2>2. so[n] \div 8 \in Nat /\ (so[n] \div 8) * 8 = so[n]
    BY <2>1
  <2>3. HeaderWords <= so[n] \div 8
    BY <2>1, <2>2, <1>1, <1>2, <1>3, <1>4
  <2>4. WithinBudget => so[n] \div 8 + 1 <= FrameWords
    BY <2>1, <2>2, <1>2, <1>4, <1>6 DEF WithinBudget
  <2>5. ASSUME NEW r \in OwnSlots PROVE so[n] \div 8 # SlotWord(r)
    <3>1. variable_offsets[r] \in Nat /\ variable_offsets[r] + 8 <= SpillBase
          /\ SlotWord(r) * 8 = variable_offsets[r]
      BY <1>7
    <3> QED
      BY <3>1, <2>1, <2>2, <1>4
  <2> QED
    BY <2>2, <2>3, <2>4, <2>5
<1>15. \A r \in to_save : /\ SlotWord(r) \in Nat
                          /\ HeaderWords <= SlotWord(r) /\ SlotWord(r) + 1 <= FrameWords
  BY <1>7, <1>10, <1>12
<1> QED
  BY <1>1, <1>6, <1>9, <1>13, <1>14, <1>15

-----------------------------------------------------------------------------
(* The code runs. *)

(* While the code runs, the frame manager's fields do not change.          *)
LEMMA RunFrame ==
    ASSUME AInv, phase \in {"entry", "run"}, phase' \in Generated,
           UNCHANGED <<frame_vars, max_live>>, MachineInv'
    PROVE  AInv'
<1>1. Typed' /\ DeclarationsInv' /\ LayoutInv' /\ SpillInv' /\ Declared' = Declared
  BY FrameSame
<1>2. is_prologue_generated
  BY DEF AInv, BeforeInv
<1>3. BeforeInv'
  BY <1>2 DEF AInv, BeforeInv, frame_vars, decl_vars, spill_vars
<1> QED
  BY <1>1, <1>3 DEF AInv

(* The prologue stores X29, X30, the canaries and every register into      *)
(* words of their own, below the caller's.                                 *)
LEMMA RunPrologueLemma ==
    ASSUME AInv, RunPrologue
    PROVE  AInv'
<1> DEFINE fp == sp - final_frame_size \div 8
           SavedAt(w) == {r \in to_save : WordOf(fp, variable_offsets[r]) = w}
<1>1. /\ phase = "entry" /\ phase' = "run" /\ sp' = fp
      /\ cpu' = [cpu EXCEPT !["X29"] = <<"frame">>]
      /\ mem' = [w \in Words |->
                   IF SavedAt(w) # {} THEN cpu[CHOOSE r \in SavedAt(w) : TRUE]
                   ELSE IF enable_stack_canaries /\ w = fp + 2 THEN <<"upper">>
                   ELSE IF enable_stack_canaries /\ w = fp + 3 THEN <<"lower">>
                   ELSE IF w = fp THEN cpu["X29"]
                   ELSE IF w = fp + 1 THEN cpu["X30"]
                   ELSE mem[w]]
      /\ UNCHANGED <<frame_vars, max_live>>
  BY DEF RunPrologue
<1>2. is_prologue_generated
  BY <1>1 DEF AInv, BeforeInv
<1>3. /\ Top \in Nat /\ FrameWords \in Nat /\ FrameWords <= Top
      /\ HeaderWords \in {2, 4} /\ HeaderWords <= FrameWords
      /\ enable_stack_canaries => HeaderWords = 4
      /\ \A r \in to_save : /\ SlotWord(r) \in Nat
                            /\ HeaderWords <= SlotWord(r) /\ SlotWord(r) + 1 <= FrameWords
      /\ \A r \in OwnSlots, s \in to_save : r # s => SlotWord(r) # SlotWord(s)
  BY <1>2, WordsLemma
<1>4. /\ sp = Top /\ cpu = [r \in Cpu |-> Entry(r)]
      /\ mem \in [Words -> Values]
      /\ \A w \in Words : w >= Top => mem[w] = <<"caller">>
      /\ to_save \subseteq CalleeSaved /\ OwnSlots \subseteq to_save
  BY <1>1 DEF AInv, MachineInv, Typed, OwnSlots
<1>5. fp = Top - FrameWords
  BY <1>4 DEF FrameWords
<1>6. /\ OwnSlots' = OwnSlots /\ variable_offsets' = variable_offsets
      /\ final_frame_size' = final_frame_size /\ enable_stack_canaries' = enable_stack_canaries
  BY <1>1 DEF OwnSlots, Declared, frame_vars, decl_vars, mode_vars
<1>7. \A w \in Int : 0 <= w /\ w < Top => w \in Words
  BY <1>3, RunAssumption DEF Words
<1>8. ASSUME NEW w \in Int, NEW r \in SavedAt(w)
      PROVE  r \in to_save /\ w = fp + SlotWord(r)
  BY DEF WordOf, SlotWord
<1>9. \A w \in Int : w < fp + HeaderWords \/ w >= Top => SavedAt(w) = {}
  BY <1>3, <1>5, <1>8
<1>10. ASSUME NEW r \in OwnSlots
       PROVE  /\ fp + SlotWord(r) \in Words
              /\ SavedAt(fp + SlotWord(r)) = {r}
  <2>1. /\ r \in to_save /\ SlotWord(r) \in Nat
        /\ HeaderWords <= SlotWord(r) /\ SlotWord(r) + 1 <= FrameWords
    BY <1>3, <1>4
  <2>2. fp + SlotWord(r) \in Words /\ fp + SlotWord(r) \in Int
    BY <2>1, <1>3, <1>5, <1>7
  <2>3. r \in SavedAt(fp + SlotWord(r))
    BY <2>1 DEF WordOf, SlotWord
  <2>4. ASSUME NEW s \in SavedAt(fp + SlotWord(r)) PROVE s = r
    <3>1. s \in to_save /\ fp + SlotWord(r) = fp + SlotWord(s) /\ SlotWord(s) \in Nat
      BY <2>2, <1>3, <1>8
    <3> QED
      BY <3>1, <2>1, <1>3, <1>5
  <2> QED
    BY <2>2, <2>3, <2>4
<1>11. mem' \in [Words -> Values]
  <2>1. to_save \subseteq Cpu /\ "X29" \in Cpu /\ "X30" \in Cpu
    BY <1>4 DEF Cpu
  <2>2. \A r \in Cpu : cpu[r] \in Values
    BY <1>4 DEF Values
  <2>3. <<"upper">> \in Values /\ <<"lower">> \in Values
    BY DEF Values
  <2>4. ASSUME NEW w \in Words, SavedAt(w) # {}
        PROVE  cpu[CHOOSE r \in SavedAt(w) : TRUE] \in Values
    <3>1. (CHOOSE r \in SavedAt(w) : TRUE) \in SavedAt(w)
      BY <2>4
    <3> QED
      BY <3>1, <2>1, <2>2
  <2> HIDE DEF SavedAt, fp
  <2> QED
    BY <1>1, <1>4, <2>1, <2>2, <2>3, <2>4
<1>12. cpu' \in [Cpu -> Values]
  BY <1>1, <1>4 DEF Values
<1>13. /\ fp \in Int /\ fp \in Words /\ fp + 1 \in Words
       /\ enable_stack_canaries => fp + 2 \in Words /\ fp + 3 \in Words
  BY <1>3, <1>5, <1>7
<1> HIDE DEF fp, SavedAt
<1>14. mem'[fp] = Entry("X29") /\ mem'[fp + 1] = Entry("X30")
  <2>1. SavedAt(fp) = {} /\ SavedAt(fp + 1) = {}
    BY <1>3, <1>9, <1>13
  <2>2. cpu["X29"] = Entry("X29") /\ cpu["X30"] = Entry("X30")
    BY <1>4 DEF Cpu
  <2> QED
    BY <1>1, <1>13, <2>1, <2>2
<1>15. enable_stack_canaries => mem'[fp + 2] = <<"upper">> /\ mem'[fp + 3] = <<"lower">>
  <2> SUFFICES ASSUME enable_stack_canaries
               PROVE  mem'[fp + 2] = <<"upper">> /\ mem'[fp + 3] = <<"lower">>
    OBVIOUS
  <2>1. SavedAt(fp + 2) = {} /\ SavedAt(fp + 3) = {}
    BY <1>3, <1>9, <1>13
  <2> QED
    BY <1>1, <1>13, <2>1
<1>16. \A r \in OwnSlots : mem'[fp + SlotWord(r)] = Entry(r)
  <2> SUFFICES ASSUME NEW r \in OwnSlots PROVE mem'[fp + SlotWord(r)] = Entry(r)
    OBVIOUS
  <2>1. mem'[fp + SlotWord(r)] = cpu[CHOOSE s \in {r} : TRUE]
    BY <1>1, <1>10
  <2>2. (CHOOSE s \in {r} : TRUE) = r
    OBVIOUS
  <2> QED
    BY <2>1, <2>2, <1>4 DEF Cpu
<1>17. \A w \in Words : w >= Top => mem'[w] = <<"caller">>
  <2> SUFFICES ASSUME NEW w \in Words, w >= Top PROVE mem'[w] = <<"caller">>
    OBVIOUS
  <2>1. w \in Int
    BY DEF Words
  <2>2. SavedAt(w) = {} /\ w # fp /\ w # fp + 1
    BY <2>1, <1>3, <1>5, <1>9
  <2>3. enable_stack_canaries => w # fp + 2 /\ w # fp + 3
    BY <2>1, <1>3, <1>5
  <2> QED
    BY <2>2, <2>3, <1>1, <1>4
<1>18. MachineInv'
  <2>1. sp' = Top - final_frame_size' \div 8
    BY <1>1, <1>5, <1>6 DEF FrameWords
  <2>2. CallerFrameIntact'
    BY <1>17 DEF CallerFrameIntact
  <2> QED
    BY <1>1, <1>6, <1>11, <1>12, <1>14, <1>15, <1>16, <2>1, <2>2 DEF MachineInv, WordOf, SlotWord
<1> QED
  BY <1>1, <1>18, RunFrame DEF Generated

(* A store to a word of the frame that holds neither the header nor a      *)
(* register's own slot, or to any word once the budget is exceeded.        *)
LEMMA StoreLemma ==
    ASSUME AInv, phase = "run", NEW w \in Nat,
           HeaderWords <= w, WithinBudget => w + 1 <= FrameWords,
           \A r \in OwnSlots : w # SlotWord(r),
           mem' = [mem EXCEPT ![sp + w] = <<"body">>],
           UNCHANGED <<frame_vars, phase, max_live, sp, cpu>>
    PROVE  AInv'
<1>1. is_prologue_generated
  BY DEF AInv, BeforeInv
<1>2. /\ Top \in Nat /\ FrameWords \in Nat /\ FrameWords <= Top
      /\ HeaderWords \in {2, 4}
      /\ enable_stack_canaries => HeaderWords = 4
      /\ \A r \in to_save : SlotWord(r) \in Nat
  BY <1>1, WordsLemma
<1>3. /\ OwnSlots' = OwnSlots /\ variable_offsets' = variable_offsets
      /\ final_frame_size' = final_frame_size /\ enable_stack_canaries' = enable_stack_canaries
      /\ WithinBudget' = WithinBudget /\ OwnSlots \subseteq to_save
  BY DEF OwnSlots, Declared, frame_vars, decl_vars, mode_vars, spill_vars, WithinBudget
<1>4. /\ sp = Top - FrameWords /\ cpu \in [Cpu -> Values] /\ mem \in [Words -> Values]
      /\ mem[sp] = Entry("X29") /\ mem[sp + 1] = Entry("X30")
      /\ enable_stack_canaries => mem[sp + 2] = <<"upper">> /\ mem[sp + 3] = <<"lower">>
      /\ \A r \in OwnSlots : mem[sp + SlotWord(r)] = Entry(r)
      /\ WithinBudget => \A u \in Words : u >= Top => mem[u] = <<"caller">>
  BY DEF AInv, MachineInv, FrameWords, WordOf, SlotWord, CallerFrameIntact
<1>5. \A u : u # sp + w => mem'[u] = mem[u]
  BY <1>4
<1>6. mem' \in [Words -> Values]
  BY <1>4 DEF Values
<1>7. mem'[sp] = Entry("X29") /\ mem'[sp + 1] = Entry("X30")
  BY <1>2, <1>4, <1>5
<1>8. enable_stack_canaries => mem'[sp + 2] = <<"upper">> /\ mem'[sp + 3] = <<"lower">>
  BY <1>2, <1>4, <1>5
<1>9. \A r \in OwnSlots : mem'[sp + SlotWord(r)] = Entry(r)
  BY <1>2, <1>3, <1>4, <1>5
<1>10. CallerFrameIntact'
  <2> SUFFICES ASSUME WithinBudget, NEW u \in Words, u >= Top PROVE mem'[u] = <<"caller">>
    BY <1>3 DEF CallerFrameIntact
  <2>1. u \in Int /\ sp + w < Top
    BY <1>2, <1>4 DEF Words
  <2> QED
    BY <2>1, <1>2, <1>4, <1>5
<1>11. MachineInv'
  BY <1>3, <1>4, <1>6, <1>7, <1>8, <1>9, <1>10 DEF MachineInv, FrameWords, WordOf, SlotWord
<1> QED
  BY <1>11, RunFrame DEF Generated

(* A store to a local. *)
LEMMA StoreLocalLemma ==
    ASSUME AInv, StoreLocal
    PROVE  AInv'
<1> DEFINE ld == local_declarations
<1>0. PICK i \in DOMAIN ld : \E part \in 0 .. (ld[i].size \div 8 - 1) :
        /\ phase = "run"
        /\ mem' = [mem EXCEPT ![WordOf(sp, variable_offsets[ld[i].name]) + part] = <<"body">>]
        /\ UNCHANGED <<frame_vars, phase, max_live, sp, cpu>>
  BY DEF StoreLocal
<1>1. PICK part \in 0 .. (ld[i].size \div 8 - 1) :
        /\ phase = "run"
        /\ mem' = [mem EXCEPT ![WordOf(sp, variable_offsets[ld[i].name]) + part] = <<"body">>]
        /\ UNCHANGED <<frame_vars, phase, max_live, sp, cpu>>
  BY <1>0
<1>2. is_prologue_generated
  BY <1>1 DEF AInv, BeforeInv
<1> DEFINE w == SlotWord(ld[i].name) + part
<1>3. /\ w \in Nat /\ HeaderWords <= w /\ w + 1 <= FrameWords
      /\ \A r \in OwnSlots : w # SlotWord(r)
      /\ Top \in Nat /\ FrameWords \in Nat
  BY <1>1, <1>2, WordsLemma
<1>4. WordOf(sp, variable_offsets[ld[i].name]) + part = sp + w
  <2>1. sp = Top - FrameWords
    BY <1>1 DEF AInv, MachineInv, FrameWords
  <2>2. variable_offsets[ld[i].name] \div 8 \in Int
    <3>1. ld \in Seq([name : Names, size : {8, 16}, start : Nat]) /\ i \in 1 .. Len(ld)
      BY LenProperties DEF AInv, Typed
    <3>2. ld[i] \in [name : Names, size : {8, 16}, start : Nat]
      BY <3>1, ElementOfSeq
    <3>3. variable_offsets[ld[i].name] = Base + ld[i].start /\ ld[i].start \in Nat
      BY <1>2, <3>2 DEF AInv, LayoutInv
    <3> QED
      BY <3>3 DEF Base, CanarySpace
  <2> QED
    BY <2>1, <2>2, <1>3 DEF WordOf, SlotWord
<1> HIDE DEF w
<1> QED
  BY <1>1, <1>3, <1>4, StoreLemma

(* A store to a spill slot. *)
LEMMA StoreSpillLemma ==
    ASSUME AInv, NEW n \in Names, StoreSpill(n)
    PROVE  AInv'
<1> DEFINE w == spill_variable_offsets[n] \div 8
<1>1. /\ phase = "run" /\ spill_variable_offsets[n] # NoOffset
      /\ mem' = [mem EXCEPT ![sp + w] = <<"body">>]
      /\ UNCHANGED <<frame_vars, phase, max_live, sp, cpu>>
  BY DEF StoreSpill, WordOf
<1>2. is_prologue_generated
  BY <1>1 DEF AInv, BeforeInv
<1>3. /\ w \in Nat /\ HeaderWords <= w
      /\ WithinBudget => w + 1 <= FrameWords
      /\ \A r \in OwnSlots : w # SlotWord(r)
  BY <1>1, <1>2, WordsLemma
<1> HIDE DEF w
<1> QED
  BY <1>1, <1>3, StoreLemma

(* The body overwrites registers. *)
LEMMA ClobberLemma ==
    ASSUME AInv, Clobber
    PROVE  AInv'
<1>1. /\ phase = "run" /\ UNCHANGED <<frame_vars, phase, max_live, sp, mem>>
      /\ cpu' = [r \in Cpu |-> IF r \in to_save \cup {"X30"} THEN <<"body">> ELSE cpu[r]]
  BY DEF Clobber
<1>2. cpu' \in [Cpu -> Values]
  BY <1>1 DEF AInv, MachineInv, Values
<1>3. /\ OwnSlots' = OwnSlots /\ variable_offsets' = variable_offsets
      /\ final_frame_size' = final_frame_size /\ enable_stack_canaries' = enable_stack_canaries
      /\ CallerFrameIntact' = CallerFrameIntact
  BY <1>1 DEF OwnSlots, Declared, frame_vars, decl_vars, mode_vars, spill_vars, WithinBudget,
              CallerFrameIntact
<1>4. /\ CallerFrameIntact
      /\ mem \in [Words -> Values] /\ sp = Top - final_frame_size \div 8
      /\ mem[sp] = Entry("X29") /\ mem[sp + 1] = Entry("X30")
      /\ enable_stack_canaries => mem[sp + 2] = <<"upper">> /\ mem[sp + 3] = <<"lower">>
      /\ \A r \in OwnSlots : mem[WordOf(sp, variable_offsets[r])] = Entry(r)
  BY <1>1 DEF AInv, MachineInv
<1>5. \A r \in OwnSlots' : mem'[WordOf(sp, variable_offsets[r])'] = Entry(r)
  BY <1>1, <1>3, <1>4 DEF WordOf
<1>6. MachineInv'
  BY <1>1, <1>2, <1>3, <1>4, <1>5 DEF MachineInv
<1> QED
  BY <1>1, <1>6, RunFrame DEF Generated

(* The epilogue finds the canaries as they were and reloads the registers. *)
LEMMA RunEpilogueLemma ==
    ASSUME AInv, RunEpilogue
    PROVE  AInv'
<1>1. phase = "run" /\ UNCHANGED <<frame_vars, max_live, mem>>
  BY DEF RunEpilogue
<1>2. is_prologue_generated
  BY <1>1 DEF AInv, BeforeInv
<1>3. /\ sp = Top - FrameWords /\ cpu \in [Cpu -> Values] /\ mem \in [Words -> Values]
      /\ mem[sp] = Entry("X29") /\ mem[sp + 1] = Entry("X30")
      /\ enable_stack_canaries => mem[sp + 2] = <<"upper">> /\ mem[sp + 3] = <<"lower">>
      /\ \A r \in OwnSlots : mem[sp + SlotWord(r)] = Entry(r)
      /\ to_save \in SUBSET CalleeSaved
  BY <1>1 DEF AInv, Typed, MachineInv, FrameWords, WordOf, SlotWord
<1>4. ~CanaryBroken
  BY <1>3 DEF CanaryBroken
<1>5. /\ phase' = "returned" /\ sp' = sp + 2
      /\ cpu' = [r \in Cpu |-> IF r \in to_save THEN mem[sp + SlotWord(r)]
                               ELSE IF r = "X29" THEN mem[sp]
                               ELSE IF r = "X30" THEN mem[sp + 1] ELSE cpu[r]]
  BY <1>4 DEF RunEpilogue, WordOf, SlotWord
<1>6. /\ Top \in Nat /\ FrameWords \in Nat /\ FrameWords <= Top
      /\ HeaderWords \in {2, 4} /\ HeaderWords <= FrameWords
      /\ \A r \in to_save : SlotWord(r) \in Nat /\ SlotWord(r) + 1 <= FrameWords
  BY <1>2, WordsLemma
<1>7. \A u \in Nat : u + 1 <= FrameWords => sp + u \in Words
  BY <1>3, <1>6, RunAssumption DEF Words
<1>8. sp \in Words /\ sp + 1 \in Words
  BY <1>3, <1>6, RunAssumption DEF Words
<1>9. cpu' \in [Cpu -> Values]
  BY <1>3, <1>5, <1>6, <1>7, <1>8
<1>10. \A r \in OwnSlots \cup {"X29", "X30"} : cpu'[r] = Entry(r)
  <2>1. "X29" \notin to_save /\ "X30" \notin to_save
    BY <1>3, RunAssumption
  <2>2. \A r \in OwnSlots : r \in to_save /\ r \in Cpu
    BY <1>3 DEF OwnSlots, Cpu
  <2>3. "X29" \in Cpu /\ "X30" \in Cpu
    BY DEF Cpu
  <2> QED
    BY <1>3, <1>5, <2>1, <2>2, <2>3
<1>11. /\ OwnSlots' = OwnSlots /\ FrameWords' = FrameWords
       /\ CallerFrameIntact' = CallerFrameIntact
  BY <1>1 DEF OwnSlots, Declared, frame_vars, decl_vars, spill_vars, WithinBudget,
              CallerFrameIntact, FrameWords
<1>12. sp' = Top - FrameWords' + 2
  BY <1>3, <1>5, <1>11
<1>13. MachineInv'
  BY <1>1, <1>3, <1>5, <1>9, <1>10, <1>11, <1>12 DEF AInv, MachineInv, FrameWords
<1> QED
  BY <1>1, <1>5, <1>13, RunFrame DEF Generated

-----------------------------------------------------------------------------
(* Every step. *)

(* Every call of the frame manager and every step of the machine preserves *)
(* the invariant.                                                          *)
LEMMA NextAInv == AInv /\ [Next]_all_vars => AInv'
<1> SUFFICES ASSUME AInv, [Next]_all_vars PROVE AInv'
  OBVIOUS
<1>1. ASSUME ~error, NEW n \in Names, NEW t \in {"INTEGER", "VEC"},
             AddParameter(n, t) \/ AddLocal(n, t)
      PROVE  AInv'
  <2>1. /\ phase \in {"parameters", "locals"} /\ phase' \in {"parameters", "locals"}
        /\ add_local(n, t) /\ UNCHANGED <<max_live, run_vars>>
    BY <1>1 DEF AddParameter, AddLocal, Goto
  <2> QED
    BY <1>1, <2>1, AddLocalLemma
<1>2. CASE Compile
  <2>1. ~error
    BY <1>2 DEF Compile
  <2>2. \/ \E n \in Names, t \in {"INTEGER", "VEC"} : AddParameter(n, t) \/ AddLocal(n, t)
        \/ Preallocate \/ (Reserve \/ ForceSave) \/ Prologue
        \/ Epilogue \/ (\E n \in Names : LookUp(n) \/ SetType(n))
                    \/ (\E r \in CalleeSaved : ForceSaveLate(r))
        \/ \E n \in Names : Spill(n)
    BY <1>2 DEF Compile
  <2>3. ASSUME NEW n \in Names, Spill(n) PROVE AInv'
    BY <2>1, <2>3, SpillLemma
  <2> QED
    BY <1>1, <2>1, <2>2, <2>3, PreallocateLemma, ReserveRegistersLemma, PrologueLemma, BodyCalls
<1>3. CASE Run
  <2>1. ASSUME NEW n \in Names, StoreSpill(n) PROVE AInv'
    BY <2>1, StoreSpillLemma
  <2> QED
    BY <1>3, <2>1, RunPrologueLemma, StoreLocalLemma, ClobberLemma, RunEpilogueLemma DEF Run
<1>4. CASE UNCHANGED all_vars
  <2>1. UNCHANGED <<frame_vars, max_live>> /\ UNCHANGED phase /\ UNCHANGED run_vars
    BY <1>4 DEF all_vars
  <2>2. /\ Typed' /\ DeclarationsInv' /\ LayoutInv' /\ SpillInv'
        /\ Declared' = Declared /\ OwnSlots' = OwnSlots
    BY <2>1, FrameSame
  <2>3. BeforeInv'
    BY <2>1, <2>2 DEF AInv, BeforeInv, frame_vars, decl_vars, spill_vars
  <2>4. CallerFrameIntact' = CallerFrameIntact
    BY <2>1 DEF CallerFrameIntact, WithinBudget, frame_vars, spill_vars, run_vars
  <2>5. MachineInv'
    BY <2>1, <2>2, <2>4
       DEF AInv, MachineInv, WordOf, frame_vars, decl_vars, mode_vars, run_vars
  <2> QED
    BY <2>2, <2>3, <2>5 DEF AInv
<1> QED
  BY <1>2, <1>3, <1>4 DEF Next, Finished

-----------------------------------------------------------------------------
(* The theorems. *)

(* What AInv says holds in every state of every compilation and run.       *)
THEOREM AInvInvariant == Spec => []AInv
<1> QED
  BY InitAInv, NextAInv, PTL DEF Spec

(* The invariant implies the types the classes declare.                    *)
LEMMA AInvTypeOK == AInv => TypeOK
<1> SUFFICES ASSUME AInv PROVE TypeOK
  OBVIOUS
<1>1. \A i \in DOMAIN local_declarations :
        local_declarations[i] \in [name : Names, size : {8, 16}, start : Nat]
  <2>1. DOMAIN local_declarations = 1 .. Len(local_declarations)
    BY LenProperties DEF AInv, Typed
  <2> QED
    BY <2>1, ElementOfSeq DEF AInv, Typed
<1>2. sp \in Words \cup {Top}
  <2>1. CASE phase \notin {"run", "returned", "trapped"}
    BY <2>1 DEF AInv, MachineInv
  <2>2. CASE phase \in {"run", "returned", "trapped"}
    <3>1. is_prologue_generated
      BY <2>2 DEF AInv, BeforeInv
    <3>2. /\ Top \in Nat /\ FrameWords \in Nat /\ FrameWords <= Top
          /\ HeaderWords \in {2, 4} /\ HeaderWords <= FrameWords
      BY <3>1, WordsLemma
    <3>3. sp = Top - FrameWords \/ sp = Top - FrameWords + 2
      BY <2>2 DEF AInv, MachineInv, FrameWords
    <3>4. 2 <= FrameWords
      BY <3>2
    <3> QED
      BY <3>2, <3>3, <3>4, RunAssumption DEF Words
  <2> QED
    BY <2>1, <2>2
<1>3. cpu \in [Cpu -> Values] /\ mem \in [Words -> Values]
  BY DEF AInv, MachineInv
<1>4. {spill_area_size, next_spill_offset, final_frame_size, preallocated} \subseteq Nat
  BY DEF AInv, Typed
<1>5. {is_prologue_generated, uses_global_pointers, enable_stack_canaries, error}
        \subseteq BOOLEAN
  BY Zenon DEF AInv, Typed
<1> QED
  BY <1>1, <1>2, <1>3, <1>4, <1>5 DEF AInv, Typed, TypeOK

(* Bytes of slots that follow each other are different bytes.              *)
LEMMA BytesLemma ==
    ASSUME NEW a \in Nat, NEW b \in Nat, NEW s \in Nat, NEW t \in Nat,
           a + s <= b \/ b + t <= a
    PROVE  Bytes(a, s) \cap Bytes(b, t) = {}
  BY DEF Bytes

(* A key of the layout is a declaration or a register with its own slot.   *)
LEMMA PlacedLemma ==
    ASSUME AInv, is_prologue_generated, NEW k \in PlacedKeys
    PROVE  /\ variable_offsets[k] \in Nat /\ SizeOf(k) \in {8, 16}
           /\ Base <= variable_offsets[k]
           /\ \/ /\ k \in OwnSlots /\ SizeOf(k) = 8
                 /\ Base + locals_total_size <= variable_offsets[k]
                 /\ variable_offsets[k] + 8 <= SpillBase
              \/ /\ variable_offsets[k] + SizeOf(k) <= Base + locals_total_size
                 /\ \E i \in DOMAIN local_declarations :
                      /\ local_declarations[i].name = k
                      /\ local_declarations[i].start \in Nat
                      /\ SizeOf(k) = local_declarations[i].size
                      /\ variable_offsets[k] = Base + local_declarations[i].start
<1> DEFINE ld == local_declarations
<1>1. Base \in Nat /\ locals_total_size \in Nat
  BY DEF Base, CanarySpace, AInv, Typed
<1>2. CASE k \in Declared
  <2> DEFINE i == CHOOSE j \in DOMAIN ld : ld[j].name = k
  <2>1. i \in DOMAIN ld /\ ld[i].name = k
    BY <1>2 DEF Declared
  <2>2. SizeOf(k) = ld[i].size
    BY <1>2 DEF SizeOf
  <2> HIDE DEF i
  <2>3. i \in 1 .. Len(ld) /\ ld \in Seq([name : Names, size : {8, 16}, start : Nat])
    BY <2>1, LenProperties DEF AInv, Typed
  <2>4. ld[i] \in [name : Names, size : {8, 16}, start : Nat]
    BY <2>3, ElementOfSeq
  <2>5. /\ ld[i].start + ld[i].size <= locals_total_size
        /\ variable_offsets[k] = Base + ld[i].start
    BY <2>1 DEF AInv, DeclarationsInv, LayoutInv
  <2>6. ld[i].start \in Nat /\ ld[i].size \in {8, 16}
    BY <2>4
  <2>7. /\ variable_offsets[k] \in Nat /\ Base <= variable_offsets[k]
        /\ variable_offsets[k] + SizeOf(k) <= Base + locals_total_size
    BY <1>1, <2>2, <2>5, <2>6
  <2> QED
    BY <2>1, <2>2, <2>5, <2>6, <2>7
<1>3. CASE k \notin Declared
  <2>1. k \in OwnSlots
    BY <1>3 DEF PlacedKeys, AInv, LayoutInv, OwnSlots
  <2>2. SizeOf(k) = 8
    BY <1>3 DEF SizeOf
  <2>3. /\ variable_offsets[k] \in Nat /\ Base + locals_total_size <= variable_offsets[k]
        /\ variable_offsets[k] + 8 <= SpillBase
    BY <2>1 DEF AInv, LayoutInv
  <2> QED
    BY <1>1, <2>1, <2>2, <2>3
<1> QED
  BY <1>2, <1>3

(* The same for the spill slots, which follow the layout.                  *)
LEMMA SpilledLemma ==
    ASSUME AInv, is_prologue_generated, NEW n \in SpilledNames
    PROVE  /\ n \in Names /\ spill_variable_offsets[n] \in Nat
           /\ SpillBase <= spill_variable_offsets[n]
           /\ WithinBudget => spill_variable_offsets[n] + 8 <= final_frame_size
           /\ SpillBase \in Nat /\ Base + locals_total_size <= SpillBase
           /\ SpillBase <= final_frame_size /\ final_frame_size \in Nat
<1>1. /\ n \in Names /\ spill_variable_offsets[n] # NoOffset
  BY DEF SpilledNames
<1>2. /\ spill_variable_offsets[n] \in Nat /\ spill_area_size \in Nat /\ preallocated \in Nat
      /\ final_frame_size \in Nat /\ locals_total_size \in Nat
  BY <1>1 DEF AInv, Typed
<1>3. /\ SpillBase + preallocated <= final_frame_size
      /\ next_spill_offset = SpillBase + (spill_area_size - preallocated)
      /\ SpillBase <= spill_variable_offsets[n]
      /\ spill_variable_offsets[n] + 8 <= next_spill_offset
  BY <1>1 DEF AInv, SpillInv
<1>4. SpillBase \in Nat /\ Base + locals_total_size <= SpillBase
  <2>1. Cardinality(OwnSlots) \in Nat
    BY CountLemma DEF AInv, Typed, OwnSlots
  <2>2. Base \in Nat
    BY DEF Base, CanarySpace
  <2> QED
    BY <1>2, <2>1, <2>2 DEF SpillBase
<1> QED
  BY <1>1, <1>2, <1>3, <1>4 DEF WithinBudget

(* The invariant keeps the slots of the frame apart.                       *)
LEMMA AInvSlotsDisjoint == AInv => SlotsDisjoint
<1> SUFFICES ASSUME AInv, is_prologue_generated PROVE SlotsDisjoint
  BY DEF SlotsDisjoint
<1> DEFINE ld == local_declarations
           vo == variable_offsets
           so == spill_variable_offsets
<1>1. Base \in Nat /\ locals_total_size \in Nat
  BY DEF Base, CanarySpace, AInv, Typed
<1>2. ASSUME NEW k \in PlacedKeys, NEW l \in PlacedKeys, k # l
      PROVE  Bytes(vo[k], SizeOf(k)) \cap Bytes(vo[l], SizeOf(l)) = {}
  <2>1. /\ vo[k] \in Nat /\ SizeOf(k) \in Nat /\ vo[l] \in Nat /\ SizeOf(l) \in Nat
    BY PlacedLemma
  <2>2. vo[k] + SizeOf(k) <= vo[l] \/ vo[l] + SizeOf(l) <= vo[k]
    <3>1. CASE k \in OwnSlots /\ SizeOf(k) = 8 /\ l \in OwnSlots /\ SizeOf(l) = 8
      BY <1>2, <3>1 DEF AInv, LayoutInv
    <3>2. CASE /\ Base + locals_total_size <= vo[k]
               /\ vo[l] + SizeOf(l) <= Base + locals_total_size
      BY <3>2, <2>1, <1>1
    <3>3. CASE /\ Base + locals_total_size <= vo[l]
               /\ vo[k] + SizeOf(k) <= Base + locals_total_size
      BY <3>3, <2>1, <1>1
    <3>4. CASE /\ \E i \in DOMAIN ld : /\ ld[i].name = k /\ ld[i].start \in Nat
                                       /\ SizeOf(k) = ld[i].size /\ vo[k] = Base + ld[i].start
               /\ \E i \in DOMAIN ld : /\ ld[i].name = l /\ ld[i].start \in Nat
                                       /\ SizeOf(l) = ld[i].size /\ vo[l] = Base + ld[i].start
      <4>1. PICK i \in DOMAIN ld : /\ ld[i].name = k /\ ld[i].start \in Nat
                                   /\ SizeOf(k) = ld[i].size /\ vo[k] = Base + ld[i].start
        BY <3>4
      <4>2. PICK j \in DOMAIN ld : /\ ld[j].name = l /\ ld[j].start \in Nat
                                   /\ SizeOf(l) = ld[j].size /\ vo[l] = Base + ld[j].start
        BY <3>4
      <4>3. i < j \/ j < i
        <5>1. DOMAIN ld = 1 .. Len(ld) /\ Len(ld) \in Nat
          BY LenProperties DEF AInv, Typed
        <5> QED
          BY <5>1, <4>1, <4>2, <1>2
      <4>4. \/ ld[i].start + ld[i].size <= ld[j].start
            \/ ld[j].start + ld[j].size <= ld[i].start
        BY <4>3 DEF AInv, DeclarationsInv
      <4> QED
        BY <4>1, <4>2, <4>4, <2>1, <1>1
    <3> QED
      BY <3>1, <3>2, <3>3, <3>4, PlacedLemma
  <2> QED
    BY <2>1, <2>2, BytesLemma
<1>3. ASSUME NEW n \in SpilledNames, NEW m \in SpilledNames, n # m
      PROVE  Bytes(so[n], 8) \cap Bytes(so[m], 8) = {}
  <2>1. so[n] \in Nat /\ so[m] \in Nat
    BY SpilledLemma
  <2>2. so[n] + 8 <= so[m] \/ so[m] + 8 <= so[n]
    BY <1>3 DEF AInv, SpillInv, SpilledNames
  <2> QED
    BY <2>1, <2>2, BytesLemma
<1>4. ASSUME NEW k \in PlacedKeys, NEW n \in SpilledNames
      PROVE  Bytes(vo[k], SizeOf(k)) \cap Bytes(so[n], 8) = {}
  <2>1. vo[k] \in Nat /\ SizeOf(k) \in Nat
    BY PlacedLemma
  <2>2. /\ so[n] \in Nat /\ SpillBase <= so[n] /\ SpillBase \in Nat
        /\ Base + locals_total_size <= SpillBase
    BY SpilledLemma
  <2>3. vo[k] + SizeOf(k) <= SpillBase \/ vo[k] + SizeOf(k) <= Base + locals_total_size
    BY PlacedLemma
  <2>4. vo[k] + SizeOf(k) <= so[n]
    BY <1>1, <2>1, <2>2, <2>3
  <2> QED
    BY <2>1, <2>2, <2>4, BytesLemma
<1>5. ASSUME NEW k \in PlacedKeys PROVE vo[k] >= 16 + CanarySpace
  <2>1. vo[k] \in Nat /\ Base <= vo[k]
    BY PlacedLemma
  <2> QED
    BY <2>1, <1>1 DEF Base
<1> QED
  BY <1>2, <1>3, <1>4, <1>5 DEF SlotsDisjoint

(* The invariant keeps the slots inside the frame.                         *)
LEMMA AInvInsideFrame == AInv => InsideFrame
<1> SUFFICES ASSUME AInv, is_prologue_generated PROVE InsideFrame
  BY DEF InsideFrame
<1>1. /\ Base \in Nat /\ locals_total_size \in Nat /\ final_frame_size \in Nat
      /\ preallocated \in Nat
  BY DEF Base, CanarySpace, AInv, Typed
<1>2. Cardinality(OwnSlots) \in Nat
  BY CountLemma DEF AInv, Typed, OwnSlots
<1>3. SpillBase \in Nat /\ Base + locals_total_size <= SpillBase
  BY <1>1, <1>2 DEF SpillBase
<1>4. SpillBase <= final_frame_size
  <2>1. SpillBase + preallocated <= final_frame_size
    BY DEF AInv, SpillInv
  <2> QED
    BY <1>1, <1>3, <2>1
<1>5. ASSUME NEW k \in PlacedKeys
      PROVE  variable_offsets[k] + SizeOf(k) <= final_frame_size
  <2>1. variable_offsets[k] \in Nat /\ SizeOf(k) \in Nat
    BY PlacedLemma
  <2>2. \/ variable_offsets[k] + SizeOf(k) <= SpillBase
        \/ variable_offsets[k] + SizeOf(k) <= Base + locals_total_size
    BY PlacedLemma
  <2> QED
    BY <1>1, <1>3, <1>4, <2>1, <2>2
<1> QED
  BY <1>5, SpilledLemma DEF InsideFrame

(* The fields of the frame manager and the machine have their types.       *)
THEOREM FrameTypeCorrect == Spec => []TypeOK
  BY AInvInvariant, AInvTypeOK, PTL

(* No two entries of a finished layout share a byte, and none touches the  *)
(* saved X29 and X30 or the canaries, however many locals, registers and   *)
(* spills the function has.                                                *)
THEOREM SlotsAlwaysDisjoint == Spec => []SlotsDisjoint
  BY AInvInvariant, AInvSlotsDisjoint, PTL

(* Locals and saved registers lie inside the frame that the STP reserves,  *)
(* and so do the spill slots within the preallocated budget.               *)
THEOREM FrameHoldsLayout == Spec => []InsideFrame
  BY AInvInvariant, AInvInsideFrame, PTL

(* After the epilogue, X29, X30 and every saved register without a local   *)
(* of its name hold what they held on entry.                               *)
THEOREM CallerRegistersRestored == Spec => []RegistersRestored
<1>1. AInv => RegistersRestored
  BY DEF AInv, MachineInv, RegistersRestored, OwnSlots
<1> QED
  BY <1>1, AInvInvariant, PTL

(* The body writes no word of the caller's frame unless it spills more     *)
(* than preallocate_spill_slots made room for.                             *)
THEOREM CallerFrameUntouched == Spec => []CallerFrameIntact
<1>1. AInv => CallerFrameIntact
  BY DEF AInv, MachineInv
<1> QED
  BY <1>1, AInvInvariant, PTL

(* The canary check of the epilogue never fires for a body that stores     *)
(* through its own offsets.                                                *)
THEOREM CanariesSurvive == Spec => []NoFalseAlarm
<1>1. AInv => NoFalseAlarm
  BY DEF AInv, MachineInv, NoFalseAlarm
<1> QED
  BY <1>1, AInvInvariant, PTL
=============================================================================
