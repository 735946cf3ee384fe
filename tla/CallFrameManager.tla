-------------------------- MODULE CallFrameManager --------------------------
(***************************************************************************)
(* The layout of one function's stack frame (CallFrameManager.cpp,         *)
(* cf_*.cpp).  Locals, saved registers and spill slots get byte offsets    *)
(* from X29, which points at the lowest address of the frame:              *)
(*                                                                         *)
(*    0  X29, X30 of the caller                                            *)
(*   16  the two canaries, when they are enabled                           *)
(*       locals and parameters in the order of their declaration           *)
(*       callee-saved registers in the order of their names                *)
(*       spill slots, given out while the body is generated                *)
(*                                                                         *)
(* A declaration remembers in "start" the size of the declarations before  *)
(* it, the value the loop of generate_prologue has accumulated when it     *)
(* reaches it.  callee_saved_registers_to_save is a set here: duplicates   *)
(* are refused when it grows and generate_prologue sorts it before use.    *)
(***************************************************************************)
EXTENDS Naturals, Sequences, FiniteSets

CONSTANTS EXTENDED_VARIABLE_REGS, \* X19 .. X28, in the order of their names
          Names,                  \* the variables of the function
          NoOffset,               \* "no entry in the map"
          StpLimit                \* 512, the reach of STP [SP, #-imm]!

VARIABLES local_declarations, locals_total_size, variable_offsets,
          variable_types, to_save, spill_area_size, next_spill_offset,
          spill_variable_offsets, final_frame_size, is_prologue_generated,
          uses_global_pointers, enable_stack_canaries,
          preallocated,   \* the bytes asked for by preallocate_spill_slots
          error           \* an exception has ended the compilation

spill_vars == <<spill_area_size, next_spill_offset, spill_variable_offsets>>
decl_vars == <<local_declarations, locals_total_size, variable_offsets, variable_types>>
mode_vars == <<uses_global_pointers, enable_stack_canaries>>
frame_vars == <<decl_vars, to_save, spill_vars, final_frame_size,
                is_prologue_generated, mode_vars, preallocated, error>>

CalleeSaved == {EXTENDED_VARIABLE_REGS[i] : i \in DOMAIN EXTENDED_VARIABLE_REGS}
GlobalsReg == EXTENDED_VARIABLE_REGS[1]
DataBaseReg == EXTENDED_VARIABLE_REGS[Len(EXTENDED_VARIABLE_REGS)]

(* VarType, as far as the layout tells types apart. *)
Types == {"UNKNOWN", "INTEGER", "VEC"}

(* Ten distinct names in the code.  A variable may be named like one of    *)
(* the registers: both are keys of variable_offsets.                       *)
ASSUME FrameAssumption ==
    /\ EXTENDED_VARIABLE_REGS \in Seq(CalleeSaved)
    /\ Len(EXTENDED_VARIABLE_REGS) > 1
    /\ \A i, j \in DOMAIN EXTENDED_VARIABLE_REGS :
         EXTENDED_VARIABLE_REGS[i] = EXTENDED_VARIABLE_REGS[j] => i = j
    /\ NoOffset \notin Nat
    /\ StpLimit \in Nat

Keys == Names \cup CalleeSaved

(* Mutant: words of four bytes. *)
get_size_for_type_Narrow(type) == IF type = "VEC" THEN 16 ELSE 4

get_size_for_type(type) == IF type = "VEC" THEN 16 ELSE 8

(* (size + 15) & ~15 *)
align_to_16(size) == ((size + 15) \div 16) * 16

CanarySpace == IF enable_stack_canaries THEN 16 ELSE 0

Declared == {local_declarations[i].name : i \in DOMAIN local_declarations}

-----------------------------------------------------------------------------
(* The constructor, set_active_register_pool and setUsesGlobalPointers: a  *)
(* function that accesses globals keeps X19 and X28 for them and has the   *)
(* small pool, any other has the extended one.                             *)
FrameInit ==
    /\ local_declarations = <<>> /\ locals_total_size = 0
    /\ variable_offsets = [k \in Keys |-> NoOffset]
    /\ variable_types = [n \in Names |-> "UNKNOWN"]
    /\ to_save = {}
    /\ spill_area_size = 0 /\ next_spill_offset = 0
    /\ spill_variable_offsets = [n \in Names |-> NoOffset]
    /\ final_frame_size = 0
    /\ is_prologue_generated = FALSE
    /\ uses_global_pointers \in BOOLEAN
    /\ enable_stack_canaries \in BOOLEAN
    /\ preallocated = 0
    /\ error = FALSE

active_variable_regs ==
    IF uses_global_pointers
    THEN SubSeq(EXTENDED_VARIABLE_REGS, 2, Len(EXTENDED_VARIABLE_REGS) - 1)
    ELSE EXTENDED_VARIABLE_REGS

FrameThrow ==
    /\ error' = TRUE
    /\ UNCHANGED <<decl_vars, to_save, spill_vars, final_frame_size,
                   is_prologue_generated, mode_vars, preallocated>>

(* add_local and add_parameter; a name that is known already is ignored.   *)
add_local(name, type) ==
    LET size == get_size_for_type(type) IN
    IF variable_offsets[name] # NoOffset THEN UNCHANGED frame_vars
    ELSE /\ variable_offsets' =
              [variable_offsets EXCEPT ![name] = 16 + CanarySpace + locals_total_size]
         /\ variable_types' = [variable_types EXCEPT ![name] = type]
         /\ local_declarations' = Append(local_declarations,
              [name |-> name, size |-> size, start |-> locals_total_size])
         /\ locals_total_size' = locals_total_size + size
         /\ UNCHANGED <<to_save, spill_vars, final_frame_size,
                        is_prologue_generated, mode_vars, preallocated, error>>

(* preallocate_spill_slots: eight bytes a slot, whatever will be spilled.  *)
preallocate_spill_slots(count) ==
    IF is_prologue_generated THEN UNCHANGED frame_vars
    ELSE /\ spill_area_size' = spill_area_size + count * 8
         /\ preallocated' = preallocated + count * 8
         /\ UNCHANGED <<decl_vars, to_save, next_spill_offset,
                        spill_variable_offsets, final_frame_size,
                        is_prologue_generated, mode_vars, error>>

force_save_register(r) ==
    IF is_prologue_generated THEN FrameThrow
    ELSE /\ to_save' = to_save \cup {r}
         /\ UNCHANGED <<decl_vars, spill_vars, final_frame_size,
                        is_prologue_generated, mode_vars, preallocated, error>>

(* reserve_registers_based_on_pressure: the first registers of the active  *)
(* pool, as many as the pressure asks for and the pool has.                *)
reserve_registers_based_on_pressure(register_pressure) ==
    IF is_prologue_generated THEN FrameThrow
    ELSE /\ to_save' = to_save \cup
              {active_variable_regs[i] :
                 i \in {j \in DOMAIN active_variable_regs : j <= register_pressure}}
         /\ UNCHANGED <<decl_vars, spill_vars, final_frame_size,
                        is_prologue_generated, mode_vars, preallocated, error>>

-----------------------------------------------------------------------------
(* generate_prologue.  The registers that get a slot of their own, in name *)
(* order: one with the name of a local finds that local's entry instead.   *)
Saved == IF uses_global_pointers THEN to_save \cup {GlobalsReg, DataBaseReg} ELSE to_save

SavedBefore(saved, k) ==
    {i \in DOMAIN EXTENDED_VARIABLE_REGS :
       i < k /\ EXTENDED_VARIABLE_REGS[i] \in saved \ Declared}

LayoutFrom(base, saved) ==
    [key \in Keys |->
       IF key \in Declared
       THEN base + local_declarations[CHOOSE i \in DOMAIN local_declarations :
                                        local_declarations[i].name = key].start
       ELSE IF key \in saved
       THEN base + locals_total_size +
              8 * Cardinality(SavedBefore(saved, CHOOSE i \in DOMAIN EXTENDED_VARIABLE_REGS :
                                                   EXTENDED_VARIABLE_REGS[i] = key))
       ELSE NoOffset]

(* Mutant: the space of the canaries is not skipped.                       *)
LayoutOffsets_NoCanaries(saved) == LayoutFrom(16, saved)

(* The two loops that assign offsets: locals, then saved registers. *)
LayoutOffsets(saved) == LayoutFrom(16 + CanarySpace, saved)

(* Mutant: the registers are counted before X19 and X28 join the list.     *)
FrameSize_Early(saved) ==
    align_to_16(locals_total_size + 8 * Cardinality(to_save) + 16 + CanarySpace
                  + spill_area_size)

(* Mutant: the preallocated spill slots are not counted.                   *)
FrameSize_NoSpill(saved) ==
    align_to_16(locals_total_size + 8 * Cardinality(saved) + 16 + CanarySpace)

FrameSize(saved) ==
    align_to_16(locals_total_size + 8 * Cardinality(saved) + 16 + CanarySpace
                  + spill_area_size)

(* The offsets are assigned before the STP is encoded, which refuses a     *)
(* frame that is larger than its immediate can say.                        *)
generate_prologue ==
    IF is_prologue_generated THEN FrameThrow
    ELSE /\ to_save' = Saved
         /\ final_frame_size' = FrameSize(Saved)
         /\ variable_offsets' = LayoutOffsets(Saved)
         /\ next_spill_offset' =
              16 + CanarySpace + locals_total_size + 8 * Cardinality(Saved \ Declared)
         /\ IF FrameSize(Saved) > StpLimit
            THEN error' = TRUE /\ UNCHANGED is_prologue_generated
            ELSE is_prologue_generated' = TRUE /\ UNCHANGED error
         /\ UNCHANGED <<local_declarations, locals_total_size, variable_types,
                        spill_area_size, spill_variable_offsets, mode_vars,
                        preallocated>>

(* get_spill_offset: a slot for a name on its first spill, of the size its *)
(* type asks for.  Nothing compares it with the size of the frame.         *)
get_spill_offset(name) ==
    LET slot_size == get_size_for_type(variable_types[name]) IN
    IF spill_variable_offsets[name] # NoOffset THEN UNCHANGED frame_vars
    ELSE /\ spill_variable_offsets' =
              [spill_variable_offsets EXCEPT ![name] = next_spill_offset]
         /\ next_spill_offset' = next_spill_offset + slot_size
         /\ spill_area_size' = spill_area_size + slot_size
         /\ UNCHANGED <<decl_vars, to_save, final_frame_size,
                        is_prologue_generated, mode_vars, preallocated, error>>

(* set_variable_type: a name spilled later takes the size of its new type. *)
set_variable_type(name, type) ==
    /\ variable_types' = [variable_types EXCEPT ![name] = type]
    /\ UNCHANGED <<local_declarations, locals_total_size, variable_offsets,
                   to_save, spill_vars, final_frame_size, is_prologue_generated,
                   mode_vars, preallocated, error>>

(* get_offset: throws before the layout is final and for an unknown name.  *)
get_offset(name) ==
    IF is_prologue_generated /\ variable_offsets[name] # NoOffset
    THEN UNCHANGED frame_vars
    ELSE FrameThrow

has_local(name) == name \in Declared \cup to_save
=============================================================================
