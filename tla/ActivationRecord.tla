-------------------------- MODULE ActivationRecord --------------------------
(***************************************************************************)
(* One function from its declarations to its return: the calls that        *)
(* NewCodeGenerator::generate_function_like_code makes on its              *)
(* CallFrameManager, in their order, and then a run of the emitted         *)
(* prologue, body and epilogue on a machine with a stack.                  *)
(*                                                                         *)
(*   phase     the next call of generate_function_like_code; "entry",      *)
(*             "run", "returned" and "trapped" while the code runs         *)
(*   max_live  max_live_variables of the function's metrics                *)
(*   sp        the stack pointer, in words of eight bytes                  *)
(*   cpu       the callee-saved registers, X29 and X30                     *)
(*   mem       the stack; words from Top on belong to the caller           *)
(*                                                                         *)
(* The body is any code that stores through the offsets it was given and   *)
(* overwrites the link register and the registers that the prologue saved. *)
(***************************************************************************)
EXTENDS CallFrameManager, Integers

CONSTANTS MaxLive,      \* bound on max_live_variables
          CallerWords   \* how much of the caller's frame is looked at

ASSUME RunAssumption ==
    /\ MaxLive \in Nat /\ CallerWords \in Nat
    /\ CalleeSaved \cap {"X29", "X30"} = {}

VARIABLES phase, max_live, sp, cpu, mem

run_vars == <<sp, cpu, mem>>
all_vars == <<frame_vars, phase, max_live, run_vars>>

Top == StpLimit \div 8
Words == 0 .. (Top + CallerWords - 1)
Cpu == CalleeSaved \cup {"X29", "X30"}
Entry(r) == <<"entry", r>>
Values == {Entry(r) : r \in Cpu}
            \cup {<<"frame">>, <<"body">>, <<"upper">>, <<"lower">>, <<"caller">>, <<"free">>}

Init ==
    /\ FrameInit
    /\ phase = "parameters"
    /\ max_live \in 0 .. MaxLive
    /\ sp = Top
    /\ cpu = [r \in Cpu |-> Entry(r)]
    /\ mem = [w \in Words |-> IF w >= Top THEN <<"caller">> ELSE <<"free">>]

-----------------------------------------------------------------------------
(* The compilation. *)
Goto(from, to) == phase = from /\ phase' = to /\ UNCHANGED <<max_live, run_vars>>

AddParameter(n, t) == Goto("parameters", "parameters") /\ add_local(n, t)

AddLocal(n, t) ==
    /\ phase \in {"parameters", "locals"} /\ phase' = "locals"
    /\ ~has_local(n)
    /\ add_local(n, t)
    /\ UNCHANGED <<max_live, run_vars>>

(* A slot for every live variable beyond the registers of the small pool. *)
Preallocate ==
    LET available == Len(EXTENDED_VARIABLE_REGS) - 2 IN
    /\ phase \in {"parameters", "locals"} /\ phase' = "reserve"
    /\ preallocate_spill_slots(IF max_live > available THEN max_live - available ELSE 0)
    /\ UNCHANGED <<max_live, run_vars>>

Reserve == Goto("reserve", "force_save") /\ reserve_registers_based_on_pressure(max_live)

(* get_in_use_callee_saved_registers: nothing has been allocated yet, so   *)
(* the list is X28, which initialize_registers marks as the data base.     *)
ForceSave ==
    /\ Goto("force_save", "prologue")
    /\ IF uses_global_pointers THEN UNCHANGED frame_vars ELSE force_save_register(DataBaseReg)

Prologue == Goto("prologue", "body") /\ generate_prologue

(* While the body is generated: offsets are looked up, variables spilled,  *)
(* types set, and gen_ListExpression asks for a callee-saved register.     *)
LookUp(n) == Goto("body", "body") /\ get_offset(n)
Spill(n) == Goto("body", "body") /\ get_spill_offset(n)
SetType(n) == Goto("body", "body") /\ set_variable_type(n, "INTEGER")
ForceSaveLate(r) == Goto("body", "body") /\ force_save_register(r)

Epilogue == Goto("body", "entry") /\ UNCHANGED frame_vars

Compile ==
    /\ ~error
    /\ \/ \E n \in Names, t \in {"INTEGER", "VEC"} : AddParameter(n, t) \/ AddLocal(n, t)
       \/ Preallocate \/ Reserve \/ ForceSave \/ Prologue \/ Epilogue
       \/ \E n \in Names : LookUp(n) \/ Spill(n) \/ SetType(n)
       \/ \E r \in CalleeSaved : ForceSaveLate(r)

-----------------------------------------------------------------------------
(* The run. *)
WordOf(frame, offset) == frame + offset \div 8

(* The emitted prologue: STP X29, X30, [SP, #-size]!, MOV X29, SP, the     *)
(* canaries, then the saved registers.                                     *)
RunPrologue ==
    LET fp == sp - final_frame_size \div 8
        SavedAt(w) == {r \in to_save : WordOf(fp, variable_offsets[r]) = w}
    IN
    /\ phase = "entry" /\ phase' = "run"
    /\ sp' = fp
    /\ cpu' = [cpu EXCEPT !["X29"] = <<"frame">>]
    /\ mem' = [w \in Words |->
                 IF SavedAt(w) # {} THEN cpu[CHOOSE r \in SavedAt(w) : TRUE]
                 ELSE IF enable_stack_canaries /\ w = fp + 2 THEN <<"upper">>
                 ELSE IF enable_stack_canaries /\ w = fp + 3 THEN <<"lower">>
                 ELSE IF w = fp THEN cpu["X29"]
                 ELSE IF w = fp + 1 THEN cpu["X30"]
                 ELSE mem[w]]
    /\ UNCHANGED <<frame_vars, max_live>>

(* A store to a local or a parameter, one eight-byte word of its slot. *)
StoreLocal ==
    \E i \in DOMAIN local_declarations :
      \E part \in 0 .. (local_declarations[i].size \div 8 - 1) :
        /\ phase = "run"
        /\ mem' = [mem EXCEPT ![WordOf(sp, variable_offsets[local_declarations[i].name]) + part]
                                = <<"body">>]
        /\ UNCHANGED <<frame_vars, phase, max_live, sp, cpu>>

(* generate_spill_code: one STR to the spill slot. *)
StoreSpill(n) ==
    /\ phase = "run"
    /\ spill_variable_offsets[n] # NoOffset
    /\ mem' = [mem EXCEPT ![WordOf(sp, spill_variable_offsets[n])] = <<"body">>]
    /\ UNCHANGED <<frame_vars, phase, max_live, sp, cpu>>

(* The body overwrites the link register and every register it may use.    *)
Clobber ==
    /\ phase = "run"
    /\ cpu' = [r \in Cpu |-> IF r \in to_save \cup {"X30"} THEN <<"body">> ELSE cpu[r]]
    /\ UNCHANGED <<frame_vars, phase, max_live, sp, mem>>

CanaryBroken ==
    enable_stack_canaries /\ ~(mem[sp + 2] = <<"upper">> /\ mem[sp + 3] = <<"lower">>)

(* Mutant: X30 is not reloaded.                                            *)
RunEpilogue_KeepX30 ==
    /\ phase = "run"
    /\ cpu' = [r \in Cpu |->
                 IF r \in to_save THEN mem[WordOf(sp, variable_offsets[r])]
                 ELSE IF ~CanaryBroken /\ r = "X29" THEN mem[sp] ELSE cpu[r]]
    /\ IF CanaryBroken THEN phase' = "trapped" /\ UNCHANGED sp
                       ELSE phase' = "returned" /\ sp' = sp + 2
    /\ UNCHANGED <<frame_vars, max_live, mem>>

(* The emitted epilogue: reload the saved registers, compare the canaries, *)
(* MOV SP, X29, reload X29 and X30 and add 16 to SP.                       *)
RunEpilogue ==
    /\ phase = "run"
    /\ cpu' = [r \in Cpu |->
                 IF r \in to_save THEN mem[WordOf(sp, variable_offsets[r])]
                 ELSE IF ~CanaryBroken /\ r = "X29" THEN mem[sp]
                 ELSE IF ~CanaryBroken /\ r = "X30" THEN mem[sp + 1] ELSE cpu[r]]
    /\ IF CanaryBroken THEN phase' = "trapped" /\ UNCHANGED sp
                       ELSE phase' = "returned" /\ sp' = sp + 2
    /\ UNCHANGED <<frame_vars, max_live, mem>>

Run ==
    \/ RunPrologue
    \/ StoreLocal
    \/ \E n \in Names : StoreSpill(n)
    \/ Clobber
    \/ RunEpilogue

Finished == (error \/ phase \in {"returned", "trapped"}) /\ UNCHANGED all_vars

Next == Compile \/ Run \/ Finished

Spec == Init /\ [][Next]_all_vars

-----------------------------------------------------------------------------
(* The frame manager's fields have the types CallFrameManager.h declares,  *)
(* slots are of eight or sixteen bytes, and the emitted code addresses     *)
(* nothing below the frame.                                                *)
TypeOK ==
    /\ \A i \in DOMAIN local_declarations :
         local_declarations[i] \in [name : Names, size : {8, 16}, start : Nat]
    /\ locals_total_size \in Nat
    /\ variable_offsets \in [Keys -> Nat \cup {NoOffset}]
    /\ variable_types \in [Names -> Types]
    /\ to_save \in SUBSET CalleeSaved
    /\ {spill_area_size, next_spill_offset, final_frame_size, preallocated} \subseteq Nat
    /\ spill_variable_offsets \in [Names -> Nat \cup {NoOffset}]
    /\ {is_prologue_generated, uses_global_pointers, enable_stack_canaries, error}
         \subseteq BOOLEAN
    /\ sp \in Words \cup {Top}
    /\ cpu \in [Cpu -> Values]
    /\ mem \in [Words -> Values]

(* The bytes of the frame that each entry of the layout stands for. *)
Bytes(first, size) == first .. (first + size - 1)

SizeOf(key) ==
    IF key \in Declared
    THEN local_declarations[CHOOSE i \in DOMAIN local_declarations :
                              local_declarations[i].name = key].size
    ELSE 8

PlacedKeys == {k \in Keys : variable_offsets[k] # NoOffset}
SpilledNames == {n \in Names : spill_variable_offsets[n] # NoOffset}

(* The body has spilled no more bytes than were preallocated.              *)
WithinBudget == spill_area_size - preallocated <= preallocated

(* No two entries of the final layout overlap, and none touches the saved  *)
(* X29 and X30 or the canaries: generate_prologue assigns the offsets of   *)
(* locals and saved registers anew, and get_spill_offset continues behind  *)
(* them with slots of eight or sixteen bytes.                              *)
SlotsDisjoint ==
    is_prologue_generated =>
      /\ \A k, l \in PlacedKeys : k # l =>
           Bytes(variable_offsets[k], SizeOf(k)) \cap Bytes(variable_offsets[l], SizeOf(l)) = {}
      /\ \A n, m \in SpilledNames : n # m =>
           Bytes(spill_variable_offsets[n], 8) \cap Bytes(spill_variable_offsets[m], 8) = {}
      /\ \A k \in PlacedKeys, n \in SpilledNames :
           Bytes(variable_offsets[k], SizeOf(k)) \cap Bytes(spill_variable_offsets[n], 8) = {}
      /\ \A k \in PlacedKeys : variable_offsets[k] >= 16 + CanarySpace

(* Every local and every saved register lies inside the frame, and so does *)
(* every spill slot as long as the body has spilled no more bytes than     *)
(* preallocate_spill_slots made room for.                                  *)
InsideFrame ==
    is_prologue_generated =>
      /\ \A k \in PlacedKeys : variable_offsets[k] + SizeOf(k) <= final_frame_size
      /\ WithinBudget =>
           \A n \in SpilledNames : spill_variable_offsets[n] + 8 <= final_frame_size

(* What the caller relies on: after the return X29, X30 and every register *)
(* of the save list hold what they held on entry, whatever the body stored *)
(* in its slots and wherever it overwrote registers.  A register with the  *)
(* name of a local is excepted: they share one entry of variable_offsets,  *)
(* so a store to the local replaces the saved value.                       *)
RegistersRestored ==
    phase = "returned" =>
      \A r \in (to_save \ Declared) \cup {"X29", "X30"} : cpu[r] = Entry(r)

(* The caller's part of the stack is not written, unless the body spilled  *)
(* more bytes than were preallocated.                                      *)
CallerFrameIntact ==
    WithinBudget =>
      \A w \in Words : w >= Top => mem[w] = <<"caller">>

(* With canaries enabled, a body that stores through its own offsets never *)
(* runs into the stack-protection handler.                                 *)
NoFalseAlarm == phase # "trapped"

(* "tear down the stack frame": the stack pointer is back where it was.    *)
StackPointerRestored == phase = "returned" => sp = Top
=============================================================================
