-------------------------- MODULE RegisterManager --------------------------
(***************************************************************************)
(* The general-purpose half of the compile-time register allocator         *)
(* (RegisterManager.h, RegisterManager.cpp, rm_*.cpp).  It hands register  *)
(* names to the code generator while one function body is being emitted.   *)
(*                                                                         *)
(*   registers   RegisterManager::registers: status, bound_to and dirty    *)
(*   variable_to_reg_map  the register that caches a variable, or NoReg    *)
(*   lru         variable_reg_lru_order_, a list of registers, front first *)
(*   spilled     spilled_variables_                                        *)
(*                                                                         *)
(* Two variables describe the clients of the class and one its failures:   *)
(*   held        registers handed out as scratch and not released yet      *)
(*   unsaved     variables whose register holds a newer value than their   *)
(*               stack slot                                                *)
(*   fault       "throw" after a std::runtime_error, "undefined" after     *)
(*               back() of an empty std::list; the compilation ends there  *)
(***************************************************************************)
EXTENDS Naturals, Sequences

CONSTANTS VARIABLE_REGS,  \* the callee-saved pool, a sequence: X20 .. X27
          SCRATCH_REGS,   \* the caller-saved pool, a sequence: X10 .. X15
          X19,            \* managed (EXTENDED_VARIABLE_REGS) but in no pool
          X28,            \* DATA_BASE_REG, the only member of RESERVED_REGS
          Vars,           \* the names of the variables of the function
          NoReg           \* the empty string find_free_register returns

VARIABLES registers, variable_to_reg_map, lru, spilled, held, unsaved, fault

vars == <<registers, variable_to_reg_map, lru, spilled, held, unsaved, fault>>

VarPool == {VARIABLE_REGS[i] : i \in DOMAIN VARIABLE_REGS}
ScratchPool == {SCRATCH_REGS[i] : i \in DOMAIN SCRATCH_REGS}
Regs == VarPool \cup ScratchPool \cup {X19, X28}

(* What bound_to may say besides the name of a variable. *)
Labels == {"", "_temp_", "scratch", "_persistent_temp_", "data_base"}

(* The pools are lists without repetition, disjoint from each other and    *)
(* from the two registers with a fixed role; a variable is never named     *)
(* like one of the allocator's own labels.                                 *)
ASSUME PoolsAssumption ==
    /\ VARIABLE_REGS \in Seq(VarPool) /\ SCRATCH_REGS \in Seq(ScratchPool)
    /\ VARIABLE_REGS # <<>>
    /\ VarPool \cap ScratchPool = {}
    /\ X19 # X28 /\ {X19, X28} \cap (VarPool \cup ScratchPool) = {}
    /\ NoReg \notin Regs
    /\ Vars \cap Labels = {}

Status == {"FREE", "IN_USE_VARIABLE", "IN_USE_SCRATCH", "IN_USE_DATA_BASE"}

Info(status, name, dirty) ==
    [status |-> status, bound_to |-> name, dirty |-> dirty]

Free == Info("FREE", "", FALSE)

-----------------------------------------------------------------------------
(* initialize_registers: every managed register is free but the reserved   *)
(* one, and the maps and lists are empty.                                  *)
InitialRegisters ==
    [r \in Regs |-> IF r = X28 THEN Info("IN_USE_DATA_BASE", "data_base", FALSE)
                               ELSE Free]

NoMapping == [v \in Vars |-> NoReg]

Init ==
    /\ registers = InitialRegisters
    /\ variable_to_reg_map = NoMapping
    /\ lru = <<>>
    /\ spilled = {}
    /\ held = {}
    /\ unsaved = {}
    /\ fault = "none"

(* find_free_register: the first free register of a pool, in pool order.   *)
FreeIn(pool) == {i \in DOMAIN pool : registers[pool[i]].status = "FREE"}

(* Mutant: the search runs from the end of the pool.                       *)
find_free_register_Last(pool) ==
    IF FreeIn(pool) = {} THEN NoReg
    ELSE pool[CHOOSE i \in FreeIn(pool) : \A j \in FreeIn(pool) : i >= j]

find_free_register(pool) ==
    IF FreeIn(pool) = {} THEN NoReg
    ELSE pool[CHOOSE i \in FreeIn(pool) : \A j \in FreeIn(pool) : i <= j]

(* std::list::push_front, pop_back and remove on the list of registers.    *)
(* remove drops one occurrence: LruExact says that there is at most one.   *)
PushFront(s, r) == <<r>> \o s
PopBack(s) == SubSeq(s, 1, Len(s) - 1)
Back(s) == s[Len(s)]
Members(s) == {s[i] : i \in DOMAIN s}
NoRepeats(s) == \A i, j \in DOMAIN s : s[i] = s[j] => i = j
Remove(s, r) ==
    IF r \notin Members(s) THEN s
    ELSE LET k == CHOOSE i \in DOMAIN s : s[i] = r
         IN  [i \in 1 .. (Len(s) - 1) |-> IF i < k THEN s[i] ELSE s[i + 1]]

(* Mutant: the store of a dirty victim is forgotten.                       *)
StoreIfDirty_Never(r) == unsaved

(* Taking a register from the variable bound to it: the store goes to the  *)
(* stack slot of the variable only when the register is dirty.             *)
StoreIfDirty(r) ==
    IF registers[r].dirty THEN unsaved \ {registers[r].bound_to} ELSE unsaved

Unmap(name) == [v \in Vars |-> IF v = name THEN NoReg ELSE variable_to_reg_map[v]]

(* std::list::back() of an empty list. *)
UndefinedBack ==
    /\ fault' = "undefined"
    /\ UNCHANGED <<registers, variable_to_reg_map, lru, spilled, held, unsaved>>

Throw ==
    /\ fault' = "throw"
    /\ UNCHANGED <<registers, variable_to_reg_map, lru, spilled, held, unsaved>>

-----------------------------------------------------------------------------
(* acquire_reg_for_variable: a hit moves the register to the front.        *)
AcquireVariableHit(v) ==
    /\ variable_to_reg_map[v] # NoReg
    /\ lru' = PushFront(Remove(lru, variable_to_reg_map[v]), variable_to_reg_map[v])
    /\ UNCHANGED <<registers, variable_to_reg_map, spilled, held, unsaved, fault>>

(* Mutant: the empty string is not recognised as "none free".              *)
AcquireVariableFree_NoCheck(v) ==
    LET r == find_free_register(VARIABLE_REGS) IN
    /\ variable_to_reg_map[v] = NoReg
    /\ registers' = [registers EXCEPT ![r] = Info("IN_USE_VARIABLE", v, FALSE)]
    /\ variable_to_reg_map' = [variable_to_reg_map EXCEPT ![v] = r]
    /\ lru' = PushFront(lru, r)
    /\ UNCHANGED <<spilled, held, unsaved, fault>>

(* A miss takes a free register; spilled_variables_ is left as it is.      *)
AcquireVariableFree(v) ==
    LET r == find_free_register(VARIABLE_REGS) IN
    /\ variable_to_reg_map[v] = NoReg
    /\ r # NoReg
    /\ registers' = [registers EXCEPT ![r] = Info("IN_USE_VARIABLE", v, FALSE)]
    /\ variable_to_reg_map' = [variable_to_reg_map EXCEPT ![v] = r]
    /\ lru' = PushFront(lru, r)
    /\ UNCHANGED <<spilled, held, unsaved, fault>>

(* Mutant: the victim's entry stays in variable_to_reg_map.                *)
AcquireVariableEvict_KeepMapping(v) ==
    LET r == Back(lru) IN
    /\ variable_to_reg_map[v] = NoReg
    /\ find_free_register(VARIABLE_REGS) = NoReg
    /\ lru # <<>>
    /\ unsaved' = StoreIfDirty(r)
    /\ spilled' = (spilled \cup {registers[r].bound_to}) \ {v}
    /\ registers' = [registers EXCEPT ![r] = Info("IN_USE_VARIABLE", v, FALSE)]
    /\ variable_to_reg_map' = [variable_to_reg_map EXCEPT ![v] = r]
    /\ lru' = PushFront(PopBack(lru), r)
    /\ UNCHANGED <<held, fault>>

(* No free register: the least recently used one is taken over.            *)
AcquireVariableEvict(v) ==
    LET r == Back(lru) IN
    /\ variable_to_reg_map[v] = NoReg
    /\ find_free_register(VARIABLE_REGS) = NoReg
    /\ lru # <<>>
    /\ unsaved' = StoreIfDirty(r)
    /\ spilled' = (spilled \cup {registers[r].bound_to}) \ {v}
    /\ registers' = [registers EXCEPT ![r] = Info("IN_USE_VARIABLE", v, FALSE)]
    /\ variable_to_reg_map' = [Unmap(registers[r].bound_to) EXCEPT ![v] = r]
    /\ lru' = PushFront(PopBack(lru), r)
    /\ UNCHANGED <<held, fault>>

AcquireVariableUndefined(v) ==
    /\ variable_to_reg_map[v] = NoReg
    /\ find_free_register(VARIABLE_REGS) = NoReg
    /\ lru = <<>>
    /\ UndefinedBack

acquire_reg_for_variable(v) ==
    \/ AcquireVariableHit(v)
    \/ AcquireVariableFree(v)
    \/ AcquireVariableEvict(v)
    \/ AcquireVariableUndefined(v)

(* mark_dirty: the flag is assigned as given.  TRUE says that the client   *)
(* has assigned to the variable cached in r.  FALSE is what the repository *)
(* calls it with, eight times, each on the register it acquired and loaded *)
(* two statements before (NewCodeGenerator.cpp:1003 .. 1089, "Mark         *)
(* register as clean after load"): a temporary, or a register whose        *)
(* variable has nothing unsaved.                                           *)
mark_dirty(r, is_dirty) ==
    LET name == registers[r].bound_to IN
    /\ registers[r].status = "IN_USE_VARIABLE"
    /\ registers' = [registers EXCEPT ![r].dirty = is_dirty]
    /\ \/ is_dirty /\ name \in Vars /\ unsaved' = unsaved \cup {name}
       \/ ~is_dirty /\ name \notin unsaved /\ UNCHANGED unsaved
    /\ UNCHANGED <<variable_to_reg_map, lru, spilled, held, fault>>

(* Mutant: the freed register is left in the LRU list.                     *)
release_reg_for_variable_KeepLru(v) ==
    LET r == variable_to_reg_map[v] IN
    /\ r # NoReg
    /\ registers' = [registers EXCEPT ![r] = Free]
    /\ variable_to_reg_map' = [variable_to_reg_map EXCEPT ![v] = NoReg]
    /\ unsaved' = unsaved \ {v}
    /\ UNCHANGED <<lru, spilled, held, fault>>

(* release_reg_for_variable: the value is dead, nothing is stored.         *)
release_reg_for_variable(v) ==
    LET r == variable_to_reg_map[v] IN
    /\ r # NoReg
    /\ registers' = [registers EXCEPT ![r] = Free]
    /\ variable_to_reg_map' = [variable_to_reg_map EXCEPT ![v] = NoReg]
    /\ lru' = Remove(lru, r)
    /\ unsaved' = unsaved \ {v}
    /\ UNCHANGED <<spilled, held, fault>>

-----------------------------------------------------------------------------
(* Mutant: a temporary is not entered in the LRU list.                     *)
AcquireTempFree_NoLru ==
    LET r == find_free_register(VARIABLE_REGS) IN
    /\ r # NoReg
    /\ registers' = [registers EXCEPT ![r] = Info("IN_USE_VARIABLE", "_temp_", FALSE)]
    /\ UNCHANGED <<variable_to_reg_map, lru, spilled, held, unsaved, fault>>

(* acquire_spillable_temp_reg: an anonymous value in the variable pool.    *)
AcquireTempFree ==
    LET r == find_free_register(VARIABLE_REGS) IN
    /\ r # NoReg
    /\ registers' = [registers EXCEPT ![r] = Info("IN_USE_VARIABLE", "_temp_", FALSE)]
    /\ lru' = PushFront(lru, r)
    /\ UNCHANGED <<variable_to_reg_map, spilled, held, unsaved, fault>>

(* Mutant: the most recently used register is taken.                       *)
AcquireTempEvict_Front ==
    LET r == Head(lru) IN
    /\ find_free_register(VARIABLE_REGS) = NoReg
    /\ lru # <<>>
    /\ unsaved' = StoreIfDirty(r)
    /\ variable_to_reg_map' = Unmap(registers[r].bound_to)
    /\ spilled' = spilled \cup {registers[r].bound_to}
    /\ registers' = [registers EXCEPT ![r] = Info("IN_USE_VARIABLE", "_temp_", FALSE)]
    /\ UNCHANGED <<lru, held, fault>>

AcquireTempEvict ==
    LET r == Back(lru) IN
    /\ find_free_register(VARIABLE_REGS) = NoReg
    /\ lru # <<>>
    /\ unsaved' = StoreIfDirty(r)
    /\ variable_to_reg_map' = Unmap(registers[r].bound_to)
    /\ spilled' = spilled \cup {registers[r].bound_to}
    /\ registers' = [registers EXCEPT ![r] = Info("IN_USE_VARIABLE", "_temp_", FALSE)]
    /\ lru' = PushFront(PopBack(lru), r)
    /\ UNCHANGED <<held, fault>>

AcquireTempUndefined ==
    /\ find_free_register(VARIABLE_REGS) = NoReg
    /\ lru = <<>>
    /\ UndefinedBack

acquire_spillable_temp_reg ==
    \/ AcquireTempFree
    \/ AcquireTempEvict
    \/ AcquireTempUndefined

(* acquire_scratch_reg: the scratch pool, then a free register borrowed    *)
(* from the variable pool, then the least recently used variable register. *)
(* A register taken from the variable pool leaves the LRU list.  The three *)
(* labels scratch, scratch_from_vars and scratch_from_spill, which nothing *)
(* tells apart, are one here.                                              *)
AcquireScratchFree ==
    LET r == IF find_free_register(SCRATCH_REGS) # NoReg
             THEN find_free_register(SCRATCH_REGS)
             ELSE find_free_register(VARIABLE_REGS) IN
    /\ r # NoReg
    /\ registers' = [registers EXCEPT ![r] = Info("IN_USE_SCRATCH", "scratch", FALSE)]
    /\ held' = held \cup {r}
    /\ UNCHANGED <<variable_to_reg_map, lru, spilled, unsaved, fault>>

(* Mutant: a register lent as scratch stays evictable.                     *)
AcquireScratchEvict_KeepLru ==
    LET r == Back(lru) IN
    /\ find_free_register(SCRATCH_REGS) = NoReg
    /\ find_free_register(VARIABLE_REGS) = NoReg
    /\ lru # <<>>
    /\ unsaved' = StoreIfDirty(r)
    /\ variable_to_reg_map' = Unmap(registers[r].bound_to)
    /\ spilled' = spilled \cup {registers[r].bound_to}
    /\ registers' = [registers EXCEPT ![r] = Info("IN_USE_SCRATCH", "scratch", FALSE)]
    /\ held' = held \cup {r}
    /\ UNCHANGED <<lru, fault>>

AcquireScratchEvict ==
    LET r == Back(lru) IN
    /\ find_free_register(SCRATCH_REGS) = NoReg
    /\ find_free_register(VARIABLE_REGS) = NoReg
    /\ lru # <<>>
    /\ lru' = PopBack(lru)
    /\ unsaved' = StoreIfDirty(r)
    /\ variable_to_reg_map' = Unmap(registers[r].bound_to)
    /\ spilled' = spilled \cup {registers[r].bound_to}
    /\ registers' = [registers EXCEPT ![r] = Info("IN_USE_SCRATCH", "scratch", FALSE)]
    /\ held' = held \cup {r}
    /\ UNCHANGED fault

AcquireScratchThrow ==
    /\ find_free_register(SCRATCH_REGS) = NoReg
    /\ find_free_register(VARIABLE_REGS) = NoReg
    /\ lru = <<>>
    /\ Throw

acquire_scratch_reg ==
    \/ AcquireScratchFree
    \/ AcquireScratchEvict
    \/ AcquireScratchThrow

(* acquire_callee_saved_temp_reg: only status and bound_to are assigned,   *)
(* and CallFrameManager::force_save_register throws once the prologue has  *)
(* been generated, after the register was marked.                          *)
AcquireCalleeSaved(prologue_generated) ==
    LET r == find_free_register(VARIABLE_REGS) IN
    /\ r # NoReg
    /\ registers' = [registers EXCEPT ![r].status = "IN_USE_SCRATCH",
                                      ![r].bound_to = "_persistent_temp_"]
    /\ IF prologue_generated
       THEN fault' = "throw" /\ UNCHANGED held
       ELSE held' = held \cup {r} /\ UNCHANGED fault
    /\ UNCHANGED <<variable_to_reg_map, lru, spilled, unsaved>>

AcquireCalleeSavedThrow ==
    /\ find_free_register(VARIABLE_REGS) = NoReg
    /\ Throw

acquire_callee_saved_temp_reg ==
    \/ \E prologue_generated \in BOOLEAN : AcquireCalleeSaved(prologue_generated)
    \/ AcquireCalleeSavedThrow

-----------------------------------------------------------------------------
(* release_register on a general-purpose name, that is release_scratch_reg: *)
(* only a scratch register becomes free; a "_temp_" stays in use.          *)
release_register(r) ==
    /\ registers' = IF registers[r].status = "IN_USE_SCRATCH"
                    THEN [registers EXCEPT ![r] = Free] ELSE registers
    /\ held' = held \ {r}
    /\ UNCHANGED <<variable_to_reg_map, lru, spilled, unsaved, fault>>

(* release_callee_saved_temp_reg: unconditional, and dirty is kept.        *)
release_callee_saved_temp_reg(r) ==
    /\ registers' = [registers EXCEPT ![r].status = "FREE", ![r].bound_to = ""]
    /\ held' = held \ {r}
    /\ UNCHANGED <<variable_to_reg_map, lru, spilled, unsaved, fault>>

(* invalidate_caller_saved_registers: variables cached in X0 .. X17; of    *)
(* those only the scratch pool is managed.                                 *)
Invalid == {r \in ScratchPool : registers[r].status = "IN_USE_VARIABLE"}

invalidate_caller_saved_registers ==
    /\ registers' = [r \in Regs |-> IF r \in Invalid THEN Free ELSE registers[r]]
    /\ variable_to_reg_map' =
         [v \in Vars |-> IF \E r \in Invalid : registers[r].bound_to = v
                         THEN NoReg ELSE variable_to_reg_map[v]]
    /\ lru' = IF Invalid = {} THEN lru ELSE SelectSeq(lru, LAMBDA r : r \notin Invalid)
    /\ UNCHANGED <<spilled, held, unsaved, fault>>

(* reset_caller_saved_registers: every scratch register becomes free, held *)
(* or not.  It removes the NAME of a variable from the list of registers,  *)
(* so the list never changes.                                              *)
reset_caller_saved_registers ==
    /\ registers' = [r \in Regs |-> IF r \in ScratchPool THEN Free ELSE registers[r]]
    /\ variable_to_reg_map' =
         [v \in Vars |-> IF variable_to_reg_map[v] \in ScratchPool
                         THEN NoReg ELSE variable_to_reg_map[v]]
    /\ UNCHANGED <<lru, spilled, held, unsaved, fault>>

(* reset_for_new_function and reset: the next body starts afresh.          *)
reset_for_new_function ==
    /\ registers' = InitialRegisters
    /\ variable_to_reg_map' = NoMapping
    /\ lru' = <<>>
    /\ spilled' = {}
    /\ held' = {}
    /\ unsaved' = {}
    /\ UNCHANGED fault

-----------------------------------------------------------------------------
(* The code generator releases what it holds: scratch registers, or the    *)
(* anonymous temporaries it was given, for which release does nothing.     *)
Releasable ==
    held \cup {r \in Regs : registers[r].bound_to = "_temp_"}

Step ==
    \/ \E v \in Vars : acquire_reg_for_variable(v)
    \/ \E r \in Regs, is_dirty \in BOOLEAN : mark_dirty(r, is_dirty)
    \/ \E v \in Vars : release_reg_for_variable(v)
    \/ acquire_spillable_temp_reg
    \/ acquire_scratch_reg
    \/ acquire_callee_saved_temp_reg
    \/ \E r \in Releasable : release_register(r)
    \/ \E r \in held : registers[r].bound_to = "_persistent_temp_"
                         /\ release_callee_saved_temp_reg(r)
    \/ invalidate_caller_saved_registers
    \/ reset_caller_saved_registers
    \/ reset_for_new_function

(* An exception or undefined behaviour ends the compilation.               *)
Halted == fault # "none" /\ UNCHANGED vars

Next == (fault = "none" /\ Step) \/ Halted

Spec == Init /\ [][Next]_vars

-----------------------------------------------------------------------------
(* The state has the shape the class declares: every managed register has  *)
(* an entry, the LRU list holds variable-pool registers only, and a name   *)
(* in spilled_variables_ is a variable or the anonymous "_temp_".          *)
TypeOK ==
    /\ registers \in [Regs -> [status : Status, bound_to : Vars \cup Labels,
                                dirty : BOOLEAN]]
    /\ variable_to_reg_map \in [Vars -> VarPool \cup {NoReg}]
    /\ lru \in Seq(VarPool)
    /\ spilled \in SUBSET (Vars \cup {"_temp_"})
    /\ held \in SUBSET (VarPool \cup ScratchPool)
    /\ unsaved \in SUBSET Vars
    /\ fault \in {"none", "throw", "undefined"}

(* variable_to_reg_map and the bound_to fields are inverse to each other,  *)
(* so no two variables ever share a register and no register is bound to a *)
(* variable that the map has forgotten, over every sequence of acquire,    *)
(* evict, release, invalidate and reset calls.                             *)
MapExact ==
    /\ \A v \in Vars : variable_to_reg_map[v] # NoReg =>
         /\ registers[variable_to_reg_map[v]].status = "IN_USE_VARIABLE"
         /\ registers[variable_to_reg_map[v]].bound_to = v
    /\ \A r \in Regs : registers[r].bound_to \in Vars =>
         variable_to_reg_map[registers[r].bound_to] = r

(* variable_reg_lru_order_ lists each register in use for a variable or a  *)
(* temporary exactly once, and no other: back() always names a register    *)
(* that may be evicted, and no register is forgotten by the eviction.      *)
LruExact ==
    /\ NoRepeats(lru)
    /\ Members(lru) = {r \in VarPool : registers[r].status = "IN_USE_VARIABLE"}

(* A variable-pool register lent as scratch (the second and third steps of *)
(* acquire_scratch_reg, and acquire_callee_saved_temp_reg) stays lent until *)
(* its holder releases it: no later acquire call can hand it out again.    *)
LentPinned ==
    fault = "none" =>
      held \cap VarPool = {r \in VarPool : registers[r].status = "IN_USE_SCRATCH"}

(* The dirty flag is right: the newest value of an assigned variable is in *)
(* its stack slot unless a register is bound to it and marked dirty, so an *)
(* eviction that skips the store of a clean register loses nothing, and    *)
(* neither does marking a freshly loaded register clean.                   *)
NoLostUpdate ==
    \A v \in unsaved : /\ variable_to_reg_map[v] # NoReg
                       /\ registers[variable_to_reg_map[v]].dirty

(* acquire_reg_for_variable and acquire_spillable_temp_reg call back() on  *)
(* the LRU list without asking whether it is empty.  It is empty only when *)
(* the whole variable pool has been lent as scratch.                       *)
UndefinedOnlyIfAllLent ==
    fault = "undefined" => VarPool \subseteq held
=============================================================================
