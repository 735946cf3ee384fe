-------------------------- MODULE FunctionCodegen ---------------------------
(***************************************************************************)
(* The body of one function as NewCodeGenerator emits it: RegisterManager  *)
(* hands out the registers and CallFrameManager has decided before which   *)
(* of them the prologue saves.                                             *)
(*                                                                         *)
(* An expression is evaluated by nested visits; each pending visit keeps   *)
(* register names in C++ locals (right_reg, rhs_result_regs, ...).  They   *)
(* are the stack here, oldest first.                                       *)
(*                                                                         *)
(*   phase      the next call of generate_function_like_code, then "body"  *)
(*   statement  the statement whose expressions are being evaluated        *)
(*   stack      what the pending visits hold: a register each, and for     *)
(*              one of the variable pool the number of allocations from    *)
(*              that pool that may have reused it since                    *)
(*   owner      the stack position whose value a register holds when the   *)
(*              emitted code runs, 0 if it is none of them                 *)
(*   moved      values of the stack already used: arguments of a routine   *)
(*              call in X0, X1, ..., or values an assignment has stored    *)
(*   address    the register with the address of the callee, or NoReg      *)
(*   used       callee-saved registers the body has written                *)
(*   peak       the most variable-pool registers in use at one time        *)
(*   homes      argument registers that hold the value of their parameter  *)
(*   careful    no operand has been left waiting too long (see below)      *)
(***************************************************************************)
EXTENDS RegisterManager, FiniteSets

CONSTANTS ARG_REGS,   \* X0, X1, ...; the first one is also the result
          MaxDepth,   \* bound on the number of pending operands
          MaxLive,    \* bound on max_live_variables
          Calls,      \* whether the body contains calls
          NumParams,  \* the parameters of the function, all in registers
          NoOffset, StpLimit

(* The pool lists a register once, the argument registers are not managed  *)
(* and there is one for every parameter.                                   *)
ASSUME CodegenAssumption ==
    /\ NoRepeats(VARIABLE_REGS)
    /\ ARG_REGS # <<>> /\ ARG_REGS \in Seq({ARG_REGS[i] : i \in DOMAIN ARG_REGS})
    /\ \A i \in DOMAIN ARG_REGS : ARG_REGS[i] \notin Regs \cup {NoReg}
    /\ NumParams \in 0 .. Len(ARG_REGS)
    /\ MaxLive \in Nat

VARIABLES local_declarations, locals_total_size, variable_offsets,
          variable_types, to_save, spill_area_size, next_spill_offset,
          spill_variable_offsets, final_frame_size, is_prologue_generated,
          uses_global_pointers, enable_stack_canaries, preallocated, error,
          phase, max_live, statement, stack, owner, moved, address, used, peak, homes,
          careful

Frame == INSTANCE CallFrameManager
           WITH EXTENDED_VARIABLE_REGS <- <<X19>> \o VARIABLE_REGS \o <<X28>>,
                Names <- Vars

frame_vars == <<local_declarations, locals_total_size, variable_offsets,
                variable_types, to_save, spill_area_size, next_spill_offset,
                spill_variable_offsets, final_frame_size, is_prologue_generated,
                uses_global_pointers, enable_stack_canaries, preallocated, error>>
eval_vars == <<statement, stack, owner, moved, address, used, peak, homes, careful>>
all_vars == <<vars, frame_vars, phase, max_live, eval_vars>>

ArgRegs == {ARG_REGS[i] : i \in DOMAIN ARG_REGS}
X0 == ARG_REGS[1]
Machine == Regs \cup ArgRegs
PoolSize == Len(VARIABLE_REGS)

(* The registers a callee may overwrite. *)
CallerSaved == ScratchPool \cup ArgRegs

FunctionInit ==
    /\ Init
    /\ Frame!FrameInit
    /\ ~enable_stack_canaries   \* they concern no register of the body
    /\ phase = "reserve"
    /\ max_live \in 0 .. MaxLive
    /\ statement = "none"
    /\ stack = <<>>
    /\ owner = [r \in Machine |-> 0]
    /\ moved = 0
    /\ address = NoReg
    /\ used = {}
    /\ peak = 0
    /\ homes = {ARG_REGS[i] : i \in 1 .. NumParams}
    /\ careful = TRUE

-----------------------------------------------------------------------------
(* The calls of generate_function_like_code before the body.  The list of  *)
(* registers in use is asked for before anything has been allocated.       *)
Setup(from, to) == phase = from /\ phase' = to /\ UNCHANGED <<vars, max_live, eval_vars>>

Reserve ==
    Setup("reserve", "force_save") /\ Frame!reserve_registers_based_on_pressure(max_live)

get_in_use_callee_saved_registers ==
    {r \in VarPool \cup {X19, X28} : registers[r].status # "FREE"}

ForceSave ==
    \E r \in get_in_use_callee_saved_registers :
      /\ Setup("force_save", "prologue")
      /\ IF uses_global_pointers THEN UNCHANGED frame_vars ELSE Frame!force_save_register(r)

Prologue == Setup("prologue", "body") /\ Frame!generate_prologue

-----------------------------------------------------------------------------
(* Pending operands. *)
Top == Len(stack)
Lent == {r \in VarPool : registers[r].status = "IN_USE_SCRATCH"}
InUse == {r \in VarPool : registers[r].status # "FREE"}

(* The register acquire_spillable_temp_reg and acquire_scratch_reg return. *)
TempReg ==
    IF find_free_register(VARIABLE_REGS) # NoReg
    THEN find_free_register(VARIABLE_REGS) ELSE Back(lru)
ScratchReg ==
    IF find_free_register(SCRATCH_REGS) # NoReg
    THEN find_free_register(SCRATCH_REGS) ELSE TempReg

(* A register r of the variable pool is handed out: every older operand of *)
(* the pool is one step closer to being the least recently used.           *)
Aged(s, r) ==
    IF r \notin VarPool THEN s
    ELSE [i \in DOMAIN s |->
            IF s[i].reg \in VarPool /\ s[i].temp /\ s[i].age < PoolSize
            THEN [s[i] EXCEPT !.age = s[i].age + 1] ELSE s[i]]

(* temp: from acquire_spillable_temp_reg; arg: a copied argument; param:   *)
(* the register of a parameter, which is named and not copied.             *)
Operand(r, temp, arg) ==
    [reg |-> r, temp |-> temp, arg |-> arg, param |-> FALSE,
     age |-> IF temp THEN Cardinality(Lent) ELSE 0]

(* The register that operand i names still holds its value.                *)
Intact(i) == IF stack[i].param THEN stack[i].reg \in homes ELSE owner[stack[i].reg] = i

(* The limits the code generator relies on and does not check: since the   *)
(* value was loaded, fewer registers were allocated than the pool has (a   *)
(* register already lent at that time counts as allocated).                *)
WithinPool(s) == \A i \in DOMAIN s : s[i].temp => s[i].age < PoolSize

(* r now holds the value of the topmost of the n operands; what belonged   *)
(* to operands that are gone belongs to nobody.                            *)
Owns(r, n) == [q \in Machine |-> IF q = r THEN n
                                 ELSE IF owner[q] >= n THEN 0 ELSE owner[q]]

Wrote(r) == used' = IF r \in VarPool THEN used \cup {r} ELSE used

Peak == peak' = IF Cardinality(InUse') > peak THEN Cardinality(InUse') ELSE peak

Body ==
    /\ phase = "body" /\ fault = "none" /\ ~error
    /\ statement # "none"
    /\ address = NoReg
    /\ UNCHANGED <<frame_vars, phase, max_live, statement>>

Push(r, temp) ==
    LET s == Append(Aged(stack, r), Operand(r, temp, FALSE)) IN
    /\ stack' = s
    /\ owner' = Owns(r, Top + 1)
    /\ careful' = (careful /\ WithinPool(s))
    /\ Wrote(r)
    /\ Peak
    /\ UNCHANGED <<moved, address, homes>>

Failed == UNCHANGED eval_vars

(* get_variable_register for a variable of the frame or of the data        *)
(* segment, and VariableAccess.                                            *)
LoadVariable ==
    /\ Body /\ moved = 0 /\ Top < MaxDepth
    /\ acquire_spillable_temp_reg
    /\ IF fault' = "none" THEN Push(TempReg, TRUE) ELSE Failed

(* get_variable_register for a parameter: the argument register it came in *)
(* for the whole function, although the prologue has stored it too.        *)
LoadParameter(i) ==
    /\ Body /\ moved = 0 /\ Top < MaxDepth
    /\ stack' = Append(stack, [Operand(ARG_REGS[i], FALSE, FALSE) EXCEPT !.param = TRUE])
    /\ careful' = (careful /\ ARG_REGS[i] \in homes)
    /\ UNCHANGED <<vars, owner, moved, address, used, peak, homes>>

(* NumberLiteral, BooleanLiteral and CharLiteral. *)
LoadLiteral ==
    /\ Body /\ moved = 0 /\ Top < MaxDepth
    /\ acquire_scratch_reg
    /\ IF fault' = "none" THEN Push(ScratchReg, FALSE) ELSE Failed

(* release_register on any name: X0, X1, ... are not managed.              *)
ReleaseAny(r) == IF r \in Regs THEN release_register(r) ELSE UNCHANGED vars

(* BinaryOp: the right operand was evaluated first and lies below the left *)
(* one.  The result replaces the left operand and the right is released.   *)
BinaryOp ==
    LET left == stack[Top]
        right == stack[Top - 1]
    IN
    /\ Body /\ moved = 0 /\ Top >= 2 /\ ~left.arg /\ ~right.arg
    /\ ReleaseAny(right.reg)
    /\ stack' = Append(SubSeq(stack, 1, Top - 2), [left EXCEPT !.param = FALSE])
    /\ owner' = Owns(left.reg, Top - 1)
    /\ homes' = homes \ {left.reg}
    /\ careful' = (careful /\ \A i \in 1 .. Top - 2 : stack[i].param => stack[i].reg # left.reg)
    /\ Wrote(left.reg)
    /\ UNCHANGED <<moved, address, peak>>

-----------------------------------------------------------------------------
(* The callee overwrites every caller-saved register and leaves its result *)
(* in X0; n operands stay pending.                                         *)
AfterCall(n) == [q \in Machine |-> IF q \in CallerSaved \/ owner[q] > n THEN 0 ELSE owner[q]]

NoneExposed(n) == \A i \in 1 .. n : stack[i].reg \notin CallerSaved

(* FunctionCall, one argument: its value is copied to a spillable          *)
(* temporary, and the register it was computed in is not released.         *)
CopyArgument ==
    LET e == stack[Top]
        s == Append(Aged(SubSeq(stack, 1, Top - 1), TempReg), Operand(TempReg, TRUE, TRUE))
    IN
    /\ Calls /\ Body /\ moved = 0 /\ Top >= 1 /\ ~e.arg
    /\ acquire_spillable_temp_reg
    /\ IF fault' # "none" THEN Failed
       ELSE /\ stack' = s
            /\ owner' = [Owns(TempReg, Top) EXCEPT
                           ![TempReg] = IF Intact(Top) THEN Top ELSE 0]
            /\ careful' = (careful /\ WithinPool(s))
            /\ Wrote(TempReg)
            /\ Peak
            /\ UNCHANGED <<moved, address, homes>>

(* The n arguments of a function are moved to X0, X1, ... and released,    *)
(* which does nothing for a temporary.                                     *)
Arguments(n) == n <= Top /\ \A i \in (Top - n + 1) .. Top : stack[i].arg

(* The address of the callee goes to r, when it is not reached by BL,      *)
(* after n arguments have gone to X0, X1, ... and are no longer pending.   *)
Passed(n) == {ARG_REGS[i] : i \in 1 .. n}

NonePassedOver(n) == \A i \in 1 .. Top - n : stack[i].reg \notin Passed(n)

Address(n, r) ==
    LET s == Aged(SubSeq(stack, 1, Top - n), r) IN
    /\ address' = r
    /\ stack' = s
    /\ owner' = [q \in Machine |-> IF q = r \/ q \in Passed(n) \/ owner[q] > Top - n
                                   THEN 0 ELSE owner[q]]
    /\ homes' = homes \ Passed(n)
    /\ careful' = (careful /\ WithinPool(s) /\ NonePassedOver(n))
    /\ Wrote(r)
    /\ Peak
    /\ UNCHANGED moved

(* The pointer is a parameter: its register is named where it is, although *)
(* an argument may just have been moved there.                             *)
ParameterAddress(n, r) ==
    /\ UNCHANGED <<vars, moved, used, peak>>
    /\ address' = r
    /\ stack' = SubSeq(stack, 1, Top - n)
    /\ owner' = [q \in Machine |-> IF q \in Passed(n) \/ owner[q] > Top - n
                                   THEN 0 ELSE owner[q]]
    /\ homes' = homes \ Passed(n)
    /\ careful' = (careful /\ NonePassedOver(n) /\ r \in homes \ Passed(n))

(* A runtime routine is called through a scratch register, a function      *)
(* pointer through the register that get_variable_register returns.        *)
LoadAddress(n) ==
    /\ Calls /\ Body
    /\ \/ moved = 0 /\ Arguments(n) /\ Top - n < MaxDepth
       \/ statement = "routine" /\ moved = Top /\ n = 0
    /\ \/ acquire_scratch_reg /\ IF fault' = "none" THEN Address(n, ScratchReg) ELSE Failed
       \/ acquire_spillable_temp_reg /\ IF fault' = "none" THEN Address(n, TempReg) ELSE Failed
       \/ \E i \in 1 .. NumParams : ParameterAddress(n, ARG_REGS[i])

(* FunctionCall: the call itself; nothing is saved around it.              *)
FunctionCall(n) ==
    /\ Calls
    /\ phase = "body" /\ fault = "none" /\ ~error
    /\ statement # "none" /\ moved = 0
    /\ Arguments(n) /\ Top - n < MaxDepth
    /\ address # NoReg => n = 0
    /\ ReleaseAny(address) /\ address' = NoReg
    /\ stack' = Append(SubSeq(stack, 1, Top - n), Operand(X0, FALSE, FALSE))
    /\ owner' = [AfterCall(Top - n) EXCEPT ![X0] = Top - n + 1]
    /\ homes' = {}
    /\ careful' = (careful /\ NoneExposed(Top - n))
    /\ UNCHANGED <<frame_vars, phase, max_live, statement, moved, used, peak>>

-----------------------------------------------------------------------------
(* Statements. *)
BeginAssignment ==
    /\ phase = "body" /\ fault = "none" /\ ~error
    /\ statement = "none" /\ statement' = "assignment"
    /\ UNCHANGED <<vars, frame_vars, phase, max_live, stack, owner, moved, address,
                   used, peak, homes, careful>>

(* Value i is moved to the register h of a parameter, unless it is there:  *)
(* a later value that names h now names the new value of the parameter.    *)
StoreToParameter(i, h) ==
    LET stays == stack[i].param /\ stack[i].reg = h /\ h \in homes IN
    /\ owner' = [owner EXCEPT ![h] = 0]
    /\ homes' = homes \cup {h}
    /\ stack' = [j \in DOMAIN stack |->
                    IF j > i /\ stack[j].reg = h /\ ~stays
                    THEN [stack[j] EXCEPT !.param = FALSE] ELSE stack[j]]
    /\ careful' = (careful /\ (stays \/ \A j \in DOMAIN stack : j > i => stack[j].reg # h))

(* AssignmentStatement to variables, once all right sides are evaluated:   *)
(* one value after the other is stored, or moved to the register of a      *)
(* parameter, and released.                                                *)
StoreValue ==
    LET i == moved + 1 IN
    /\ Body /\ statement = "assignment" /\ i <= Top
    /\ \A j \in DOMAIN stack : ~stack[j].arg
    /\ ReleaseAny(stack[i].reg)
    /\ moved' = i
    /\ \/ UNCHANGED <<stack, owner, homes, careful>>
       \/ \E p \in 1 .. NumParams : StoreToParameter(i, ARG_REGS[p])
    /\ UNCHANGED <<address, used, peak>>

EndAssignment ==
    /\ phase = "body" /\ fault = "none" /\ ~error
    /\ statement = "assignment" /\ statement' = "none"
    /\ Top >= 1 /\ moved = Top /\ address = NoReg
    /\ stack' = <<>> /\ moved' = 0
    /\ owner' = [q \in Machine |-> 0]
    /\ UNCHANGED <<vars, frame_vars, phase, max_live, address, used, peak, homes, careful>>

(* RoutineCallStatement: saveCallerSavedRegisters resets the caller-saved  *)
(* registers before it lists the ones in use, so it saves none.            *)
BeginRoutineCall ==
    /\ Calls
    /\ phase = "body" /\ fault = "none" /\ ~error
    /\ statement = "none" /\ statement' = "routine"
    /\ reset_caller_saved_registers
    /\ UNCHANGED <<frame_vars, phase, max_live, stack, owner, moved, address, used, peak,
                   homes, careful>>

(* moveArgumentsToCallRegisters: one argument after the other, and the     *)
(* register that held it is released.                                      *)
MoveArgument ==
    LET i == moved + 1
        stays == stack[i].param /\ stack[i].reg = ARG_REGS[i]
    IN
    /\ Body /\ statement = "routine" /\ i <= Top /\ Top <= Len(ARG_REGS)
    /\ \A j \in DOMAIN stack : ~stack[j].arg
    /\ ReleaseAny(stack[i].reg)
    /\ moved' = i
    /\ owner' = [owner EXCEPT ![ARG_REGS[i]] = 0]
    /\ homes' = IF stays THEN homes ELSE homes \ {ARG_REGS[i]}
    /\ careful' = (careful /\ (stays \/ \A j \in DOMAIN stack : j > i =>
                                            stack[j].reg # ARG_REGS[i]))
    /\ UNCHANGED <<stack, address, used, peak>>

EndRoutineCall ==
    /\ phase = "body" /\ fault = "none" /\ ~error
    /\ statement = "routine" /\ statement' = "none"
    /\ moved = Top
    /\ ReleaseAny(address) /\ address' = NoReg
    /\ stack' = <<>> /\ moved' = 0
    /\ owner' = [q \in Machine |-> 0]
    /\ homes' = {}
    /\ UNCHANGED <<frame_vars, phase, max_live, used, peak, careful>>

Finished == (fault # "none" \/ error) /\ UNCHANGED all_vars

FunctionNext ==
    \/ Reserve \/ ForceSave \/ Prologue
    \/ BeginAssignment \/ StoreValue \/ EndAssignment
    \/ BeginRoutineCall \/ MoveArgument \/ EndRoutineCall
    \/ LoadVariable \/ LoadLiteral \/ BinaryOp \/ \E i \in 1 .. NumParams : LoadParameter(i)
    \/ CopyArgument \/ \E n \in 0 .. Len(ARG_REGS) : LoadAddress(n) \/ FunctionCall(n)
    \/ Finished

FunctionSpec == FunctionInit /\ [][FunctionNext]_all_vars

-----------------------------------------------------------------------------
(* Every pending operand is still in the register that its visit names     *)
(* when the emitted code comes to use it, and so is a callee's address     *)
(* that is a parameter.                                                    *)
OperandsIntact ==
    fault = "none" => /\ \A i \in DOMAIN stack : i > moved => Intact(i)
                      /\ address \in ArgRegs => address \in homes

(* The allocator keeps an operand that does not have to wait too long:     *)
(* operands are intact as long as no operand of the variable pool waited   *)
(* for as many allocations as the pool has registers, no operand was in a  *)
(* caller-saved register during a call, no argument register was filled    *)
(* while a later argument, a pending operand or the callee's address was   *)
(* still in it, no parameter was assigned while a later value of the same  *)
(* assignment was still in its register (p, q := q, p), and no parameter   *)
(* was read after a call, or a result computed in place, took its register *)
(* (until it was assigned again).                                          *)
CarefulIntact == careful => OperandsIntact

(* "it will have the correct list of registers to save": every             *)
(* callee-saved register the body writes is on the list.                   *)
SaveListCorrect == used \subseteq to_save

(* The list is right when the pressure was: a body that never has more     *)
(* variable-pool registers in use than max_live_variables said (one less   *)
(* with the extended pool, which starts with X19, that is never handed     *)
(* out) writes saved registers only.                                       *)
SavedIfPressureRight ==
    peak + (IF uses_global_pointers THEN 0 ELSE 1) <= max_live => SaveListCorrect
=============================================================================
