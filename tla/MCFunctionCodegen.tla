------------------------- MODULE MCFunctionCodegen --------------------------
(* Two variable registers and one scratch register: a register is reused   *)
(* while operands wait, and literals are lent registers of the pool.       *)
EXTENDS FunctionCodegen, Integers

MCVariableRegs == <<"X20", "X21">>
MCScratchRegs == <<"X10">>
MCArgRegs == <<"X0", "X1">>
MCNoOffset == -1
=============================================================================
