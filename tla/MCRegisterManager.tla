------------------------- MODULE MCRegisterManager -------------------------
(* Small pools for RegisterManager: two variable registers, so that the    *)
(* order of the LRU list matters, and one scratch register, so that the    *)
(* second scratch value is borrowed from the variable pool.                *)
EXTENDS RegisterManager

MCVariableRegs == <<"X20", "X21">>
MCScratchRegs == <<"X10">>
=============================================================================
