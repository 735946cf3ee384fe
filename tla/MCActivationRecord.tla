------------------------- MODULE MCActivationRecord -------------------------
(* Four callee-saved registers, so that the small pool has two, and two    *)
(* variables, one of them with the name of a register.                     *)
EXTENDS ActivationRecord

MCExtended == <<"X19", "X20", "X21", "X28">>
MCNoOffset == -1
=============================================================================
