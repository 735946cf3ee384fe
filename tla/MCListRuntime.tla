--------------------------- MODULE MCListRuntime ----------------------------
(* Two chunks of two nodes, and two headers, one of them from malloc for a *)
(* literal: the node pool runs dry, is refilled and runs dry for good.     *)
EXTENDS ListRuntime
=============================================================================
