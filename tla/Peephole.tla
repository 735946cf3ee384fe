------------------------------ MODULE Peephole ------------------------------
(***************************************************************************)
(* The peephole optimizer (PeepholeOptimizer.cpp and optimizer/patterns):  *)
(* fourteen patterns over windows of one or two instructions, tried in     *)
(* order at every position.  A pattern reads the metadata of the           *)
(* instructions, never their words.                                        *)
(***************************************************************************)
EXTENDS Encoders

\* areSameRegister: equal up to the bank; "no register" equals nothing.
areSameRegister(r1, r2) == r1 # -1 /\ r2 # -1 /\ r1 % 32 = r2 % 32
\* getRegisterName: the 64-bit name, whatever the size of the operand was.
getRegisterName(n) == IF n <= 31 THEN <<"x", n>> ELSE <<"d", n - 32>>

\* The order in which the constructor adds the patterns.
Patterns ==
    <<"ConstantFolding", "Identity", "RedundantMove", "SelfMove", "AdrFusion",
      "StrengthReduction", "Multiply", "Divide", "LoadAfterStore", "RedundantLoad",
      "DeadStore", "RedundantStore", "CompareZeroBranch", "BranchChaining">>
WindowOf(p) ==
    IF p \in {"AdrFusion", "LoadAfterStore", "RedundantLoad", "DeadStore", "RedundantStore",
              "CompareZeroBranch"} THEN 2 ELSE 1

MatchIdentity(i) == i.opcode \in {"ADD", "SUB"} /\ i.uses_immediate /\ i.immediate = 0
MatchSelfMove(i) == i.opcode = "MOV" /\ i.dest_reg = i.src_reg1
MatchAdrFusion(i, j) ==
    /\ i.opcode = "ADRP" /\ j.opcode = "ADD"
    /\ i.dest_reg = j.dest_reg /\ j.src_reg1 = i.dest_reg
    /\ i.target # <<>> /\ i.target = j.target
SameAddress(i, j) == areSameRegister(i.base_reg, j.base_reg) /\ i.immediate = j.immediate
MatchLoadAfterStore(i, j) ==
    /\ i.opcode = "STR" /\ j.opcode = "LDR" /\ SameAddress(i, j)
    /\ areSameRegister(i.src_reg1, j.dest_reg)
\* Mutant: the second load's base may be what the first one loads.
MatchRedundantLoad_any(i, j) == i.opcode = "LDR" /\ j.opcode = "LDR" /\ SameAddress(i, j)
\* The second load must not depend on the first.
MatchRedundantLoad(i, j) ==
    /\ i.opcode = "LDR" /\ j.opcode = "LDR" /\ SameAddress(i, j)
    /\ ~areSameRegister(i.dest_reg, j.base_reg) /\ ~areSameRegister(i.dest_reg, j.src_reg2)
MatchDeadStore(i, j) == i.opcode = "STR" /\ j.opcode = "STR" /\ SameAddress(i, j)
MatchRedundantStore(i, j) == MatchDeadStore(i, j) /\ areSameRegister(i.src_reg1, j.src_reg1)
MatchCompareZero(i, j) ==
    i.opcode = "CMP" /\ j.opcode = "B_COND" /\ i.uses_immediate /\ i.immediate = 0

\* Four patterns are placeholders; branch chaining looks at a field of the
\* branch that no encoder fills in.
Matches(p, s, k) ==
    /\ k + WindowOf(p) - 1 <= Len(s)
    /\ CASE p = "Identity" -> MatchIdentity(s[k])
         [] p \in {"RedundantMove", "SelfMove"} -> MatchSelfMove(s[k])
         [] p = "AdrFusion" -> MatchAdrFusion(s[k], s[k+1])
         [] p = "LoadAfterStore" -> MatchLoadAfterStore(s[k], s[k+1])
         [] p = "RedundantLoad" -> MatchRedundantLoad(s[k], s[k+1])
         [] p = "DeadStore" -> MatchDeadStore(s[k], s[k+1])
         [] p = "RedundantStore" -> MatchRedundantStore(s[k], s[k+1])
         [] p = "CompareZeroBranch" -> MatchCompareZero(s[k], s[k+1])
         [] OTHER -> FALSE

Transform(p, s, k) ==
    CASE p = "Identity" ->
            <<create_mov_reg(getRegisterName(s[k].dest_reg), getRegisterName(s[k].src_reg1))>>
      [] p \in {"RedundantMove", "SelfMove"} -> <<>>
      [] p = "AdrFusion" -> <<create_adr(getRegisterName(s[k].dest_reg), s[k].target)>>
      [] p = "LoadAfterStore" -> <<s[k]>>
      [] p = "RedundantLoad" ->
            <<s[k], create_mov_reg(getRegisterName(s[k+1].dest_reg),
                                   getRegisterName(s[k].dest_reg))>>
      [] p \in {"DeadStore", "RedundantStore"} -> <<s[k+1]>>
      [] p = "CompareZeroBranch" -> <<s[k], s[k+1]>>
      [] OTHER -> <<s[k]>>

isSpecialInstruction(i) ==
    i.is_label_definition \/ i.is_data_value \/ i.text \in {"none", "comment", "quad"}
\* Mutant: labels may be rewritten.
wouldBreakLabelReferences_never(s, k, n) == FALSE
\* Any reference to a label inside the window blocks the rewrite.
wouldBreakLabelReferences(s, k, n) == \E j \in k..(k+n-1) : s[j].target # <<>>

\* The patterns that may rewrite the window at k; the first of them does.
Applicable(s, k) ==
    {n \in DOMAIN Patterns :
        /\ Matches(Patterns[n], s, k)
        /\ ~wouldBreakLabelReferences(s, k, WindowOf(Patterns[n]))}
Rewritable(s, k) ==
    s[k].segment = "CODE" /\ ~isSpecialInstruction(s[k]) /\ Applicable(s, k) # {}
Rewrite(s, k) ==
    LET p == Patterns[Min(Applicable(s, k))]
    IN  SubSeq(s, 1, k - 1) \o Transform(p, s, k) \o SubSeq(s, k + WindowOf(p), Len(s))
=============================================================================
