------------------------------ MODULE Encoders ------------------------------
(***************************************************************************)
(* The A64 encoders (encoders/*.cpp, Encoder.cpp): from register names and *)
(* immediates to an Instruction, the 32-bit word together with the         *)
(* metadata (opcode, register numbers, immediate, relocation) that the     *)
(* peephole optimizer and the linker read instead of the word.             *)
(*                                                                         *)
(* A register name is a pair of its class and its number; the four names   *)
(* without a number carry 31.  Case is abstracted (the code folds it).     *)
(* The assembly text is left out.  An encoder that throws returns Throw.   *)
(***************************************************************************)
EXTENDS BitPatcher, SequencesExt

SpecialNames == {"xzr", "wzr", "sp", "wsp"}
Is64(r) == r[1] \in {"x", "xzr", "sp"}

\* A fresh Instruction; -1 is "no register".  Of its text only the kind is
\* kept: an instruction, a .quad, a comment, or none.
Instr(op, w) ==
    [ok |-> TRUE, word |-> w, opcode |-> op, dest_reg |-> -1, src_reg1 |-> -1,
     src_reg2 |-> -1, base_reg |-> -1, ra_reg |-> -1, immediate |-> 0,
     uses_immediate |-> FALSE, is_mem_op |-> FALSE, relocation |-> "NONE",
     target |-> <<>>, cond |-> "UNKNOWN", segment |-> "CODE", text |-> "instr",
     is_label_definition |-> FALSE, is_data_value |-> FALSE, address |-> 0]

Throw == [ok |-> FALSE]

\* get_reg_encoding: any of the four names is 31; w, x, d and v registers up
\* to 31; every other prefix (s among them) throws.
EncodesReg(r) ==
    r[1] \in SpecialNames \/ (r[1] \in {"w", "x", "d", "v"} /\ r[2] \in 0..31)
get_reg_encoding(r) == IF r[1] \in SpecialNames THEN 31 ELSE r[2]

\* The parse_register lambda each encoder repeats: the names without a number
\* and the largest number it accepts differ from encoder to encoder.
Parses(r, names, limit) ==
    r[1] \in names \/ (r[1] \in {"w", "x"} /\ r[2] \in 0..limit)
ParseAll(rs, names, limit) == \A r \in rs : Parses(r, names, limit)
SameSize(rs) == \A r, s \in rs : Is64(r) = Is64(s)

\* The sf bit of the base opcode.
Sized(w, r) == IF Is64(r) THEN patch(w, 1, 31, 1) ELSE w

\* get_condition_code, and get_cond_encoding, which also knows NV.
ConditionCodes ==
    [EQ |-> 0, NE |-> 1, CS |-> 2, HS |-> 2, CC |-> 3, LO |-> 3, MI |-> 4, PL |-> 5,
     VS |-> 6, VC |-> 7, HI |-> 8, LS |-> 9, GE |-> 10, LT |-> 11, GT |-> 12,
     LE |-> 13, AL |-> 14]
get_condition_code(c) == ConditionCodes[c]
get_cond_encoding(c) == IF c = "NV" THEN 15 ELSE ConditionCodes[c]
invert_condition_code(c) == IF c % 2 = 0 THEN c + 1 ELSE c - 1
\* stringToConditionCode: HS and LO, which get_condition_code accepts, are
\* UNKNOWN in the metadata.
stringToConditionCode(c) == IF c \in {"HS", "LO"} THEN "UNKNOWN" ELSE c
-----------------------------------------------------------------------------
(***************************************************************************)
(* Three registers.                                                        *)
(***************************************************************************)
ThreeRegs(op, w, rd, rn, rm) ==
    [Instr(op, patch(patch(patch(w, get_reg_encoding(rd), 0, 5),
                           get_reg_encoding(rn), 5, 5), get_reg_encoding(rm), 16, 5))
        EXCEPT !.dest_reg = get_reg_encoding(rd), !.src_reg1 = get_reg_encoding(rn),
               !.src_reg2 = get_reg_encoding(rm)]

\* The integer forms: all operands parse and are of one size.
IntegerOp(op, w, limit, xd, xn, xm) ==
    IF ParseAll({xd, xn, xm}, SpecialNames, limit) /\ SameSize({xd, xn, xm})
    THEN ThreeRegs(op, w, xd, xn, xm) ELSE Throw

create_add_reg(xd, xn, xm) == IntegerOp("ADD", Sized(Word(\h0B00, 0), xd), 30, xd, xn, xm)
create_and_reg(xd, xn, xm) == IntegerOp("AND", Sized(Word(\h0A00, 0), xd), 30, xd, xn, xm)
create_bic_reg(xd, xn, xm) == IntegerOp("BIC", Sized(Word(\h0A20, 0), xd), 30, xd, xn, xm)
\* Mutant: the size of the operands is not encoded.
create_sub_reg_no_sf(xd, xn, xm) == IntegerOp("SUB", Word(\h4B00, 0), 31, xd, xn, xm)
create_sub_reg(xd, xn, xm) == IntegerOp("SUB", Sized(Word(\h4B00, 0), xd), 31, xd, xn, xm)
\* No sf bit: the base opcode is used for both sizes.
create_orr_reg(xd, xn, xm) == IntegerOp("ORR", Word(\h2A00, 0), 31, xd, xn, xm)
create_sdiv_reg(xd, xn, xm) ==
    IntegerOp("SDIV", Sized(Word(\h1AC0, \h0C00), xd), 31, xd, xn, xm)
create_lsl_reg(xd, xn, xm) ==
    IntegerOp("LSL", Sized(Word(\h1AC0, \h2000), xd), 31, xd, xn, xm)
create_lsr_reg(xd, xn, xm) ==
    IntegerOp("LSR", Sized(Word(\h1AC0, \h2400), xd), 31, xd, xn, xm)
opt_create_asr_reg(xd, xn, xm) ==
    IntegerOp("ASR", Sized(Word(\h1AC0, \h1000), xd), 31, xd, xn, xm)
create_mul_reg(xd, xn, xm) ==
    LET i == IntegerOp("MUL", patch(Sized(Word(\h1B00, 0), xd), 31, 10, 5), 31, xd, xn, xm)
    IN  IF i.ok THEN [i EXCEPT !.ra_reg = 31] ELSE i

\* The floating-point and vector forms: any register get_reg_encoding knows,
\* of any class.
FpOp(op, w, rd, rn, rm) ==
    IF \A r \in {rd, rn, rm} : EncodesReg(r) THEN ThreeRegs(op, w, rd, rn, rm) ELSE Throw

create_fadd_reg(dd, dn, dm) == FpOp("FADD", Word(\h1E60, \h2800), dd, dn, dm)
create_fsub_reg(dd, dn, dm) == FpOp("FSUB", Word(\h1E20, \h3800), dd, dn, dm)
create_fmul_reg(dd, dn, dm) == FpOp("FMUL", Word(\h1E60, \h0800), dd, dn, dm)
create_fdiv_reg(dd, dn, dm) == FpOp("FDIV", Word(\h1E60, \h1800), dd, dn, dm)
create_add_vector_reg(vd, vn, vm) == FpOp("ADD_VECTOR", Word(\h4E20, \h8000), vd, vn, vm)
create_mul_vector_reg(vd, vn, vm) == FpOp("MUL_VECTOR", Word(\h4E20, \h9C00), vd, vn, vm)
create_fmul_vector_reg(vd, vn, vm) == FpOp("FMUL_VECTOR", Word(\h4E20, \h9000), vd, vn, vm)
create_fmla_vector_reg(vd, vn, vm) == FpOp("FMLA_VECTOR", Word(\h4E20, \h8000), vd, vn, vm)
\* Only FADD looks at the arrangement.
create_fadd_vector_reg(vd, vn, vm, arrangement) ==
    CASE arrangement = "4S" -> FpOp("FADD_VECTOR", Word(\h4E60, \h8400), vd, vn, vm)
      [] arrangement = "2D" -> FpOp("FADD_VECTOR", Word(\h4EA0, \h8400), vd, vn, vm)
      [] OTHER -> Throw

\* Multiply-add: four registers of one class, which must be s or d, and s is
\* then rejected by get_reg_encoding.
FusedOp(op, w, vd, vn, vm, va) ==
    IF vd[1] = "d" /\ \A r \in {vn, vm, va} : r[1] = "d"
    THEN [ThreeRegs(op, patch(patch(w, 1, 22, 2), va[2], 10, 5), vd, vn, vm)
             EXCEPT !.ra_reg = va[2]]
    ELSE Throw
opt_create_fmadd(vd, vn, vm, va) == FusedOp("FMADD", Word(\h1F00, 0), vd, vn, vm, va)
opt_create_fmsub(vd, vn, vm, va) == FusedOp("FMSUB", Word(\h1F00, \h8000), vd, vn, vm, va)

\* ADD with a shifted register.  The size is the first letter, so that sp
\* counts as a 32-bit register here and below (XSize).
XSize(r) == r[1] \in {"x", "xzr"}
opt_create_add_shifted_reg(rd, rn, rm, shift_type, shift_amount) ==
    LET code == [LSL |-> 0, LSR |-> 1, ASR |-> 2]
        w == patch(patch(IF XSize(rd) THEN patch(Word(\h0B00, 0), 1, 31, 1)
                                      ELSE Word(\h0B00, 0),
                         code[shift_type], 22, 2), shift_amount, 10, 6)
    IN  IF /\ \A r \in {rd, rn, rm} : EncodesReg(r)
           /\ \A r \in {rn, rm} : XSize(r) = XSize(rd)
           /\ shift_amount \in 0..(IF XSize(rd) THEN 63 ELSE 31)
           /\ shift_type \in DOMAIN code
        THEN [ThreeRegs("ADD", w, rd, rn, rm)
                 EXCEPT !.immediate = shift_amount, !.uses_immediate = TRUE]
        ELSE Throw

\* CSINV: a size mismatch is let through when wzr or xzr is an operand.
opt_create_csinv(rd, rn, rm, cond) ==
    LET w == IF XSize(rd) THEN patch(Word(\h5A80, 0), 1, 31, 1) ELSE Word(\h5A80, 0)
    IN  IF /\ \A r \in {rd, rn, rm} : EncodesReg(r)
           /\ \/ \A r \in {rn, rm} : XSize(r) = XSize(rd)
              \/ {rn[1], rm[1]} \cap {"wzr", "xzr"} # {}
           /\ cond \in DOMAIN ConditionCodes
        THEN ThreeRegs("CSINV", patch(w, get_condition_code(cond), 12, 4), rd, rn, rm)
        ELSE Throw
-----------------------------------------------------------------------------
(***************************************************************************)
(* Two registers, and one.                                                 *)
(***************************************************************************)
\* Rd at bit 0 and Rn at bit 5, with their metadata.
TwoRegs(op, w, rd, rn) ==
    [Instr(op, patch(patch(w, get_reg_encoding(rn), 5, 5), get_reg_encoding(rd), 0, 5))
        EXCEPT !.dest_reg = get_reg_encoding(rd), !.src_reg1 = get_reg_encoding(rn)]

\* MOV is ORR Rd, ZR, Rn: the source goes to Rm.
create_mov_reg(xd, xn) ==
    IF ParseAll({xd, xn}, SpecialNames, 31) /\ SameSize({xd, xn})
    THEN [Instr("MOV", patch(patch(patch(Sized(Word(\h2A00, 0), xd),
                                         get_reg_encoding(xd), 0, 5),
                                   get_reg_encoding(xn), 16, 5), 31, 5, 5))
             EXCEPT !.dest_reg = get_reg_encoding(xd), !.src_reg1 = get_reg_encoding(xn)]
    ELSE Throw
\* MVN: the sizes are not compared, and the number is only limited by
\* get_reg_encoding, which fills the metadata.
create_mvn_reg(xd, xm) ==
    IF ParseAll({xd, xm}, SpecialNames, 31)
    THEN [ThreeRegs("ORR", Sized(Word(\h2A20, \h0800), xd), xd, <<"xzr", 31>>, xm)
             EXCEPT !.src_reg1 = 31]
    ELSE Throw
create_mov_fp_sp == TwoRegs("MOV", Word(\h9100, 0), <<"x", 29>>, <<"sp", 31>>)
create_mov_sp_fp == TwoRegs("MOV", Word(\h9100, 0), <<"sp", 31>>, <<"x", 29>>)

create_cmp_reg(xn, xm) ==
    IF ParseAll({xn, xm}, SpecialNames, 31) /\ SameSize({xn, xm})
    THEN [ThreeRegs("CMP", Sized(Word(\h6B00, 0), xn), <<"xzr", 31>>, xn, xm)
             EXCEPT !.dest_reg = -1]
    ELSE Throw

FpPair(op, w, rd, rn) ==
    IF EncodesReg(rd) /\ EncodesReg(rn) THEN TwoRegs(op, w, rd, rn) ELSE Throw
\* FMOV is the one encoder that asks for a d register on both sides.
create_fmov_reg(dd, ds) ==
    IF dd[1] = "d" /\ ds[1] = "d" THEN FpPair("FMOV", Word(\h1E60, \h4000), dd, ds) ELSE Throw
create_fneg_reg(dd, dn) == FpPair("FMOV", Word(\h1E61, \h4000), dd, dn)
\* FSQRT alone numbers floating-point registers from 32 in the metadata.
create_fsqrt_reg(dd, dn) ==
    LET i == FpPair("FSQRT", Word(\h1E61, \hC000), dd, dn)
    IN  IF i.ok THEN [i EXCEPT !.dest_reg = @ + 32, !.src_reg1 = @ + 32] ELSE i
create_scvtf_reg(dd, xn) == FpPair("SCVTF", Word(\h9E62, 0), dd, xn)
create_fcvtzs_reg(xd, dn) == FpPair("FCVTZS", Word(\h9E78, 0), xd, dn)
create_fcvtms_reg(xd, dn) == FpPair("FCVTMS", Word(\h9E78, 0), xd, dn)
create_fcmp_reg(dn, dm) ==
    IF EncodesReg(dn) /\ EncodesReg(dm)
    THEN [Instr("FCMP", patch(patch(Word(\h1E60, \h2008), get_reg_encoding(dm), 16, 5),
                              get_reg_encoding(dn), 5, 5))
             EXCEPT !.src_reg1 = get_reg_encoding(dn), !.src_reg2 = get_reg_encoding(dm)]
    ELSE Throw

\* CSET and CSETM: Rn and Rm are the zero register, the condition inverted.
ConditionalSet(op, w, Rd, cond) ==
    IF Parses(Rd, {"wzr", "xzr"}, 31) /\ cond \in DOMAIN ConditionCodes
    THEN [Instr(op, patch(patch(patch(patch(Sized(w, Rd), get_reg_encoding(Rd), 0, 5),
                                      31, 5, 5), 31, 16, 5),
                          invert_condition_code(get_condition_code(cond)), 12, 4))
             EXCEPT !.dest_reg = get_reg_encoding(Rd), !.cond = stringToConditionCode(cond)]
    ELSE Throw
create_cset(Rd, cond) == ConditionalSet("CSET", Word(\h1A80, \h0400), Rd, cond)
create_csetm(Rd, cond) == ConditionalSet("CSETM", Word(\h5A80, 0), Rd, cond)
create_cset_eq(xd) == create_cset(xd, "EQ")
create_csetm_eq(xd) == create_csetm(xd, "EQ")
create_csetm_ne(xd) == create_csetm(xd, "NE")

\* Branches to a register take x registers only.
RegisterBranch(op, w, xn) ==
    IF xn[1] = "x" /\ xn[2] \in 0..31
    THEN [Instr(op, patch(w, xn[2], 5, 5)) EXCEPT !.src_reg1 = xn[2]] ELSE Throw
create_br_reg(xn) == RegisterBranch("BR", Word(\hD61F, 0), xn)
create_branch_with_link_register(xn) == RegisterBranch("BLR", Word(\hD63F, 0), xn)
create_return == RegisterBranch("RET", Word(\hD65F, 0), <<"x", 30>>)
-----------------------------------------------------------------------------
(***************************************************************************)
(* Immediates.                                                             *)
(***************************************************************************)
WithImm(i, imm) == [i EXCEPT !.immediate = imm, !.uses_immediate = TRUE]

AddSubImm(op, w, xd, xn, imm) ==
    IF imm \in 0..4095 /\ ParseAll({xd, xn}, SpecialNames, 31) /\ SameSize({xd, xn})
    THEN WithImm(TwoRegs(op, patch(Sized(w, xd), imm, 10, 12), xd, xn), imm) ELSE Throw
create_add_imm(xd, xn, imm) == AddSubImm("ADD", Word(\h1100, 0), xd, xn, imm)
create_sub_imm(xd, xn, imm) == AddSubImm("SUB", Word(\h5100, 0), xd, xn, imm)
create_cmp_imm(xn, imm) ==
    IF imm \in 0..4095 /\ Parses(xn, {"wsp", "sp"}, 31)
    THEN WithImm([TwoRegs("CMP", patch(Sized(Word(\h7100, 0), xn), imm, 10, 12),
                          <<"xzr", 31>>, xn) EXCEPT !.dest_reg = -1], imm)
    ELSE Throw

\* MOVZ and MOVK ignore their relocation and target parameters.
MoveWide(op, w, xd, imm, shift) ==
    IF /\ shift \in {0, 16, 32, 48} /\ Parses(xd, {"wzr", "xzr"}, 31)
       /\ Is64(xd) \/ shift \in {0, 16}
    THEN WithImm([Instr(op, patch(patch(patch(Sized(w, xd), shift \div 16, 21, 2), imm, 5, 16),
                                  get_reg_encoding(xd), 0, 5))
                     EXCEPT !.dest_reg = get_reg_encoding(xd)], imm)
    ELSE Throw
create_movz_imm(xd, imm, shift) == MoveWide("MOVZ", Word(\h5280, 0), xd, imm, shift)
create_movk_imm(xd, imm, shift) == MoveWide("MOVK", Word(\h7280, 0), xd, imm, shift)

\* A 64-bit address, given by its four 16-bit chunks, low first.
\* create_movz_movk_abs64 skips the zero chunks, and an address 0 is one MOVZ;
\* create_movz_movk_jit_addr always emits the four.
create_movz_movk_abs64(xd, chunks) ==
    LET used == {i \in 0..3 : chunks[i + 1] # 0}
        order == SetToSortSeq(used, <)
    IN  IF used = {} THEN <<create_movz_imm(xd, 0, 0)>>
        ELSE [k \in 1..Len(order) |->
                 IF k = 1 THEN create_movz_imm(xd, chunks[order[k] + 1], 16 * order[k])
                 ELSE create_movk_imm(xd, chunks[order[k] + 1], 16 * order[k])]
create_movz_movk_jit_addr(xd, chunks) ==
    <<create_movz_imm(xd, chunks[1], 0), create_movk_imm(xd, chunks[2], 16),
      create_movk_imm(xd, chunks[3], 32), create_movk_imm(xd, chunks[4], 48)>>

\* Bitfield moves: N repeats the size, immr at 16 and imms at 10.
Bitfield(w, is64, immr, imms) ==
    patch(patch(IF is64 THEN patch(patch(w, 1, 31, 1), 1, 22, 1) ELSE w, immr, 16, 6),
          imms, 10, 6)
LslImm(xd, xn, shift) ==
    LET size == IF Is64(xd) THEN 64 ELSE 32
    IN  IF ParseAll({xd, xn}, SpecialNames, 30) /\ SameSize({xd, xn}) /\ shift \in 0..(size-1)
        THEN WithImm(TwoRegs("LSL", Bitfield(Word(\h5300, 0), Is64(xd), (size - shift) % size,
                                             size - 1 - shift), xd, xn), shift)
        ELSE Throw
create_lsl_imm(xd, xn, shift) == LslImm(xd, xn, shift)
opt_create_lsl_imm(xd, xn, shift) == LslImm(xd, xn, shift)

FieldRegs(xd, xn) == EncodesReg(xd) /\ EncodesReg(xn) /\ XSize(xd) = XSize(xn)
SizeOf(xd) == IF XSize(xd) THEN 64 ELSE 32
opt_create_asr_imm(xd, xn, shift) ==
    IF FieldRegs(xd, xn) /\ shift \in 0..(SizeOf(xd) - 1)
    THEN WithImm(TwoRegs("ASR", Bitfield(Word(\h1300, 0), XSize(xd), shift, SizeOf(xd) - 1),
                         xd, xn), shift)
    ELSE Throw
Extract(op, w, xd, xn, lsb, width) ==
    IF /\ FieldRegs(xd, xn) /\ lsb \in 0..(SizeOf(xd) - 1)
       /\ width >= 1 /\ lsb + width <= SizeOf(xd)
    THEN WithImm(TwoRegs(op, Bitfield(w, XSize(xd), lsb, lsb + width - 1), xd, xn), lsb)
    ELSE Throw
opt_create_sbfx(xd, xn, lsb, width) == Extract("SBFX", Word(\h1300, 0), xd, xn, lsb, width)
opt_create_ubfx(xd, xn, lsb, width) == Extract("UBFX", Word(\h5300, 0), xd, xn, lsb, width)
opt_create_bfi(xd, xn, lsb, width) ==
    IF /\ FieldRegs(xd, xn) /\ lsb \in 0..(SizeOf(xd) - 1)
       /\ width \in 1..SizeOf(xd) /\ lsb + width <= SizeOf(xd)
    THEN WithImm(TwoRegs("BFI", Bitfield(Word(\h3300, 0), XSize(xd),
                                         (SizeOf(xd) - lsb) % SizeOf(xd), width - 1), xd, xn), lsb)
    ELSE Throw
\* encode_bitmask_immediate on the set of the one bits of a 64-bit value.  The
\* size-64 round shifts 1 by 64, which is undefined: the mask is 0, and the
\* round is skipped, or all ones, and every pattern is taken (fold).  A rotation
\* other than 0 is never reached: a value that repeats with the period of the
\* round equals its replication.
LowHalf(imm) == imm \cap (0..31)
HighHalf(imm) == {b - 32 : b \in imm \cap (32..63)}
encode_bitmask_immediate(imm, is64, fold) ==
    LET w == IF is64 THEN imm ELSE LowHalf(imm)
        width == IF is64 THEN 64 ELSE 32
        Pattern(size) == w \cap (0..(size-1))
        Mixed(size) == /\ Pattern(size) \notin {{}, 0..(size-1)}
                       /\ w = {b \in 0..(width-1) : b % size \in Pattern(size)}
        sizes == {s \in {2, 4, 8, 16, 32} \cup (IF is64 /\ fold THEN {64} ELSE {}) : Mixed(s)}
        size == Min(sizes)
        none == [ok |-> FALSE]
    IN  CASE ~is64 /\ HighHalf(imm) \notin {{}, 0..31, LowHalf(imm)} -> none
          [] OTHER ->
             CASE w \in {{}, 0..63} -> [ok |-> TRUE, imms |-> width - 1]
               [] w \notin {{}, 0..63} /\ sizes = {} -> none
               [] OTHER -> [ok |-> TRUE, imms |-> 64 - size + Cardinality(Pattern(size)) - 1]

LogicalImm(op, w, xd, xn, imm, fold) ==
    LET e == encode_bitmask_immediate(imm, XSize(xd), fold)
    IN  IF /\ EncodesReg(xd) /\ EncodesReg(xn)
           /\ XSize(xd) = XSize(xn) \/ "sp" \in {xd[1], xn[1]}
           /\ e.ok
        THEN [TwoRegs(op, Bitfield(w, XSize(xd), 0, e.imms), xd, xn)
                 EXCEPT !.uses_immediate = TRUE]
        ELSE Throw
opt_create_and_imm(xd, xn, imm, fold) == LogicalImm("AND", Word(\h1200, 0), xd, xn, imm, fold)
opt_create_orr_imm(xd, xn, imm, fold) == LogicalImm("ORR", Word(\h3200, 0), xd, xn, imm, fold)
opt_create_eor_imm(xd, xn, imm, fold) == LogicalImm("EOR", Word(\h5200, 0), xd, xn, imm, fold)

create_brk(imm) == WithImm(Instr("BRK", patch(Word(\hD420, 0), imm, 5, 16)), imm)
create_svc_imm(imm) == WithImm(Instr("SVC", patch(Word(\hD400, 1), imm, 5, 16)), imm)
create_nop == Instr("NOP", Word(\hD503, \h201F))
create_dmb == Instr("DMB", Word(\hD503, \h3BFF))
-----------------------------------------------------------------------------
(***************************************************************************)
(* Loads and stores: Rt at bit 0, the base at 5, the offset at 10.         *)
(***************************************************************************)
Access(op, w, rt, xn, imm12, imm) ==
    WithImm([Instr(op, patch(patch(patch(w, imm12, 10, 12), get_reg_encoding(xn), 5, 5),
                             get_reg_encoding(rt), 0, 5))
                EXCEPT !.base_reg = get_reg_encoding(xn), !.is_mem_op = TRUE], imm)
Load(op, w, rt, xn, imm12, imm) ==
    [Access(op, w, rt, xn, imm12, imm) EXCEPT !.dest_reg = get_reg_encoding(rt)]
Store(op, w, rt, xn, imm12, imm) ==
    [Access(op, w, rt, xn, imm12, imm) EXCEPT !.src_reg1 = get_reg_encoding(rt)]

Scale(xt) == IF Is64(xt) THEN 8 ELSE 4
ScaledOk(xt, xn, imm) ==
    /\ ParseAll({xt, xn}, SpecialNames, 31) /\ Is64(xn)
    /\ imm \in 0..(4095 * Scale(xt)) /\ imm % Scale(xt) = 0
create_ldr_imm(xt, xn, imm) ==
    IF ScaledOk(xt, xn, imm)
    THEN Load("LDR", Word(IF Is64(xt) THEN \hF940 ELSE \hB940, 0), xt, xn, imm \div Scale(xt), imm)
    ELSE Throw
create_str_imm(xt, xn, imm) ==
    IF ScaledOk(xt, xn, imm)
    THEN Store("STR", Word(IF Is64(xt) THEN \hF900 ELSE \hB900, 0), xt, xn, imm \div Scale(xt), imm)
    ELSE Throw
\* The word forms put the byte offset into the scaled field unscaled; STR
\* checks neither its registers' sizes nor the range of the offset.
create_ldr_word_imm(wt, xn, imm) ==
    IF imm \in 0..4095 /\ ParseAll({wt, xn}, SpecialNames, 31) /\ Is64(xn) /\ ~Is64(wt)
    THEN Load("LDR", Word(\hB940, 0), wt, xn, imm, imm) ELSE Throw
create_str_word_imm(wt, xn, imm) ==
    IF EncodesReg(wt) /\ EncodesReg(xn)
    THEN Store("STR", Word(\hB900, 0), wt, xn, imm, imm) ELSE Throw
create_ldrb_imm(xt, xn, imm) ==
    IF imm \in 0..4095 /\ ParseAll({xt, xn}, SpecialNames, 31) /\ Is64(xn)
    THEN Load("LDRB", Word(\h3940, 0), xt, xn, imm, imm) ELSE Throw
FpOffset(imm) == imm \in 0..32760 /\ imm % 8 = 0
create_ldr_fp_imm(dt, xn, imm) ==
    IF FpOffset(imm) /\ EncodesReg(dt) /\ EncodesReg(xn)
    THEN Load("LDR_FP", Word(\hFD40, 0), dt, xn, imm \div 8, imm) ELSE Throw
create_str_fp_imm(dt, xn, imm) ==
    IF FpOffset(imm) /\ EncodesReg(dt) /\ EncodesReg(xn)
    THEN Store("STR_FP", Word(\hFD00, 0), dt, xn, imm \div 8, imm) ELSE Throw
create_ldr_scaled_reg_64bit(xt, xn, xm, shift) ==
    IF /\ shift \in {0, 3} /\ ParseAll({xt, xn, xm}, SpecialNames, 31)
       /\ \A r \in {xt, xn, xm} : Is64(r)
    THEN [ThreeRegs("LDR", patch(Word(\hF860, \h6000), IF shift = 3 THEN 1 ELSE 0, 12, 1),
                    xt, xn, xm)
             EXCEPT !.base_reg = get_reg_encoding(xn), !.src_reg1 = get_reg_encoding(xm),
                    !.src_reg2 = -1, !.is_mem_op = TRUE]
    ELSE Throw
create_ld1_vector_reg(vt, xn) ==
    IF EncodesReg(vt) /\ EncodesReg(xn)
    THEN [TwoRegs("LD1_VECTOR", Word(\h4C40, \hCC00), vt, xn)
             EXCEPT !.src_reg1 = -1, !.base_reg = get_reg_encoding(xn), !.is_mem_op = TRUE]
    ELSE Throw

\* Pairs: Rt at 0, Rt2 at 10, the base at 5, the scaled 7-bit offset at 15.
Pair(op, w, xt1, xt2, xn, imm, scale) ==
    WithImm([Instr(op, patch(patch(patch(patch(w, imm \div scale, 15, 7),
                                         get_reg_encoding(xt2), 10, 5),
                                   get_reg_encoding(xn), 5, 5), get_reg_encoding(xt1), 0, 5))
                EXCEPT !.base_reg = get_reg_encoding(xn), !.is_mem_op = TRUE], imm)
LoadPair(w, xt1, xt2, xn, imm, scale) ==
    [Pair("LDP", w, xt1, xt2, xn, imm, scale)
        EXCEPT !.dest_reg = get_reg_encoding(xt1), !.src_reg1 = get_reg_encoding(xt2)]
StorePair(w, xt1, xt2, xn, imm, scale) ==
    [Pair("STP", w, xt1, xt2, xn, imm, scale)
        EXCEPT !.src_reg1 = get_reg_encoding(xt1), !.src_reg2 = get_reg_encoding(xt2)]
PairOk(xt1, xt2, xn, imm) ==
    /\ ParseAll({xt1, xt2, xn}, SpecialNames, 31) /\ SameSize({xt1, xt2}) /\ Is64(xn)
    /\ imm % Scale(xt1) = 0 /\ imm \div Scale(xt1) \in -64..63
create_ldp_imm(xt1, xt2, xn, imm) ==
    IF PairOk(xt1, xt2, xn, imm)
    THEN LoadPair(Word(IF Is64(xt1) THEN \hA940 ELSE \h2940, 0), xt1, xt2, xn, imm, Scale(xt1))
    ELSE Throw
create_ldp_post_imm(xt1, xt2, xn, imm) ==
    IF PairOk(xt1, xt2, xn, imm)
    THEN LoadPair(Word(IF Is64(xt1) THEN \hA840 ELSE \h2840, 0), xt1, xt2, xn, imm, Scale(xt1))
    ELSE Throw
\* The pre-indexed load is always the 64-bit form.
create_ldp_pre_imm(xt1, xt2, xn, imm) ==
    IF /\ \A r \in {xt1, xt2, xn} : EncodesReg(r)
       /\ imm % 8 = 0 /\ imm \div 8 \in -64..63
    THEN LoadPair(Word(\hA9C0, 0), xt1, xt2, xn, imm, 8) ELSE Throw
create_stp_imm(xt1, xt2, xn, imm) ==
    IF PairOk(xt1, xt2, xn, imm)
    THEN StorePair(Word(IF Is64(xt1) THEN \hA900 ELSE \h2900, 0), xt1, xt2, xn, imm, Scale(xt1))
    ELSE Throw
create_stp_pre_imm(xt1, xt2, xn, imm) ==
    IF PairOk(xt1, xt2, xn, imm)
    THEN StorePair(Word(IF Is64(xt1) THEN \hA980 ELSE \h2980, 0), xt1, xt2, xn, imm, Scale(xt1))
    ELSE Throw
-----------------------------------------------------------------------------
(***************************************************************************)
(* References to labels: the linker fills the offset in.                   *)
(***************************************************************************)
ToLabel(i, kind, label) == [i EXCEPT !.relocation = kind, !.target = label]

create_branch_unconditional(label) ==
    ToLabel(Instr("B", Word(\h1400, 0)), "PC_RELATIVE_26_BIT_OFFSET", label)
create_branch_with_link(label) ==
    ToLabel(Instr("BL", Word(\h9400, 0)), "PC_RELATIVE_26_BIT_OFFSET", label)
create_branch_conditional(cond, label) ==
    IF cond \in DOMAIN ConditionCodes
    THEN ToLabel([Instr("B_COND", patch(Word(\h5400, 0), get_condition_code(cond), 0, 4))
                     EXCEPT !.cond = stringToConditionCode(cond)],
                 "PC_RELATIVE_19_BIT_OFFSET", label)
    ELSE Throw
CompareBranch(op, w, xt, label) ==
    IF EncodesReg(xt)
    THEN ToLabel([Instr(op, patch(IF XSize(xt) THEN patch(w, 1, 31, 1) ELSE w,
                                  get_reg_encoding(xt), 0, 5))
                     EXCEPT !.src_reg1 = get_reg_encoding(xt)],
                 "PC_RELATIVE_19_BIT_OFFSET", label)
    ELSE Throw
opt_create_cbz(xt, label) == CompareBranch("CBZ", Word(\h3400, 0), xt, label)
opt_create_cbnz(xt, label) == CompareBranch("CBNZ", Word(\h3500, 0), xt, label)
create_adrp(xd, label) ==
    IF xd[1] = "x" /\ xd[2] \in 0..30
    THEN ToLabel([Instr("ADRP", patch(Word(\h9000, 0), xd[2], 0, 5)) EXCEPT !.dest_reg = xd[2]],
                 "PAGE_21_BIT_PC_RELATIVE", label)
    ELSE Throw
\* ADR names its register in the metadata only.
create_adr(xd, label) ==
    IF EncodesReg(xd)
    THEN ToLabel([Instr("ADR", Word(\h1000, 0)) EXCEPT !.dest_reg = get_reg_encoding(xd)],
                 "PAGE_21_BIT_PC_RELATIVE", label)
    ELSE Throw
create_add_literal(xd, xn, label) ==
    IF \A r \in {xd, xn} : r[1] \in {"xzr", "sp"} \/ (r[1] = "x" /\ r[2] \in 0..31)
    THEN ToLabel([TwoRegs("ADD", Word(\h9100, 0), xd, xn) EXCEPT !.uses_immediate = TRUE],
                 "ADD_12_BIT_UNSIGNED_OFFSET", label)
    ELSE Throw
=============================================================================
