-------------------------- MODULE EncoderRequests --------------------------
(***************************************************************************)
(* Requests to the encoders, grouped by their operands, each judged        *)
(* against the architecture: good says that the word the encoder returned  *)
(* is the one the request asks for, fits that every operand may stand      *)
(* where it stands, and meta that the metadata names what the word does.   *)
(***************************************************************************)
EXTENDS Encoders, A64

\* The register fields of a word, and of the size bit.
RdField(r) == <<0, 5, r[2]>>
RnField(r) == <<5, 5, r[2]>>
RmField(r) == <<16, 5, r[2]>>
RaField(r) == <<10, 5, r[2]>>
Wide(r) == SF(Is64(r))
Zero == <<"xzr", 31>>

\* The destination, the base and the immediate of the metadata are those of
\* the word.
MetadataTells(i) ==
    /\ i.dest_reg # -1 => i.dest_reg = Field(i.word, 0, 5)
    /\ i.is_mem_op => i.base_reg = Field(i.word, 5, 5)
    /\ i.opcode \in {"SUB", "CMP"} /\ i.uses_immediate => i.immediate = Field(i.word, 10, 12)
Judged(op, i, good, fits) ==
    [op |-> op, ok |-> TRUE, good |-> good, fits |-> fits, meta |-> MetadataTells(i)]
Rejected(op) == [op |-> op, ok |-> FALSE, good |-> FALSE, fits |-> FALSE, meta |-> TRUE]
\* A request and the word it should give.
Asked(op, i, mn, fields, fits) ==
    IF i.ok THEN Judged(op, i, i.word = Asm(mn, fields), fits) ELSE Rejected(op)

ThreeRegisters(rd, rn, rm) ==
    LET Ask(op, i, mn) ==
            Asked(op, i, mn, {Wide(rd), RdField(rd), RnField(rn), RmField(rm)},
                  \A r \in {rd, rn, rm} : OrZero(r))
    IN  {Ask("add_reg", create_add_reg(rd, rn, rm), "ADD"),
         Ask("and_reg", create_and_reg(rd, rn, rm), "AND"),
         Ask("bic_reg", create_bic_reg(rd, rn, rm), "BIC"),
         Ask("sub_reg", create_sub_reg(rd, rn, rm), "SUB"),
         Ask(IF Is64(rd) THEN "orr_reg_x" ELSE "orr_reg_w", create_orr_reg(rd, rn, rm), "ORR"),
         Ask("sdiv_reg", create_sdiv_reg(rd, rn, rm), "SDIV"),
         Ask("lsl_reg", create_lsl_reg(rd, rn, rm), "LSLV"),
         Ask("lsr_reg", create_lsr_reg(rd, rn, rm), "LSRV"),
         Ask("asr_reg", opt_create_asr_reg(rd, rn, rm), "ASRV"),
         Asked("mul_reg", create_mul_reg(rd, rn, rm), "MADD",
               {Wide(rd), RdField(rd), RnField(rn), RmField(rm), RaField(Zero)},
               \A r \in {rd, rn, rm} : OrZero(r)),
         Asked("ldr_scaled", create_ldr_scaled_reg_64bit(rd, rn, rm, 3), "LDRX_reg",
               {RdField(rd), RnField(rn), RmField(rm), <<12, 1, 1>>},
               OrZero(rd) /\ OrSP(rn) /\ OrZero(rm))}

ShiftedAndSelect(rd, rn, rm, n, cond) ==
    LET fits == /\ \A r \in {rd, rn, rm} : OrZero(r)
                /\ SameSize({rd, rn, rm})
    IN  {Asked("add_shifted", opt_create_add_shifted_reg(rd, rn, rm, "LSL", n), "ADD",
               {Wide(rd), RdField(rd), RnField(rn), RmField(rm), <<10, 6, n>>}, fits),
         Asked("csinv", opt_create_csinv(rd, rn, rm, cond), "CSINV",
               {Wide(rd), RdField(rd), RnField(rn), RmField(rm), <<12, 4, ConditionCodes[cond]>>}, fits)}

FloatingPoint(rd, rn, rm) ==
    LET Ask(op, i, mn) ==
            Asked(op, i, mn, {RdField(rd), RnField(rn), RmField(rm)}, \A r \in {rd, rn, rm} : IsFp(r))
    IN  {Ask("fadd_reg", create_fadd_reg(rd, rn, rm), "FADD"),
         Ask("fsub_reg", create_fsub_reg(rd, rn, rm), "FSUB"),
         Ask("fmul_reg", create_fmul_reg(rd, rn, rm), "FMUL"),
         Ask("fdiv_reg", create_fdiv_reg(rd, rn, rm), "FDIV"),
         Ask("add_vector", create_add_vector_reg(rd, rn, rm), "ADD_4S"),
         Ask("mul_vector", create_mul_vector_reg(rd, rn, rm), "MUL_4S"),
         Ask("fmul_vector", create_fmul_vector_reg(rd, rn, rm), "FMUL_4S"),
         Ask("fmla_vector", create_fmla_vector_reg(rd, rn, rm), "FMLA_4S"),
         Ask("fadd_vector", create_fadd_vector_reg(rd, rn, rm, "4S"), "FADD_4S"),
         Ask("fadd_vector", create_fadd_vector_reg(rd, rn, rm, "2D"), "FADD_2D"),
         Asked("fmadd", opt_create_fmadd(rd, rn, rm, rd), "FMADD",
               {RdField(rd), RnField(rn), RmField(rm), RaField(rd)}, TRUE),
         Asked("fmsub", opt_create_fmsub(rd, rn, rm, rd), "FMSUB",
               {RdField(rd), RnField(rn), RmField(rm), RaField(rd)}, TRUE)}

TwoFp(rd, rn) ==
    LET Ask(op, i, mn, fits) == Asked(op, i, mn, {RdField(rd), RnField(rn)}, fits)
        both == IsFp(rd) /\ IsFp(rn)
        toX == rd[1] \in {"x", "xzr"} /\ OrZero(rd) /\ IsFp(rn)
    IN  {Ask("fmov_reg", create_fmov_reg(rd, rn), "FMOV", both),
         Ask("fneg_reg", create_fneg_reg(rd, rn), "FNEG", both),
         Ask("fsqrt_reg", create_fsqrt_reg(rd, rn), "FSQRT", both),
         Ask("scvtf_reg", create_scvtf_reg(rd, rn), "SCVTF",
             IsFp(rd) /\ rn[1] \in {"x", "xzr"} /\ OrZero(rn)),
         Ask("fcvtzs_reg", create_fcvtzs_reg(rd, rn), "FCVTZS", toX),
         Ask("fcvtms_reg", create_fcvtms_reg(rd, rn), "FCVTMS", toX),
         Asked("fcmp_reg", create_fcmp_reg(rd, rn), "FCMP", {RnField(rd), RmField(rn)}, both),
         Ask("ld1_vector", create_ld1_vector_reg(rd, rn), "LD1_4S",
             IsFp(rd) /\ rn[1] \in {"x", "sp"} /\ OrSP(rn))}

TwoRegisters(rd, rn) ==
    LET fits == OrZero(rd) /\ OrZero(rn) /\ SameSize({rd, rn})
    IN  {Asked("mov_reg", create_mov_reg(rd, rn), "ORR",
               {Wide(rd), RdField(rd), RnField(Zero), RmField(rn)}, fits),
         Asked("mvn_reg", create_mvn_reg(rd, rn), "ORN",
               {Wide(rd), RdField(rd), RnField(Zero), RmField(rn)}, fits),
         Asked("cmp_reg", create_cmp_reg(rd, rn), "SUBS",
               {Wide(rd), RdField(Zero), RnField(rd), RmField(rn)}, fits),
         Asked("add_literal", create_add_literal(rd, rn, <<"L", 0>>), "ADDI",
               {SF(TRUE), RdField(rd), RnField(rn)}, OrSP(rd) /\ OrSP(rn))}

OneRegister(r, cond, label) ==
    LET fits == OrZero(r)
        whole == r[1] = "x" /\ r[2] <= 30
        Set(op, i, mn, c) ==
            Asked(op, i, mn, {Wide(r), RdField(r), RnField(Zero), RmField(Zero),
                              <<12, 4, invert_condition_code(ConditionCodes[c])>>}, fits)
    IN  {Set("cset", create_cset(r, cond), "CSINC", cond),
         Set("csetm", create_csetm(r, cond), "CSINV", cond),
         Set("cset_eq", create_cset_eq(r), "CSINC", "EQ"),
         Set("csetm_eq", create_csetm_eq(r), "CSINV", "EQ"),
         Set("csetm_ne", create_csetm_ne(r), "CSINV", "NE"),
         Asked("br_reg", create_br_reg(r), "BR", {RnField(r)}, whole),
         Asked("blr_reg", create_branch_with_link_register(r), "BLR", {RnField(r)}, whole),
         Asked("cbz", opt_create_cbz(r, label), "CBZ", {Wide(r), RdField(r)}, fits),
         Asked("cbnz", opt_create_cbnz(r, label), "CBNZ", {Wide(r), RdField(r)}, fits),
         Asked("adrp", create_adrp(r, label), "ADRP", {RdField(r)}, whole),
         Asked(IF r[2] = 0 THEN "adr_0" ELSE "adr", create_adr(r, label), "ADR", {RdField(r)}, whole)}

WithImmediate(rd, rn, imm) ==
    LET bases == OrSP(rd) /\ OrSP(rn)
        memory == OrZero(rd) /\ OrSP(rn) /\ Is64(rn)
        Ask(op, i, mn, scaled, fits) == Asked(op, i, mn, {RdField(rd), RnField(rn), <<10, 12, scaled>>}, fits)
        word == IF imm = 0 THEN "" ELSE "_offset"
    IN  {Asked("add_imm", create_add_imm(rd, rn, imm), "ADDI",
               {Wide(rd), RdField(rd), RnField(rn), <<10, 12, imm>>}, bases),
         Asked("sub_imm", create_sub_imm(rd, rn, imm), "SUBI",
               {Wide(rd), RdField(rd), RnField(rn), <<10, 12, imm>>}, bases),
         Asked("cmp_imm", create_cmp_imm(rn, imm), "SUBSI",
               {Wide(rn), RdField(Zero), RnField(rn), <<10, 12, imm>>}, OrSP(rn)),
         Ask("ldr_imm", create_ldr_imm(rd, rn, imm), IF Is64(rd) THEN "LDRX" ELSE "LDRW",
             imm \div Scale(rd), memory),
         Ask("str_imm", create_str_imm(rd, rn, imm), IF Is64(rd) THEN "STRX" ELSE "STRW",
             imm \div Scale(rd), memory),
         Ask("ldr_word" \o word, create_ldr_word_imm(rd, rn, imm), "LDRW", imm \div 4,
             memory /\ imm % 4 = 0),
         Ask("str_word" \o word, create_str_word_imm(rd, rn, imm), "STRW", imm \div 4,
             memory /\ ~Is64(rd) /\ imm % 4 = 0 /\ imm <= 4 * 4095),
         Ask("ldrb_imm", create_ldrb_imm(rd, rn, imm), "LDRB", imm, memory),
         Ask("ldr_fp", create_ldr_fp_imm(<<"d", rd[2]>>, rn, imm), "LDRD", imm \div 8,
             OrSP(rn) /\ Is64(rn)),
         Ask("str_fp", create_str_fp_imm(<<"d", rd[2]>>, rn, imm), "STRD", imm \div 8,
             OrSP(rn) /\ Is64(rn))}

Pairs(r1, r2, rn, imm) ==
    LET Ask(op, i, mn) ==
            Asked(op, i, mn, {Wide(r1), RdField(r1), RaField(r2), RnField(rn), <<15, 7, imm \div Scale(r1)>>},
                  OrZero(r1) /\ OrZero(r2) /\ OrSP(rn) /\ Is64(rn) /\ Is64(r1) = Is64(r2))
        wide == Is64(r1) /\ Is64(r2)
    IN  {Ask("ldp_imm", create_ldp_imm(r1, r2, rn, imm), "LDP"),
         Ask("ldp_post", create_ldp_post_imm(r1, r2, rn, imm), "LDP_post"),
         Ask("stp_imm", create_stp_imm(r1, r2, rn, imm), "STP"),
         Ask("stp_pre", create_stp_pre_imm(r1, r2, rn, imm), "STP_pre")}
        \cup IF wide THEN {Ask("ldp_pre", create_ldp_pre_imm(r1, r2, rn, imm), "LDP_pre")} ELSE {}

\* A bitfield move is judged by what it moves, and where.
Moved(op, i, mn, rd, rn, want) ==
    IF ~i.ok THEN Rejected(op)
    ELSE LET immr == Field(i.word, 16, 6)
             imms == Field(i.word, 10, 6)
         IN  Judged(op, i, /\ BitfieldMove(immr, imms, IF Is64(rd) THEN 64 ELSE 32) = want
                           /\ i.word = Asm(mn, {Wide(rd), RdField(rd), RnField(rn), <<16, 6, immr>>,
                                                    <<10, 6, imms>>, <<22, 1, Wide(rd)[3]>>}),
                    OrZero(rd) /\ OrZero(rn))
Bitfields(rd, rn, lsb, width) ==
    LET size == IF Is64(rd) THEN 64 ELSE 32
        move(from, to, count) == [from |-> from, to |-> to, count |-> count]
    IN  {Moved("lsl_imm", create_lsl_imm(rd, rn, lsb), "UBFM", rd, rn, move(0, lsb, size - lsb)),
         Moved("lsl_imm", opt_create_lsl_imm(rd, rn, lsb), "UBFM", rd, rn,
               move(0, lsb, size - lsb)),
         Moved("asr_imm", opt_create_asr_imm(rd, rn, lsb), "SBFM", rd, rn,
               move(lsb, 0, size - lsb)),
         Moved("sbfx", opt_create_sbfx(rd, rn, lsb, width), "SBFM", rd, rn, move(lsb, 0, width)),
         Moved("ubfx", opt_create_ubfx(rd, rn, lsb, width), "UBFM", rd, rn, move(lsb, 0, width)),
         Moved("bfi", opt_create_bfi(rd, rn, lsb, width), "BFM", rd, rn, move(0, lsb, width))}

\* A logical immediate is judged by the value it stands for.
Logical(rd, rn, imm, fold) ==
    LET size == IF Is64(rd) THEN 64 ELSE 32
        value == imm \cap (0..(size-1))
        lowOnes == fold /\ XSize(rd) /\ \E n \in 1..63 : imm = 0..(n-1)
        suffix == IF lowOnes THEN "_low_ones" ELSE ""
        Ask(op, i, mn) ==
            IF ~i.ok THEN Rejected(op)
            ELSE LET n == Field(i.word, 22, 1)
                     immr == Field(i.word, 16, 6)
                     imms == Field(i.word, 10, 6)
                 IN  Judged(op, i, /\ DecodeBitMask(n, immr, imms, size) = value
                                   /\ value # {}
                                   /\ i.word = Asm(mn, {Wide(rd), RdField(rd), RnField(rn), <<22, 1, n>>,
                                                            <<16, 6, immr>>, <<10, 6, imms>>}),
                            OrSP(rd) /\ OrZero(rn) /\ Is64(rd) = Is64(rn))
    IN  {Ask("and_imm" \o suffix, opt_create_and_imm(rd, rn, imm, fold), "ANDI"),
         Ask("orr_imm" \o suffix, opt_create_orr_imm(rd, rn, imm, fold), "ORRI"),
         Ask("eor_imm" \o suffix, opt_create_eor_imm(rd, rn, imm, fold), "EORI")}

\* A chain of MOVZ and MOVK is judged by the value it builds.
Chain(op, is, xd, chunks) ==
    IF \E k \in DOMAIN is : ~is[k].ok THEN Rejected(op)
    ELSE Judged(op, is[1], /\ WideValue([k \in DOMAIN is |-> is[k].word]) = chunks
                           /\ \A k \in DOMAIN is : Field(is[k].word, 0, 5) = xd[2],
                OrZero(xd) /\ Is64(xd))
MoveWideRequests(xd, chunks, shift) ==
    {Chain("movz_movk_abs64", create_movz_movk_abs64(xd, chunks), xd, chunks),
     Chain("movz_movk_jit_addr", create_movz_movk_jit_addr(xd, chunks), xd, chunks),
     Asked("movz_imm", create_movz_imm(xd, chunks[1], shift), "MOVZ",
           {Wide(xd), RdField(xd), <<5, 16, chunks[1]>>, <<21, 2, shift \div 16>>}, OrZero(xd)),
     Asked("movk_imm", create_movk_imm(xd, chunks[1], shift), "MOVK",
           {Wide(xd), RdField(xd), <<5, 16, chunks[1]>>, <<21, 2, shift \div 16>>}, OrZero(xd))}

NoOperands(imm, cond, label) ==
    LET fp == <<"x", 29>>
        sp == <<"sp", 31>>
    IN  {Asked("mov_fp_sp", create_mov_fp_sp, "ADDI", {Wide(fp), RdField(fp), RnField(sp)}, TRUE),
         Asked("mov_sp_fp", create_mov_sp_fp, "ADDI", {Wide(fp), RdField(sp), RnField(fp)}, TRUE),
         Asked("return", create_return, "RET", {RnField(<<"x", 30>>)}, TRUE),
         Asked("brk", create_brk(imm), "BRK", {<<5, 16, imm>>}, TRUE),
         Asked("svc", create_svc_imm(imm), "SVC", {<<5, 16, imm>>}, TRUE),
         Asked("nop", create_nop, "NOP", {}, TRUE),
         Asked("dmb", create_dmb, "DMB_ISH", {}, TRUE),
         Asked("b", create_branch_unconditional(label), "B", {}, TRUE),
         Asked("bl", create_branch_with_link(label), "BL", {}, TRUE),
         Asked("b_cond", create_branch_conditional(cond, label), "B_cond",
               {<<0, 4, ConditionCodes[cond]>>}, TRUE)}

\* The requests whose word is not the one asked for, whatever fits.
WrongEncodings ==
    {"asr_reg", "orr_reg_x", "mvn_reg", "fsub_reg", "fcmp_reg", "fcvtms_reg", "adr",
     "ldr_word_offset", "str_word_offset", "ldr_scaled", "ldp_post", "dmb", "add_vector",
     "mul_vector", "fmul_vector", "fmla_vector", "fadd_vector", "ld1_vector",
     "and_imm", "orr_imm", "eor_imm"}
=============================================================================
