-------------------------------- MODULE A64 --------------------------------
(***************************************************************************)
(* The A64 instruction set, as far as the encoders claim to produce it:    *)
(* the encodings of the Arm Architecture Reference Manual, against which   *)
(* the words of Encoders are judged, and the effect of the instructions    *)
(* that the peephole optimizer rewrites.  None of this is in the           *)
(* repository; it is the processor that runs its output.                   *)
(***************************************************************************)
EXTENDS BitPatcher, Sequences, SequencesExt

\* The fixed bits of each encoding, without the size bit.
Base ==
    [ADD |-> Word(\h0B00, 0), AND |-> Word(\h0A00, 0), BIC |-> Word(\h0A20, 0),
     SUB |-> Word(\h4B00, 0), SUBS |-> Word(\h6B00, 0), ORR |-> Word(\h2A00, 0),
     ORN |-> Word(\h2A20, 0), SDIV |-> Word(\h1AC0, \h0C00), LSLV |-> Word(\h1AC0, \h2000),
     LSRV |-> Word(\h1AC0, \h2400), ASRV |-> Word(\h1AC0, \h2800), MADD |-> Word(\h1B00, 0),
     CSINC |-> Word(\h1A80, \h0400), CSINV |-> Word(\h5A80, 0),
     FADD |-> Word(\h1E60, \h2800), FSUB |-> Word(\h1E60, \h3800),
     FMUL |-> Word(\h1E60, \h0800), FDIV |-> Word(\h1E60, \h1800),
     FMADD |-> Word(\h1F40, 0), FMSUB |-> Word(\h1F40, \h8000),
     FMOV |-> Word(\h1E60, \h4000), FNEG |-> Word(\h1E61, \h4000),
     FSQRT |-> Word(\h1E61, \hC000), SCVTF |-> Word(\h9E62, 0), FCVTZS |-> Word(\h9E78, 0),
     FCVTMS |-> Word(\h9E70, 0), FCMP |-> Word(\h1E60, \h2000),
     ADD_4S |-> Word(\h4EA0, \h8400), MUL_4S |-> Word(\h4EA0, \h9C00),
     FMUL_4S |-> Word(\h6E20, \hDC00), FMLA_4S |-> Word(\h4E20, \hCC00),
     FADD_4S |-> Word(\h4E20, \hD400), FADD_2D |-> Word(\h4E60, \hD400),
     LD1_4S |-> Word(\h4C40, \h7800),
     ADDI |-> Word(\h1100, 0), SUBI |-> Word(\h5100, 0), SUBSI |-> Word(\h7100, 0),
     MOVZ |-> Word(\h5280, 0), MOVK |-> Word(\h7280, 0),
     SBFM |-> Word(\h1300, 0), BFM |-> Word(\h3300, 0), UBFM |-> Word(\h5300, 0),
     ANDI |-> Word(\h1200, 0), ORRI |-> Word(\h3200, 0), EORI |-> Word(\h5200, 0),
     BRK |-> Word(\hD420, 0), SVC |-> Word(\hD400, 1), NOP |-> Word(\hD503, \h201F),
     DMB_ISH |-> Word(\hD503, \h3BBF), BR |-> Word(\hD61F, 0), BLR |-> Word(\hD63F, 0),
     RET |-> Word(\hD65F, 0), LDRX |-> Word(\hF940, 0), LDRW |-> Word(\hB940, 0),
     STRX |-> Word(\hF900, 0), STRW |-> Word(\hB900, 0), LDRB |-> Word(\h3940, 0),
     LDRD |-> Word(\hFD40, 0), STRD |-> Word(\hFD00, 0), LDRX_reg |-> Word(\hF860, \h6800),
     LDP |-> Word(\h2940, 0), LDP_post |-> Word(\h28C0, 0), LDP_pre |-> Word(\h29C0, 0),
     STP |-> Word(\h2900, 0), STP_pre |-> Word(\h2980, 0),
     B |-> Word(\h1400, 0), BL |-> Word(\h9400, 0), B_cond |-> Word(\h5400, 0),
     CBZ |-> Word(\h3400, 0), CBNZ |-> Word(\h3500, 0), ADRP |-> Word(\h9000, 0),
     ADR |-> Word(\h1000, 0)]

\* The word with the given fields, each a triple of position, width and value.
Asm(mn, fields) == Base[mn] \cup UNION {BitsAt(f[3], f[1], f[2]) : f \in fields}
SF(is64) == <<31, 1, IF is64 THEN 1 ELSE 0>>

\* Register number 31 is the stack pointer in some operand positions and the
\* zero register in the others.
IsGeneral(r) == r[1] \in {"x", "w"} /\ r[2] \in 0..30
OrZero(r) == IsGeneral(r) \/ r[1] \in {"xzr", "wzr"}
OrSP(r) == IsGeneral(r) \/ r[1] \in {"sp", "wsp"}
IsFp(r) == r[1] \in {"d", "v"}

\* What a bitfield move of immr and imms does on a size-bit register: the
\* source bits it takes, and where their lowest goes.
BitfieldMove(immr, imms, size) ==
    IF imms >= immr THEN [from |-> immr, to |-> 0, count |-> imms - immr + 1]
    ELSE [from |-> 0, to |-> size - immr, count |-> imms + 1]

\* The value of a logical immediate, the set of its one bits; {} stands for
\* the reserved encodings.
DecodeBitMask(n, immr, imms, size) ==
    LET zeros == {i \in 0..5 : (imms \div 2^i) % 2 = 0}
        len == IF n = 1 THEN 6 ELSE IF zeros = {} THEN 0 ELSE Max(zeros)
        esize == 2^len
        ones == (imms % esize) + 1
    IN  IF len = 0 \/ esize > size \/ ones = esize THEN {}
        ELSE {b \in 0..(size-1) : ((b % esize) + immr) % esize < ones}

\* A chain of MOVZ and MOVK leaves these 16-bit chunks in its register.
WideValue(words) ==
    FoldLeft(LAMBDA chunks, w :
                LET hw == Field(w, 21, 2) + 1
                IN  [i \in 1..4 |-> IF i = hw THEN Field(w, 5, 16)
                                    ELSE IF {29, 30} \subseteq w THEN chunks[i] ELSE 0],
             <<0, 0, 0, 0>>, words)
-----------------------------------------------------------------------------
(***************************************************************************)
(* A processor with registers of two halves: Half stands for 2^32.  A w    *)
(* register is the low half; writing it clears the high one.  Memory is    *)
(* made of halves, 4 bytes apart, and holds a value of its own at every    *)
(* address not yet written.                                                *)
(***************************************************************************)
Half == 8192
Machine == [x |-> [n \in 0..30 |-> Half * (n + 1) + 128 * n + 64], sp |-> Half * 40 + 256,
            mem |-> <<>>, seen |-> <<>>]

ReadZR(m, n) == IF n = 31 THEN 0 ELSE m.x[n]
ReadSP(m, n) == IF n = 31 THEN m.sp ELSE m.x[n]
WriteZR(m, n, v) == IF n = 31 THEN m ELSE [m EXCEPT !.x[n] = v]
WriteSP(m, n, v) == IF n = 31 THEN [m EXCEPT !.sp = v] ELSE [m EXCEPT !.x[n] = v]
Sized64(w, v) == IF 31 \in w THEN v % (Half * Half) ELSE v % Half
MemAt(m, a) == IF a \in DOMAIN m.mem THEN m.mem[a] ELSE (3 * a + 1) % Half

Is(w, mn, free) == w \ free = Base[mn]
ImmForm == {31} \cup (0..21)
\* One instruction; what is not one of these leaves its word in seen.
Exec(m, w) ==
    LET rd == Field(w, 0, 5)
        rn == Field(w, 5, 5)
        imm == Field(w, 10, 12)
        addr == ReadSP(m, rn) + imm * (IF 30 \in w THEN 8 ELSE 4)
    IN  CASE Is(w, "ADDI", ImmForm) -> WriteSP(m, rd, Sized64(w, ReadSP(m, rn) + imm))
          [] Is(w, "SUBI", ImmForm) ->
                WriteSP(m, rd, Sized64(w, ReadSP(m, rn) + Half * Half - imm))
          [] Is(w, "ADD", {31} \cup (0..9) \cup (16..20)) ->
                WriteZR(m, rd, Sized64(w, ReadZR(m, rn) + ReadZR(m, Field(w, 16, 5))))
          [] Is(w, "ORR", {31} \cup (0..4) \cup (16..20) \cup (5..9)) /\ rn = 31 ->
                WriteZR(m, rd, Sized64(w, ReadZR(m, Field(w, 16, 5))))
          [] Is(w, "LDRW", 0..21) -> WriteZR(m, rd, MemAt(m, addr))
          [] Is(w, "LDRX", 0..21) ->
                WriteZR(m, rd, MemAt(m, addr) + Half * MemAt(m, addr + 4))
          [] Is(w, "STRW", 0..21) ->
                [m EXCEPT !.mem = (addr :> (ReadZR(m, rd) % Half)) @@ @]
          [] Is(w, "STRX", 0..21) ->
                [m EXCEPT !.mem = (addr :> (ReadZR(m, rd) % Half))
                                  @@ ((addr + 4) :> (ReadZR(m, rd) \div Half)) @@ @]
          [] OTHER -> [m EXCEPT !.seen = Append(@, w)]
Run(words) == FoldLeft(Exec, Machine, words)
=============================================================================
