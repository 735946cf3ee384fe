------------------------------- MODULE BackEnd -------------------------------
(***************************************************************************)
(* The back end, from the first emitted instruction to the memory the JIT  *)
(* executes (main.cpp): the code generator fills the instruction stream    *)
(* and registers literals, the read-only section follows, the peephole     *)
(* optimizer rewrites the stream, the linker gives addresses (once for an  *)
(* assembly file, once more for the JIT), and the words are copied.        *)
(*                                                                         *)
(* Focus selects what one compilation draws from: single requests to the   *)
(* encoders and to the linker's relocation, straight-line code for the     *)
(* optimizer, or whole programs.                                           *)
(***************************************************************************)
EXTENDS Linker, Peephole, EncoderRequests

CONSTANTS
    Registers, FpRegisters, BaseRegisters,  \* operands of the requests
    Immediates, Conditions, ShiftAmounts,
    BitPatterns, AddressChunks,
    Distances,          \* byte distances for the relocation requests
    WindowMenu,         \* instructions of the straight-line programs
    MaxWindow,          \* length of such a program
    UserRoutines,       \* names the program defines, and calls
    Strings, Floats, Lists,   \* its literals
    MaxOps,             \* operations of the code generator in one program
    CodeBase, DataBase, \* where the JIT buffers are
    MaxPasses           \* max_passes of the peephole optimizer

\* Instructions are at multiples of four: so far apart are two of them.
ASSUME DistancesAssumption == CodeBase \in Nat /\ \A d \in Distances : d \in Int /\ d % 4 = 0
\* The buffers are pages of the operating system, and functions are aligned.
ASSUME BuffersAssumption ==
    /\ CodeBase % 4 = 0 /\ DataBase \in Nat /\ DataBase % 4 = 0
    /\ \A f \in Range(RuntimeFunctions) : RuntimeAddress[f] \in Nat /\ RuntimeAddress[f] % 4 = 0
\* Strings decode, in a list too, and lists are nested to MaxListDepth.
Decodes(bytes) == utf8_to_utf32(bytes) \in Seq(Nat)
Flat(list) ==
    list \in Seq(Range(list)) /\ \A e \in Range(list) : e.t = "string" => Decodes(e.v)
ASSUME LiteralsAssumption ==
    /\ \A str \in Strings : Decodes(str.bytes)
    /\ \A list \in Lists : Flat(list) /\ \A e \in Range(list) : e.t = "list" => Flat(e.v)

VARIABLES
    focus,      \* "encode", "relocate", "window" or "program"
    phase,      \* where the driver is
    request,    \* the judged request of the first two foci
    stream,     \* InstructionStream::instructions_
    data,       \* DataGenerator
    ops,        \* operations of the code generator so far
    asked,      \* literals asked for: label, kind and value
    source,     \* the stream before the optimizer
    pos, passes, changed,  \* the optimizer's loops
    labels,     \* LabelManager::defined_labels_
    linked,     \* the finalized instructions
    image       \* JIT memory, address to word

vars == <<focus, phase, request, stream, data, ops, asked, source, pos, passes, changed,
          labels, linked, image>>
optimizer == <<source, pos, passes, changed>>
linker == <<labels, linked, image>>
None == [op |-> "none", ok |-> FALSE, good |-> FALSE, fits |-> FALSE, meta |-> TRUE]

Init ==
    /\ focus \in {"encode", "relocate", "window", "program"}
    /\ phase = "generate" /\ request = None
    /\ stream = <<>> /\ data = NewData /\ ops = 0 /\ asked = {}
    /\ source = <<>> /\ pos = 1 /\ passes = 0 /\ changed = FALSE
    /\ labels = <<>> /\ linked = <<>> /\ image = <<>>
-----------------------------------------------------------------------------
(***************************************************************************)
(* Single requests.                                                        *)
(***************************************************************************)
Requested(set) ==
    /\ focus = "encode" /\ phase = "generate"
    /\ request' \in set
    /\ phase' = "done"
    /\ UNCHANGED <<focus, stream, data, ops, asked, optimizer, linker>>
AnyLabel == <<"L", 0>>

EncodeThree ==
    \E rd, rn, rm \in Registers :
        Requested(ThreeRegisters(rd, rn, rm)
                  \cup UNION {ShiftedAndSelect(rd, rn, rm, n, c) :
                                 n \in ShiftAmounts, c \in Conditions})
EncodeFp == \E rd, rn, rm \in FpRegisters : Requested(FloatingPoint(rd, rn, rm))
EncodeTwoFp ==
    \E rd, rn \in FpRegisters \cup BaseRegisters : Requested(TwoFp(rd, rn))
EncodeTwo == \E rd, rn \in Registers : Requested(TwoRegisters(rd, rn))
EncodeOne ==
    \E r \in Registers, c \in DOMAIN ConditionCodes : Requested(OneRegister(r, c, AnyLabel))
EncodeImmediate ==
    \E rd, rn \in Registers, imm \in Immediates : Requested(WithImmediate(rd, rn, imm))
EncodePair ==
    \E r1, r2 \in Registers, rn \in BaseRegisters, imm \in {-512, -16, 0, 16, 504, 512} :
        Requested(Pairs(r1, r2, rn, imm))
EncodeBitfield ==
    \E rd, rn \in Registers, lsb, width \in ShiftAmounts : Requested(Bitfields(rd, rn, lsb, width))
EncodeLogical ==
    \E rd, rn \in Registers, imm \in BitPatterns, fold \in BOOLEAN :
        Requested(Logical(rd, rn, imm, fold))
EncodeMoveWide ==
    \E xd \in Registers, chunks \in AddressChunks, shift \in {0, 16, 32, 48} :
        Requested(MoveWideRequests(xd, chunks, shift))
EncodeOther ==
    \E imm \in Immediates, c \in DOMAIN ConditionCodes : Requested(NoOperands(imm, c, AnyLabel))

\* What a branch of the given kind reaches from pc.
Reached(w, pc, kind) ==
    pc + 4 * (IF kind = "PC_RELATIVE_26_BIT_OFFSET" THEN SignedField(w, 0, 26)
              ELSE SignedField(w, 5, 19))
InRange(pc, target, kind) ==
    LET reach == IF kind = "PC_RELATIVE_26_BIT_OFFSET" THEN 2^27 ELSE 2^20
    IN  target - pc >= -reach /\ target - pc < reach
\* One relocation of a branch at CodeBase.
RelocateOne ==
    /\ focus = "relocate" /\ phase = "generate"
    /\ \E d \in Distances :
       \E i \in {create_branch_with_link(AnyLabel), create_branch_conditional("EQ", AnyLabel),
                 opt_create_cbz(<<"x", 9>>, AnyLabel)} :
          LET w == apply_pc_relative_relocation(i.word, CodeBase, CodeBase + d, i.relocation)
          IN  request' = [op |-> i.opcode, ok |-> TRUE,
                          good |-> Reached(w, CodeBase, i.relocation) = CodeBase + d,
                          fits |-> InRange(CodeBase, CodeBase + d, i.relocation), meta |-> TRUE]
    /\ phase' = "done"
    /\ UNCHANGED <<focus, stream, data, ops, asked, optimizer, linker>>
-----------------------------------------------------------------------------
(***************************************************************************)
(* The code generator's operations on the stream and the data generator.   *)
(***************************************************************************)
Generating(kind, bound) == focus = kind /\ phase = "generate" /\ ops < bound
Generated == /\ ops' = ops + 1
             /\ UNCHANGED <<focus, phase, request, optimizer, linker>>

\* emit: straight-line code.
EmitWindow ==
    /\ Generating("window", MaxWindow)
    /\ \E i \in WindowMenu : stream' = Append(stream, i)
    /\ Generated /\ UNCHANGED <<data, asked>>

\* The entry of a routine.
DefineRoutine ==
    /\ Generating("program", MaxOps)
    /\ \E f \in UserRoutines : stream' = define_label(stream, <<"name", f>>)
    /\ Generated /\ UNCHANGED <<data, asked>>

\* is_within_branch_range, on the size of the stream so far and the absolute
\* address of the function.
DirectBranchPossible(s, f) ==
    LET here == get_current_address(s)
        offset == get_function_address(<<"name", f>>) - here
    IN  here # 0 /\ offset >= -(2^25) /\ offset <= 2^25 - 1
\* The pointer from the table at X19, and a call through it.
ThroughTable(s, f) ==
    s \o <<create_ldr_imm(<<"x", 9>>, <<"x", 19>>, get_function_offset(<<"name", f>>)),
           [create_branch_with_link_register(<<"x", 9>>) EXCEPT !.target = <<"name", f>>]>>
DirectCall(s, f) == Append(s, create_branch_with_link(<<"name", f>>))
\* A function call: the program's functions first, then the runtime's.
FunctionCall ==
    /\ Generating("program", MaxOps)
    /\ \E f \in UserRoutines \cup Range(RuntimeFunctions) :
          stream' = IF f \in UserRoutines \/ DirectBranchPossible(stream, f)
                    THEN DirectCall(stream, f) ELSE ThroughTable(stream, f)
    /\ Generated /\ UNCHANGED <<data, asked>>
\* A routine call: the runtime's first.
RoutineCall ==
    /\ Generating("program", MaxOps)
    /\ \E f \in UserRoutines \cup Range(RuntimeFunctions) :
          stream' = IF is_function_registered(<<"name", f>>) THEN ThroughTable(stream, f)
                    ELSE DirectCall(stream, f)
    /\ Generated /\ UNCHANGED <<data, asked>>

\* ADRP and ADD of a literal's label, then whatever uses the address.
AddressOf(label, use) ==
    <<create_adrp(<<"x", 0>>, label), create_add_literal(<<"x", 0>>, <<"x", 0>>, label)>> \o use
SkipLength == <<create_add_imm(<<"x", 0>>, <<"x", 0>>, 8)>>
LoadString ==
    /\ Generating("program", MaxOps)
    /\ \E str \in Strings :
          /\ data' = add_string_literal(data, str.bytes)
          /\ stream' = stream \o AddressOf(string_label(data', str.bytes), SkipLength)
          /\ asked' = asked \cup {[label |-> string_label(data', str.bytes), kind |-> "string",
                                   value |-> str.chars]}
    /\ Generated
LoadFloat ==
    /\ Generating("program", MaxOps)
    /\ \E f \in Floats :
          /\ data' = add_float_literal(data, f)
          /\ stream' = stream \o AddressOf(float_label(data', f),
                                           <<create_ldr_fp_imm(<<"d", 0>>, <<"x", 0>>, 0)>>)
          /\ asked' = asked \cup {[label |-> float_label(data', f), kind |-> "quads",
                                   value |-> <<f.bits>>]}
    /\ Generated
\* A table of the floats, or of the same number of integers.
LoadTable ==
    /\ Generating("program", MaxOps)
    /\ \E float \in BOOLEAN, f \in Floats :
          LET quads == IF float THEN <<f.bits>> ELSE <<Quad(7), Quad(-1)>>
              d == IF float THEN add_float_table_literal(data, quads)
                   ELSE add_table_literal(data, quads)
              label == IF float THEN Last(d.ftables).label ELSE Last(d.tables).label
          IN  /\ data' = d
              /\ stream' = stream \o AddressOf(label, SkipLength)
              /\ asked' = asked \cup {[label |-> label, kind |-> "quads",
                                       value |-> <<Quad(Len(quads))>> \o quads]}
    /\ Generated
\* A constant list; one that is not MANIFEST is copied by the runtime.
LoadList ==
    /\ Generating("program", MaxOps)
    /\ \E list \in Lists, manifest \in BOOLEAN :
          /\ data' = add_list_literal(data, list)
          /\ stream' = stream \o AddressOf(list_label(data', list),
                          IF manifest THEN <<>>
                          ELSE <<create_branch_with_link(<<"name", "DEEPCOPYLITERALLIST">>)>>)
          /\ asked' = asked \cup {[label |-> list_label(data', list), kind |-> "list",
                                   value |-> list]}
    /\ Generated

\* A static declaration: its label is defined in the code, its words go to
\* the data segment.
DeclareStatic ==
    /\ Generating("program", MaxOps)
    /\ stream' = add_data64(define_label(stream, <<"L", ops>>), Quad(5), <<"L", ops>>, "DATA")
    /\ Generated /\ UNCHANGED <<data, asked>>
DeclareGlobal ==
    /\ Generating("program", MaxOps)
    /\ data' = add_global_variable(data, ops)
    /\ Generated /\ UNCHANGED <<stream, asked>>
\* generate_short_circuit_and: its two labels are emitted as directives, so
\* that they are never defined.
ShortCircuitAnd ==
    /\ Generating("program", MaxOps)
    /\ LET directive == [Instr("DIRECTIVE", {}) EXCEPT !.text = "quad"]
       IN  stream' = stream \o
               <<create_cmp_imm(<<"x", 0>>, 0), create_branch_conditional("EQ", <<"L", ops>>),
                 create_branch_unconditional(<<"end", ops>>), directive,
                 create_movz_imm(<<"x", 0>>, 0, 0), directive>>
    /\ Generated /\ UNCHANGED <<data, asked>>
\* A loop of the CFG-driven code generator: a label, and a jump back to it.
EmitLoop ==
    /\ Generating("program", MaxOps)
    /\ stream' = define_label(stream, <<"L", ops>>) \o
                    <<opt_create_cbz(<<"x", 1>>, <<"L", ops>>),
                      create_branch_unconditional(<<"L", ops>>)>>
    /\ Generated /\ UNCHANGED <<data, asked>>

\* generate_code ends with the read-only section.
FinishCode ==
    /\ focus \in {"window", "program"} /\ phase = "generate"
    /\ stream' = generate_rodata_section(stream, data)
    /\ source' = stream'
    /\ phase' = "generated"
    /\ UNCHANGED <<focus, request, data, ops, asked, pos, passes, changed, linker>>
-----------------------------------------------------------------------------
(***************************************************************************)
(* The peephole optimizer: optimize and applyOptimizationPass, one         *)
(* iteration of the inner loop at a time.                                  *)
(***************************************************************************)
Keep == UNCHANGED <<focus, request, data, ops, asked, source, linker>>
BeginPass ==
    /\ phase = "generated" /\ passes < MaxPasses
    /\ phase' = "optimize" /\ pos' = 1 /\ changed' = FALSE
    /\ Keep /\ UNCHANGED <<stream, passes>>
RewriteWindow ==
    /\ phase = "optimize" /\ pos <= Len(stream) /\ Rewritable(stream, pos)
    /\ stream' = Rewrite(stream, pos) /\ changed' = TRUE
    /\ Keep /\ UNCHANGED <<phase, pos, passes>>
\* No pattern at pos: on to the next window one applies to, or to the end.
Advance ==
    /\ phase = "optimize" /\ pos <= Len(stream) /\ ~Rewritable(stream, pos)
    /\ pos' = Min({k \in (pos + 1)..Len(stream) : Rewritable(stream, k)} \cup {Len(stream) + 1})
    /\ Keep /\ UNCHANGED <<phase, stream, passes, changed>>
EndPass ==
    /\ phase = "optimize" /\ pos > Len(stream)
    /\ passes' = passes + 1
    /\ IF changed /\ passes' < MaxPasses
       THEN pos' = 1 /\ changed' = FALSE /\ phase' = "optimize"
       ELSE phase' = "optimized" /\ UNCHANGED <<pos, changed>>
    /\ Keep /\ UNCHANGED stream
\* The optimizer is an option of the command line.
SkipOptimizer ==
    /\ phase = "generated"
    /\ phase' = IF focus = "window" THEN "done" ELSE "optimized"
    /\ Keep /\ UNCHANGED <<stream, pos, passes, changed>>
-----------------------------------------------------------------------------
(***************************************************************************)
(* Linking and loading.                                                    *)
(***************************************************************************)
KeepProgram == UNCHANGED <<focus, request, stream, data, ops, asked, optimizer>>
\* Linker::process has two passes: addresses and labels, then relocation.
LinkPassOne(code_base, data_base, next) ==
    LET one == assignAddressesAndResolveLabels(stream, labels, code_base, data_base)
    IN  /\ labels' = one.labels /\ linked' = one.stream
        /\ phase' = IF one.ok THEN next ELSE "failed"
LinkPassTwo(next) ==
    LET two == performRelocations(linked, labels)
    IN  /\ linked' = two.stream
        /\ phase' = IF two.ok THEN next ELSE "failed"
\* handle_static_compilation, for an assembly file: everything from 0.
StaticLink ==
    /\ focus = "program" /\ phase = "optimized"
    /\ LinkPassOne(0, 0, "addressed")
    /\ KeepProgram /\ UNCHANGED image
StaticRelocate ==
    /\ phase = "addressed" /\ LinkPassTwo("assembled")
    /\ KeepProgram /\ UNCHANGED <<labels, image>>
\* Mutant: the labels of the first link stay.
reset_not(l) == l
reset(l) == <<>>
ResetLabels ==
    /\ focus = "program" /\ phase \in {"optimized", "assembled"}
    /\ labels' = reset(labels) /\ phase' = "reset"
    /\ KeepProgram /\ UNCHANGED <<linked, image>>
\* handle_jit_compilation: link at the buffers' addresses and copy.
JitLink ==
    /\ phase = "reset"
    /\ LinkPassOne(CodeBase, DataBase, "jit addressed")
    /\ KeepProgram /\ UNCHANGED image
JitRelocate ==
    /\ phase = "jit addressed" /\ LinkPassTwo("linked")
    /\ KeepProgram /\ UNCHANGED <<labels, image>>
CopyToMemory ==
    /\ phase = "linked"
    /\ image' = PopulateImage(linked) /\ phase' = "loaded"
    /\ KeepProgram /\ UNCHANGED <<labels, linked>>
\* The breakpoint asked for on the command line, at the entry of a routine.
BreakAt ==
    /\ phase = "loaded"
    /\ \E f \in UserRoutines : image' = SetBreakpoint(image, labels, <<"name", f>>, 0)
    /\ phase' = "armed"
    /\ KeepProgram /\ UNCHANGED <<labels, linked>>
\* The runtime's pointers are the last thing written before execution.
PopulateTable ==
    /\ phase \in {"loaded", "armed"}
    /\ image' = populate_function_pointer_table(image, DataBase)
    /\ phase' = "done"
    /\ KeepProgram /\ UNCHANGED <<labels, linked>>
\* The optimizer's own programs end with it.
EndWindow ==
    /\ focus = "window" /\ phase = "optimized" /\ phase' = "done"
    /\ KeepProgram /\ UNCHANGED linker

Encode == \/ EncodeThree \/ EncodeFp \/ EncodeTwoFp \/ EncodeTwo \/ EncodeOne
          \/ EncodeImmediate \/ EncodePair \/ EncodeBitfield \/ EncodeLogical
          \/ EncodeMoveWide \/ EncodeOther
Generate == \/ EmitWindow \/ DefineRoutine \/ FunctionCall \/ RoutineCall \/ LoadString
            \/ LoadFloat \/ LoadTable \/ LoadList \/ DeclareStatic \/ DeclareGlobal
            \/ ShortCircuitAnd \/ EmitLoop \/ FinishCode
Optimize == BeginPass \/ RewriteWindow \/ Advance \/ EndPass \/ SkipOptimizer
Link == \/ StaticLink \/ StaticRelocate \/ ResetLabels \/ JitLink \/ JitRelocate
        \/ CopyToMemory \/ BreakAt \/ PopulateTable \/ EndWindow
Next == Encode \/ RelocateOne \/ Generate \/ Optimize \/ Link
\* The compiler is one thread that runs until it has nothing left to do.
Spec == Init /\ [][Next]_vars /\ WF_vars(Next)
-----------------------------------------------------------------------------
(***************************************************************************)
(* What the back end guarantees.                                           *)
(***************************************************************************)
\* An encoder that accepts its operands returns the word of the architecture
\* manual whenever the operands fit their fields, registers, offsets and
\* shifts at the edge of a field included; and the destination, base and
\* immediate in its metadata, which the optimizer goes by, are those of the
\* word.  The encoders of WrongEncodings and, for the metadata, FSQRT and ADR
\* are left to EncodedAsClaimed.
EncodingExact ==
    focus = "encode" /\ request.ok =>
        /\ request.fits /\ request.op \notin WrongEncodings => request.good
        /\ request.op \notin {"fsqrt_reg", "adr"} => request.meta

\* The encoders whose comments say which instruction the base opcode is: "Correct
\* encoding for FSUB Dd, Dn, Dm", "Encoding for FCVTMS Xd, Dn", "Base opcode for
\* 32-bit ASRV", "sf (bit 31): 1 for 64-bit" of ORR, and the pattern that
\* "translates correctly for LDP post-index 64-bit".
ClaimedEncodings == {"fsub_reg", "fcvtms_reg", "asr_reg", "orr_reg_x", "ldp_post"}
\* What those encoders return is the word of the instruction their comment
\* names, for operands that fit.
EncodedAsClaimed ==
    focus = "encode" /\ request.ok /\ request.fits /\ request.op \in ClaimedEncodings =>
        request.good

\* A relocated branch reaches its target exactly when the target is in the
\* range of its field: the linker masks the offset and checks nothing.
RelocationExact == focus = "relocate" /\ phase = "done" => (request.good <=> request.fits)

\* A program the optimizer handles carefully: 64-bit operations only, no ADD or
\* SUB of #0 that names the stack pointer, and no shifted register.
Careful(s) ==
    \A k \in DOMAIN s :
        /\ 31 \in s[k].word /\ (s[k].is_mem_op => 30 \in s[k].word)
        /\ MatchIdentity(s[k]) => 31 \notin {s[k].dest_reg, s[k].src_reg1} /\ s[k].src_reg2 = -1
        /\ s[k].opcode = "LDR" => s[k].src_reg1 = -1
Words(s) == [k \in DOMAIN s |-> s[k].word]
\* The optimizer preserves what a careful program does to the registers, the
\* stack pointer and memory, judged on the words and not on the metadata.
PeepholeSound ==
    focus = "window" /\ phase = "done" /\ Careful(source) =>
        Run(Words(stream)) = Run(Words(source))

\* Linking fails only for a label that is referenced and never defined, or
\* defined twice; that it is done a second time for the JIT is no obstacle.
Defines(s) == {k \in DOMAIN s : s[k].is_label_definition}
Linkable(s) ==
    /\ \A j, k \in Defines(s) : s[j].target = s[k].target => j = k
    /\ \A k \in DOMAIN s : s[k].relocation # "NONE" =>
          \/ is_function_registered(s[k].target)
          \/ \E j \in Defines(s) : s[j].target = s[k].target
LinkOutcome ==
    focus = "program" =>
        /\ phase = "failed" => ~Linkable(stream)
        /\ phase \in {"assembled", "linked"} => Linkable(stream)

\* Where a reference should lead: to the program's own label if it has one.
Intended(label) ==
    IF label \in DOMAIN labels THEN labels[label] ELSE get_function_address(label)
\* In the loaded image a branch reaches what its source meant exactly when that
\* is in range and no runtime function has the name of the routine; and ADRP
\* with ADD always forms the address of the literal.
CallsReach ==
    focus = "program" /\ phase = "loaded" =>
        \A k \in DOMAIN linked :
            LET i == linked[k]
                to == Intended(i.target)
                w == image[i.address]
            IN  /\ i.opcode \in {"B", "BL", "B_COND", "CBZ"} =>
                      (Reached(w, i.address, i.relocation) = to
                       <=> /\ InRange(i.address, to, i.relocation)
                           /\ i.target \in DOMAIN labels => ~is_function_registered(i.target))
                /\ i.opcode = "ADRP" =>
                      4096 * ((i.address \div 4096) + Field(w, 29, 2) + 4 * SignedField(w, 5, 19))
                      + Field(image[i.address + 4], 10, 12) = to

\* What the driver relies on and never checks: the data do not run into the
\* code, the literals are in the reach of ADRP, and no routine is a multiple of
\* 256M away from a runtime function of the same name, to which the masked
\* offset of BL would lead as well.
Fits ==
    /\ \A j, k \in DOMAIN linked :
          Emits(linked[j]) /\ Emits(linked[k]) /\ linked[j].address = linked[k].address =>
              (linked[j].segment = "DATA" <=> linked[k].segment = "DATA")
    /\ \A k \in DOMAIN linked :
          linked[k].opcode = "ADRP" =>
              (Intended(linked[k].target) \div 4096) - (linked[k].address \div 4096)
                  \in -(2^20) .. (2^20 - 1)
    /\ \A n \in DOMAIN labels :
          is_function_registered(n) => (get_function_address(n) - labels[n]) % 2^28 # 0

ReadQuads(a, quads) ==
    \A k \in DOMAIN quads : /\ image[a + 8 * k - 8] = BitsAt(quads[k][1], 0, 32)
                            /\ image[a + 8 * k - 4] = BitsAt(quads[k][2], 0, 32)
ReadPointer(a) == Field(image[a], 0, 31)
ReadString(a, chars) ==
    /\ ReadQuads(a, <<Quad(Len(chars))>>)
    /\ \A k \in DOMAIN chars : image[a + 4 + 4 * k] = BitsAt(chars[k], 0, 32)
    /\ image[a + 8 + 4 * Len(chars)] = {}
\* A list as the runtime walks it: from the header through the next pointers to
\* a null one, the last node being the tail.
WalkList(a, list, Value(_, _)) ==
    LET node[k \in 1..(Len(list) + 1)] == ReadPointer((IF k = 1 THEN a ELSE node[k-1]) + 16)
    IN  /\ image[a] = {} /\ ReadQuads(a + 24, <<Quad(Len(list))>>)
        /\ node[Len(list) + 1] = 0
        /\ ReadPointer(a + 8) = IF list = <<>> THEN 0 ELSE node[Len(list)]
        /\ \A k \in DOMAIN list : /\ image[node[k]] = BitsAt(Tag(list[k].t), 0, 32)
                                  /\ Value(node[k] + 8, list[k])
ReadAtom(a, e) ==
    CASE e.t = "int" -> ReadQuads(a, <<e.v>>)
      [] e.t = "float" -> ReadQuads(a, <<e.v.bits>>)
      [] e.t = "string" -> ReadString(ReadPointer(a), utf8_to_utf32(e.v))
      [] e.t = "list" -> TRUE
ReadElement(a, e) ==
    IF e.t = "list" THEN WalkList(ReadPointer(a), e.v, ReadAtom) ELSE ReadAtom(a, e)
\* Every literal the program asked for is read back through its label as it was
\* written in the source, strings decoded and lists walked through the linked
\* pointers, unless its label was already given to a literal that prints the
\* same and is not the same.
LiteralsReadBack ==
    focus = "program" /\ phase \in {"loaded", "done"} =>
        \A l \in asked :
            \/ \E other \in asked : /\ other.label = l.label /\ other.value # l.value
                                   /\ l.kind = "list"
                                   /\ generate_list_key(other.value) = generate_list_key(l.value)
            \/ CASE l.kind = "string" -> ReadString(labels[l.label], l.value)
                 [] l.kind = "quads" -> ReadQuads(labels[l.label], l.value)
                 [] l.kind = "list" -> WalkList(labels[l.label], l.value, ReadElement)

\* Every compilation ends: the optimizer does not rewrite for ever.
CompileEnds == <>(phase \in {"done", "failed"})
=============================================================================
