------------------------------- MODULE Linker -------------------------------
(***************************************************************************)
(* The linker (Linker.cpp, linker_helpers), the labels it defines          *)
(* (LabelManager.cpp), the runtime functions it knows (RuntimeManager.cpp) *)
(* and the copy of the linked stream into JIT memory (main.cpp).           *)
(* Addresses are below 2^31; memory is a function from addresses to words. *)
(***************************************************************************)
EXTENDS DataGenerator

CONSTANTS
    RuntimeFunctions,  \* the registered names, in the order of registration
    RuntimeAddress,    \* the address of each
    Upper              \* to_upper on the names that are not in upper case

MaxTableEntries == 256
ASSUME TableFits ==
    /\ RuntimeFunctions \in Seq(Range(RuntimeFunctions))
    /\ Len(RuntimeFunctions) <= MaxTableEntries
\* register_function turns a name into upper case first.
ASSUME NamesAreUpper == DOMAIN Upper \cap Range(RuntimeFunctions) = {}

to_upper(n) == IF n \in DOMAIN Upper THEN Upper[n] ELSE n
is_function_registered(label) ==
    Len(label) = 2 /\ label[1] = "name" /\ to_upper(label[2]) \in Range(RuntimeFunctions)
get_function_address(label) == RuntimeAddress[to_upper(label[2])]
\* register_function: eight bytes for each, from 0; the 257th throws.
get_function_offset(label) ==
    8 * ((CHOOSE k \in DOMAIN RuntimeFunctions :
              RuntimeFunctions[k] = to_upper(label[2])) - 1)

\* A pure label definition takes no room.
Emits(i) == i.text # "none" \/ i.is_data_value
\* .rodata starts a gap of 16K after the code, at the next page.
CODE_RODATA_GAP_BYTES == 16384
RodataStart(s, code_base) ==
    LET code == 4 * Cardinality({k \in DOMAIN s : /\ s[k].segment = "CODE"
                                                  /\ ~s[k].is_label_definition})
    IN  4096 * ((code_base + code + CODE_RODATA_GAP_BYTES + 4095) \div 4096)
Cursor(s, k, start) ==
    start[s[k].segment] + 4 * Cardinality({j \in 1..(k-1) : /\ s[j].segment = s[k].segment
                                                            /\ Emits(s[j])})

SegmentStarts(s, code_base, data_base) ==
    [CODE |-> code_base, RODATA |-> RodataStart(s, code_base), DATA |-> data_base]

\* Pass 1.  A label that is already defined throws.
assignAddressesAndResolveLabels(s, labels, code_base, data_base) ==
    LET start == SegmentStarts(s, code_base, data_base)
        defs == {k \in DOMAIN s : s[k].is_label_definition}
        names == {s[k].target : k \in defs}
    IN  [ok |-> Cardinality(names) = Cardinality(defs) /\ names \cap DOMAIN labels = {},
         stream |-> [k \in DOMAIN s |-> IF Emits(s[k]) THEN [s[k] EXCEPT !.address =
                                                                Cursor(s, k, start)]
                                        ELSE s[k]],
         labels |-> [n \in names \cup DOMAIN labels |->
                        IF n \in names
                        THEN Cursor(s, CHOOSE k \in defs : s[k].target = n, start)
                        ELSE labels[n]]]

\* Mutant: the 19-bit field is patched one bit too low.
apply_pc_relative_relocation_low(w, pc, target, kind) ==
    CASE kind = "PC_RELATIVE_26_BIT_OFFSET" -> patch(w, (target - pc) \div 4, 0, 26)
      [] kind = "PC_RELATIVE_19_BIT_OFFSET" -> patch(w, (target - pc) \div 4, 4, 19)
      [] OTHER -> w
\* The field an instruction of this kind gets, masked and not checked.
apply_pc_relative_relocation(w, pc, target, kind) ==
    LET pages == (target \div 4096) - (pc \div 4096)
    IN  CASE kind = "PC_RELATIVE_26_BIT_OFFSET" -> patch(w, (target - pc) \div 4, 0, 26)
          [] kind = "PC_RELATIVE_19_BIT_OFFSET" -> patch(w, (target - pc) \div 4, 5, 19)
          [] kind = "PAGE_21_BIT_PC_RELATIVE" -> patch(patch(w, pages, 29, 2), pages \div 4, 5, 19)
          [] kind = "ADD_12_BIT_UNSIGNED_OFFSET" -> patch(w, target % 4096, 10, 12)
\* The 16-bit chunk of the address; no address of the model has the upper two.
apply_movz_movk_relocation(w, target, kind) ==
    patch(w, CASE kind = "MOVZ_MOVK_IMM_0" -> target
               [] kind = "MOVZ_MOVK_IMM_16" -> target \div 65536
               [] OTHER -> 0, 5, 16)

Relocated(i) == i.relocation # "NONE" /\ i.target # <<>>
Resolves(label, labels) == is_function_registered(label) \/ label \in DOMAIN labels
\* A registered runtime function wins over a label of the program.
TargetAddress(label, labels) ==
    IF is_function_registered(label) THEN get_function_address(label) ELSE labels[label]
Relocate(i, labels) ==
    LET target == TargetAddress(i.target, labels)
    IN  CASE i.relocation = "ABSOLUTE_ADDRESS_LO32" -> BitsAt(target, 0, 32)
          [] i.relocation = "ABSOLUTE_ADDRESS_HI32" -> {}
          [] i.relocation \in {"PC_RELATIVE_26_BIT_OFFSET", "PC_RELATIVE_19_BIT_OFFSET",
                               "PAGE_21_BIT_PC_RELATIVE", "ADD_12_BIT_UNSIGNED_OFFSET"} ->
                apply_pc_relative_relocation(i.word, i.address, target, i.relocation)
          [] OTHER -> apply_movz_movk_relocation(i.word, target, i.relocation)
\* Pass 2.  An undefined label throws.
performRelocations(s, labels) ==
    [ok |-> \A k \in DOMAIN s : Relocated(s[k]) => Resolves(s[k].target, labels),
     stream |-> [k \in DOMAIN s |->
                    IF Relocated(s[k]) /\ Resolves(s[k].target, labels)
                    THEN [s[k] EXCEPT !.word = Relocate(s[k], labels)] ELSE s[k]]]
\* handle_jit_compilation: every word goes to its address.  The pairs of .data
\* are copied eight bytes at a time, to the same effect.
PopulateImage(s) ==
    LET emitted == {k \in DOMAIN s : ~s[k].is_label_definition}
    IN  [a \in {s[k].address : k \in emitted} |->
            s[CHOOSE k \in emitted : s[k].address = a].word]
\* The breakpoint requested on the command line: a BRK over the word that is
\* offset instructions after the label.
SetBreakpoint(image, labels, label, offset) ==
    IF label \in DOMAIN labels
    THEN (labels[label] + 4 * offset :> create_brk(0).word) @@ image ELSE image

Pointer(a, v) == (a :> BitsAt(v, 0, 32)) @@ ((a + 4) :> {})
\* populate_function_pointer_table: each pointer at its offset from the base
\* of the data segment.
populate_function_pointer_table(image, data_base) ==
    FoldLeft(LAMBDA m, f : Pointer(data_base + get_function_offset(<<"name", f>>),
                                   RuntimeAddress[f]) @@ m,
             image, RuntimeFunctions)
=============================================================================
