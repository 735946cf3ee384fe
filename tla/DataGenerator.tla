------------------------------ MODULE DataGenerator ----------------------------
(***************************************************************************)
(* The instruction stream (InstructionStream.cpp) and the data generator   *)
(* (DataGenerator.cpp): the literals a program uses, the labels they get,  *)
(* and the read-only section they end up in.                               *)
(*                                                                         *)
(* A label is a tuple: a kind and a number, or "name" and the name of a    *)
(* routine; <<>> is the empty label.  A 64-bit datum is the pair of its    *)
(* low and high 32 bits.                                                   *)
(***************************************************************************)
EXTENDS Encoders

-----------------------------------------------------------------------------
(***************************************************************************)
(* The instruction stream.                                                 *)
(***************************************************************************)
as_label(label, seg) ==
    [Instr("UNKNOWN", {}) EXCEPT !.is_label_definition = TRUE, !.target = label,
                                 !.segment = seg, !.text = "none"]
define_label(s, label) == Append(s, as_label(label, "CODE"))
Datum(v, text, label, seg) ==
    [Instr("UNKNOWN", BitsAt(v, 0, 32)) EXCEPT !.is_data_value = TRUE, !.target = label,
                                               !.segment = seg, !.text = text]
add_data32(s, v, label, seg) == Append(s, Datum(v, "instr", label, seg))
\* The second entry of a pair is text that starts as a comment.
add_data64(s, v, label, seg) ==
    s \o <<Datum(v[1], "quad", label, seg), Datum(v[2], "comment", <<>>, seg)>>
\* Padding is computed from the number of entries of the whole stream, labels
\* and code included, and is emitted into the default segment, DATA.
PaddingWords(s, alignment) ==
    LET rest == (4 * Len(s)) % alignment IN IF rest = 0 THEN 0 ELSE (alignment - rest) \div 4
add_data_padding(s, alignment) ==
    s \o [k \in 1..PaddingWords(s, alignment) |-> Datum(0, "instr", <<>>, "DATA")]
get_current_address(s) ==
    4 * Cardinality({k \in DOMAIN s : s[k].is_data_value \/ ~s[k].is_label_definition})
emit_absolute_pointer(s, label, seg) ==
    LET half(kind, text) ==
            [Datum(0, text, label, seg) EXCEPT !.relocation = kind]
    IN  s \o <<half("ABSOLUTE_ADDRESS_LO32", "quad"), half("ABSOLUTE_ADDRESS_HI32", "comment")>>
-----------------------------------------------------------------------------
(***************************************************************************)
(* The data generator.  A float is the pair of its bits and what printing  *)
(* it with six digits shows; a string is its UTF-8 bytes.  A list is a     *)
(* sequence of elements [t |-> type, v |-> value].                         *)
(***************************************************************************)
NewData == [strings |-> <<>>, floats |-> <<>>, tables |-> <<>>, ftables |-> <<>>,
            lists |-> <<>>, next |-> 0, statics |-> <<>>]
Quad(v) == <<v, IF v < 0 THEN -1 ELSE 0>>

\* The length of the sequence a lead byte opens.  Other bytes throw; the
\* strings of the model are well-formed.
SequenceLength(b) ==
    CASE b <= 127 -> 1 [] b \in 192..223 -> 2 [] b \in 224..239 -> 3 [] OTHER -> 4
utf8_to_utf32(bytes) ==
    LET tail(i, n) ==
            FoldLeft(LAMBDA acc, k : 64 * acc + (bytes[i + k] % 64),
                     bytes[i] % 2^(7 - n), [k \in 1..(n-1) |-> k])
        from[i \in 1..(Len(bytes) + 1)] ==
            IF i > Len(bytes) THEN <<>>
            ELSE LET n == SequenceLength(bytes[i])
                 IN  <<IF n = 1 THEN bytes[i] ELSE tail(i, n)>> \o from[i + n]
    IN  from[1]

\* A literal seen before, by the key its map compares, keeps its label.
Known(entries, key) == \E k \in DOMAIN entries : entries[k].key = key
LabelOf(entries, key) == entries[CHOOSE k \in DOMAIN entries : entries[k].key = key].label
add_string_literal(dg, bytes) ==
    IF Known(dg.strings, bytes) THEN dg
    ELSE [dg EXCEPT !.strings = Append(@, [label |-> <<"str", Len(@)>>, key |-> bytes,
                                            chars |-> utf8_to_utf32(bytes) \o <<0, 0>>])]
string_label(dg, bytes) == LabelOf(dg.strings, bytes)
add_float_literal(dg, f) ==
    IF Known(dg.floats, f) THEN dg
    ELSE [dg EXCEPT !.floats = Append(@, [label |-> <<"float", Len(@)>>, key |-> f])]
float_label(dg, f) == LabelOf(dg.floats, f)
\* Tables are never shared.  An integer in a table of floats is converted, so
\* that its entries are floats when they arrive here.
add_table_literal(dg, quads) ==
    [dg EXCEPT !.tables = Append(@, [label |-> <<"tbl", Len(@)>>, quads |-> quads])]
add_float_table_literal(dg, quads) ==
    [dg EXCEPT !.ftables = Append(@, [label |-> <<"ftbl", Len(@)>>, quads |-> quads])]

\* generate_list_key: the elements are printed, the strings as they are.
KeyOf(e) ==
    CASE e.t = "int" -> <<105, 110, 116, 40, 1000 + e.v[1], 41>>
      [] e.t = "float" -> <<102, 108, 111, 97, 116, 40, 1000 + e.v.shown, 41>>
      [] e.t = "string" -> <<115, 116, 114, 105, 110, 103, 40>> \o e.v \o <<41>>
ListKey(Key(_), list) ==
    FoldLeft(LAMBDA acc, k : acc \o (IF k = 1 THEN <<>> ELSE <<44>>) \o Key(list[k]),
             <<91>>, [k \in DOMAIN list |-> k]) \o <<93>>
FlatKey(list) == ListKey(KeyOf, list)
KeyOfNested(e) == IF e.t = "list" THEN FlatKey(e.v) ELSE KeyOf(e)
generate_list_key(list) == ListKey(KeyOfNested, list)

Tag(t) == CASE t = "int" -> 1 [] t = "float" -> 2 [] t = "string" -> 3 [] t = "list" -> 4
\* One element: a string or a nested list registers its own literal first.
\* Lists are nested to MaxListDepth = 2.
AddElement(AddList(_, _), KeyFor(_), acc, e) ==
    LET dg == CASE e.t = "string" -> add_string_literal(acc.dg, e.v)
                [] e.t = "list" -> AddList(acc.dg, e.v)
                [] OTHER -> acc.dg
        pointer == CASE e.t = "string" -> string_label(dg, e.v)
                     [] e.t = "list" -> LabelOf(dg.lists, KeyFor(e.v))
                     [] OTHER -> <<>>
        bits == CASE e.t = "int" -> e.v [] e.t = "float" -> e.v.bits [] OTHER -> <<0, 0>>
    IN  [dg |-> dg, nodes |-> Append(acc.nodes, [tag |-> Tag(e.t), pointer |-> pointer,
                                                 bits |-> bits])]
AddListWith(AddList(_, _), KeyFor(_), key, dg, list) ==
    IF Known(dg.lists, key) THEN dg
    ELSE LET id == dg.next
             all == FoldLeft(LAMBDA acc, e : AddElement(AddList, KeyFor, acc, e),
                             [dg |-> [dg EXCEPT !.next = @ + 1], nodes |-> <<>>], list)
         IN  [all.dg EXCEPT !.lists = Append(@, [label |-> <<"list", id>>, id |-> id, key |-> key,
                                                 nodes |-> all.nodes])]
AddFlatList(dg, list) ==
    AddListWith(LAMBDA d, l : d, LAMBDA l : <<>>, FlatKey(list), dg, list)
add_list_literal(dg, list) ==
    AddListWith(AddFlatList, FlatKey, generate_list_key(list), dg, list)
list_label(dg, list) == LabelOf(dg.lists, generate_list_key(list))
NodeLabel(l, k) == <<"node", l.id, k>>

\* calculate_global_offsets: one word each, in the order of registration.
add_global_variable(dg, name) == [dg EXCEPT !.statics = Append(@, name)]
get_global_word_offset(dg, name) ==
    (CHOOSE k \in DOMAIN dg.statics : dg.statics[k] = name) - 1

\* generate_rodata_section: strings, floats, tables, then lists.
Emit32(s, v) == add_data32(s, v, <<>>, "RODATA")
Emit64(s, v) == add_data64(s, v, <<>>, "RODATA")
Labelled(s, label) == Append(s, as_label(label, "RODATA"))
EmitString(s, info) ==
    add_data_padding(FoldLeft(Emit32, Emit64(Labelled(s, info.label), Quad(Len(info.chars) - 2)),
                              info.chars), 8)
EmitFloat(s, info) == Emit64(Labelled(s, info.label), info.key.bits)
EmitTable(s, info) ==
    FoldLeft(Emit64, Emit64(Labelled(s, info.label), Quad(Len(info.quads))), info.quads)
PointerOrNull(s, label) ==
    IF label = <<>> THEN Emit64(s, <<0, 0>>) ELSE emit_absolute_pointer(s, label, "RODATA")
\* Mutant: the next pointer of a node is its own label.
EmitNode_self(s, l, k) ==
    LET node == l.nodes[k]
        head == Emit32(Emit32(Labelled(s, NodeLabel(l, k)), node.tag), 0)
        value == IF node.pointer = <<>> THEN Emit64(head, node.bits)
                 ELSE emit_absolute_pointer(head, node.pointer, "RODATA")
    IN  PointerOrNull(value, IF k < Len(l.nodes) THEN NodeLabel(l, k) ELSE <<>>)
EmitNode(s, l, k) ==
    LET node == l.nodes[k]
        head == Emit32(Emit32(Labelled(s, NodeLabel(l, k)), node.tag), 0)
        value == IF node.pointer = <<>> THEN Emit64(head, node.bits)
                 ELSE emit_absolute_pointer(head, node.pointer, "RODATA")
    IN  PointerOrNull(value, IF k < Len(l.nodes) THEN NodeLabel(l, k + 1) ELSE <<>>)
EmitList(s, l) ==
    LET end(k) == IF l.nodes = <<>> THEN <<>> ELSE NodeLabel(l, k)
        head == Emit32(Emit32(Labelled(s, l.label), 0), 0)
        ends == PointerOrNull(PointerOrNull(head, end(Len(l.nodes))), end(1))
    IN  FoldLeft(LAMBDA acc, k : EmitNode(acc, l, k), Emit64(ends, Quad(Len(l.nodes))),
                 [k \in DOMAIN l.nodes |-> k])
generate_rodata_section(s, dg) ==
    FoldLeft(EmitList,
             FoldLeft(EmitTable,
                      FoldLeft(EmitFloat, FoldLeft(EmitString, s, dg.strings), dg.floats),
                      dg.tables \o dg.ftables),
             dg.lists)
=============================================================================
