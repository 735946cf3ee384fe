------------------------------ MODULE MCBackEnd ------------------------------
EXTENDS BackEnd

McRegisters == {<<"x", 30>>, <<"w", 5>>, <<"sp", 31>>, <<"xzr", 31>>}
McFpRegisters == {<<"d", 0>>, <<"d", 31>>, <<"s", 3>>}
McBaseRegisters == {<<"x", 7>>, <<"sp", 31>>, <<"w", 7>>}
McBitPatterns ==
    {{}, 0..63, 0..3, 0..31, 4..7, {b \in 0..63 : b % 2 = 0}, {b \in 0..63 : b % 32 < 5}, {63}}
McAddressChunks == {<<0, 0, 0, 0>>, <<1, 0, 0, 0>>, <<0, 8, 0, 0>>, <<65535, 0, 1, 0>>,
                    <<4660, 22136, 39612, 57072>>}
McDistances ==
    UNION {{-r - 4, -r, -r + 4, r - 8, r - 4, r, r + 4} : r \in {2^20, 2^27}} \cup {-4, 0, 4}

X(n) == <<"x", n>>
W(n) == <<"w", n>>
SP == <<"sp", 31>>
McWindowMenu ==
    {create_mov_reg(X(1), X(2)), create_mov_reg(X(2), X(2)),
     create_add_imm(X(1), X(2), 0), create_sub_imm(X(2), X(2), 0), create_add_imm(X(2), X(1), 8),
     create_add_imm(X(1), SP, 0), create_ldr_imm(X(1), X(2), 8), create_ldr_imm(X(2), X(2), 8),
     create_ldr_imm(X(3), X(2), 8), create_ldr_imm(W(1), X(2), 8), create_str_imm(X(1), X(2), 8),
     create_str_imm(X(3), X(2), 8), create_str_imm(X(2), X(2), 0),
     create_cmp_imm(X(1), 0), create_branch_conditional("EQ", <<"L", 0>>)}

McRuntimeFunctions == <<"WRITES", "FIND", "DEEPCOPYLITERALLIST">>
McRuntimeAddress ==
    [WRITES |-> 2^29 + 2^28 + 65536, FIND |-> 65536, DEEPCOPYLITERALLIST |-> 2^29 + 2^26]
McUpper == [writes |-> "WRITES"]
McUserRoutines == {"START", "writes"}
A == <<65>>
McStrings == {[bytes |-> A, chars |-> A], [bytes |-> <<195, 169, 226, 130, 172>>,
                                           chars |-> <<233, 8364>>]}
F1 == [bits |-> <<1, 1072693248>>, shown |-> 1]
F2 == [bits |-> <<2, 1072693248>>, shown |-> 1]
McFloats == {F1, F2}
McLists ==
    {<<[t |-> "float", v |-> F1]>>, <<[t |-> "float", v |-> F2]>>,
     <<[t |-> "string", v |-> A], [t |-> "string", v |-> A]>>,
     <<[t |-> "string", v |-> A \o <<41, 44, 115, 116, 114, 105, 110, 103, 40>> \o A]>>,
     <<[t |-> "list", v |-> <<[t |-> "float", v |-> F1], [t |-> "string", v |-> A]>>],
       [t |-> "int", v |-> Quad(-3)]>>, <<>>}
=============================================================================
