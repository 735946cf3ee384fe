----------------------------- MODULE TreePasses -----------------------------
(***************************************************************************)
(* The passes that rewrite the program between the parser and the code     *)
(* generator: ManifestResolutionPass and ConstantFoldingPass (with the     *)
(* tree walk of Optimizer) on the syntax tree, LocalOptimizationPass on    *)
(* the statements of the basic blocks; and, to judge them, the values that *)
(* the code of NewCodeGenerator's expression visitors computes.            *)
(*                                                                         *)
(* Words have WordBits bits.  Expressions and statements are records with  *)
(* a kind k; the integer half of the passes is modelled, not the floats.   *)
(***************************************************************************)
EXTENDS Integers, Sequences, SequencesExt, FiniteSets, TLC, Bitwise

CONSTANTS WordBits,   \* 64 in the code
          Fuel        \* bound on the turns of a loop that is run

-----------------------------------------------------------------------------
(* Words.                                                                  *)

Modulus == 2 ^ WordBits
Unsigned(v) == v % Modulus
Signed(v) == ((v + Modulus \div 2) % Modulus) - Modulus \div 2
Words == (-(Modulus \div 2)) .. (Modulus \div 2 - 1)

Abs(v) == IF v < 0 THEN -v ELSE v
\* Division that truncates; b is not 0.
Quotient(a, b) == LET q == Abs(a) \div Abs(b)
                  IN Signed(IF (a < 0) = (b < 0) THEN q ELSE -q)
Truth(c, v) == IF c THEN v ELSE 0

-----------------------------------------------------------------------------
(* Syntax.                                                                 *)

Num(v) == [k |-> "num", v |-> v]
Var(x) == [k |-> "var", x |-> x]
Bin(op, l, r) == [k |-> "bin", op |-> op, l |-> l, r |-> r]
Un(op, e) == [k |-> "un", op |-> op, e |-> e]
Cond(c, t, f) == [k |-> "cond", c |-> c, t |-> t, f |-> f]
Call == [k |-> "call"]      \* f(), which adds 1 to the global "g"

Assign(xs, es) == [k |-> "assign", x |-> xs, e |-> es]
DoCall == [k |-> "docall"]
IfS(c, t) == [k |-> "if", c |-> c, t |-> t]
UnlessS(c, t) == [k |-> "unless", c |-> c, t |-> t]
TestS(c, t, f) == [k |-> "test", c |-> c, t |-> t, f |-> f]
WhileS(c, t) == [k |-> "while", c |-> c, t |-> t]
UntilS(c, t) == [k |-> "until", c |-> c, t |-> t]
RepeatUntil(t, c) == [k |-> "repeat", c |-> c, t |-> t]
Resultis(e) == [k |-> "resultis", e |-> e]
Compound(s) == [k |-> "compound", s |-> s]
\* MANIFEST and LET declarations, then statements.
Block(man, let, s) == [k |-> "block", man |-> man, let |-> let, s |-> s]
\* An expression node where a statement is expected, and a number where a
\* variable is assigned to: the code generator refuses both.
ExprStmt == [k |-> "expr"]
NoVariable == "number"

-----------------------------------------------------------------------------
(* What the generated code computes: visit(BinaryOp) and the integer path  *)
(* of visit(UnaryOp).                                                      *)

\* The instruction a binary operator becomes, on the values of the two
\* registers.  CSET gives 1 and CSETM gives -1; an operator the visitor does
\* not know leaves the left operand.
emitted(op, a, b) ==
    CASE op = "Add" -> Signed(a + b)
      [] op = "Subtract" -> Signed(a - b)
      [] op = "Multiply" -> Signed(a * b)
      [] op = "Divide" -> IF b = 0 THEN 0 ELSE Quotient(a, b)
      [] op = "Remainder" ->
            IF b = 0 THEN a ELSE Signed(a - Quotient(a, b) * b)
      [] op \in {"Equal", "Equivalence"} -> Truth(a = b, 1)
      [] op = "NotEqual" -> Truth(a # b, -1)
      [] op = "Less" -> Truth(a < b, 1)
      [] op = "LessEqual" -> Truth(a <= b, 1)
      [] op = "Greater" -> Truth(a > b, 1)
      [] op = "GreaterEqual" -> Truth(a >= b, 1)
      [] op = "BitwiseAnd" -> Signed(Unsigned(a) & Unsigned(b))
      [] op = "LogicalAnd" -> IF a = 0 THEN 0 ELSE b
      [] op = "LogicalOr" -> IF a = 0 THEN b ELSE -1
      [] op = "LeftShift" -> Signed(Unsigned(a) * 2 ^ (b % WordBits))
      [] op = "RightShift" -> Signed(Unsigned(a) \div 2 ^ (b % WordBits))
      [] OTHER -> a

emitted_unary(op, a) ==
    CASE op = "Negate" -> Signed(-a)
      [] op = "BitwiseNot" -> Signed(-1 - a)
      [] op = "LogicalNot" -> Truth(a = 0, 1)

\* A machine: the variables, whether a RESULTIS has been executed, and the
\* value it returned.
Machine(env) == [env |-> env, done |-> FALSE, v |-> 0]
Set(m, x, v) == [m EXCEPT !.env = (x :> v) @@ @]
Read(m, x) == IF x \in DOMAIN m.env THEN m.env[x] ELSE 0

\* The value of an expression and the machine after it.  The right operand
\* is evaluated first, except by the short-circuit operators.
RECURSIVE Eval(_, _)
Eval(e, m) ==
    CASE e.k = "num" -> [v |-> e.v, m |-> m]
      [] e.k = "var" -> [v |-> Read(m, e.x), m |-> m]
      [] e.k = "un" -> LET a == Eval(e.e, m)
                       IN [a EXCEPT !.v = emitted_unary(e.op, @)]
      [] e.k = "bin" /\ e.op \in {"LogicalAnd", "LogicalOr"} ->
            LET a == Eval(e.l, m)
                b == Eval(e.r, a.m)
            IN IF (a.v = 0) = (e.op = "LogicalAnd")
               THEN [a EXCEPT !.v = emitted(e.op, @, 0)]
               ELSE [b EXCEPT !.v = emitted(e.op, a.v, @)]
      [] e.k = "bin" -> LET b == Eval(e.r, m)
                            a == Eval(e.l, b.m)
                        IN [a EXCEPT !.v = emitted(e.op, @, b.v)]
      [] e.k = "cond" -> LET c == Eval(e.c, m)
                         IN Eval(IF c.v # 0 THEN e.t ELSE e.f, c.m)
      [] e.k = "call" -> LET v == Signed(Read(m, "g") + 1)
                         IN [v |-> v, m |-> Set(m, "g", v)]

\* Right-hand sides are evaluated from left to right before any is stored.
RECURSIVE EvalAll(_, _)
EvalAll(es, m) ==
    IF es = <<>> THEN [v |-> <<>>, m |-> m]
    ELSE LET a == Eval(Head(es), m)
             r == EvalAll(Tail(es), a.m)
         IN [v |-> <<a.v>> \o r.v, m |-> r.m]

RECURSIVE Run(_, _), RunAll(_, _), Turns(_, _, _)
RunAll(ss, m) == IF ss = <<>> \/ m.done THEN m
                 ELSE RunAll(Tail(ss), Run(Head(ss), m))

\* WHILE c DO t, n turns at most; a longer loop counts as one that hangs.
Turns(s, m, n) ==
    LET c == Eval(s.c, m) IN
    IF m.done \/ c.v = 0 THEN IF m.done THEN m ELSE c.m
    ELSE IF n = 0 THEN [Machine(<<>>) EXCEPT !.done = TRUE]
    ELSE Turns(s, Run(s.t, c.m), n - 1)

Run(s, m) ==
    CASE m.done -> m
      [] s.k = "assign" ->
            LET r == EvalAll(s.e, m)
            IN [r.m EXCEPT !.env = [i \in {s.x[j] : j \in DOMAIN s.x} |->
                   r.v[CHOOSE j \in DOMAIN s.x : s.x[j] = i]] @@ @]
      [] s.k = "docall" -> Eval(Call, m).m
      [] s.k = "if" -> LET c == Eval(s.c, m)
                       IN IF c.v # 0 THEN Run(s.t, c.m) ELSE c.m
      [] s.k = "unless" -> LET c == Eval(s.c, m)
                           IN IF c.v = 0 THEN Run(s.t, c.m) ELSE c.m
      [] s.k = "test" -> LET c == Eval(s.c, m)
                         IN Run(IF c.v # 0 THEN s.t ELSE s.f, c.m)
      [] s.k = "while" -> Turns(s, m, Fuel)
      [] s.k = "until" -> Turns(WhileS(Bin("Equal", s.c, Num(0)), s.t), m, Fuel)
      [] s.k = "repeat" -> Run(UntilS(s.c, s.t), Run(s.t, m))
      [] s.k = "resultis" -> LET r == Eval(s.e, m)
                             IN [r.m EXCEPT !.done = TRUE, !.v = r.v]
      [] s.k = "compound" -> RunAll(s.s, m)
      [] s.k = "block" ->
            LET new == {s.man[i].x : i \in DOMAIN s.man} \cup
                       {s.let[i].x : i \in DOMAIN s.let}
                decl == [i \in DOMAIN s.man |->
                            Assign(<<s.man[i].x>>, <<Num(s.man[i].v)>>)] \o
                        [i \in DOMAIN s.let |->
                            Assign(<<s.let[i].x>>, <<s.let[i].e>>)]
                r == RunAll(decl \o s.s, m)
            IN [r EXCEPT !.env = [x \in DOMAIN @ |->
                   IF x \in new THEN Read(m, x) ELSE @[x]]]
      [] s.k = "expr" -> m

-----------------------------------------------------------------------------
(* ManifestResolutionPass.                                                 *)

\* get_manifest_value: the innermost scope, then the globals; no other.
get_manifest_value(top, globals) == top @@ globals

RECURSIVE ResolveE(_, _)
ResolveE(e, ms) ==
    CASE e.k = "var" -> IF e.x \in DOMAIN ms THEN Num(ms[e.x]) ELSE e
      [] e.k = "un" -> [e EXCEPT !.e = ResolveE(@, ms)]
      [] e.k = "bin" -> [e EXCEPT !.l = ResolveE(@, ms), !.r = ResolveE(@, ms)]
      [] e.k = "cond" -> [e EXCEPT !.c = ResolveE(@, ms),
                                   !.t = ResolveE(@, ms), !.f = ResolveE(@, ms)]
      [] OTHER -> e

\* The scope a block pushes: its own MANIFESTs, and nothing of the blocks
\* around it.
pushed_scope(s) ==
    [x \in {s.man[i].x : i \in DOMAIN s.man} |->
        s.man[CHOOSE i \in DOMAIN s.man : s.man[i].x = x].v]

\* A left-hand side is visited too: a MANIFEST that is assigned to becomes a
\* number.
ResolveLeft(x, ms) == IF x \in DOMAIN ms THEN NoVariable ELSE x

\* The statement visitors; a MANIFEST declaration is removed from its block.
RECURSIVE ResolveS(_, _, _)
ResolveS(s, top, globals) ==
    LET ms == get_manifest_value(top, globals)
        R(t) == ResolveS(t, top, globals)
    IN CASE s.k = "assign" ->
              [s EXCEPT !.x = [i \in DOMAIN @ |-> ResolveLeft(@[i], ms)],
                        !.e = [i \in DOMAIN @ |-> ResolveE(@[i], ms)]]
         [] s.k \in {"if", "unless", "while", "until", "repeat"} ->
              [s EXCEPT !.c = ResolveE(@, ms), !.t = R(@)]
         [] s.k = "test" ->
              [s EXCEPT !.c = ResolveE(@, ms), !.t = R(@), !.f = R(@)]
         [] s.k = "resultis" -> [s EXCEPT !.e = ResolveE(@, ms)]
         [] s.k = "compound" -> [s EXCEPT !.s = [i \in DOMAIN @ |-> R(@[i])]]
         [] s.k = "block" ->
              LET own == pushed_scope(s)
                  all == get_manifest_value(own, globals)
              IN [s EXCEPT !.man = <<>>,
                     !.let = [i \in DOMAIN @ |->
                                 [@[i] EXCEPT !.e = ResolveE(@, all)]],
                     !.s = [i \in DOMAIN @ |-> ResolveS(@[i], own, globals)]]
         [] OTHER -> s

-----------------------------------------------------------------------------
(* ConstantFoldingPass.  known is known_constants_ and manifests is        *)
(* manifests_; a name is looked up in the first, then in the second.       *)

IsNum(e) == e.k = "num"

Foldable(op, b) == op # "BitwiseAnd" /\ (op \in {"Divide", "Remainder"} => b # 0)

\* The switch of visit(BinaryOp) on two integer constants: C++ arithmetic on
\* int64_t, shifts by the low bits of the count as the host does.
folded(op, a, b) ==
    CASE op = "Add" -> Signed(a + b)
      [] op = "Subtract" -> Signed(a - b)
      [] op = "Multiply" -> Signed(a * b)
      [] op = "Divide" -> Quotient(a, b)
      [] op = "Remainder" -> Signed(a - Quotient(a, b) * b)
      [] op = "LeftShift" -> Signed(a * 2 ^ (b % WordBits))
      [] op = "RightShift" -> a \div 2 ^ (b % WordBits)
      [] op \in {"Equal", "Equivalence"} -> Truth(a = b, -1)
      [] op \in {"NotEqual", "NotEquivalence"} -> Truth(a # b, -1)
      [] op = "Less" -> Truth(a < b, -1)
      [] op = "LessEqual" -> Truth(a <= b, -1)
      [] op = "Greater" -> Truth(a > b, -1)
      [] op = "GreaterEqual" -> Truth(a >= b, -1)
      [] op = "LogicalAnd" -> Truth(a # 0 /\ b # 0, -1)
      [] op = "LogicalOr" -> Truth(a # 0 \/ b # 0, -1)
      [] op = "BitwiseOr" -> Signed(Unsigned(a) | Unsigned(b))

folded_unary(op, a) == CASE op = "Negate" -> Signed(-a)
                         [] op = "LogicalNot" -> Truth(a = 0, -1)


\* visit(BinaryOp), once its operands have been visited.
FoldBinary(e) ==
    LET l == e.l
        r == e.r
        Is(x, v) == IsNum(x) /\ x.v = v
    IN CASE IsNum(l) /\ IsNum(r) /\ Foldable(e.op, r.v) ->
              Num(folded(e.op, l.v, r.v))
         [] e.op = "Add" /\ Is(l, 0) -> r
         [] e.op \in {"Add", "Subtract"} /\ Is(r, 0) -> l
         [] e.op = "Multiply" /\ Is(l, 1) -> r
         [] e.op \in {"Multiply", "Divide"} /\ Is(r, 1) -> l
         [] e.op = "Multiply" /\ (Is(l, 0) \/ Is(r, 0)) -> Num(0)
         [] OTHER -> e

value_of(known, manifests) == known @@ manifests

\* The expression visitors; values are the two tables in one.
RECURSIVE FoldE(_, _)
FoldE(e, values) ==
    CASE e.k = "var" -> IF e.x \in DOMAIN values THEN Num(values[e.x]) ELSE e
      [] e.k = "bin" -> FoldBinary([e EXCEPT !.l = FoldE(@, values),
                                             !.r = FoldE(@, values)])
      [] e.k = "un" -> LET a == FoldE(e.e, values)
                       IN IF IsNum(a) /\ e.op \in {"Negate", "LogicalNot"}
                          THEN Num(folded_unary(e.op, a.v))
                          ELSE [e EXCEPT !.e = a]
      [] e.k = "cond" -> LET c == FoldE(e.c, values)
                         IN IF IsNum(c)
                            THEN FoldE(IF c.v # 0 THEN e.t ELSE e.f, values)
                            ELSE [e EXCEPT !.c = c, !.t = FoldE(@, values),
                                           !.f = FoldE(@, values)]
      [] OTHER -> e

create_nop == Compound(<<>>)

\* visit(AssignmentStatement): only a single assignment to a variable is
\* looked at, and its constant is set or erased; manifests_ never changes.
FoldAssign(s, known, manifests) ==
    LET es == [i \in DOMAIN s.e |-> FoldE(s.e[i], value_of(known, manifests))]
        x == s.x[1]
    IN [s |-> [s EXCEPT !.e = es],
        known |-> IF Len(s.x) # 1 \/ x = NoVariable THEN known
                  ELSE IF IsNum(es[1]) THEN (x :> es[1].v) @@ known
                  ELSE [y \in DOMAIN known \ {x} |-> known[y]]]

\* Whether the visit of e leaves its node where it is.
Kept(e, values) ==
    CASE e.k = "var" -> e.x \notin DOMAIN values
      [] e.k = "bin" -> FoldE(e, values) = [e EXCEPT !.l = FoldE(@, values),
                                                     !.r = FoldE(@, values)]
      [] e.k = "un" -> FoldE(e, values).k = "un"
      [] e.k = "cond" -> ~IsNum(FoldE(e.c, values))
      [] OTHER -> TRUE

\* visit(ResultisStatement) calls accept on the expression in place: a node
\* that the visit replaces takes the place of the statement.
FoldResultis(s, values) ==
    IF Kept(s.e, values) THEN [s EXCEPT !.e = FoldE(@, values)] ELSE ExprStmt

\* The statement visitors: the statement that replaces s, and the constants
\* known after it, whatever path leads there.
RECURSIVE FoldS(_, _, _), FoldAll(_, _, _)
FoldAll(ss, known, manifests) ==
    IF ss = <<>> THEN [s |-> <<>>, known |-> known]
    ELSE LET h == FoldS(Head(ss), known, manifests)
             r == FoldAll(Tail(ss), h.known, manifests)
         IN [s |-> <<h.s>> \o r.s, known |-> r.known]

FoldS(s, known, manifests) ==
    LET values == value_of(known, manifests)
        c == FoldE(s.c, values)
        t == FoldS(s.t, known, manifests)
        leave == [s |-> create_nop, known |-> known]
        both == [t EXCEPT !.s = [s EXCEPT !.c = c, !.t = t.s]]
    IN CASE s.k = "assign" -> FoldAssign(s, known, manifests)
         [] s.k = "if" -> IF ~IsNum(c) THEN both ELSE IF c.v # 0 THEN t ELSE leave
         [] s.k = "test" ->
              IF ~IsNum(c)
              THEN LET f == FoldS(s.f, t.known, manifests)
                   IN [f EXCEPT !.s = [s EXCEPT !.c = c, !.t = t.s, !.f = f.s]]
              ELSE IF c.v # 0 THEN t ELSE FoldS(s.f, known, manifests)
         [] s.k = "while" -> IF IsNum(c) /\ c.v = 0 THEN leave ELSE both
         [] s.k \in {"unless", "until"} -> both
         [] s.k = "repeat" ->
              [t EXCEPT !.s = [s EXCEPT !.c = FoldE(@, value_of(t.known, manifests)),
                                        !.t = t.s]]
         [] s.k = "resultis" -> [s |-> FoldResultis(s, values), known |-> known]
         \* Optimizer::visit(BlockStatement) does not visit declarations.
         [] s.k \in {"compound", "block"} ->
              LET r == FoldAll(s.s, known, manifests)
              IN [s |-> [s EXCEPT !.s = r.s], known |-> r.known]
         [] OTHER -> [s |-> s, known |-> known]

-----------------------------------------------------------------------------
(* LocalOptimizationPass, on the statements of one basic block.            *)

Commutative == {"Add", "Multiply", "LogicalAnd", "LogicalOr", "Equal",
                "NotEqual"}

\* expression_to_string: every other node has the one name "(EXPR)".
RECURSIVE expression_to_string(_)
expression_to_string(e) ==
    CASE e.k = "num" -> <<"INT", e.v>>
      [] e.k = "var" -> <<"VAR", e.x>>
      [] e.k = "bin" ->
            LET l == expression_to_string(e.l)
                r == expression_to_string(e.r)
            IN IF e.op \in Commutative THEN <<"COMM", e.op, {l, r}>>
               ELSE <<"BIN", e.op, l, r>>
      [] OTHER -> <<"EXPR">>

\* The variables a key shows.
RECURSIVE Shown(_)
Shown(e) == CASE e.k = "var" -> {e.x}
              [] e.k = "bin" -> Shown(e.l) \cup Shown(e.r)
              [] OTHER -> {}

\* count_subexpressions: the keys of the binary operators, as often as they
\* occur.
RECURSIVE CountE(_), CountS(_)
CountE(e) == CASE e.k = "bin" -> <<expression_to_string(e)>> \o
                                 CountE(e.l) \o CountE(e.r)
               [] e.k = "un" -> CountE(e.e)
               [] OTHER -> <<>>
CountS(s) == CASE s.k = "assign" -> FlattenSeq([i \in DOMAIN s.e |-> CountE(s.e[i])])
               [] s.k = "if" -> CountE(s.c) \o CountS(s.t)
               [] s.k \in {"block", "compound"} ->
                    FlattenSeq([i \in DOMAIN s.s |-> CountS(s.s[i])])
               [] OTHER -> <<>>

Often(counts, key) ==
    Cardinality({i \in DOMAIN counts : counts[i] = key}) > 1

\* optimize_assignment, for one right-hand side: o holds the statements
\* emitted so far, the available expressions and the temporaries used.
optimize_rhs(o, e, counts) ==
    LET key == expression_to_string(e)
        hit == {a \in o.available : a.key = key}
        temp == "_cse_temp_" \o ToString(o.temps)
    IN IF hit # {}
       THEN [o EXCEPT !.rhs = Append(@, Var((CHOOSE a \in hit : TRUE).temp))]
       ELSE IF e.k = "bin" /\ Often(counts, key)
       THEN [o EXCEPT !.out = Append(@, Assign(<<temp>>, <<e>>)),
                      !.available = @ \cup {[key |-> key, temp |-> temp,
                                             shows |-> Shown(e)]},
                      !.temps = @ + 1,
                      !.rhs = Append(@, Var(temp))]
       ELSE [o EXCEPT !.rhs = Append(@, e)]

\* Mutation: an assignment leaves the expressions that use its variable.
invalidate_none(available, xs) == available

\* invalidate_expressions_with_var, for the variables assigned to.
invalidate(available, xs) ==
    {a \in available : a.shows \cap {xs[i] : i \in DOMAIN xs} = {}}

optimize_assignment(o, s, counts) ==
    LET r == FoldLeft(LAMBDA acc, e : optimize_rhs(acc, e, counts),
                      [o EXCEPT !.rhs = <<>>], s.e)
    IN [r EXCEPT !.out = Append(@, [s EXCEPT !.e = r.rhs]),
                 !.available = invalidate(@, s.x)]

\* optimize_basic_block: only assignments are looked at.
optimize_basic_block(ss) ==
    LET counts == FlattenSeq([i \in DOMAIN ss |-> CountS(ss[i])])
        step(o, s) == IF s.k = "assign" THEN optimize_assignment(o, s, counts)
                      ELSE [o EXCEPT !.out = Append(@, s)]
    IN FoldLeft(step, [out |-> <<>>, available |-> {}, temps |-> 0,
                       rhs |-> <<>>], ss).out

\* The statements a body becomes in the blocks of the graph: nested blocks
\* are spliced in, their LETs as assignments; an expression is dropped.
RECURSIVE Flatten(_)
Flatten(s) ==
    CASE s.k = "compound" -> FlattenSeq([i \in DOMAIN s.s |-> Flatten(s.s[i])])
      [] s.k = "block" ->
            [i \in DOMAIN s.let |-> Assign(<<s.let[i].x>>, <<s.let[i].e>>)] \o
            FlattenSeq([i \in DOMAIN s.s |-> Flatten(s.s[i])])
      [] s.k = "expr" -> <<>>
      [] OTHER -> <<s>>

\* LocalOptimizationPass::run on the blocks that the statements of a body
\* form: a block ends with an IF, whose branch is a block of its own, or with
\* a RESULTIS.
RECURSIVE optimize_body(_)
optimize_body(ss) ==
    LET ends == {i \in DOMAIN ss : ss[i].k \in {"if", "resultis"}}
        n == IF ends = {} THEN Len(ss)
             ELSE CHOOSE i \in ends : \A j \in ends : i <= j
        block == optimize_basic_block(SubSeq(ss, 1, n))
        last == Last(block)
    IN IF ends = {} THEN block
       ELSE Front(block) \o
            (IF last.k # "if" THEN <<last>>
             ELSE <<[last EXCEPT !.t =
                        Compound(optimize_body(Flatten(@)))]>>) \o
            optimize_body(SubSeq(ss, n + 1, Len(ss)))
=============================================================================
