------------------------------ MODULE MiddleEnd ------------------------------
(***************************************************************************)
(* The middle of the compiler: the passes that rewrite the program, in the *)
(* order of main.cpp, and the control-flow graph of a function.            *)
(*                                                                         *)
(* A behaviour is about one unit of the work: the tree of a function       *)
(* ("tree"), which is parsed statement by statement and then rewritten by  *)
(* pass after pass; one operator applied to two constants ("literal"); or  *)
(* the graph of a function ("graph").                                      *)
(***************************************************************************)
EXTENDS CFGBuilder, TreePasses

CONSTANTS StatementMenu,   \* the statements a function is made of
          MaxBody,         \* bound on the statements of a function
          Variables,       \* the names of the variables
          Inputs           \* the values they may start with, as functions

VARIABLES unit,     \* what this behaviour is about
          source,   \* the statements of the function as they were parsed
          prog,     \* the function as the passes have left it
          stage,    \* the last pass that has run
          probe     \* an operator and two constants

treevars == <<source, prog, stage, probe>>
vars == <<cfgvars, unit, treevars>>

\* The MANIFESTs of the program: the name "m" stands for 2.
Globals == "m" :> 2

Operators == {"Add", "Subtract", "Multiply", "Divide", "Remainder", "Equal",
              "NotEqual", "Less", "LessEqual", "Greater", "GreaterEqual",
              "LogicalAnd", "LogicalOr", "BitwiseAnd", "BitwiseOr",
              "Equivalence", "NotEquivalence", "LeftShift", "RightShift"}

-----------------------------------------------------------------------------
Init ==
    /\ CFGInit
    /\ unit \in {"graph", "tree", "literal"}
    /\ source = <<>>
    /\ prog = Compound(<<>>)
    /\ stage = "parse"
    /\ IF unit = "literal" THEN probe \in Operators \X Words \X Words
       ELSE probe = <<"Add", 0, 0>>

Tree(a) == unit = "tree" /\ stage = a /\ UNCHANGED <<cfgvars, unit, probe>>

Parse(s) ==
    /\ Tree("parse")
    /\ Len(source) < MaxBody
    /\ source' = Append(source, s)
    /\ prog' = Block(<<>>, <<>>, source')
    /\ stage' = stage

\* ManifestResolutionPass::apply; the function pushes a scope of its own.
ResolveManifests ==
    /\ Tree("parse")
    /\ prog' = ResolveS(prog, <<>>, Globals)
    /\ stage' = "resolved"
    /\ source' = source

\* ConstantFoldingPass::apply, with known_constants_ cleared at the function.
FoldConstants ==
    /\ Tree("resolved")
    /\ prog' = FoldS(prog, <<>>, Globals).s
    /\ stage' = "folded"
    /\ source' = source

\* The statements that reach the blocks of the graph.
RECURSIVE InGraph(_)
InGraph(s) == CASE s.k \in {"test", "unless", "while", "until", "repeat"} -> FALSE
                [] s.k = "if" -> InGraph(s.t)
                [] s.k \in {"block", "compound"} ->
                     \A i \in DOMAIN s.s : InGraph(s.s[i])
                [] OTHER -> TRUE

\* LocalOptimizationPass::run, on the blocks of the graph.
LocalOptimize ==
    /\ Tree("folded")
    /\ InGraph(prog)
    /\ prog' = Compound(optimize_body(Flatten(prog)))
    /\ stage' = "optimized"
    /\ source' = source

Graph ==
    \/ \E k \in SimpleKinds : Simple(k)
    \/ \E k \in DroppedKinds : Dropped(k)
    \/ \E l \in Labels : LabelTarget(l) \/ Goto(l)
    \/ \E k \in {"return", "resultis"} : ReturnOrResultis(k)
    \/ Finish \/ Break \/ Loop \/ Endcase
    \/ If \/ EndIf
    \/ For \/ EndFor
    \/ ForEachVector \/ EndForEachVector
    \/ ForEachList \/ EndForEachList
    \/ \E c \in 0..MaxCases, d \in BOOLEAN : Switchon(c, d)
    \/ NextCase \/ EndSwitchon
    \/ \E k \in {"assign", "let"} : Valof(k)
    \/ EndValof
    \/ EndFunction

Next ==
    \/ \E s \in StatementMenu : Parse(s)
    \/ ResolveManifests \/ FoldConstants \/ LocalOptimize
    \/ unit = "graph" /\ Graph /\ UNCHANGED <<unit, treevars>>

Spec == Init /\ [][Next]_vars

-----------------------------------------------------------------------------
(* The flow of control of the emitted branches.                            *)

Blocks == DOMAIN g.stmts

\* The blocks that the branches at the end of block b lead to, through at
\* most n empty blocks.
Entered(b, n) ==
    LET empty(t) == t[2] \in Blocks /\ g.stmts[t[2]] = <<>>
        through(S) ==
          S \cup UNION {{<<t[1], u[2]>> : u \in generate_block_epilogue(g, t[2])} :
                         t \in {t \in S : empty(t)}}
        step[i \in 0..n] == IF i = 0 THEN generate_block_epilogue(g, b)
                            ELSE through(step[i - 1])
    IN step[n]

\* The statement that comes next when control reaches c, a block or one of
\* the places that are not blocks.
Reached(c) == IF c \in Blocks THEN g.stmts[c][1]
              ELSE IF c = Epilogue THEN Leave
              ELSE [Leave EXCEPT !.n = c]

EmittedFlow ==
    LET Out(b, from) ==
          {<<from, t[1], Reached(t[2])>> : t \in
             {t \in Entered(b, Len(g.stmts)) :
                t[2] \in Blocks => g.stmts[t[2]] # <<>>}}
    IN UNION {{<<g.stmts[b][i], Go, g.stmts[b][i + 1]>> :
                 i \in 1..(Len(g.stmts[b]) - 1)} \cup
              (IF g.stmts[b] = <<>> THEN {} ELSE Out(b, Last(g.stmts[b]))) :
              b \in Blocks}
       \cup (IF g.stmts[1] = <<>> THEN Out(1, Entry)
             ELSE {<<Entry, Go, g.stmts[1][1]>>})

\* The builder accepts the function: no statement it drops, no VALOF within
\* an expression, no jump out of a list FOREACH, no vector FOREACH in a loop.
Supported == ref.wellformed /\ ref.lost = {} /\ ~ref.valof /\ ~ref.astray

(***************************************************************************)
(* The branches that generate_block_epilogue emits for the graph of a      *)
(* supported function lead from each statement to exactly the statements   *)
(* that may follow it in the source, IF, FOR, FOREACH, SWITCHON, labels    *)
(* and jumps included, each for the outcome of the condition that leads    *)
(* there; no block is refused, and the pass never pops an empty stack of   *)
(* targets on the way.                                                     *)
(***************************************************************************)
FlowExact ==
    unit = "graph" /\ Supported =>
        /\ phase # "undefined"
        /\ phase = "built" =>
              /\ \A b \in Blocks : <<Go, Throws>> \notin
                                   generate_block_epilogue(g, b)
              /\ EmittedFlow = ref.flow

-----------------------------------------------------------------------------
(* The meaning of the function.                                            *)

OneArmed == {"if", "unless", "while", "until", "repeat"}

RECURSIVE Exprs(_), Subs(_), Under(_)
\* The expressions of a statement, and an expression with its parts.
Exprs(s) ==
    CASE s.k = "assign" -> {s.e[i] : i \in DOMAIN s.e}
      [] s.k \in OneArmed -> {s.c} \cup Exprs(s.t)
      [] s.k = "test" -> {s.c} \cup Exprs(s.t) \cup Exprs(s.f)
      [] s.k = "resultis" -> {s.e}
      [] s.k = "compound" -> UNION {Exprs(s.s[i]) : i \in DOMAIN s.s}
      [] s.k = "block" -> UNION {Exprs(s.s[i]) : i \in DOMAIN s.s} \cup
                          {s.let[i].e : i \in DOMAIN s.let}
      [] OTHER -> {}
Subs(e) == {e} \cup (CASE e.k = "bin" -> Subs(e.l) \cup Subs(e.r)
                       [] e.k = "un" -> Subs(e.e)
                       [] e.k = "cond" -> Subs(e.c) \cup Subs(e.t) \cup Subs(e.f)
                       [] OTHER -> {})
\* The statements below a statement.
Under(s) == {s} \cup (CASE s.k \in OneArmed -> Under(s.t)
                        [] s.k = "test" -> Under(s.t) \cup Under(s.f)
                        [] s.k \in {"compound", "block"} ->
                             UNION {Under(s.s[i]) : i \in DOMAIN s.s}
                        [] OTHER -> {})

Statements == {source[i] : i \in DOMAIN source}
Below == UNION {Under(s) : s \in Statements}
Terms == UNION {Subs(e) : e \in UNION {Exprs(s) : s \in Statements}}
ReadVars == {e.x : e \in {e \in Terms : e.k = "var"}}
Assigns == {s \in Below : s.k = "assign"}

\* A variable that is read is assigned only by single assignments that every
\* run of the function executes in order; a call assigns to "g".
StraightLine ==
    /\ \A s \in Assigns, x \in ReadVars :
          (\E i \in DOMAIN s.x : s.x[i] = x) => Len(s.x) = 1 /\ s \in Statements
    /\ (DoCall \in Below \/ Call \in Terms) => "g" \notin ReadVars

Plain(e) == e.k \in {"num", "var", "bin"}

\* No call, unary operator or conditional below a binary operator, and only
\* operators on which folding and the generated code agree.
PlainTerms ==
    \A e \in Terms : e.k = "bin" =>
        /\ Plain(e.l) /\ Plain(e.r)
        /\ e.op \in {"Add", "Subtract", "Multiply", "Divide", "Remainder",
                     "NotEqual", "LeftShift"}

\* RESULTIS returns a constant or the value of a call.
PlainResults ==
    \A s \in Below : s.k = "resultis" => s.e.k \in {"num", "call"}

\* No block declares a name that means something around it, no MANIFEST is
\* used in a block nested in its own, and none is assigned to.
PlainScopes ==
    /\ \A s \in Assigns : \A i \in DOMAIN s.x : s.x[i] # "m"
    /\ \A s \in Below : s.k = "block" =>
        /\ \A i \in DOMAIN s.let : s.let[i].x \notin Variables \cup {"m"}
        /\ \A i \in DOMAIN s.man :
              /\ s.man[i].x \notin Variables \cup {"m"}
              /\ \A t \in Below : t.k = "block" /\ t.man = <<>> =>
                    \A e \in Exprs(t) : Var(s.man[i].x) \notin Subs(e)

\* What the function does for given values of its variables.
Outcome(p, env) ==
    LET m == Run(p, Machine(env))
    IN <<m.done, m.v, [x \in Variables |-> Read(m, x)]>>

(***************************************************************************)
(* ManifestResolutionPass, ConstantFoldingPass and LocalOptimizationPass   *)
(* keep the meaning of a function whose assignments are straight-line,     *)
(* whatever its variables hold: constants may flow into conditions, dead   *)
(* branches go and common subexpressions become temporaries.               *)
(***************************************************************************)
PassesPreserve ==
    unit = "tree" /\ stage # "parse" /\ StraightLine /\ PlainTerms /\
    PlainResults /\ PlainScopes =>
        \A env \in Inputs :
            Outcome(prog, env) =
            Outcome(Block(<<>>, <<>>, source), Globals @@ env)

-----------------------------------------------------------------------------
(* Folding against the generated code.                                     *)

\* Operands on which folding must give the value that the code of the
\* operator computes: it may not differ on arithmetic, << and ~=, on a false
\* comparison, on >> of a number that is not negative, and on the operands
\* listed for the others.
Agrees(op, a, b) ==
    CASE op \in {"Equal", "Equivalence"} -> a # b
      [] op = "Less" -> a >= b
      [] op = "LessEqual" -> a > b
      [] op = "Greater" -> a <= b
      [] op = "GreaterEqual" -> a < b
      [] op = "RightShift" -> a >= 0 \/ b % WordBits = 0
      [] op = "LogicalAnd" -> a = 0 \/ b \in {0, -1}
      [] op = "LogicalOr" -> a # 0 \/ b \in {0, -1}
      [] op = "BitwiseOr" -> (Unsigned(a) | Unsigned(b)) = Unsigned(a)
      [] op = "NotEquivalence" -> a = (IF a = b THEN 0 ELSE -1)
      [] OTHER -> TRUE

\* The value that visit(BinaryOp) of ConstantFoldingPass gives the operator
\* of the probe, and the value that its code computes.
FoldedValue ==
    Eval(FoldBinary(Bin(probe[1], Num(probe[2]), Num(probe[3]))), Machine(<<>>)).v
ComputedValue == emitted(probe[1], probe[2], probe[3])

=============================================================================
