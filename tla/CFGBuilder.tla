----------------------------- MODULE CFGBuilder -----------------------------
(***************************************************************************)
(* The control-flow graph of one function: the blocks and the edges that   *)
(* CFGBuilderPass makes while it visits the statements, and the branches   *)
(* that NewCodeGenerator::generate_block_epilogue makes of the edges.      *)
(*                                                                         *)
(* The visitors arrive as a stream: a statement without a body is one      *)
(* action; a statement with a body is an action that opens it, the actions *)
(* of the statements in the body, and an action that closes it.  A body is *)
(* a $( ... $) block, whose visitor starts an unconnected block whenever a *)
(* statement follows a jump.                                               *)
(*                                                                         *)
(* A statement in a block is a record of its serial number n, the kind k   *)
(* of its node and, for a SWITCHON, the number c of its cases and whether  *)
(* it has a DEFAULT.  Blocks are numbered as they are created; 0 stands    *)
(* for the null pointer.                                                   *)
(***************************************************************************)
EXTENDS Integers, Sequences, SequencesExt

CONSTANTS Labels,          \* the label names of the function
          SimpleKinds,     \* statements that are copied into the block
          DroppedKinds,    \* statements whose visitor is empty
          MaxStatements,   \* bound on the visited statements
          MaxDepth,        \* bound on the nesting of bodies
          MaxCases         \* bound on the cases of a SWITCHON

VARIABLES g,       \* the graph: the statements and successors of each block
          cur,     \* current_basic_block
          breaks, loops, endcases,    \* the three stacks of jump targets
          labels,  \* label_targets
          gotos,   \* unresolved_gotos_
          open,    \* the visitors whose body is being visited
          ref,     \* what the source text says of the flow of control
          count, phase

cfgvars == <<g, cur, breaks, loops, endcases, labels, gotos, open, ref,
             count, phase>>

NoBlock == 0

\* A node of kind k, the i-th one that this step makes.
Node(k, i) == [n |-> 10 * count + i, k |-> k, c |-> 0, d |-> FALSE]

Entry == [n |-> 0, k |-> "entry", c |-> 0, d |-> FALSE]
Leave == [n |-> 0, k |-> "leave", c |-> 0, d |-> FALSE]

-----------------------------------------------------------------------------
(* The graph.                                                              *)

\* ControlFlowGraph::create_block; the new block is the last one.
create_block(G) == [G EXCEPT !.stmts = Append(@, <<>>),
                             !.succ = Append(@, <<>>)]

create_blocks(G, n) == [G EXCEPT !.stmts = @ \o [i \in 1..n |-> <<>>],
                                 !.succ = @ \o [i \in 1..n |-> <<>>]]

LastBlock(G) == Len(G.stmts)

add_edge(G, from, to) == IF from = NoBlock \/ to = NoBlock THEN G
                         ELSE [G EXCEPT !.succ[from] = Append(@, to)]

add_statement(G, b, p) == [G EXCEPT !.stmts[b] = Append(@, p)]

ControlFlow == {"goto", "return", "finish", "break", "loop", "endcase",
                "condbranch", "resultis"}

ends_with_control_flow(G, b) ==
    G.stmts[b] # <<>> /\ Last(G.stmts[b]).k \in ControlFlow

\* A block that control leaves at its end is joined to the next one.
fall_into(G, b, to) ==
    IF b # NoBlock /\ ~ends_with_control_flow(G, b)
    THEN add_edge(G, b, to) ELSE G

\* The Exit_ block is made by the first statement that needs it.
exit_block(G) == IF G.exit # NoBlock THEN G
                 ELSE LET H == create_block(G)
                      IN [H EXCEPT !.exit = LastBlock(H)]

\* visit(BlockStatement) and visit(CompoundStatement) give a statement that
\* follows a jump a block of its own, with no edge into it.
Begin == IF cur = NoBlock THEN create_block(g) ELSE g
Here == IF cur = NoBlock THEN LastBlock(g) + 1 ELSE cur

-----------------------------------------------------------------------------
(* What the source text says: which statement may follow which.  ref.from  *)
(* are the statements after which control stands here, each with the way   *)
(* out of it; a frame of open collects the jumps that leave its body.      *)

Go == 0             \* on from a statement that is not a decision
Yes == 1            \* the condition holds, the loop has another turn
No == 2
Otherwise == 10     \* no case of the SWITCHON applies
Case(i) == 10 + i   \* its i-th case does

To(from, p) == {<<f[1], f[2], p>> : f \in from}

\* Control passes from here to p and stands after p, the given way out.
Turn(r, p, how) == [r EXCEPT !.flow = @ \cup To(r.from, p),
                             !.from = {<<p, how>>}]
Follow(r, p) == Turn(r, p, Go)

LoopKinds == {"for", "vector", "list"}

\* The innermost open construct of one of the kinds, 0 if there is none.
Innermost(kinds) ==
    LET S == {i \in DOMAIN open : open[i].k \in kinds}
    IN IF S = {} THEN 0 ELSE CHOOSE i \in S : \A j \in S : j <= i

\* A jump p is noted in the construct it leaves or continues.
Note(i, field, p) ==
    IF i = 0 THEN open ELSE [open EXCEPT ![i][field] = @ \cup {<<p, Go>>}]

\* A jump with no construct around it makes no sense; one that leaves the
\* body of a list FOREACH has no target of its own.
Judged(i) == [ref EXCEPT !.wellformed = @ /\ i # 0,
                         !.astray = @ \/ (i # 0 /\ open[i].k = "list")]

Frame(k, p) == [k |-> k, node |-> p, header |-> 0, next |-> 0, exit |-> 0,
                todo |-> <<>>, from |-> {}, out |-> {}, again |-> {}]

-----------------------------------------------------------------------------
(* The visitors of one function.                                           *)

\* visit(FunctionDeclaration), visit(RoutineDeclaration) up to the body.
CFGInit ==
    /\ g = [stmts |-> <<(<<>>)>>, succ |-> <<(<<>>)>>, exit |-> NoBlock]
    /\ cur = 1
    /\ breaks = <<>> /\ loops = <<>> /\ endcases = <<>>
    /\ labels = [l \in {} |-> NoBlock]
    /\ gotos = {}
    /\ open = <<>>
    /\ ref = [from |-> {<<Entry, Go>>}, flow |-> {}, at |-> [l \in {} |-> Entry],
              jumps |-> {}, lost |-> {}, astray |-> FALSE,
              valof |-> FALSE, wellformed |-> TRUE]
    /\ count = 1
    /\ phase = "visit"

Visiting == phase = "visit" /\ count <= MaxStatements /\ count' = count + 1
Opening == Visiting /\ Len(open) < MaxDepth
Stacks == <<breaks, loops, endcases>>

\* visit(AssignmentStatement), RoutineCallStatement, LetDeclaration,
\* StringStatement and BrkStatement: a copy goes to the end of the block.
Simple(k) ==
    LET p == Node(k, 0) IN
    /\ Visiting
    /\ g' = add_statement(Begin, Here, p)
    /\ cur' = Here
    /\ ref' = Follow(ref, p)
    /\ UNCHANGED <<Stacks, labels, gotos, open, phase>>

\* visit(UnlessStatement), Test, While, Until, Repeat, Free: empty visitors.
Dropped(k) ==
    LET p == Node(k, 0) IN
    /\ Visiting
    /\ g' = Begin
    /\ cur' = Here
    /\ ref' = [Follow(ref, p) EXCEPT !.lost = @ \cup {p}]
    /\ UNCHANGED <<Stacks, labels, gotos, open, phase>>

\* visit(LabelTargetStatement).
LabelTarget(l) ==
    LET p == Node("label", 0)
        H == create_block(Begin)
        b == LastBlock(H)
    IN
    /\ Visiting
    /\ g' = add_statement(fall_into(H, Here, b), b, p)
    /\ cur' = b
    /\ labels' = [m \in DOMAIN labels \cup {l} |->
                     IF m = l THEN b ELSE labels[m]]
    /\ ref' = [Follow(ref, p) EXCEPT
                  !.at = [m \in DOMAIN @ \cup {l} |-> IF m = l THEN p ELSE @[m]],
                  !.wellformed = @ /\ l \notin DOMAIN labels]
    /\ UNCHANGED <<Stacks, gotos, open, phase>>

\* A jump ends the block: what follows has no block yet.
Jump(p, G, r) ==
    /\ Visiting
    /\ g' = G
    /\ cur' = NoBlock
    /\ ref' = [r EXCEPT !.flow = @ \cup To(ref.from, p), !.from = {}]
    /\ UNCHANGED <<Stacks, labels, phase>>

\* visit(GotoStatement): the edge is left to resolve_gotos.
Goto(l) ==
    LET p == Node("goto", 0) IN
    /\ Jump(p, add_statement(Begin, Here, p),
            [ref EXCEPT !.jumps = @ \cup {<<p, l>>}])
    /\ gotos' = gotos \cup {<<Here, l>>}
    /\ open' = open

\* visit(FinishStatement): the program ends there.
Finish ==
    LET p == Node("finish", 0) IN
    /\ Jump(p, add_statement(Begin, Here, p), ref)
    /\ UNCHANGED <<gotos, open>>

\* visit(ReturnStatement), visit(ResultisStatement).
ReturnOrResultis(k) ==
    LET p == Node(k, 0)
        H == exit_block(add_statement(Begin, Here, p))
    IN
    /\ Jump(p, add_edge(H, Here, H.exit),
            [ref EXCEPT !.flow = @ \cup {<<p, Go, Leave>>}])
    /\ UNCHANGED <<gotos, open>>

\* Mutation: the targets of a loop stay on the stacks after its end.
Pop_none(stack) == stack

\* A stack popped unless it is empty.
Pop(stack) == IF stack = <<>> THEN stack ELSE Front(stack)

Top(stack) == IF stack = <<>> THEN NoBlock ELSE Last(stack)

\* visit(BreakStatement), visit(LoopStatement), visit(EndcaseStatement): an
\* edge to the target on top of the statement's own stack, if there is one.
Break ==
    LET p == Node("break", 0)
        i == Innermost(LoopKinds)
    IN /\ Jump(p, add_edge(add_statement(Begin, Here, p), Here, Top(breaks)),
               Judged(i))
       /\ open' = Note(i, "out", p)
       /\ gotos' = gotos

Loop ==
    LET p == Node("loop", 0)
        i == Innermost(LoopKinds)
    IN /\ Jump(p, add_edge(add_statement(Begin, Here, p), Here, Top(loops)),
               Judged(i))
       /\ open' = Note(i, "again", p)
       /\ gotos' = gotos

Endcase ==
    LET p == Node("endcase", 0)
        i == Innermost({"switchon"})
    IN /\ Jump(p, add_edge(add_statement(Begin, Here, p), Here, Top(endcases)),
               Judged(i))
       /\ open' = Note(i, "out", p)
       /\ gotos' = gotos

-----------------------------------------------------------------------------
(* Statements with a body.                                                 *)

\* visit(IfStatement), up to the THEN branch: the block of the condition
\* ends with a copy of the IF; successor 1 is THEN, successor 2 is the join.
If ==
    LET p == Node("if", 0)
        H == create_blocks(add_statement(Begin, Here, p), 2)
        then == LastBlock(H) - 1
        join == LastBlock(H)
    IN
    /\ Opening
    /\ g' = add_edge(add_edge(H, Here, then), Here, join)
    /\ cur' = then
    /\ open' = Append(open, [Frame("if", p) EXCEPT !.exit = join])
    /\ ref' = Turn(ref, p, Yes)
    /\ UNCHANGED <<Stacks, labels, gotos, phase>>

\* visit(ForStatement), up to the body.
For ==
    LET init == Node("assign", 0)
        p == Node("for", 1)
        H == create_blocks(add_statement(Begin, Here, init), 4)
        header == LastBlock(H) - 3
        K == add_statement(add_edge(H, Here, header), header, p)
    IN
    /\ Opening
    /\ g' = add_edge(add_edge(K, header, header + 1), header, header + 3)
    /\ cur' = header + 1
    /\ breaks' = Append(breaks, header + 3)
    /\ loops' = Append(loops, header + 2)
    /\ open' = Append(open, [Frame("for", p) EXCEPT !.header = header,
                                !.next = header + 2, !.exit = header + 3])
    /\ ref' = Turn(Follow(ref, init), p, Yes)
    /\ UNCHANGED <<endcases, labels, gotos, phase>>

\* build_vector_foreach_cfg, up to the body.
ForEachVector ==
    LET init == Node("let", 0)
        p == Node("condbranch", 1)
        item == Node("assign", 2)
        H == create_blocks(add_statement(Begin, Here, init), 4)
        header == LastBlock(H) - 3
        K == add_statement(add_edge(H, Here, header), header, p)
        M == add_edge(add_edge(K, header, header + 1), header, header + 3)
    IN
    /\ Opening
    /\ g' = add_statement(M, header + 1, item)
    /\ cur' = header + 1
    /\ breaks' = Append(breaks, header + 3)
    /\ loops' = Append(loops, header + 2)
    /\ open' = Append(open, [Frame("vector", p) EXCEPT !.header = header,
                                !.next = header + 2, !.exit = header + 3])
    /\ ref' = Follow(Turn(Follow(ref, init), p, Yes), item)
    /\ UNCHANGED <<endcases, labels, gotos, phase>>

\* build_list_foreach_cfg, up to the body: no target is pushed before it.
ForEachList ==
    LET init == Node("let", 0)
        p == Node("condbranch", 1)
        item == Node("assign", 2)
        H == create_blocks(add_statement(Begin, Here, init), 3)
        header == LastBlock(H) - 2
        K == add_statement(add_edge(H, Here, header), header, p)
        M == add_edge(add_edge(K, header, header + 1), header, header + 2)
    IN
    /\ Opening
    /\ g' = add_statement(M, header + 1, item)
    /\ cur' = header + 1
    /\ open' = Append(open, [Frame("list", p) EXCEPT !.header = header,
                                                     !.exit = header + 2])
    /\ ref' = Follow(Turn(Follow(ref, init), p, Yes), item)
    /\ UNCHANGED <<Stacks, labels, gotos, phase>>

\* visit(SwitchonStatement), up to the first case: the header is a block of
\* its own, with an edge to every case, to the DEFAULT and to the join.
Switchon(cases, default) ==
    LET p == [Node("switchon", 0) EXCEPT !.c = cases, !.d = default]
        arms == cases + (IF default THEN 1 ELSE 0)
        H0 == create_block(Begin)
        header == LastBlock(H0)
        H == create_blocks(add_statement(fall_into(H0, Here, header),
                                         header, p), arms + 1)
        join == header + 1
        first == header + 2
    IN
    /\ Opening
    /\ cases + (IF default THEN 1 ELSE 0) > 0
    /\ g' = [H EXCEPT !.succ[header] =
                [i \in 1..arms |-> header + 1 + i] \o <<join>>]
    /\ cur' = first
    /\ endcases' = Append(endcases, join)
    /\ open' = Append(open, [Frame("switchon", p) EXCEPT !.exit = join,
                                !.todo = [i \in 1..(arms - 1) |-> first + i]])
    /\ ref' = Turn(ref, p, IF cases > 0 THEN Case(1) ELSE Otherwise)
    /\ UNCHANGED <<breaks, loops, labels, gotos, phase>>

\* A VALOF within an expression: visit(ValofExpression) visits its body among
\* the statements.  An assignment is copied before its right-hand side is
\* visited, a LET after its initializer.
Valof(k) ==
    LET p == Node(k, 0) IN
    /\ Opening
    /\ g' = IF k = "assign" THEN add_statement(Begin, Here, p) ELSE Begin
    /\ cur' = Here
    /\ open' = Append(open, Frame("valof", p))
    /\ ref' = [Follow(ref, p) EXCEPT !.valof = TRUE]
    /\ UNCHANGED <<Stacks, labels, gotos, phase>>

-----------------------------------------------------------------------------
(* The ends of the bodies.                                                 *)

Closing(k) == phase = "visit" /\ open # <<>> /\ Last(open).k = k

EndIf ==
    LET f == Last(open) IN
    /\ Closing("if")
    /\ g' = fall_into(g, cur, f.exit)
    /\ cur' = f.exit
    /\ open' = Front(open)
    /\ ref' = [ref EXCEPT !.from = @ \cup {<<f.node, No>>}]
    /\ UNCHANGED <<Stacks, labels, gotos, count, phase>>

\* What the end of a loop's body says of the flow.
Around(f, step) ==
    LET r == Follow([ref EXCEPT !.from = @ \cup f.again], step)
    IN [r EXCEPT !.flow = @ \cup {<<step, Go, f.node>>},
                 !.from = {<<f.node, No>>} \cup f.out]

\* The step of a loop: the increment of a FOR or a vector FOREACH, the
\* advance of the cursor of a list FOREACH.  No statement is counted.
Step == [n |-> 1000 + Last(open).node.n, k |-> "assign", c |-> 0, d |-> FALSE]

\* The rest of visit(ForStatement): the body is joined to the increment
\* without asking how it ends.  pop_back of an empty vector is undefined: the
\* run is not followed further.
EndFor ==
    LET f == Last(open) IN
    /\ Closing("for")
    /\ g' = add_edge(add_statement(add_edge(g, cur, f.next), f.next, Step),
                     f.next, f.header)
    /\ cur' = f.exit
    /\ breaks' = Pop(breaks)
    /\ loops' = Pop(loops)
    /\ phase' = IF breaks = <<>> \/ loops = <<>> THEN "undefined" ELSE phase
    /\ open' = Front(open)
    /\ ref' = Around(f, Step)
    /\ UNCHANGED <<endcases, labels, gotos, count>>

\* The construct that is being closed stands in a FOR or a vector FOREACH.
Enclosed == \E i \in 1..(Len(open) - 1) : open[i].k \in {"for", "vector"}

\* The rest of build_vector_foreach_cfg, which pops its targets, and of
\* visit(ForEachStatement), which pops the two stacks once more.
EndForEachVector ==
    LET f == Last(open) IN
    /\ Closing("vector")
    /\ g' = add_edge(add_statement(fall_into(g, cur, f.next), f.next, Step),
                     f.next, f.header)
    /\ cur' = f.exit
    /\ breaks' = Pop(Pop(breaks))
    /\ loops' = Pop(Pop(loops))
    /\ phase' = IF breaks = <<>> \/ loops = <<>> THEN "undefined" ELSE phase
    /\ open' = Front(open)
    /\ ref' = [Around(f, Step) EXCEPT !.astray = @ \/ Enclosed]
    /\ UNCHANGED <<endcases, labels, gotos, count>>

\* The rest of build_list_foreach_cfg, which pushes the targets once the body
\* has been visited, and of visit(ForEachStatement), which pops them.
EndForEachList ==
    LET f == Last(open)
        H == create_block(g)
        advance == LastBlock(H)
    IN
    /\ Closing("list")
    /\ g' = add_edge(add_statement(fall_into(H, cur, advance), advance, Step),
                     advance, f.header)
    /\ cur' = f.exit
    /\ breaks' = Pop(Append(breaks, f.exit))
    /\ loops' = Pop(Append(loops, f.header))
    /\ open' = Front(open)
    /\ ref' = Around(f, Step)
    /\ UNCHANGED <<endcases, labels, gotos, count, phase>>

\* The end of a case that is not the last one.
NextCase ==
    LET f == Last(open)
        arm == f.node.c + 1 - Len(f.todo) + (IF f.node.d THEN 1 ELSE 0)
    IN
    /\ Closing("switchon")
    /\ f.todo # <<>>
    /\ g' = fall_into(g, cur, f.exit)
    /\ cur' = Head(f.todo)
    /\ open' = [open EXCEPT ![Len(open)].todo = Tail(@),
                            ![Len(open)].from = @ \cup ref.from]
    /\ ref' = [ref EXCEPT !.from = {<<f.node,
                  IF arm <= f.node.c THEN Case(arm) ELSE Otherwise>>}]
    /\ UNCHANGED <<Stacks, labels, gotos, count, phase>>

\* The end of the last case or of the DEFAULT.
EndSwitchon ==
    LET f == Last(open) IN
    /\ Closing("switchon")
    /\ f.todo = <<>>
    /\ g' = fall_into(g, cur, f.exit)
    /\ cur' = f.exit
    /\ endcases' = Front(endcases)
    /\ open' = Front(open)
    /\ ref' = [ref EXCEPT !.from = @ \cup f.from \cup f.out \cup
                                   (IF f.node.d THEN {}
                                    ELSE {<<f.node, Otherwise>>})]
    /\ UNCHANGED <<breaks, loops, labels, gotos, count, phase>>

\* A LET copies its assignment into the current block even if the VALOF has
\* left none: the null pointer is dereferenced.
EndValof ==
    LET f == Last(open) IN
    /\ Closing("valof")
    /\ IF f.node.k = "assign" THEN UNCHANGED <<g, phase>>
       ELSE IF cur = NoBlock THEN g' = g /\ phase' = "crashed"
       ELSE g' = add_statement(g, cur, f.node) /\ phase' = phase
    /\ open' = Front(open)
    /\ UNCHANGED <<cur, Stacks, labels, gotos, ref, count>>

\* resolve_gotos: an unknown label is reported and its GOTO gets no edge.
resolve_gotos(G) ==
    [G EXCEPT !.succ = [b \in DOMAIN @ |->
        IF \E j \in gotos : j[1] = b /\ j[2] \in DOMAIN labels
        THEN LET j == CHOOSE x \in gotos : x[1] = b
             IN Append(@[b], labels[j[2]])
        ELSE @[b]]]

\* The rest of visit(FunctionDeclaration), visit(RoutineDeclaration).
EndFunction ==
    LET falls == cur # NoBlock /\ ~ends_with_control_flow(g, cur)
        H == IF falls THEN exit_block(g) ELSE g
    IN
    /\ phase = "visit"
    /\ open = <<>>
    /\ g' = resolve_gotos(IF falls THEN add_edge(H, cur, H.exit) ELSE H)
    /\ cur' = NoBlock
    /\ ref' = [ref EXCEPT
                  !.flow = @ \cup To(ref.from, Leave) \cup
                           {<<j[1], Go, ref.at[j[2]]>> : j \in
                              {j \in ref.jumps : j[2] \in DOMAIN ref.at}},
                  !.wellformed = @ /\ \A j \in ref.jumps :
                                         j[2] \in DOMAIN ref.at]
    /\ phase' = "built"
    /\ UNCHANGED <<Stacks, labels, gotos, open, count>>

-----------------------------------------------------------------------------
(* generate_block_epilogue: the branches at the end of a block's code.     *)

Epilogue == NoBlock    \* current_function_epilogue_label_
Throws == -1           \* "Block has two successors but ..."
Stray == -2            \* no branch: on into the block that comes next

\* The last statements that decide between two successors: the second one is
\* branched to if an IF's condition is 0, a FOR's variable is beyond its end,
\* a FOREACH's index or cursor has no element left.
Conditionals == {"if", "for", "condbranch"}

\* The compares of a SWITCHON: a branch for every case, then one to the
\* DEFAULT or to the last successor.
switch_targets(p, s) ==
    {<<Case(i), s[i]>> : i \in 1..p.c} \cup
    {<<Otherwise, IF p.d THEN s[p.c + 1] ELSE Last(s)>>}

\* visit(ReturnStatement) and visit(ResultisStatement) branch to the epilogue
\* before the block's own branch; visit(FinishStatement) ends the program.
\* The other jumps have no code of their own.
BranchToEpilogue == {"return", "resultis"}
ExitProgram == {"finish"}

\* The branches of a block, with the way out each one stands for.
generate_block_epilogue(G, b) ==
    LET s == G.succ[b]
        p == IF G.stmts[b] = <<>> THEN Entry ELSE Last(G.stmts[b])
    IN CASE p.k \in BranchToEpilogue -> {<<Go, Epilogue>>}
         [] p.k \in ExitProgram -> {}
         [] s = <<>> -> {<<Go, IF p.k \in ControlFlow THEN Stray
                               ELSE Epilogue>>}
         [] Len(s) = 1 -> {<<Go, s[1]>>}
         [] Len(s) > 1 /\ p.k = "switchon" -> switch_targets(p, s)
         [] Len(s) = 2 /\ p.k \in Conditionals -> {<<Yes, s[1]>>, <<No, s[2]>>}
         [] OTHER -> {<<Go, Throws>>}
=============================================================================
