-------------------------- MODULE LivenessAnalysis --------------------------
(***************************************************************************)
(* LivenessAnalysisPass (LivenessAnalysisPass.cpp, live_*.cpp): use and    *)
(* def sets of every basic block, the iteration that solves the data-flow  *)
(* equations, and the register pressure main.cpp stores into the metrics   *)
(* of each function, from which the code generator reserves registers.     *)
(*                                                                         *)
(*   program     the CFGs, an input: the code and the successors of each   *)
(*               block and the function it belongs to                      *)
(*   use_sets, def_sets, in_sets, out_sets   the members of the same names *)
(*   current     current_use_set_, current_def_set_, the block they are of *)
(*               and how many of its statements have been visited          *)
(*   todo        the blocks the running loop over cfgs_ has still to reach *)
(*   changed     the flag of run_data_flow_analysis                        *)
(*   pressure    the result of calculate_register_pressure                 *)
(*                                                                         *)
(* The maps of CFGs and of blocks are unordered, so each loop reaches the  *)
(* blocks in an arbitrary order.                                           *)
(*                                                                         *)
(* A statement is reduced to the variables it reads and then writes, and   *)
(* to where it stands (`at'):                                              *)
(*   "here"       executed in this block and visited by the pass           *)
(*   "branch"     a statement in the body of an IF, FOR or SWITCHON: the   *)
(*                CFG builder puts a copy of the whole compound statement  *)
(*                into the block that ends in its test, so the pass visits *)
(*                the body there, though it runs in blocks of its own      *)
(*   "unvisited"  executed here, but the pass does not descend into it:    *)
(*                reads inside the left side of an assignment, a LET, list *)
(*                expressions and the other visitors with an empty body    *)
(***************************************************************************)
EXTENDS Integers, Sequences, FiniteSets

CONSTANTS Blocks,    \* the basic blocks of all functions
          Functions, \* the functions
          Vars,      \* the variables the code names
          Programs,  \* the programs to analyse, a set of records as below
          NoBlock    \* no block is being visited

VARIABLES program, use_sets, def_sets, in_sets, out_sets, current, todo,
          changed, phase, pressure

vars == <<program, use_sets, def_sets, in_sets, out_sets, current, todo,
          changed, phase, pressure>>

Places == {"here", "branch", "unvisited"}
Statements == [reads : SUBSET Vars, writes : SUBSET Vars, at : Places]

(* A function has at least its entry block, and a successor lies in the    *)
(* same function: add_edge and resolve_gotos only ever see the blocks of   *)
(* the CFG that is being built.  A program has finitely many blocks and    *)
(* names finitely many variables.                                          *)
ASSUME ProgramsAssumption ==
    /\ Blocks # {} /\ NoBlock \notin Blocks
    /\ IsFiniteSet(Blocks) /\ IsFiniteSet(Vars)
    /\ \A p \in Programs :
         /\ p.code \in [Blocks -> Seq(Statements)]
         /\ p.successors \in [Blocks -> SUBSET Blocks]
         /\ p.owner \in [Blocks -> Functions]
         /\ \A b \in Blocks : \A s \in p.successors[b] : p.owner[s] = p.owner[b]

code == program.code
successors == program.successors
owner == program.owner

Phases == {"use_def", "data_flow", "solved", "done"}
NoSets == [b \in Blocks |-> {}]
NotVisiting == [block |-> NoBlock, next |-> 1, use |-> {}, def |-> {}]

Init ==
    /\ program \in Programs
    /\ use_sets = NoSets /\ def_sets = NoSets
    /\ in_sets = NoSets /\ out_sets = NoSets
    /\ current = NotVisiting
    /\ todo = Blocks
    /\ changed = TRUE
    /\ phase = "use_def"
    /\ pressure = [f \in Functions |-> 0]

(* analyze_block, first lines: compute_use_def_sets reaches block b.       *)
StartBlock(b) ==
    /\ phase = "use_def" /\ current.block = NoBlock /\ b \in todo
    /\ current' = [NotVisiting EXCEPT !.block = b]
    /\ UNCHANGED <<program, use_sets, def_sets, in_sets, out_sets, todo,
                   changed, phase, pressure>>

VisitReads_Always(c, reads) == [c EXCEPT !.use = @ \cup reads]

(* visit(VariableAccess): a read of a variable the block has not written   *)
(* is a use.                                                               *)
VisitReads(c, reads) == [c EXCEPT !.use = @ \cup (reads \ c.def)]

(* visit(AssignmentStatement), second loop: the variables of the left side *)
(* are defined.                                                            *)
VisitWrites(c, writes) == [c EXCEPT !.def = @ \cup writes]

VisitStatement_LeftFirst(c, s) == VisitReads(VisitWrites(c, s.writes), s.reads)

(* A statement in full: the right side before the left side.  The pass     *)
(* does not tell a statement of the block from one in a nested body.       *)
VisitStatement(c, s) == VisitWrites(VisitReads(c, s.reads), s.writes)

(* One turn of the loop of analyze_block: the accept call of a statement.  *)
Accept ==
    /\ phase = "use_def" /\ current.block # NoBlock
    /\ current.next <= Len(code[current.block])
    /\ LET s == code[current.block][current.next]
           c == IF s.at = "unvisited" THEN current ELSE VisitStatement(current, s)
       IN  current' = [c EXCEPT !.next = @ + 1]
    /\ UNCHANGED <<program, use_sets, def_sets, in_sets, out_sets, todo,
                   changed, phase, pressure>>

(* analyze_block, last lines; after the last block run() goes on to        *)
(* run_data_flow_analysis, whose first turn clears the flag.               *)
EndBlock ==
    /\ phase = "use_def" /\ current.block # NoBlock
    /\ current.next > Len(code[current.block])
    /\ use_sets' = [use_sets EXCEPT ![current.block] = current.use]
    /\ def_sets' = [def_sets EXCEPT ![current.block] = current.def]
    /\ current' = [current EXCEPT !.block = NoBlock]
    /\ IF todo = {current.block}
       THEN todo' = Blocks /\ phase' = "data_flow" /\ changed' = FALSE
       ELSE todo' = todo \ {current.block} /\ UNCHANGED <<phase, changed>>
    /\ UNCHANGED <<program, in_sets, out_sets, pressure>>

(* The two equations, with `in' for the in sets of the successors.         *)
Out(in, b) == UNION {in[s] : s \in successors[b]}
In(out, b) == use_sets[b] \cup (out \ def_sets[b])

ProcessBlock_Overwrite(b) ==
    /\ phase = "data_flow" /\ b \in todo
    /\ out_sets' = [out_sets EXCEPT ![b] = Out(in_sets, b)]
    /\ in_sets' = [in_sets EXCEPT ![b] = In(Out(in_sets, b), b)]
    /\ changed' = (in_sets[b] # In(Out(in_sets, b), b))
    /\ todo' = todo \ {b}
    /\ UNCHANGED <<program, use_sets, def_sets, current, phase, pressure>>

ProcessBlock_Always(b) ==
    /\ phase = "data_flow" /\ b \in todo
    /\ out_sets' = [out_sets EXCEPT ![b] = Out(in_sets, b)]
    /\ in_sets' = [in_sets EXCEPT ![b] = In(Out(in_sets, b), b)]
    /\ changed' = (changed \/ in_sets'[b] # {})
    /\ todo' = todo \ {b}
    /\ UNCHANGED <<program, use_sets, def_sets, current, phase, pressure>>

ProcessBlock_KeepDefs(b) ==
    /\ phase = "data_flow" /\ b \in todo
    /\ out_sets' = [out_sets EXCEPT ![b] = Out(in_sets, b)]
    /\ in_sets' = [in_sets EXCEPT ![b] = use_sets[b] \cup Out(in_sets, b)]
    /\ changed' = (changed \/ in_sets'[b] # in_sets[b])
    /\ todo' = todo \ {b}
    /\ UNCHANGED <<program, use_sets, def_sets, current, phase, pressure>>

ProcessBlock_UseOnce(b) ==
    /\ phase = "data_flow" /\ b \in todo
    /\ out_sets' = [out_sets EXCEPT ![b] = Out(in_sets, b)]
    /\ in_sets' = [in_sets EXCEPT ![b] =
                     IF in_sets[b] = {} THEN use_sets[b]
                     ELSE Out(in_sets, b) \ def_sets[b]]
    /\ changed' = (changed \/ in_sets'[b] # in_sets[b])
    /\ todo' = todo \ {b}
    /\ UNCHANGED <<program, use_sets, def_sets, current, phase, pressure>>

(* One turn of the inner loop of run_data_flow_analysis.                   *)
ProcessBlock(b) ==
    /\ phase = "data_flow" /\ b \in todo
    /\ out_sets' = [out_sets EXCEPT ![b] = Out(in_sets, b)]
    /\ in_sets' = [in_sets EXCEPT ![b] = In(Out(in_sets, b), b)]
    /\ changed' = (changed \/ in_sets[b] # In(Out(in_sets, b), b))
    /\ todo' = todo \ {b}
    /\ UNCHANGED <<program, use_sets, def_sets, current, phase, pressure>>

(* The end of a sweep over all blocks: while (changed).                    *)
EndSweep ==
    /\ phase = "data_flow" /\ todo = {}
    /\ IF changed
       THEN todo' = Blocks /\ changed' = FALSE /\ UNCHANGED phase
       ELSE phase' = "solved" /\ UNCHANGED <<todo, changed>>
    /\ UNCHANGED <<program, use_sets, def_sets, in_sets, out_sets, current,
                   pressure>>

BlocksOf(f) == {b \in Blocks : owner[b] = f}

MaxPressure_InOnly(f) ==
    LET sizes == {Cardinality(in_sets[b]) : b \in BlocksOf(f)}
    IN  CHOOSE n \in sizes \cup {0} : \A m \in sizes : m <= n

MaxPressure_OffByOne(f) ==
    LET sizes == {Cardinality(in_sets[b]) - 1 : b \in BlocksOf(f)}
    IN  IF sizes = {} THEN 0 ELSE CHOOSE n \in sizes : \A m \in sizes : m <= n

(* The larger of the two boundary sets of a block, maximised over the      *)
(* blocks of a function and 0 for a function without blocks.               *)
MaxPressure(f) ==
    LET sizes == UNION {{Cardinality(in_sets[b]), Cardinality(out_sets[b])} :
                          b \in BlocksOf(f)}
    IN  CHOOSE n \in sizes \cup {0} : \A m \in sizes : m <= n

calculate_register_pressure ==
    /\ phase = "solved"
    /\ pressure' = [f \in Functions |-> MaxPressure(f)]
    /\ phase' = "done"
    /\ UNCHANGED <<program, use_sets, def_sets, in_sets, out_sets, current,
                   todo, changed>>

(* The pass has returned. *)
Returned == phase = "done" /\ UNCHANGED vars

Next ==
    \/ \E b \in Blocks : StartBlock(b)
    \/ Accept
    \/ EndBlock
    \/ \E b \in Blocks : ProcessBlock(b)
    \/ EndSweep
    \/ calculate_register_pressure
    \/ Returned

Spec == Init /\ [][Next]_vars

(* The pass is one thread that runs until it returns.                      *)
FairSpec == Spec /\ WF_vars(Next)
-----------------------------------------------------------------------------
TypeOK ==
    /\ program \in Programs
    /\ use_sets \in [Blocks -> SUBSET Vars]
    /\ def_sets \in [Blocks -> SUBSET Vars]
    /\ in_sets \in [Blocks -> SUBSET Vars]
    /\ out_sets \in [Blocks -> SUBSET Vars]
    /\ current \in [block : Blocks \cup {NoBlock}, next : Nat,
                    use : SUBSET Vars, def : SUBSET Vars]
    /\ todo \in SUBSET Blocks
    /\ changed \in BOOLEAN
    /\ phase \in Phases
    /\ pressure \in [Functions -> Nat]

(* An action property of run_data_flow_analysis: an in set never loses a   *)
(* variable.  It is assigned, not extended, so this rests on the equations *)
(* being monotone and on the sets starting empty; with it the loop cannot  *)
(* alternate between two assignments for ever.                             *)
InSetsGrow ==
    [][\A b \in Blocks : in_sets[b] \subseteq in_sets'[b]]_vars

(* The use set of an analysed block holds exactly the variables some       *)
(* visited statement reads before every visited statement that writes      *)
(* them, and the def set exactly the variables visited statements write.   *)
(* current_use_set_ and current_def_set_ are shared by all blocks.         *)
Visited(b, n) == {i \in 1 .. Len(code[b]) : i <= n /\ code[b][i].at # "unvisited"}

ReadFirst(b, n) ==
    {v \in Vars : \E i \in Visited(b, n) :
                    /\ v \in code[b][i].reads
                    /\ \A j \in Visited(b, i - 1) : v \notin code[b][j].writes}

Written(b, n) ==
    {v \in Vars : \E i \in Visited(b, n) : v \in code[b][i].writes}

UseDefExact ==
    \A b \in Blocks :
      phase # "use_def" \/ b \notin todo =>
        /\ use_sets[b] = ReadFirst(b, Len(code[b]))
        /\ def_sets[b] = Written(b, Len(code[b]))

(* When run_data_flow_analysis returns, both equations hold at every       *)
(* block, although the flag watches the in sets only and an out set        *)
(* computed early in the last sweep may predate the in sets it unites.     *)
Solved ==
    phase \in {"solved", "done"} =>
      \A b \in Blocks : /\ out_sets[b] = Out(in_sets, b)
                        /\ in_sets[b] = In(out_sets[b], b)

(* Of all solutions of the equations the pass returns the least: a         *)
(* variable is not kept alive by a cycle of blocks that only pass it on to *)
(* each other.                                                             *)
Least ==
    phase \in {"solved", "done"} =>
      \A X \in [Blocks -> SUBSET Vars] :
        (\A b \in Blocks : X[b] = In(Out(X, b), b)) =>
          \A b \in Blocks : in_sets[b] \subseteq X[b]

(* What running the program does, as opposed to what the pass visits: the  *)
(* first thing block b does with v after its first n statements.           *)
Executed(b, n, v) ==
    {i \in 1 .. Len(code[b]) : /\ i > n /\ code[b][i].at # "branch"
                               /\ v \in code[b][i].reads \cup code[b][i].writes}

ReadsNext(b, n, v) ==
    \E i \in Executed(b, n, v) : /\ v \in code[b][i].reads
                                 /\ \A j \in Executed(b, n, v) : i <= j

(* v is live after the first n statements of b: some execution from there  *)
(* reads v before it writes it, in b or along a path of blocks p of which  *)
(* all but the last leave v alone.                                         *)
LiveAt(b, n, v) ==
    \/ ReadsNext(b, n, v)
    \/ /\ Executed(b, n, v) = {}
       /\ \E m \in 1 .. Cardinality(Blocks) : \E p \in [1 .. m -> Blocks] :
            /\ p[1] \in successors[b]
            /\ \A i \in 1 .. m - 1 : /\ p[i + 1] \in successors[p[i]]
                                     /\ Executed(p[i], 0, v) = {}
            /\ ReadsNext(p[m], 0, v)

(* The pass sees all of the program and nothing twice.                     *)
AllHere ==
    \A b \in Blocks : \A i \in 1 .. Len(code[b]) : code[b][i].at = "here"

(* On such a program the sets are the truth: a variable is in the in (out) *)
(* set of a block exactly if it is live at the beginning (end) of it.      *)
LivenessExact ==
    (phase \in {"solved", "done"} /\ AllHere) =>
      \A b \in Blocks, v \in Vars :
        /\ v \in in_sets[b] <=> LiveAt(b, 0, v)
        /\ v \in out_sets[b] <=> LiveAt(b, Len(code[b]), v)

(* calculate_register_pressure covers the boundaries of blocks: no more    *)
(* variables are live at the beginning or end of a block than the pressure *)
(* of its function says, whatever the other functions do.  The points      *)
(* between two statements of a block are not covered by it.                *)
Live(b, n) == {v \in Vars : LiveAt(b, n, v)}

BoundaryPressure ==
    (phase = "done" /\ AllHere) =>
      \A b \in Blocks : \A n \in {0, Len(code[b])} :
        Cardinality(Live(b, n)) <= pressure[owner[b]]

(* run() returns: the iteration reaches a fixed point whatever the CFG and *)
(* whatever the order in which the maps list the blocks.                   *)
Terminates == <>(phase = "done")
=============================================================================
