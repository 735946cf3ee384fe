----------------------- MODULE LivenessAnalysisProof -----------------------
(***************************************************************************)
(* The safety properties of LivenessAnalysis for every set of programs,    *)
(* of any number of blocks, statements and variables, and for every order  *)
(* in which the unordered maps list the blocks.                            *)
(***************************************************************************)
EXTENDS LivenessAnalysis, FiniteSetTheorems, WellFoundedInduction, TLAPS

(* The block that is being visited: the two current sets are right for the *)
(* statements visited so far.                                              *)
CurrentExact ==
    current.block # NoBlock =>
      /\ phase = "use_def"
      /\ current.block \in todo
      /\ current.next \in 1 .. Len(code[current.block]) + 1
      /\ current.use = ReadFirst(current.block, current.next - 1)
      /\ current.def = Written(current.block, current.next - 1)

(* Every in set lies below the value its own equation gives it now.        *)
BelowEquation ==
    \A b \in Blocks : in_sets[b] \subseteq In(Out(in_sets, b), b)

(* While the flag is down, the equations hold where the sweep has passed.  *)
Swept ==
    phase # "use_def" /\ ~changed =>
      \A b \in Blocks \ todo : /\ out_sets[b] = Out(in_sets, b)
                               /\ in_sets[b] = In(out_sets[b], b)

Finished == phase \in {"solved", "done"} => todo = {} /\ ~changed

Untouched == phase = "use_def" => in_sets = NoSets

Solution(X) == \A b \in Blocks : X[b] = In(Out(X, b), b)

LeastSoFar ==
    phase # "use_def" =>
      \A X \in [Blocks -> SUBSET Vars] :
        Solution(X) => \A b \in Blocks : in_sets[b] \subseteq X[b]

(* The inductive invariant. *)
LInv ==
    /\ TypeOK
    /\ Untouched
    /\ CurrentExact
    /\ UseDefExact
    /\ BelowEquation
    /\ Swept
    /\ Finished
    /\ LeastSoFar

(* What the assumption says of the program under analysis.                 *)
LEMMA ProgramLemma ==
    ASSUME TypeOK
    PROVE  /\ code \in [Blocks -> Seq(Statements)]
           /\ successors \in [Blocks -> SUBSET Blocks]
BY ProgramsAssumption DEF TypeOK, code, successors

(* The right sides of the equations are sets of variables, and monotone in *)
(* the in sets.                                                            *)
LEMMA EquationsLemma ==
    ASSUME TypeOK,
           NEW X \in [Blocks -> SUBSET Vars], NEW Y \in [Blocks -> SUBSET Vars],
           \A c \in Blocks : X[c] \subseteq Y[c],
           NEW b \in Blocks
    PROVE  /\ Out(X, b) \in SUBSET Vars
           /\ In(Out(X, b), b) \in SUBSET Vars
           /\ In(Out(X, b), b) \subseteq In(Out(Y, b), b)
<1>1. successors[b] \subseteq Blocks
  BY ProgramLemma
<1>2. Out(X, b) \in SUBSET Vars /\ Out(X, b) \subseteq Out(Y, b)
  BY <1>1 DEF Out
<1>3. use_sets[b] \in SUBSET Vars
  BY DEF TypeOK
<1> QED
  BY <1>2, <1>3 DEF In

-----------------------------------------------------------------------------
(* A bounded set of naturals that is not empty has a largest element.      *)
LEMMA LargestLemma ==
    ASSUME NEW T, T \subseteq Nat, T # {},
           NEW K \in Nat, \A n \in T : n <= K
    PROVE  \E n \in T : \A m \in T : m <= n
<1> DEFINE D == {K - n : n \in T}
<1>1. D \subseteq Nat /\ D # {}
  OBVIOUS
<1>2. PICK d \in D : \A e \in D : ~(<<e, d>> \in OpToRel(<, Nat))
  BY <1>1, NatLessThanWellFounded, WFMin, Zenon
<1>3. \A e \in D : ~(e < d)
  BY <1>1, <1>2 DEF OpToRel
<1>4. PICK n \in T : d = K - n
  OBVIOUS
<1>5. \A m \in T : m <= n
  <2> TAKE m \in T
  <2>1. K - m \in D /\ ~(K - m < K - n)
    BY <1>3, <1>4
  <2> QED
    BY <2>1
<1> QED
  BY <1>5

(* The pressure calculate_register_pressure returns is a natural number    *)
(* and covers both boundary sets of every block of the function.           *)
LEMMA MaxPressureLemma ==
    ASSUME TypeOK, NEW f \in Functions
    PROVE  /\ MaxPressure(f) \in Nat
           /\ \A b \in Blocks : owner[b] = f =>
                /\ Cardinality(in_sets[b]) <= MaxPressure(f)
                /\ Cardinality(out_sets[b]) <= MaxPressure(f)
<1> DEFINE sizes == UNION {{Cardinality(in_sets[b]), Cardinality(out_sets[b])} :
                             b \in BlocksOf(f)}
           K == Cardinality(Vars)
<1>1. K \in Nat
  BY ProgramsAssumption, FS_CardinalityType
<1>2. ASSUME NEW b \in Blocks
      PROVE  /\ Cardinality(in_sets[b]) \in Nat /\ Cardinality(in_sets[b]) <= K
             /\ Cardinality(out_sets[b]) \in Nat /\ Cardinality(out_sets[b]) <= K
  <2>1. in_sets[b] \in SUBSET Vars /\ out_sets[b] \in SUBSET Vars
    BY DEF TypeOK
  <2>2. IsFiniteSet(in_sets[b]) /\ IsFiniteSet(out_sets[b])
    BY <2>1, ProgramsAssumption, FS_Subset
  <2> QED
    BY <2>1, <2>2, ProgramsAssumption, FS_Subset, FS_CardinalityType
<1>3. sizes \subseteq Nat /\ \A n \in sizes : n <= K
  BY <1>2 DEF BlocksOf
<1>4. /\ \E n \in sizes \cup {0} : \A m \in sizes \cup {0} : m <= n
      /\ \A n \in sizes \cup {0} : n \in Nat
  <2>1. /\ sizes \cup {0} \subseteq Nat /\ sizes \cup {0} # {}
        /\ \A n \in sizes \cup {0} : n <= K
    BY <1>1, <1>3
  <2> HIDE DEF sizes, K
  <2> QED
    BY <1>1, <2>1, LargestLemma
<1>5. MaxPressure(f) = CHOOSE n \in sizes \cup {0} : \A m \in sizes : m <= n
  BY DEF MaxPressure
<1>6. \A b \in Blocks : owner[b] = f =>
        Cardinality(in_sets[b]) \in sizes /\ Cardinality(out_sets[b]) \in sizes
  BY DEF BlocksOf
<1> HIDE DEF sizes
<1>7. MaxPressure(f) \in sizes \cup {0} /\ \A m \in sizes : m <= MaxPressure(f)
  BY <1>4, <1>5
<1>8. MaxPressure(f) \in Nat
  BY <1>4, <1>7
<1>9. \A b \in Blocks : owner[b] = f =>
        /\ Cardinality(in_sets[b]) <= MaxPressure(f)
        /\ Cardinality(out_sets[b]) <= MaxPressure(f)
  BY <1>6, <1>7, Zenon
<1> QED
  BY <1>8, <1>9
-----------------------------------------------------------------------------
(* What one more statement adds to the sets that UseDefExact speaks of.    *)
LEMMA WalkLemma ==
    ASSUME TypeOK, NEW b \in Blocks, NEW n \in 1 .. Len(code[b])
    PROVE  /\ code[b][n] \in Statements
           /\ code[b][n].at = "unvisited" =>
                /\ ReadFirst(b, n) = ReadFirst(b, n - 1)
                /\ Written(b, n) = Written(b, n - 1)
           /\ code[b][n].at # "unvisited" =>
                /\ ReadFirst(b, n) =
                     ReadFirst(b, n - 1) \cup (code[b][n].reads \ Written(b, n - 1))
                /\ Written(b, n) = Written(b, n - 1) \cup code[b][n].writes
<1>1. code[b] \in Seq(Statements)
  BY ProgramLemma
<1>2. /\ code[b][n] \in Statements /\ n \in Nat
      /\ code[b][n].reads \subseteq Vars /\ code[b][n].writes \subseteq Vars
  <2>1. code[b][n] \in Statements /\ n \in Nat
    BY <1>1
  <2> QED
    BY <2>1 DEF Statements
<1>3. CASE code[b][n].at = "unvisited"
  <2>1. Visited(b, n) = Visited(b, n - 1)
    BY <1>2, <1>3 DEF Visited
  <2>2. ReadFirst(b, n) = ReadFirst(b, n - 1)
    BY <2>1 DEF ReadFirst
  <2>3. Written(b, n) = Written(b, n - 1)
    BY <2>1 DEF Written
  <2> QED
    BY <1>2, <1>3, <2>2, <2>3
<1>4. CASE code[b][n].at # "unvisited"
  <2>1. Visited(b, n) = Visited(b, n - 1) \cup {n}
    BY <1>2, <1>4 DEF Visited
  <2>2. Written(b, n) = Written(b, n - 1) \cup code[b][n].writes
    BY <1>2, <2>1 DEF Written
  <2>3. ReadFirst(b, n) =
          ReadFirst(b, n - 1) \cup (code[b][n].reads \ Written(b, n - 1))
    BY <1>2, <2>1 DEF ReadFirst, Written
  <2> QED
    BY <1>2, <1>4, <2>2, <2>3
<1> QED
  BY <1>2, <1>3, <1>4

(* Before the first statement of a block nothing is read or written.       *)
LEMMA WalkStartLemma ==
    ASSUME TypeOK, NEW b \in Blocks
    PROVE  ReadFirst(b, 0) = {} /\ Written(b, 0) = {}
<1>1. Visited(b, 0) = {}
  BY DEF Visited
<1> QED
  BY <1>1 DEF ReadFirst, Written

-----------------------------------------------------------------------------
(* The initial state satisfies the invariant. *)
LEMMA InitLInv == Init => LInv
<1> SUFFICES ASSUME Init PROVE LInv
  OBVIOUS
<1> USE DEF Init, NoSets
<1>1. TypeOK
  BY DEF TypeOK, NotVisiting, Phases
<1>2. Untouched /\ CurrentExact
  BY DEF Untouched, CurrentExact, NotVisiting
<1>3. UseDefExact
  BY DEF UseDefExact
<1>4. BelowEquation
  BY DEF BelowEquation
<1>5. Swept /\ Finished /\ LeastSoFar
  BY DEF Swept, Finished, LeastSoFar
<1> QED
  BY <1>1, <1>2, <1>3, <1>4, <1>5 DEF LInv

(* What depends only on the program does not change with it.               *)
LEMMA SameProgramLemma ==
    ASSUME program' = program
    PROVE  /\ code' = code /\ successors' = successors /\ owner' = owner
           /\ \A b, n : /\ ReadFirst(b, n)' = ReadFirst(b, n)
                        /\ Written(b, n)' = Written(b, n)
<1>1. code' = code /\ successors' = successors /\ owner' = owner
  BY DEF code, successors, owner
<1> QED
  BY <1>1 DEF ReadFirst, Written, Visited

(* compute_use_def_sets: a step of the first phase keeps the parts of the  *)
(* invariant about the second, because the in sets are still empty.        *)
LEMMA UseDefPhaseLemma ==
    ASSUME LInv, phase = "use_def", in_sets' = in_sets, TypeOK', program' = program,
           phase' = "use_def" \/ (todo' = Blocks /\ phase' = "data_flow")
    PROVE  Untouched' /\ BelowEquation' /\ Swept' /\ Finished' /\ LeastSoFar'
<1>1. in_sets' = NoSets
  BY DEF LInv, Untouched
<1>2. Untouched'
  BY <1>1 DEF Untouched, NoSets
<1>3. BelowEquation' /\ LeastSoFar'
  BY <1>1 DEF BelowEquation, LeastSoFar, NoSets
<1>4. Swept' /\ Finished'
  BY DEF Swept, Finished
<1> QED
  BY <1>2, <1>3, <1>4
-----------------------------------------------------------------------------
(* analyze_block begins: the current sets are those of no statement.       *)
LEMMA StartBlockInv ==
    ASSUME LInv, NEW b \in Blocks, StartBlock(b)
    PROVE  LInv'
<1> USE DEF StartBlock
<1>1. TypeOK'
  BY DEF LInv, TypeOK, NotVisiting
<1>2. Untouched' /\ BelowEquation' /\ Swept' /\ Finished' /\ LeastSoFar'
  BY <1>1, UseDefPhaseLemma
<1>3. CurrentExact'
  <2>1. /\ current' = [block |-> b, next |-> 1, use |-> {}, def |-> {}]
        /\ todo' = todo /\ phase' = "use_def" /\ b \in todo
    BY DEF NotVisiting
  <2>2. code'[b] \in Seq(Statements)
    BY <1>1, ProgramLemma, SameProgramLemma DEF LInv
  <2>3. ReadFirst(b, 0) = {} /\ Written(b, 0) = {}
    BY WalkStartLemma DEF LInv
  <2>4. 1 \in 1 .. Len(code'[b]) + 1
    BY <2>2
  <2>5. /\ current'.block = b /\ current'.next - 1 = 0 /\ current'.next = 1
        /\ current'.use = {} /\ current'.def = {}
    BY <2>1
  <2>6. /\ ReadFirst(current.block, current.next - 1)' =
             ReadFirst(current'.block, current'.next - 1)
        /\ Written(current.block, current.next - 1)' =
             Written(current'.block, current'.next - 1)
    BY SameProgramLemma
  <2>7. /\ ReadFirst(current'.block, current'.next - 1) = {}
        /\ Written(current'.block, current'.next - 1) = {}
    BY <2>3, <2>5
  <2> QED
    BY <2>1, <2>4, <2>5, <2>6, <2>7 DEF CurrentExact
<1>4. UseDefExact'
  BY SameProgramLemma DEF LInv, UseDefExact
<1> QED
  BY <1>1, <1>2, <1>3, <1>4 DEF LInv

(* A visit changes the use and the def set and nothing else.               *)
LEMMA VisitLemma ==
    ASSUME NEW c \in [block : Blocks \cup {NoBlock}, next : Nat,
                      use : SUBSET Vars, def : SUBSET Vars],
           NEW s
    PROVE  VisitStatement(c, s) =
             [block |-> c.block, next |-> c.next,
              use |-> c.use \cup (s.reads \ c.def), def |-> c.def \cup s.writes]
<1> DEFINE d == [block |-> c.block, next |-> c.next,
                 use |-> c.use \cup (s.reads \ c.def), def |-> c.def]
<1>1. VisitReads(c, s.reads) = d
  BY DEF VisitReads
<1>2. VisitWrites(d, s.writes) = [d EXCEPT !.def = d.def \cup s.writes]
  BY DEF VisitWrites
<1> QED
  BY <1>1, <1>2 DEF VisitStatement

(* A statement is visited: the current sets follow WalkLemma.              *)
LEMMA AcceptInv ==
    ASSUME LInv, Accept
    PROVE  LInv'
<1> DEFINE b == current.block
           n == current.next
           s == code[b][n]
<1>1. /\ b \in Blocks /\ b \in todo /\ n \in 1 .. Len(code[b])
      /\ current.use = ReadFirst(b, n - 1) /\ current.def = Written(b, n - 1)
      /\ TypeOK
  <2>1. TypeOK /\ b \in Blocks /\ b \in todo
    BY DEF LInv, TypeOK, CurrentExact, Accept
  <2>2. Len(code[b]) \in Nat
    BY <2>1, ProgramLemma
  <2> QED
    BY <2>1, <2>2 DEF LInv, CurrentExact, Accept
<1>2. /\ s \in Statements
      /\ s.at = "unvisited" => /\ ReadFirst(b, n) = current.use
                               /\ Written(b, n) = current.def
      /\ s.at # "unvisited" =>
           /\ ReadFirst(b, n) = current.use \cup (s.reads \ current.def)
           /\ Written(b, n) = current.def \cup s.writes
  BY <1>1, WalkLemma
<1>3. current' = [block |-> b, next |-> n + 1,
                  use |-> ReadFirst(b, n), def |-> Written(b, n)]
  <2>1. /\ current \in [block : Blocks \cup {NoBlock}, next : Nat,
                        use : SUBSET Vars, def : SUBSET Vars]
        /\ current' = [(IF s.at = "unvisited" THEN current
                        ELSE VisitStatement(current, s)) EXCEPT !.next = @ + 1]
    BY <1>1 DEF TypeOK, Accept
  <2>2. CASE s.at = "unvisited"
    BY <1>2, <2>1, <2>2
  <2>3. CASE s.at # "unvisited"
    <3>1. current' = [VisitStatement(current, s) EXCEPT !.next = @ + 1]
      BY <2>1, <2>3
    <3>2. VisitStatement(current, s) =
            [block |-> b, next |-> n, use |-> ReadFirst(b, n), def |-> Written(b, n)]
      BY <1>2, <2>1, <2>3, VisitLemma
    <3> QED
      BY <3>1, <3>2
  <2> QED
    BY <2>2, <2>3
<1> HIDE DEF b, n, s
<1>4. /\ program' = program /\ use_sets' = use_sets /\ def_sets' = def_sets
      /\ in_sets' = in_sets /\ out_sets' = out_sets /\ todo' = todo
      /\ changed' = changed /\ phase' = phase /\ pressure' = pressure
      /\ phase = "use_def"
  BY DEF Accept
<1>5. n + 1 \in Nat /\ n + 1 \in 1 .. Len(code[b]) + 1 /\ (n + 1) - 1 = n
  <2>1. Len(code[b]) \in Nat
    BY <1>1, ProgramLemma
  <2> QED
    BY <1>1, <2>1
<1>6. TypeOK'
  <2>1. ReadFirst(b, n) \in SUBSET Vars /\ Written(b, n) \in SUBSET Vars
    BY DEF ReadFirst, Written
  <2>2. current' \in [block : Blocks \cup {NoBlock}, next : Nat,
                      use : SUBSET Vars, def : SUBSET Vars]
    BY <1>1, <1>3, <1>5, <2>1
  <2> QED
    BY <1>1, <1>4, <2>2 DEF TypeOK
<1>7. Untouched' /\ BelowEquation' /\ Swept' /\ Finished' /\ LeastSoFar'
  BY <1>4, <1>6, UseDefPhaseLemma
<1>8. CurrentExact'
  <2>1. /\ current'.block = b /\ current'.next = n + 1
        /\ current'.use = ReadFirst(b, n) /\ current'.def = Written(b, n)
    BY <1>3
  <2>2. code' = code
    BY <1>4, SameProgramLemma
  <2>3. /\ ReadFirst(b, n) = ReadFirst(current'.block, current'.next - 1)
        /\ Written(b, n) = Written(current'.block, current'.next - 1)
    BY <1>5, <2>1
  <2>4. /\ ReadFirst(current.block, current.next - 1)' = ReadFirst(b, n)
        /\ Written(current.block, current.next - 1)' = Written(b, n)
    BY <1>4, <2>3, SameProgramLemma
  <2>5. /\ current'.use = ReadFirst(current.block, current.next - 1)'
        /\ current'.def = Written(current.block, current.next - 1)'
    BY <2>1, <2>4
  <2> QED
    BY <1>1, <1>4, <1>5, <2>1, <2>2, <2>5 DEF CurrentExact
<1>9. UseDefExact'
  BY <1>4, SameProgramLemma DEF LInv, UseDefExact
<1> QED
  BY <1>6, <1>7, <1>8, <1>9 DEF LInv
(* analyze_block ends: every statement has been visited, so the current    *)
(* sets are the final ones.                                                *)
LEMMA EndBlockInv ==
    ASSUME LInv, EndBlock
    PROVE  LInv'
<1> DEFINE b == current.block
<1>1. /\ TypeOK /\ b \in Blocks /\ b \in todo
      /\ current.use = ReadFirst(b, Len(code[b]))
      /\ current.def = Written(b, Len(code[b]))
  <2>1. TypeOK /\ b \in Blocks /\ b \in todo
    BY DEF LInv, TypeOK, CurrentExact, EndBlock
  <2>2. Len(code[b]) \in Nat
    BY <2>1, ProgramLemma
  <2>3. current.next - 1 = Len(code[b])
    BY <2>1, <2>2 DEF LInv, CurrentExact, EndBlock
  <2> QED
    BY <2>1, <2>3 DEF LInv, CurrentExact, EndBlock
<1>2. /\ use_sets' = [use_sets EXCEPT ![b] = current.use]
      /\ def_sets' = [def_sets EXCEPT ![b] = current.def]
      /\ current' = [current EXCEPT !.block = NoBlock]
      /\ program' = program /\ in_sets' = in_sets /\ out_sets' = out_sets
      /\ pressure' = pressure /\ phase = "use_def"
  BY DEF EndBlock
<1>3. \/ todo = {b} /\ todo' = Blocks /\ phase' = "data_flow" /\ changed' = FALSE
      \/ todo # {b} /\ todo' = todo \ {b} /\ phase' = phase /\ changed' = changed
  BY DEF EndBlock
<1> HIDE DEF b
<1>4. TypeOK'
  <2>1. /\ use_sets' \in [Blocks -> SUBSET Vars] /\ def_sets' \in [Blocks -> SUBSET Vars]
        /\ current' \in [block : Blocks \cup {NoBlock}, next : Nat,
                         use : SUBSET Vars, def : SUBSET Vars]
    BY <1>1, <1>2 DEF TypeOK
  <2>2. todo' \in SUBSET Blocks /\ changed' \in BOOLEAN /\ phase' \in Phases
    BY <1>1, <1>3 DEF TypeOK, Phases
  <2> QED
    BY <1>1, <1>2, <2>1, <2>2 DEF TypeOK
<1>5. Untouched' /\ BelowEquation' /\ Swept' /\ Finished' /\ LeastSoFar'
  BY <1>2, <1>3, <1>4, UseDefPhaseLemma
<1>6. CurrentExact'
  BY <1>1, <1>2 DEF CurrentExact, TypeOK
<1>7. UseDefExact'
  <2> SUFFICES ASSUME NEW c \in Blocks, phase' # "use_def" \/ c \notin todo'
               PROVE  /\ use_sets'[c] = ReadFirst(c, Len(code[c]))
                      /\ def_sets'[c] = Written(c, Len(code[c]))
    BY <1>2, SameProgramLemma DEF UseDefExact
  <2>1. CASE c = b
    BY <1>1, <1>2, <2>1 DEF TypeOK
  <2>2. CASE c # b
    <3>1. c \notin todo
      BY <1>2, <1>3, <2>2
    <3> QED
      BY <1>1, <1>2, <2>2, <3>1 DEF LInv, UseDefExact, TypeOK
  <2> QED
    BY <2>1, <2>2
<1> QED
  BY <1>4, <1>5, <1>6, <1>7 DEF LInv

-----------------------------------------------------------------------------
(* The use sets, the def sets and the CFG are fixed while the equations    *)
(* are being solved.                                                       *)
LEMMA SameEquationsLemma ==
    ASSUME program' = program, use_sets' = use_sets, def_sets' = def_sets
    PROVE  /\ \A X, b : Out(X, b)' = Out(X, b)
           /\ \A Y, b : In(Y, b)' = In(Y, b)
           /\ \A b : /\ Out(in_sets, b)' = Out(in_sets', b)
                     /\ In(Out(in_sets, b), b)' = In(Out(in_sets', b), b)
                     /\ In(out_sets[b], b)' = In(out_sets'[b], b)
           /\ \A X : Solution(X)' <=> Solution(X)
<1>1. successors' = successors
  BY SameProgramLemma
<1> QED
  BY <1>1 DEF Out, In, Solution

(* One turn of the inner loop: block b gets the value of its equation,     *)
(* which contains its old one.                                             *)
LEMMA ProcessBlockLemma ==
    ASSUME LInv, NEW b \in Blocks, ProcessBlock(b)
    PROVE  /\ LInv'
           /\ \A c \in Blocks : in_sets[c] \subseteq in_sets'[c]
<1> DEFINE out == Out(in_sets, b)
           new == In(out, b)
<1>1. /\ TypeOK /\ b \in todo /\ phase = "data_flow" /\ phase' = "data_flow"
      /\ out_sets' = [out_sets EXCEPT ![b] = out]
      /\ in_sets' = [in_sets EXCEPT ![b] = new]
      /\ changed' = (changed \/ in_sets[b] # new)
      /\ todo' = todo \ {b}
      /\ program' = program /\ use_sets' = use_sets /\ def_sets' = def_sets
      /\ current' = current /\ pressure' = pressure
  BY DEF LInv, ProcessBlock
<1>2. in_sets \in [Blocks -> SUBSET Vars] /\ out_sets \in [Blocks -> SUBSET Vars]
  BY <1>1 DEF TypeOK
<1>3. out \in SUBSET Vars /\ new \in SUBSET Vars
  BY <1>1, <1>2, EquationsLemma
<1>4. in_sets[b] \subseteq new
  BY DEF LInv, BelowEquation
<1> HIDE DEF out, new
<1>5. TypeOK'
  BY <1>1, <1>2, <1>3 DEF TypeOK
<1>6. \A c \in Blocks : in_sets[c] \subseteq in_sets'[c]
  BY <1>1, <1>2, <1>4
<1>7. Untouched' /\ Finished'
  BY <1>1 DEF Untouched, Finished
<1>8. CurrentExact'
  BY <1>1 DEF LInv, CurrentExact
<1>9. UseDefExact'
  BY <1>1, SameProgramLemma DEF LInv, UseDefExact
<1>10. BelowEquation'
  <2> SUFFICES ASSUME NEW c \in Blocks
               PROVE  in_sets'[c] \subseteq In(Out(in_sets', c), c)
    BY <1>1, SameEquationsLemma DEF BelowEquation
  <2>1. in_sets' \in [Blocks -> SUBSET Vars]
    BY <1>5 DEF TypeOK
  <2>2. In(Out(in_sets, c), c) \subseteq In(Out(in_sets', c), c)
    BY <1>1, <1>2, <1>6, <2>1, EquationsLemma
  <2>3. in_sets'[c] \subseteq In(Out(in_sets, c), c)
    <3>1. CASE c = b
      BY <1>1, <1>2, <3>1 DEF new, out
    <3>2. CASE c # b
      BY <1>1, <1>2, <3>2 DEF LInv, BelowEquation
    <3> QED
      BY <3>1, <3>2
  <2> QED
    BY <2>2, <2>3
<1>11. Swept'
  <2> SUFFICES ASSUME changed' = FALSE, NEW c \in Blocks, c \notin todo'
               PROVE  /\ out_sets'[c] = Out(in_sets', c)
                      /\ in_sets'[c] = In(out_sets'[c], c)
    BY <1>1, SameEquationsLemma DEF Swept
  <2>1. ~changed /\ in_sets[b] = new
    BY <1>1 DEF TypeOK
  <2>2. in_sets' = in_sets
    BY <1>1, <1>2, <2>1
  <2>3. CASE c = b
    BY <1>1, <1>2, <2>1, <2>2, <2>3 DEF new, out
  <2>4. CASE c # b
    <3>1. c \in Blocks \ todo /\ out_sets'[c] = out_sets[c]
      BY <1>1, <1>2, <2>4
    <3> QED
      BY <1>1, <2>1, <2>2, <3>1 DEF LInv, Swept
  <2> QED
    BY <2>3, <2>4
<1>12. LeastSoFar'
  <2> SUFFICES ASSUME NEW X \in [Blocks -> SUBSET Vars], Solution(X), NEW c \in Blocks
               PROVE  in_sets'[c] \subseteq X[c]
    BY <1>1, SameEquationsLemma DEF LeastSoFar
  <2>1. \A d \in Blocks : in_sets[d] \subseteq X[d]
    BY <1>1 DEF LInv, LeastSoFar
  <2>2. new \subseteq In(Out(X, b), b)
    BY <1>1, <1>2, <2>1, EquationsLemma DEF new, out
  <2>3. new \subseteq X[b]
    BY <2>2 DEF Solution
  <2> QED
    BY <1>1, <1>2, <2>1, <2>3
<1> QED
  BY <1>5, <1>6, <1>7, <1>8, <1>9, <1>10, <1>11, <1>12 DEF LInv
(* The parts of the invariant that the end of a sweep and the computation  *)
(* of the pressure cannot disturb: the sets stay as they are.              *)
LEMMA SameSetsLemma ==
    ASSUME LInv, phase # "use_def", phase' # "use_def", program' = program,
           use_sets' = use_sets, def_sets' = def_sets, in_sets' = in_sets,
           out_sets' = out_sets, current' = current
    PROVE  /\ Untouched' /\ CurrentExact' /\ UseDefExact' /\ BelowEquation'
           /\ LeastSoFar'
<1>1. Untouched' /\ CurrentExact'
  BY DEF LInv, Untouched, CurrentExact
<1>2. UseDefExact'
  BY SameProgramLemma DEF LInv, UseDefExact
<1>3. BelowEquation'
  BY SameEquationsLemma DEF LInv, BelowEquation
<1>4. LeastSoFar'
  BY SameEquationsLemma DEF LInv, LeastSoFar
<1> QED
  BY <1>1, <1>2, <1>3, <1>4

(* The end of a sweep: either another one starts with the flag down and    *)
(* no block behind it, or the equations hold everywhere.                   *)
LEMMA EndSweepInv ==
    ASSUME LInv, EndSweep
    PROVE  LInv'
<1> USE DEF EndSweep
<1>1. TypeOK'
  BY DEF LInv, TypeOK, Phases
<1>2. Untouched' /\ CurrentExact' /\ UseDefExact' /\ BelowEquation' /\ LeastSoFar'
  BY SameSetsLemma
<1>3. Finished'
  BY DEF Finished
<1>4. Swept'
  <2>1. CASE changed
    BY <2>1 DEF Swept
  <2>2. CASE ~changed
    BY <2>2, SameEquationsLemma DEF LInv, Swept
  <2> QED
    BY <2>1, <2>2
<1> QED
  BY <1>1, <1>2, <1>3, <1>4 DEF LInv

(* calculate_register_pressure only reads the sets.                        *)
LEMMA PressureInv ==
    ASSUME LInv, calculate_register_pressure
    PROVE  LInv'
<1> USE DEF calculate_register_pressure
<1>1. TypeOK'
  <2>1. pressure' \in [Functions -> Nat]
    BY MaxPressureLemma DEF LInv
  <2> QED
    BY <2>1 DEF LInv, TypeOK, Phases
<1>2. Untouched' /\ CurrentExact' /\ UseDefExact' /\ BelowEquation' /\ LeastSoFar'
  BY SameSetsLemma
<1>3. Finished'
  BY DEF LInv, Finished
<1>4. Swept'
  BY SameEquationsLemma DEF LInv, Swept
<1> QED
  BY <1>1, <1>2, <1>3, <1>4 DEF LInv

(* A step that changes nothing. *)
LEMMA StutterLInv ==
    ASSUME LInv, UNCHANGED vars
    PROVE  LInv'
<1> USE DEF vars
<1>1. TypeOK' /\ Untouched' /\ Finished'
  BY DEF LInv, TypeOK, Untouched, Finished
<1>2. CurrentExact'
  BY DEF LInv, CurrentExact, ReadFirst, Written, Visited, code
<1>3. UseDefExact'
  BY SameProgramLemma DEF LInv, UseDefExact
<1>4. BelowEquation' /\ Swept'
  BY SameEquationsLemma DEF LInv, BelowEquation, Swept
<1>5. LeastSoFar'
  BY SameEquationsLemma DEF LInv, LeastSoFar
<1> QED
  BY <1>1, <1>2, <1>3, <1>4, <1>5 DEF LInv

(* Every step of the pass preserves the invariant.                         *)
LEMMA NextLInv ==
    ASSUME LInv, [Next]_vars
    PROVE  LInv'
<1>1. ASSUME NEW b \in Blocks, StartBlock(b) PROVE LInv'
  BY <1>1, StartBlockInv
<1>2. CASE Accept
  BY <1>2, AcceptInv
<1>3. CASE EndBlock
  BY <1>3, EndBlockInv
<1>4. ASSUME NEW b \in Blocks, ProcessBlock(b) PROVE LInv'
  BY <1>4, ProcessBlockLemma
<1>5. CASE EndSweep
  BY <1>5, EndSweepInv
<1>6. CASE calculate_register_pressure
  BY <1>6, PressureInv
<1>7. CASE UNCHANGED vars
  BY <1>7, StutterLInv
<1> QED
  BY <1>1, <1>2, <1>3, <1>4, <1>5, <1>6, <1>7 DEF Next, Returned

(* The invariant holds throughout the pass.                                *)
THEOREM LInvTheorem == Spec => []LInv
<1> QED
  BY InitLInv, NextLInv, PTL DEF Spec

-----------------------------------------------------------------------------
(* The members of LivenessAnalysisPass keep their types, and the pressure  *)
(* of each function is a natural number.                                   *)
THEOREM TypeCorrect == Spec => []TypeOK
<1>1. LInv => TypeOK
  BY DEF LInv
<1> QED
  BY <1>1, LInvTheorem, PTL

(* compute_use_def_sets: the use and def sets of every analysed block are  *)
(* exactly the variables read first and the variables written by the       *)
(* statements the pass visits there.                                       *)
THEOREM UseDefCorrect == Spec => []UseDefExact
<1>1. LInv => UseDefExact
  BY DEF LInv
<1> QED
  BY <1>1, LInvTheorem, PTL

(* run_data_flow_analysis returns a solution of both equations.            *)
THEOREM SolutionCorrect == Spec => []Solved
<1>1. LInv => Solved
  BY DEF LInv, Solved, Swept, Finished
<1> QED
  BY <1>1, LInvTheorem, PTL

(* The solution it returns is the least one.                               *)
THEOREM LeastCorrect == Spec => []Least
<1>1. LInv => Least
  BY DEF LInv, Least, LeastSoFar, Solution
<1> QED
  BY <1>1, LInvTheorem, PTL

(* run_data_flow_analysis never takes a variable out of an in set.         *)
THEOREM GrowthCorrect == Spec => InSetsGrow
<1>1. ASSUME LInv, [Next]_vars
      PROVE  [\A b \in Blocks : in_sets[b] \subseteq in_sets'[b]]_vars
  <2>1. ASSUME NEW b \in Blocks, ProcessBlock(b)
        PROVE  \A c \in Blocks : in_sets[c] \subseteq in_sets'[c]
    BY <1>1, <2>1, ProcessBlockLemma
  <2>2. CASE ~(\E b \in Blocks : ProcessBlock(b))
    <3>1. in_sets' = in_sets
      BY <1>1, <2>2 DEF Next, StartBlock, Accept, EndBlock, EndSweep,
                        calculate_register_pressure, Returned, vars
    <3> QED
      BY <3>1
  <2> QED
    BY <2>1, <2>2
<1> QED
  BY <1>1, LInvTheorem, PTL DEF Spec, InSetsGrow
-----------------------------------------------------------------------------
(* From the equations to executions.  A set of naturals that is not empty  *)
(* has a smallest element.                                                 *)
LEMMA SmallestLemma ==
    ASSUME NEW T, T \subseteq Nat, T # {}
    PROVE  \E n \in T : \A m \in T : n <= m
<1>1. PICK n \in T : \A m \in T : ~(<<m, n>> \in OpToRel(<, Nat))
  BY NatLessThanWellFounded, WFMin, Zenon
<1>2. \A m \in T : ~(m < n)
  BY <1>1 DEF OpToRel
<1> QED
  BY <1>2

(* In a program the pass sees all of, the use set of a block is what the   *)
(* block reads before it writes it, and a block leaves a variable alone    *)
(* exactly if it is in neither of the two sets.                            *)
LEMMA FirstLemma ==
    ASSUME TypeOK, AllHere, NEW b \in Blocks, NEW v \in Vars
    PROVE  /\ v \in ReadFirst(b, Len(code[b])) <=> ReadsNext(b, 0, v)
           /\ Executed(b, 0, v) = {} <=>
                v \notin ReadFirst(b, Len(code[b])) \cup Written(b, Len(code[b]))
           /\ Executed(b, Len(code[b]), v) = {}
<1> DEFINE n == Len(code[b])
           E == Executed(b, 0, v)
           reads(i) == v \in code[b][i].reads
           writes(i) == v \in code[b][i].writes
<1>1. n \in Nat
  BY ProgramLemma
<1>2. \A i \in 1 .. n : code[b][i].at = "here"
  BY DEF AllHere
<1>3. \A k \in Int : Visited(b, k) = {i \in 1 .. n : i <= k}
  BY <1>2 DEF Visited
<1>4. E = {i \in 1 .. n : reads(i) \/ writes(i)}
  BY <1>1, <1>2 DEF Executed
<1>5. Executed(b, n, v) = {}
  BY <1>1 DEF Executed
<1>6. v \in ReadFirst(b, n) <=>
        \E i \in 1 .. n : reads(i) /\ \A j \in 1 .. n : j < i => ~writes(j)
  <2>1. Visited(b, n) = 1 .. n
    BY <1>1, <1>2 DEF Visited
  <2>2. \A i \in 1 .. n : Visited(b, i - 1) = {j \in 1 .. n : j < i}
    BY <1>1, <1>3
  <2> QED
    BY <2>1, <2>2 DEF ReadFirst
<1>7. v \in Written(b, n) <=> \E i \in 1 .. n : writes(i)
  <2>1. Visited(b, n) = 1 .. n
    BY <1>1, <1>2 DEF Visited
  <2> QED
    BY <2>1 DEF Written
<1>8. ReadsNext(b, 0, v) <=> \E i \in E : reads(i) /\ \A j \in E : i <= j
  BY DEF ReadsNext
<1> HIDE DEF n, E, reads, writes
<1>9. ASSUME E # {}
      PROVE  \E i \in E : \A j \in E : i <= j
  <2>1. E \subseteq Nat
    BY <1>1, <1>4
  <2> QED
    BY <1>9, <2>1, SmallestLemma
<1>10. v \in ReadFirst(b, n) <=> ReadsNext(b, 0, v)
  <2>1. ASSUME NEW i \in 1 .. n, reads(i), \A j \in 1 .. n : j < i => ~writes(j)
        PROVE  \E k \in E : reads(k) /\ \A j \in E : k <= j
    <3>1. i \in E
      BY <1>4, <2>1
    <3>2. PICK k \in E : \A j \in E : k <= j
      BY <1>9, <3>1
    <3>3. k \in 1 .. n /\ k <= i /\ (reads(k) \/ writes(k))
      BY <1>4, <3>1, <3>2
    <3>4. reads(k)
      BY <1>1, <2>1, <3>3
    <3> QED
      BY <3>2, <3>4
  <2>2. ASSUME NEW i \in E, reads(i), \A j \in E : i <= j
        PROVE  i \in 1 .. n /\ \A j \in 1 .. n : j < i => ~writes(j)
    BY <1>1, <1>4, <2>2
  <2> QED
    BY <1>6, <1>8, <2>1, <2>2
<1>11. E = {} <=> v \notin ReadFirst(b, n) \cup Written(b, n)
  <2>1. ASSUME E = {}
        PROVE  v \notin ReadFirst(b, n) \cup Written(b, n)
    BY <1>4, <1>6, <1>7, <2>1
  <2>2. ASSUME E # {}
        PROVE  v \in ReadFirst(b, n) \cup Written(b, n)
    <3>1. PICK k \in E : \A j \in E : k <= j
      BY <1>9, <2>2
    <3>2. k \in 1 .. n /\ (reads(k) \/ writes(k))
      BY <1>4, <3>1
    <3>3. CASE reads(k)
      BY <1>8, <1>10, <3>1, <3>3
    <3>4. CASE writes(k)
      BY <1>7, <3>2, <3>4
    <3> QED
      BY <3>2, <3>3, <3>4
  <2> QED
    BY <2>1, <2>2
<1> QED
  BY <1>5, <1>10, <1>11 DEF n, E

(* The equation of a block, read as an execution: v is wanted at its       *)
(* beginning if the block reads v first, or leaves v alone and a successor *)
(* wants it.                                                               *)
LEMMA StepLemma ==
    ASSUME LInv, phase \in {"solved", "done"}, AllHere,
           NEW X \in [Blocks -> SUBSET Vars], NEW b \in Blocks, NEW v \in Vars
    PROVE  v \in In(Out(X, b), b) <=>
             \/ ReadsNext(b, 0, v)
             \/ /\ Executed(b, 0, v) = {}
                /\ \E s \in successors[b] : v \in X[s]
<1>1. /\ use_sets[b] = ReadFirst(b, Len(code[b]))
      /\ def_sets[b] = Written(b, Len(code[b]))
  BY DEF LInv, UseDefExact
<1>2. v \in Out(X, b) <=> \E s \in successors[b] : v \in X[s]
  BY DEF Out
<1>3. v \in In(Out(X, b), b) <=>
        \/ v \in ReadFirst(b, Len(code[b]))
        \/ v \in Out(X, b) /\ v \notin Written(b, Len(code[b]))
  BY <1>1 DEF In
<1>4. /\ v \in ReadFirst(b, Len(code[b])) <=> ReadsNext(b, 0, v)
      /\ Executed(b, 0, v) = {} <=>
           v \notin ReadFirst(b, Len(code[b])) \cup Written(b, Len(code[b]))
  BY FirstLemma DEF LInv
<1> QED
  BY <1>2, <1>3, <1>4, Zenon

-----------------------------------------------------------------------------
(* A route: blocks that follow one another, all but the last of which      *)
(* leave v alone and the last of which reads it.                           *)
Route(m, p, v) ==
    /\ p \in [1 .. m -> Blocks]
    /\ \A i \in 1 .. m - 1 : /\ p[i + 1] \in successors[p[i]]
                             /\ Executed(p[i], 0, v) = {}
    /\ ReadsNext(p[m], 0, v)

Lengths(b, v) ==
    {m \in Nat \ {0} : \E p \in [1 .. m -> Blocks] : p[1] = b /\ Route(m, p, v)}

(* A variable is in the in set of the first block of a route: the last     *)
(* block of which this failed would break its equation.                    *)
LEMMA RouteSound ==
    ASSUME LInv, phase \in {"solved", "done"}, AllHere, NEW v \in Vars,
           NEW m \in Nat \ {0}, NEW p, Route(m, p, v)
    PROVE  v \in in_sets[p[1]]
<1> DEFINE D == {i \in 1 .. m : v \notin in_sets[p[i]]}
<1>1. /\ p \in [1 .. m -> Blocks] /\ ReadsNext(p[m], 0, v)
      /\ \A i \in 1 .. m - 1 : /\ p[i + 1] \in successors[p[i]]
                               /\ Executed(p[i], 0, v) = {}
  BY DEF Route
<1>2. in_sets \in [Blocks -> SUBSET Vars]
  BY DEF LInv, TypeOK
<1>3. \A b \in Blocks : in_sets[b] = In(Out(in_sets, b), b)
  BY DEF LInv, Swept, Finished
<1>4. \A b \in Blocks : v \in in_sets[b] <=>
                          \/ ReadsNext(b, 0, v)
                          \/ /\ Executed(b, 0, v) = {}
                             /\ \E s \in successors[b] : v \in in_sets[s]
  BY <1>2, <1>3, StepLemma
<1>5. ASSUME D # {} PROVE FALSE
  <2>1. D \subseteq Nat /\ \A i \in D : i <= m
    OBVIOUS
  <2> HIDE DEF D
  <2>2. PICK i \in D : \A j \in D : j <= i
    BY <1>5, <2>1, LargestLemma
  <2>3. i \in 1 .. m /\ v \notin in_sets[p[i]] /\ p[i] \in Blocks
    BY <1>1, <2>2 DEF D
  <2>4. CASE i = m
    BY <1>1, <1>4, <2>3, <2>4
  <2>5. CASE i # m
    <3>1. i \in 1 .. m - 1 /\ i + 1 \in 1 .. m /\ i + 1 \notin D
      BY <2>2, <2>3, <2>5, <2>1
    <3>2. v \in in_sets[p[i + 1]]
      BY <3>1 DEF D
    <3> QED
      BY <1>1, <1>4, <2>3, <3>1, <3>2
  <2> QED
    BY <2>4, <2>5
<1>6. 1 \in 1 .. m
  OBVIOUS
<1> QED
  BY <1>5, <1>6

(* The variables that have a route are a solution of the equations.        *)
LEMMA RoutesSolve ==
    ASSUME LInv, phase \in {"solved", "done"}, AllHere
    PROVE  Solution([c \in Blocks |-> {w \in Vars : Lengths(c, w) # {}}])
<1> DEFINE X == [c \in Blocks |-> {w \in Vars : Lengths(c, w) # {}}]
<1>1. X \in [Blocks -> SUBSET Vars]
  OBVIOUS
<1>2. successors \in [Blocks -> SUBSET Blocks]
  BY ProgramLemma DEF LInv
<1> SUFFICES ASSUME NEW c \in Blocks PROVE X[c] = In(Out(X, c), c)
  BY DEF Solution
<1>3. In(Out(X, c), c) \subseteq Vars
  BY <1>1, EquationsLemma DEF LInv
<1> SUFFICES ASSUME NEW w \in Vars
             PROVE  Lengths(c, w) # {} <=> w \in In(Out(X, c), c)
  BY <1>3
<1>4. w \in In(Out(X, c), c) <=>
        \/ ReadsNext(c, 0, w)
        \/ /\ Executed(c, 0, w) = {}
           /\ \E s \in successors[c] : Lengths(s, w) # {}
  <2>1. \A s \in successors[c] : w \in X[s] <=> Lengths(s, w) # {}
    BY <1>2
  <2> HIDE DEF X
  <2> QED
    BY <1>1, <2>1, StepLemma
<1> HIDE DEF X
<1>5. ASSUME ReadsNext(c, 0, w) PROVE Lengths(c, w) # {}
  <2> DEFINE p == [i \in 1 .. 1 |-> c]
  <2>1. p \in [1 .. 1 -> Blocks] /\ p[1] = c
    OBVIOUS
  <2>2. Route(1, p, w)
    BY <1>5, <2>1 DEF Route
  <2>3. 1 \in Lengths(c, w)
    BY <2>1, <2>2 DEF Lengths
  <2> QED
    BY <2>3
<1>6. ASSUME Executed(c, 0, w) = {}, NEW s \in successors[c], Lengths(s, w) # {}
      PROVE  Lengths(c, w) # {}
  <2>1. PICK m \in Nat \ {0} : m \in Lengths(s, w)
    BY <1>6 DEF Lengths
  <2>2. PICK p \in [1 .. m -> Blocks] : p[1] = s /\ Route(m, p, w)
    BY <2>1 DEF Lengths
  <2> DEFINE q == [i \in 1 .. m + 1 |-> IF i = 1 THEN c ELSE p[i - 1]]
  <2>3. q \in [1 .. m + 1 -> Blocks] /\ q[1] = c /\ q[m + 1] = p[m]
    OBVIOUS
  <2>4. \A i \in 1 .. m : q[i + 1] = p[i]
    OBVIOUS
  <2> HIDE DEF q
  <2>5. ASSUME NEW i \in 1 .. (m + 1) - 1
        PROVE  q[i + 1] \in successors[q[i]] /\ Executed(q[i], 0, w) = {}
    <3>1. CASE i = 1
      BY <1>6, <2>2, <2>3, <2>4, <3>1
    <3>2. CASE i # 1
      <4>1. i - 1 \in 1 .. m - 1 /\ i \in 1 .. m /\ (i - 1) + 1 = i /\ i - 1 \in 1 .. m
        BY <3>2
      <4>2. q[i] = p[i - 1] /\ q[i + 1] = p[(i - 1) + 1]
        BY <2>4, <4>1
      <4>3. p[(i - 1) + 1] \in successors[p[i - 1]] /\ Executed(p[i - 1], 0, w) = {}
        BY <2>2, <4>1 DEF Route
      <4> QED
        BY <4>2, <4>3
    <3> QED
      BY <3>1, <3>2
  <2>6. ReadsNext(q[m + 1], 0, w)
    BY <2>2, <2>3 DEF Route
  <2>7. Route(m + 1, q, w)
    BY <2>3, <2>5, <2>6 DEF Route
  <2>8. m + 1 \in Lengths(c, w)
    BY <2>3, <2>7 DEF Lengths
  <2> QED
    BY <2>8
<1>7. ASSUME NEW m \in Lengths(c, w), ~ReadsNext(c, 0, w)
      PROVE  /\ Executed(c, 0, w) = {}
             /\ \E s \in successors[c] : Lengths(s, w) # {}
  <2>1. m \in Nat \ {0}
    BY DEF Lengths
  <2>2. PICK p \in [1 .. m -> Blocks] : p[1] = c /\ Route(m, p, w)
    BY DEF Lengths
  <2>3. m # 1
    BY <1>7, <2>2 DEF Route
  <2>4. 1 \in 1 .. m - 1 /\ 2 \in 1 .. m /\ 1 + 1 = 2 /\ m - 1 \in Nat \ {0}
    BY <2>1, <2>3
  <2>5. p[2] \in successors[c] /\ Executed(c, 0, w) = {}
    BY <2>2, <2>4 DEF Route
  <2> DEFINE q == [i \in 1 .. m - 1 |-> p[i + 1]]
  <2>6. q \in [1 .. m - 1 -> Blocks] /\ q[1] = p[2] /\ q[m - 1] = p[m]
    BY <2>1, <2>4
  <2>7. ASSUME NEW i \in 1 .. (m - 1) - 1
        PROVE  q[i + 1] \in successors[q[i]] /\ Executed(q[i], 0, w) = {}
    <3>1. i + 1 \in 1 .. m - 1 /\ i \in 1 .. m - 1
      BY <2>1
    <3>2. q[i] = p[i + 1] /\ q[i + 1] = p[(i + 1) + 1]
      BY <3>1
    <3> HIDE DEF q
    <3>3. p[(i + 1) + 1] \in successors[p[i + 1]] /\ Executed(p[i + 1], 0, w) = {}
      BY <2>2, <3>1 DEF Route
    <3> QED
      BY <3>2, <3>3
  <2> HIDE DEF q
  <2>8. ReadsNext(q[m - 1], 0, w)
    BY <2>2, <2>6 DEF Route
  <2>9. Route(m - 1, q, w)
    BY <2>6, <2>7, <2>8 DEF Route
  <2>10. m - 1 \in Lengths(p[2], w)
    BY <2>4, <2>6, <2>9 DEF Lengths
  <2> QED
    BY <2>5, <2>10
<1> QED
  BY <1>4, <1>5, <1>6, <1>7
-----------------------------------------------------------------------------
(* A route that meets a block twice can do without what lies between.      *)
LEMMA ShortcutLemma ==
    ASSUME NEW v, NEW m \in Nat \ {0}, NEW p, Route(m, p, v),
           NEW i \in 1 .. m, NEW j \in 1 .. m, i < j, p[i] = p[j]
    PROVE  \E n \in Lengths(p[1], v) : n < m
<1> DEFINE d == j - i
           n == m - d
           q == [k \in 1 .. n |-> IF k <= i THEN p[k] ELSE p[k + d]]
<1>1. /\ p \in [1 .. m -> Blocks] /\ ReadsNext(p[m], 0, v)
      /\ \A k \in 1 .. m - 1 : /\ p[k + 1] \in successors[p[k]]
                               /\ Executed(p[k], 0, v) = {}
  BY DEF Route
<1>2. d \in 1 .. m - 1 /\ n \in Nat \ {0} /\ n < m /\ i <= n /\ n + d = m /\ i + d = j
  OBVIOUS
<1>3. q \in [1 .. n -> Blocks]
  BY <1>1, <1>2
<1>4. /\ \A k \in 1 .. n : k <= i => q[k] = p[k]
      /\ \A k \in 1 .. n : k >= i => q[k] = p[k + d]
  BY <1>2
<1> HIDE DEF q, d, n
<1>5. q[1] = p[1] /\ q[n] = p[m]
  <2>1. 1 \in 1 .. n /\ 1 <= i /\ n \in 1 .. n /\ n >= i
    BY <1>2
  <2> QED
    BY <1>2, <1>4, <2>1
<1>6. ASSUME NEW k \in 1 .. n - 1
      PROVE  q[k + 1] \in successors[q[k]] /\ Executed(q[k], 0, v) = {}
  <2>1. k \in 1 .. n /\ k + 1 \in 1 .. n /\ k \in 1 .. m - 1 /\ k + d \in 1 .. m - 1
    BY <1>2
  <2>2. CASE k < i
    <3>1. q[k] = p[k] /\ q[k + 1] = p[k + 1]
      BY <1>4, <2>1, <2>2
    <3> QED
      BY <1>1, <2>1, <3>1
  <2>3. CASE k >= i
    <3>1. k + 1 >= i /\ (k + 1) + d = (k + d) + 1
      BY <1>2, <2>1, <2>3
    <3>2. q[k] = p[k + d] /\ q[k + 1] = p[(k + 1) + d]
      BY <1>4, <2>1, <2>3, <3>1
    <3>3. q[k + 1] = p[(k + d) + 1]
      BY <3>1, <3>2
    <3> QED
      BY <1>1, <2>1, <3>2, <3>3
  <2> QED
    BY <2>1, <2>2, <2>3
<1>7. Route(n, q, v)
  BY <1>1, <1>3, <1>5, <1>6 DEF Route
<1>8. n \in Lengths(p[1], v)
  BY <1>2, <1>3, <1>5, <1>7 DEF Lengths
<1> QED
  BY <1>2, <1>8

(* So the shortest route meets no block twice, and there is a route no     *)
(* longer than the number of blocks if there is one at all.                *)
LEMMA ShortestLemma ==
    ASSUME NEW b, NEW v, Lengths(b, v) # {}
    PROVE  \E m \in 1 .. Cardinality(Blocks) : \E p \in [1 .. m -> Blocks] :
             p[1] = b /\ Route(m, p, v)
<1>1. Lengths(b, v) \subseteq Nat
  BY DEF Lengths
<1>2. PICK m \in Lengths(b, v) : \A n \in Lengths(b, v) : m <= n
  BY <1>1, SmallestLemma
<1>3. m \in Nat \ {0}
  BY DEF Lengths
<1>4. PICK p \in [1 .. m -> Blocks] : p[1] = b /\ Route(m, p, v)
  BY DEF Lengths
<1>5. \A n \in Lengths(p[1], v) : ~(n < m)
  BY <1>1, <1>2, <1>3, <1>4
<1>6. \A i \in 1 .. m, j \in 1 .. m : i < j => p[i] # p[j]
  BY <1>3, <1>4, <1>5, ShortcutLemma
<1>7. \A i \in 1 .. m, j \in 1 .. m : i # j => p[i] # p[j]
  BY <1>3, <1>6
<1>8. IsFiniteSet(Blocks) /\ Cardinality(Blocks) \in Nat
  BY ProgramsAssumption, FS_CardinalityType
<1>9. IsFiniteSet(1 .. m) /\ Cardinality(1 .. m) = m
  BY <1>3, FS_Interval
<1>10. m <= Cardinality(Blocks)
  <2>1. ~(Cardinality(Blocks) < Cardinality(1 .. m))
    BY <1>4, <1>7, <1>8, <1>9, FS_PigeonHole, Zenon
  <2> QED
    BY <1>3, <1>8, <1>9, <2>1
<1>11. m \in 1 .. Cardinality(Blocks)
  BY <1>3, <1>8, <1>10
<1> QED
  BY <1>4, <1>11

-----------------------------------------------------------------------------
(* A variable is in the in set of a block exactly if a route starts there: *)
(* a route forces it into every solution, and the variables with a route   *)
(* are a solution, which contains the least one.                           *)
LEMMA InSetsLemma ==
    ASSUME LInv, phase \in {"solved", "done"}, AllHere,
           NEW b \in Blocks, NEW v \in Vars
    PROVE  v \in in_sets[b] <=> Lengths(b, v) # {}
<1> DEFINE X == [c \in Blocks |-> {w \in Vars : Lengths(c, w) # {}}]
<1>1. ASSUME NEW m \in Lengths(b, v) PROVE v \in in_sets[b]
  <2>1. PICK p : p[1] = b /\ Route(m, p, v)
    BY DEF Lengths
  <2>2. m \in Nat \ {0}
    BY DEF Lengths
  <2>3. v \in in_sets[p[1]]
    BY <2>1, <2>2, RouteSound
  <2> QED
    BY <2>1, <2>3
<1>2. in_sets[b] \subseteq X[b]
  <2>1. X \in [Blocks -> SUBSET Vars]
    OBVIOUS
  <2>2. Solution(X)
    BY RoutesSolve
  <2> HIDE DEF X
  <2> QED
    BY <2>1, <2>2 DEF LInv, LeastSoFar
<1> QED
  BY <1>1, <1>2

(* A variable is in the out set of a block exactly if it is live at its    *)
(* end.                                                                    *)
LEMMA OutSetsLemma ==
    ASSUME LInv, phase \in {"solved", "done"}, AllHere,
           NEW b \in Blocks, NEW v \in Vars
    PROVE  v \in out_sets[b] <=>
             \E m \in 1 .. Cardinality(Blocks) : \E p \in [1 .. m -> Blocks] :
               p[1] \in successors[b] /\ Route(m, p, v)
<1>1. out_sets[b] = Out(in_sets, b)
  BY DEF LInv, Swept, Finished
<1>2. successors[b] \subseteq Blocks
  BY ProgramLemma DEF LInv
<1>3. v \in out_sets[b] <=> \E s \in successors[b] : Lengths(s, v) # {}
  <2>1. v \in out_sets[b] <=> \E s \in successors[b] : v \in in_sets[s]
    BY <1>1 DEF Out
  <2>2. \A s \in successors[b] : v \in in_sets[s] <=> Lengths(s, v) # {}
    BY <1>2, InSetsLemma
  <2> QED
    BY <2>1, <2>2
<1>4. ASSUME NEW s \in successors[b], Lengths(s, v) # {}
      PROVE  \E m \in 1 .. Cardinality(Blocks) : \E p \in [1 .. m -> Blocks] :
               p[1] \in successors[b] /\ Route(m, p, v)
  <2>1. \E m \in 1 .. Cardinality(Blocks) : \E p \in [1 .. m -> Blocks] :
          p[1] = s /\ Route(m, p, v)
    BY <1>4, ShortestLemma
  <2> QED
    BY <2>1
<1>5. ASSUME NEW m \in 1 .. Cardinality(Blocks), NEW p \in [1 .. m -> Blocks],
             p[1] \in successors[b], Route(m, p, v)
      PROVE  \E s \in successors[b] : Lengths(s, v) # {}
  <2>1. m \in Nat \ {0}
    <3>1. Cardinality(Blocks) \in Nat
      BY ProgramsAssumption, FS_CardinalityType
    <3> QED
      BY <3>1
  <2>2. m \in Lengths(p[1], v)
    BY <1>5, <2>1 DEF Lengths
  <2> QED
    BY <1>5, <2>2
<1> QED
  BY <1>3, <1>4, <1>5

(* The invariant and the solved equations make the sets exact.             *)
LEMMA ExactLemma == LInv => LivenessExact
<1> SUFFICES ASSUME LInv, phase \in {"solved", "done"}, AllHere,
                    NEW b \in Blocks, NEW v \in Vars
             PROVE  /\ v \in in_sets[b] <=> LiveAt(b, 0, v)
                    /\ v \in out_sets[b] <=> LiveAt(b, Len(code[b]), v)
  BY DEF LivenessExact
<1>1. \A n : LiveAt(b, n, v) <=>
        \/ ReadsNext(b, n, v)
        \/ Executed(b, n, v) = {} /\ v \in out_sets[b]
  <2>1. v \in out_sets[b] <=>
          \E m \in 1 .. Cardinality(Blocks) : \E p \in [1 .. m -> Blocks] :
            p[1] \in successors[b] /\ Route(m, p, v)
    BY OutSetsLemma
  <2> QED
    BY <2>1 DEF LiveAt, Route
<1>2. Executed(b, Len(code[b]), v) = {} /\ ~ReadsNext(b, Len(code[b]), v)
  <2>1. Executed(b, Len(code[b]), v) = {}
    BY FirstLemma DEF LInv
  <2> QED
    BY <2>1 DEF ReadsNext
<1>3. v \in in_sets[b] <=>
        \/ ReadsNext(b, 0, v)
        \/ Executed(b, 0, v) = {} /\ v \in out_sets[b]
  <2>1. in_sets \in [Blocks -> SUBSET Vars]
    BY DEF LInv, TypeOK
  <2>2. out_sets[b] = Out(in_sets, b) /\ in_sets[b] = In(Out(in_sets, b), b)
    BY DEF LInv, Swept, Finished
  <2>3. v \in out_sets[b] <=> \E s \in successors[b] : v \in in_sets[s]
    BY <2>2 DEF Out
  <2> QED
    BY <2>1, <2>2, <2>3, StepLemma
<1> QED
  BY <1>1, <1>2, <1>3

(* What the pass computes is liveness: in a program it sees all of, a      *)
(* variable is in the in (out) set of a block exactly if some execution    *)
(* from the beginning (end) of the block reads it before it writes it.     *)
THEOREM LivenessCorrect == Spec => []LivenessExact
<1> QED
  BY ExactLemma, LInvTheorem, PTL

-----------------------------------------------------------------------------
(* calculate_register_pressure has set the pressure and nothing changes    *)
(* the sets afterwards.                                                    *)
PressureSet ==
    phase = "done" => pressure = [f \in Functions |-> MaxPressure(f)]

(* The pressure of a function is the maximum over its blocks once the pass *)
(* has returned.                                                           *)
LEMMA PressureSetInvariant == Spec => []PressureSet
<1>1. Init => PressureSet
  BY DEF Init, PressureSet
<1>2. ASSUME PressureSet, [Next]_vars PROVE PressureSet'
  <2> USE DEF PressureSet
  <2>1. CASE calculate_register_pressure
    <3>1. /\ owner' = owner /\ in_sets' = in_sets /\ out_sets' = out_sets
          /\ pressure' = [f \in Functions |-> MaxPressure(f)]
      BY <2>1, SameProgramLemma DEF calculate_register_pressure
    <3>2. \A f : BlocksOf(f)' = BlocksOf(f)
      BY <3>1 DEF BlocksOf
    <3>3. \A f \in Functions : MaxPressure(f)' = MaxPressure(f)
      BY ONLY <3>1, <3>2 DEF MaxPressure
    <3> QED
      BY <3>1, <3>3
  <2>2. CASE UNCHANGED vars
    <3>1. \A f \in Functions : MaxPressure(f)' = MaxPressure(f)
      BY <2>2, SameProgramLemma DEF vars, MaxPressure, BlocksOf
    <3> QED
      BY <1>2, <2>2, <3>1 DEF vars
  <2>3. CASE Returned
    BY <2>2, <2>3 DEF Returned
  <2>4. CASE EndBlock
    BY <2>4 DEF EndBlock
  <2>5. CASE EndSweep
    BY <2>5 DEF EndSweep
  <2>6. CASE Accept
    BY <2>6 DEF Accept
  <2>7. ASSUME NEW b \in Blocks, StartBlock(b) \/ ProcessBlock(b) PROVE PressureSet'
    BY <2>7 DEF StartBlock, ProcessBlock
  <2> QED
    BY <1>2, <2>1, <2>2, <2>3, <2>4, <2>5, <2>6, <2>7 DEF Next
<1> QED
  BY <1>1, <1>2, PTL DEF Spec

(* The pressure main.cpp stores covers the boundaries of every block: no   *)
(* more variables are live there than the pressure of the function says.   *)
THEOREM PressureCorrect == Spec => []BoundaryPressure
<1>1. ASSUME LInv, PressureSet PROVE BoundaryPressure
  <2> SUFFICES ASSUME phase = "done", AllHere, NEW b \in Blocks,
                      NEW n \in {0, Len(code[b])}
               PROVE  Cardinality(Live(b, n)) <= pressure[owner[b]]
    BY DEF BoundaryPressure
  <2>1. TypeOK /\ owner[b] \in Functions
    BY <1>1, ProgramsAssumption DEF LInv, TypeOK, owner
  <2>2. in_sets[b] \subseteq Vars /\ out_sets[b] \subseteq Vars
    BY <2>1 DEF TypeOK
  <2>3. \A v \in Vars : /\ v \in in_sets[b] <=> LiveAt(b, 0, v)
                        /\ v \in out_sets[b] <=> LiveAt(b, Len(code[b]), v)
    BY <1>1, ExactLemma DEF LivenessExact
  <2>4. Live(b, 0) = in_sets[b] /\ Live(b, Len(code[b])) = out_sets[b]
    BY <2>2, <2>3 DEF Live
  <2>5. pressure[owner[b]] = MaxPressure(owner[b])
    BY <1>1, <2>1 DEF PressureSet
  <2>6. /\ Cardinality(in_sets[b]) <= MaxPressure(owner[b])
        /\ Cardinality(out_sets[b]) <= MaxPressure(owner[b])
    BY <2>1, MaxPressureLemma
  <2> QED
    BY <2>4, <2>5, <2>6
<1> QED
  BY <1>1, LInvTheorem, PressureSetInvariant, PTL
=============================================================================
