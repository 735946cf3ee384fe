----------------------------- MODULE MCMiddleEnd -----------------------------
(* Small instances of the middle end.                                       *)
EXTENDS MiddleEnd

a == Var("a")
b == Var("b")
gv == Var("g")
m == Var("m")
Set1(x, e) == Assign(<<x>>, <<e>>)
Plus(l, r) == Bin("Add", l, r)
Not0(l, r) == Bin("NotEqual", l, r)

MCStatementMenu ==
    { Set1("a", Num(0)), Set1("a", Num(1)), Set1("b", m),
      Set1("a", Plus(a, b)), Set1("b", Plus(a, b)), Set1("c", Plus(b, a)),
      Set1("c", Bin("Multiply", a, b)), Set1("c", Plus(Bin("Multiply", a, b), m)),
      Set1("c", Plus(Num(1), Un("Negate", a))),
      Set1("c", Plus(Num(1), Un("Negate", b))),
      Set1("b", Call), DoCall,
      Assign(<<"a", "b">>, <<b, a>>),
      IfS(Not0(a, Num(0)), Set1("c", Plus(a, b))),
      IfS(Not0(a, m), Resultis(Num(1))),
      UnlessS(a, Set1("b", Num(0))), Set1("m", Plus(a, Num(1))),
      TestS(a, Set1("c", b), Set1("c", m)),
      WhileS(Not0(a, Num(0)), Set1("a", Bin("Subtract", a, Num(1)))),
      UntilS(Not0(a, Num(1)), Set1("c", a)), RepeatUntil(Set1("c", Plus(a, b)), Num(1)),
      Set1("c", Cond(a, b, m)),
      Resultis(a), Resultis(Call),
      Block(<<[x |-> "k", v |-> 3]>>, <<[x |-> "t", e |-> Plus(a, Var("k"))]>>,
            <<Set1("c", Plus(Var("t"), Var("k")))>>),
      Block(<<[x |-> "k", v |-> 3]>>, <<>>,
            <<Block(<<>>, <<>>, <<Set1("c", Var("k"))>>)>>) }

\* "a" and "b" vary; "c" and the global "g" start with 0.
MCInputs == {[x \in {"a", "b", "c", "g"} |->
                 IF x = "a" THEN i ELSE IF x = "b" THEN j ELSE 0] :
             i \in {0, 1, 3}, j \in {0, 1, 3}}
=============================================================================
