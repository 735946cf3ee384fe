------------------------- MODULE MCLivenessAnalysis -------------------------
(* Three blocks with every mix of the codes below, in five graphs: a chain *)
(* with a shortcut (IF), a loop with an exit, two nested loops, a block    *)
(* that is its own successor, and two functions.                           *)
EXTENDS LivenessAnalysis

S(r, w, where) == [reads |-> r, writes |-> w, at |-> where]

MCCodes == {<< >>,
            <<S({"x"}, {"x"}, "here")>>,
            <<S({}, {"x"}, "here")>>,
            <<S({"y"}, {"x"}, "here"), S({"x"}, {"y"}, "here")>>,
            <<S({}, {"x"}, "here"), S({}, {"y"}, "here"), S({"x", "y"}, {}, "here")>>,
            <<S({"y"}, {}, "here"), S({}, {"x"}, "branch")>>,
            <<S({"x"}, {}, "unvisited"), S({"x"}, {"y"}, "here")>>}

Chain == [a |-> {"b", "c"}, b |-> {"c"}, c |-> {}]
Loop == [a |-> {"b", "c"}, b |-> {"a"}, c |-> {}]
Nested == [a |-> {"b"}, b |-> {"a", "c"}, c |-> {"b"}]
Self == [a |-> {"a", "b"}, b |-> {"c"}, c |-> {}]
Apart == [a |-> {"b"}, b |-> {"a"}, c |-> {"c"}]

MCOwner(graph) == [b \in {"a", "b", "c"} |-> IF graph = Apart /\ b = "c" THEN "G" ELSE "F"]

MCPrograms == {[code |-> k, successors |-> g, owner |-> MCOwner(g)] :
                 k \in [{"a", "b", "c"} -> MCCodes],
                 g \in {Chain, Loop, Nested, Self, Apart}}
=============================================================================
