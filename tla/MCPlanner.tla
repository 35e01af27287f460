------------------------------- MODULE MCPlanner -------------------------------
(* Planner with a transform of size n, its sub-transform and a copy. *)
EXTENDS Planner, TLC

child(p, lset, uset, reset) == [p |-> p, lset |-> lset, uset |-> uset, reset |-> reset]

SomeFlags == {Estimate, NoSlow, NoUgly, "NO_BUFFERING"}
SomeProblems == {"n", "m", "k"}
SomeSolvers == "n" :> <<"ct", "generic">> @@ "m" :> <<"indirect", "ugly">> @@ "k" :> <<"codelet">>
SomeRejects == "ct" :> {} @@ "generic" :> {NoSlow} @@ "indirect" :> {"NO_BUFFERING"}
               @@ "ugly" :> {NoUgly} @@ "codelet" :> {NoSlow}
SomeChildren == "ct" :> <<child("m", {}, {}, {})>> @@ "generic" :> <<>>
                @@ "indirect" :> <<child("k", {"NO_BUFFERING"}, {}, {})>>
                @@ "ugly" :> <<>> @@ "codelet" :> <<>>
SomeRequested == {"n"}
TwoLimits == {0, 1}
\* A solver of another kind of problem, a plannable problem called infeasible,
\* and a solver that is not applicable under the flags of its entry.  Two
\* entries of "n" that answer the same requests, of which neither is the lower
\* one: the first can be found when a plan is made, the inconsistent one when it
\* is made again.
SomeImportable ==
    {Entry("n", [l |-> {}, u |-> {NoSlow, NoUgly}, ti |-> 0], "codelet"),
     Entry("m", [l |-> {}, u |-> {}, ti |-> 0], Infeasible),
     Entry("m", [l |-> {NoUgly}, u |-> {NoUgly}, ti |-> 0], "ugly"),
     Entry("n", [l |-> {}, u |-> {NoSlow}, ti |-> 0], "generic"),
     Entry("n", [l |-> {}, u |-> {NoUgly}, ti |-> 0], "codelet")}
=============================================================================
