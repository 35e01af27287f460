--------------------------- MODULE MCPlannerTable ---------------------------
(* PlannerTable with three problems whose signatures collide. *)
EXTENDS PlannerTable

entry(k, l, u, t, s) == [key |-> k, l |-> l, u |-> u, ti |-> t, slv |-> s]

\* The first two begin at the same slot of every table; the third crosses
\* their way in the larger ones.
SomeEntries ==
    UNION {{entry(k, {}, {}, 0, "s"),
            entry(k, {"a"}, {"a"}, 0, "s"),
            entry(k, {}, {}, 0, Infeasible)} : k \in {<<0, 0>>, <<0, 1>>}}
    \cup {entry(<<1, 0>>, {}, {"a"}, 0, "s"),
          entry(<<1, 0>>, {"a"}, {"a"}, 0, "s"),
          entry(<<1, 0>>, {}, {}, 1, Infeasible)}
=============================================================================
