------------------------- MODULE MCExecutionPlanBuild -------------------------
(***************************************************************************)
(* Model of NewExecutionPlan for TLC: every MATCH clause of at most three *)
(* segments over four aliases, up to renaming of aliases (clauses whose   *)
(* aliases first appear in the order a, b, c, d), with and without        *)
(* aggregation, with every WHERE clause over the predicates MCPreds.      *)
(***************************************************************************)
EXTENDS ExecutionPlanBuild

MCMaxSegments == 3

MCAlias == {"a", "b", "c", "d"}
AliasOrder == <<"a", "b", "c", "d">>

\* a.v = 1, b.v = 1 and a.v = b.v.
MCPreds ==
    {PredicateAliases(pn) : pn \in {[t |-> "N_CONSTANT", alias |-> "a"],
                                   [t |-> "N_CONSTANT", alias |-> "b"],
                                   [t |-> "N_VARYING", alias |-> "a", nodeAlias |-> "b"]}}

MCMatches ==
    {m \in BoundedSeq(Segment, MCMaxSegments) :
        /\ m # <<>>
        /\ PatternNodes(m) = SubSeq(AliasOrder, 1, Len(PatternNodes(m)))}

=============================================================================
