------------------------ MODULE MCExecutionPlanExecute ------------------------
(***************************************************************************)
(* The executor run on the plans NewExecutionPlan builds for ten MATCH    *)
(* clauses (op ids in allocation order, children in the order the builder *)
(* links them), over every data graph on two nodes: every edge set, every *)
(* labelling and every property assignment.                               *)
(***************************************************************************)
EXTENDS ExecutionPlanExecute

MCAlias == {"a", "b", "c"}
MCDNode == {1, 2}
MCScanOrder == <<1, 2>>

MCGraphs ==
    [label : SUBSET MCDNode, edge : SUBSET (MCDNode \X MCDNode),
     prop : [MCDNode -> {0, 1}]]

O(type, alias, src, dest, preds, kids) ==
    Operation(type, alias, src, NONE, dest, preds) @@ [children |-> kids, parents |-> <<>>]

PR(kids)       == O("ProduceResults", NONE, NONE, NONE, {}, kids)
Scan(x)        == O("AllNodeScan", x, NONE, NONE, {}, <<>>)
LScan(x)       == O("NodeByLabelScan", x, NONE, NONE, {}, <<>>)
EA(s, d, kids) == O("ExpandAll", NONE, s, d, {}, kids)
EI(s, d, kids) == O("ExpandInto", NONE, s, d, {}, kids)
F(ps, kids)    == O("Filter", NONE, NONE, NONE, ps, kids)

MCPlans == {
    \* MATCH (a)
    <<PR(<<2>>), Scan("a")>>,
    \* MATCH (a), (b:L)
    <<PR(<<2, 3>>), Scan("a"), LScan("b")>>,
    \* MATCH (a)-->(b)
    <<PR(<<2>>), EA("a", "b", <<3>>), Scan("a")>>,
    \* MATCH (a)-->(b)-->(c)
    <<PR(<<3>>), EA("a", "b", <<4>>), EA("b", "c", <<2>>), Scan("a")>>,
    \* MATCH (a)-->(b) WHERE a.v = 1
    <<PR(<<2>>), EA("a", "b", <<4>>), Scan("a"), F({{"a"}}, <<3>>)>>,
    \* MATCH (a)-->(b)<--(c)
    <<PR(<<3>>), EA("a", "b", <<4>>), EI("c", "b", <<5, 2>>), Scan("a"), Scan("c")>>,
    \* MATCH (a)-->(b), (c)
    <<PR(<<2, 3>>), EA("a", "b", <<4>>), Scan("c"), Scan("a")>>,
    \* MATCH (a), (b)-->(c)
    <<PR(<<2, 3>>), Scan("a"), EA("b", "c", <<4>>), Scan("b")>>,
    \* MATCH (a), (b), (c)
    <<PR(<<2, 3, 4>>), Scan("a"), Scan("b"), Scan("c")>>,
    \* MATCH (a), (b) WHERE a.v = b.v
    <<PR(<<4>>), Scan("a"), Scan("b"), F({{"a", "b"}}, <<2, 3>>)>>}
=============================================================================
