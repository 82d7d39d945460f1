---------------------------- MODULE MCQueryEngine ----------------------------
(***************************************************************************)
(* A query end to end for TLC: MATCH clauses of up to three segments over *)
(* three aliases without aggregation, WHERE clauses over two predicates,  *)
(* and data graphs on two nodes.                                          *)
(***************************************************************************)
EXTENDS QueryEngine

LOCAL G == INSTANCE Graphs
\* The pattern and predicate helpers of the builder, on their own: the
\* clauses and predicates are what is substituted for Matches and Preds,
\* so they cannot be defined through B.
LOCAL P == INSTANCE ExecutionPlanBuild WITH Matches <- {}, Preds <- {}

MCAlias == {"a", "b", "c"}
AliasOrder == <<"a", "b", "c">>
\* a.v = 1 and a.v = b.v.
MCPreds ==
    {P!PredicateAliases(pn) : pn \in {[t |-> "N_CONSTANT", alias |-> "a"],
                                     [t |-> "N_VARYING", alias |-> "a", nodeAlias |-> "b"]}}
MCDNode == {1, 2}
MCScanOrder == <<1, 2>>
\* Every labelling and edge set; node 2 alone has v = 1, so that a.v = 1
\* and a.v = b.v each hold for some tuples and fail for others.
MCGraphs ==
    [label : SUBSET MCDNode, edge : SUBSET (MCDNode \X MCDNode),
     prop : {<<0, 1>>}]

\* For patterns without labels: every edge set and every property values.
MCUnlabelledGraphs ==
    [label : {{}}, edge : SUBSET (MCDNode \X MCDNode), prop : [MCDNode -> {0, 1}]]

MCAllMatches ==
    {m \in BoundedSeq(P!Segment, 3) :
        /\ m # <<>>
        /\ P!PatternNodes(m) = SubSeq(AliasOrder, 1, Len(P!PatternNodes(m)))}

\* Patterns without a cycle whose nodes have at most one outgoing and at
\* most two incoming edges: the shapes the first-edge walk and the merge of
\* in-degree-2 nodes are written for.
Chains(m) ==
    LET es == P!PatternEdges(m)
        g  == [node |-> ToSet(P!PatternNodes(m)), edge |-> ToSet(es)]
        C  == G!ConnectionsIn(g)
    IN  /\ \A e \in ToSet(es) : ~C[e[2], e[1]]
        /\ \A x \in g.node :
              /\ Cardinality({k \in 1..Len(es) : es[k][1] = x}) <= 1
              /\ Cardinality({k \in 1..Len(es) : es[k][2] = x}) <= 2

\* Clauses that say each thing once: no repeated segment, and a lone node
\* only for an alias that no link mentions.
Minimal(m) ==
    /\ IsInjective(m)
    /\ \A i, j \in 1..Len(m) :
          Len(m[i]) = 1 /\ Len(m[j]) = 3 => m[i][1] \notin {m[j][1], m[j][3]}

MCChainMatches == {m \in MCAllMatches : Chains(m) /\ Minimal(m)}
=============================================================================
