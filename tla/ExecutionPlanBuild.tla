-------------------------- MODULE ExecutionPlanBuild --------------------------
(***************************************************************************)
(* NewExecutionPlan (src/src/execution_plan/execution_plan.c, 296-417)    *)
(* and the optimisations it runs: _ExecutionPlan_OptimizeEntryPoints,     *)
(* _ExecutionPlan_MergeNodes and _ExecutionPlan_AddFilters.               *)
(*                                                                         *)
(* The input is the MATCH clause of the AST, whether RETURN aggregates,   *)
(* and the WHERE filter tree.  The builder is sequential; its steps are   *)
(* the iterations of its loops (one per entry node, one per hop of the    *)
(* chain walk, one per node to merge), so that invariants are checked on  *)
(* every intermediate plan.                                               *)
(*                                                                         *)
(* The pattern graph is built by BuildGraph (src/graph, not part of this  *)
(* repository's sources): it is modelled from the spec (section 3).       *)
(***************************************************************************)
EXTENDS Naturals, Sequences, SequencesExt, FiniteSets, Functions, OpNode

CONSTANTS
    Alias,      \* node aliases of the query
    Labelled,   \* aliases that carry a label in the MATCH clause
    Matches,    \* the MATCH clauses to plan (sequences of Segment, below)
    Preds,      \* candidate WHERE predicates, each the set of its aliases
    MaxOps      \* bound on allocated op nodes (the chain walk may not end)

(***************************************************************************)
(* A MATCH clause is a sequence of segments, each a lone node <<x>> or a  *)
(* link <<x, d, y>> with d \in {"->", "<-"}; this is the AST's vector of  *)
(* graph entities (parser/ast.h, AST_MatchNode) read two nodes per link.  *)
(***************************************************************************)
Segment == {<<x>> : x \in Alias} \cup (Alias \X {"->", "<-"} \X Alias)

\* AST_ReturnElementType (ast.h, lines 28-32): a return element is a whole
\* entity, an entity's property or an aggregation call; of an
\* AST_ReturnElementNode (lines 110-115) the planner reads only this type.
ReturnElementType == {"N_NODE", "N_PROP", "N_AGG_FUNC"}

\* AST_ReturnNode (lines 96-99): the vector of return elements, of one or
\* two elements here; the distinct flag is not read by this code.
ReturnNode == {r \in BoundedSeq(ReturnElementType, 2) : r # <<>>}

\* ReturnClause_ContainsAggregation (the parser's helpers, not part of this
\* repository): some return element is an aggregation call.
ReturnClause_ContainsAggregation(r) == \E i \in 1..Len(r) : r[i] = "N_AGG_FUNC"

\* AST_PredicateNode (ast.h, lines 60-72): alias.property compared by op
\* with a constant (N_CONSTANT) or with the property of the node nodeVal.alias
\* (N_VARYING).  Values, properties and the comparison are left to the
\* filter tree's evaluation; what planning reads of a predicate is the
\* aliases it references, the set a predicate is in Preds.
PredicateNode ==
    [t : {"N_CONSTANT"}, alias : Alias] \cup
    [t : {"N_VARYING"}, alias : Alias, nodeAlias : Alias]

PredicateAliases(pn) ==
    IF pn.t = "N_VARYING" THEN {pn.alias, pn.nodeAlias} ELSE {pn.alias}

ASSUME /\ Labelled \subseteq Alias
       /\ Matches \subseteq Seq(Segment)
       /\ Preds \subseteq (SUBSET Alias \ {{}})
       /\ MaxOps \in Nat

-----------------------------------------------------------------------------
(* The pattern graph (BuildGraph; spec section 3 and 4.1).                *)

\* Pattern nodes in order of first appearance in the clause.
PatternNodes(m) ==
    LET s   == FlattenSeq([i \in 1..Len(m) |->
                    IF Len(m[i]) = 1 THEN <<m[i][1]>> ELSE <<m[i][1], m[i][3]>>])
        idx == SelectSeq([i \in 1..Len(s) |-> i],
                         LAMBDA i : \A j \in 1..(i-1) : s[j] # s[i])
    IN  [k \in 1..Len(idx) |-> s[idx[k]]]

\* Pattern edges <<src, dest>> in clause order, normalised by direction.
PatternEdges(m) ==
    LET links == SelectSeq(m, LAMBDA g : Len(g) = 3)
    IN  [k \in 1..Len(links) |->
            IF links[k][2] = "->" THEN <<links[k][1], links[k][3]>>
                                  ELSE <<links[k][3], links[k][1]>>]

-----------------------------------------------------------------------------
VARIABLES
    match,        \* the MATCH clause being planned
    aggregate,    \* ReturnClause_ContainsAggregation(ast->returnNode)
    where,        \* the WHERE filter tree as built (a set of predicates)
    filterTree,   \* executionPlan->filter_tree, pruned by AddFilters
    ops,          \* the op nodes allocated so far; op 1 is the root
    opStack,      \* the local vector Ops of NewExecutionPlan
    pc,           \* which loop of NewExecutionPlan runs
    entryIdx,     \* index into the entry nodes (loop at line 327)
    srcNode,      \* srcNode of the chain walk (lines 336-352)
    reversed,     \* reversedExpandOps (line 333)
    mergeIdx      \* index into the nodes to merge (loop at line 400)

vars == <<match, aggregate, where, filterTree, ops, opStack, pc, entryIdx,
          srcNode, reversed, mergeIdx>>

Nodes == PatternNodes(match)
Edges == PatternEdges(match)

\* Indices of the outgoing edges of n (node->outgoingEdges, in order).
OutEdges(n) == SelectSeq([k \in 1..Len(Edges) |-> k], LAMBDA k : Edges[k][1] = n)

\* Node_IncomeDegree.
InDegree(n) == Cardinality({k \in 1..Len(Edges) : Edges[k][2] = n})

\* Graph_GetNDegreeNodes(graph, d): nodes with in-degree d, in node order.
NDegreeNodes(d) == SelectSeq(Nodes, LAMBDA n : InDegree(n) = d)

EntryNodes   == NDegreeNodes(0)
NodesToMerge == NDegreeNodes(2)

Root == 1   \* executionPlan->root, the ProduceResults node

\* The scan chosen for an alias: by label if the node has one (lines 220-226
\* and 364-372).
ScanOp(x) ==
    Operation(IF x \in Labelled THEN "NodeByLabelScan" ELSE "AllNodeScan",
              x, NONE, NONE, NONE, {})

ExpandAllOp(e) == Operation("ExpandAll", NONE, Edges[e][1], e, Edges[e][2], {})

FilterOp(tree) == Operation("Filter", NONE, NONE, NONE, NONE, tree)

-----------------------------------------------------------------------------
(* Helpers of NewExecutionPlan.                                           *)

\* Lines 377-391: pop the last op and link each popped op as the parent of
\* the one popped before it; then the vector holds only ProduceResults.
RECURSIVE LinkChain(_, _)
LinkChain(o, stack) ==
    IF Len(stack) < 2 THEN o
    ELSE LinkChain(OpNode_AddChild(o, stack[Len(stack) - 1], Last(stack)),
                   Front(stack))

ConsumeOps(o, stack) ==
    IF Len(stack) > 1 THEN [ops |-> LinkChain(o, stack), stack |-> <<Root>>]
                      ELSE [ops |-> o, stack |-> stack]

\* Mutant: the loop over children stops one short of the last child.
RECURSIVE OptimizeChildrenSkipLast(_, _, _)

\* _ExecutionPlan_OptimizeEntryPoints (lines 203-236): an ExpandAll without
\* children gets a new scan of its source; otherwise recurse into children.
RECURSIVE OptimizeEntryPoints(_, _), OptimizeChildren(_, _, _)
OptimizeChildrenSkipLast(o, n, i) ==
    IF i >= Len(o[n].children) THEN o
    ELSE OptimizeChildrenSkipLast(OptimizeEntryPoints(o, o[n].children[i]), n, i + 1)
OptimizeEntryPoints(o, n) ==
    IF o[n].children = <<>> /\ o[n].type = "ExpandAll"
    THEN OpNode_AddChild(NewOpNode(o, ScanOp(o[n].src)), n, Len(o) + 1)
    ELSE OptimizeChildren(o, n, 1)
OptimizeChildren(o, n, i) ==
    IF i > Len(o[n].children) THEN o
    ELSE OptimizeChildren(OptimizeEntryPoints(o, o[n].children[i]), n, i + 1)

\* The search of _ExecutionPlan_MergeNodes (lines 128-157): a stack (the
\* Vector is popped from its end) seeded with the root, no visited set; the
\* first ExpandAll into n found is `a` and its children are not pushed, the
\* second is `b`.  Yields <<a, b>>, 0 standing for NULL.
RECURSIVE MergeSearch(_, _, _, _)
MergeSearch(o, n, stack, a) ==
    IF stack = <<>> THEN <<a, 0>>
    ELSE LET cur == Last(stack) IN
         IF o[cur].type = "ExpandAll" /\ o[cur].dest = n
         THEN IF a = 0 THEN MergeSearch(o, n, Front(stack), cur)
                       ELSE <<a, cur>>
         ELSE MergeSearch(o, n, Front(stack) \o o[cur].children, a)

\* Lines 179-192: for (i = 0; i < b->parentCount; i++) over b's parents,
\* while _OpNode_RemoveChild shifts that same array left.
RECURSIVE InheritParents(_, _, _, _)
InheritParents(o, a, b, i) ==
    IF i > Len(o[b].parents) THEN o
    ELSE LET p  == o[b].parents[i]
             o1 == IF OpNode_ContainsChild(o, p, a) THEN o
                   ELSE OpNode_AddChild(o, p, a)
         IN  IF p = a THEN InheritParents(o, a, b, i + 1)
             ELSE InheritParents(OpNode_RemoveChild(o1, p, b), a, b, i + 1)

\* Mutant: b, not a, becomes the ExpandInto.
MergeNodesSwapped(o, n) ==
    LET found == MergeSearch(o, n, <<Root>>, 0)
        a == found[1]
        b == found[2]
    IN  IF InDegree(n) # 2 \/ a = 0 \/ b = 0 THEN o
        ELSE LET o1 == [o EXCEPT ![b].type = "ExpandInto"]
             IN  InheritParents(OpNode_AddChild(o1, a, b), a, b, 1)

\* _ExecutionPlan_MergeNodes (lines 120-193): replace a's ExpandAll by an
\* ExpandInto over the same source, relation and destination, put b under
\* it, and hand b's other parents to a.
MergeNodes(o, n) ==
    LET found == MergeSearch(o, n, <<Root>>, 0)
        a == found[1]
        b == found[2]
    IN  IF InDegree(n) # 2 \/ a = 0 \/ b = 0 THEN o
        ELSE LET o1 == [o EXCEPT ![a].type = "ExpandInto"]
             IN  InheritParents(OpNode_AddChild(o1, a, b), a, b, 1)

\* The external filter-tree interface (spec section 3), on a conjunction of
\* predicates each given by the set of aliases it references.
FilterTree_ContainsNode(tree, seen) == \E p \in tree : p \cap seen # {}
FilterTree_MinFilterTree(tree, seen) == {p \in tree : p \subseteq seen}

\* Mutant: the filter is placed but the tree is not pruned.
PlaceFilterNoPrune(o, tree, n, seen) ==
    LET hit == FilterTree_ContainsNode(tree, seen)
        min == FilterTree_MinFilterTree(tree, seen)
    IN  [ops  |-> IF hit THEN OpNode_PushInBetween(NewOpNode(o, FilterOp(min)),
                                                    n, Len(o) + 1)
                         ELSE o,
         tree |-> tree,
         seen |-> seen \cup Modifies(o[n])]

\* Mutant: the filter is linked under its index off by one.
PlaceFilterStaleIndex(o, tree, n, seen) ==
    LET hit == FilterTree_ContainsNode(tree, seen)
        min == FilterTree_MinFilterTree(tree, seen)
    IN  [ops  |-> IF hit THEN OpNode_PushInBetween(NewOpNode(o, FilterOp(min)),
                                                    n, Len(o))
                         ELSE o,
         tree |-> IF hit THEN tree \ min ELSE tree,
         seen |-> seen \cup Modifies(o[n])]

\* Lines 273-293 of _ExecutionPlan_AddFilters, at op n once its children
\* are done: where the tree references an alias in seen, push a Filter with
\* the minimum tree between n and its children and prune the tree; then add
\* n's own modified aliases.  Yields the plan, the tree and n's seen set.
PlaceFilter(o, tree, n, seen) ==
    LET hit == FilterTree_ContainsNode(tree, seen)
        min == FilterTree_MinFilterTree(tree, seen)
    IN  [ops  |-> IF hit THEN OpNode_PushInBetween(NewOpNode(o, FilterOp(min)),
                                                    n, Len(o) + 1)
                         ELSE o,
         tree |-> IF hit THEN tree \ min ELSE tree,
         seen |-> seen \cup Modifies(o[n])]

\* _ExecutionPlan_AddFilters (lines 238-294): post-order over the children
\* from last to first, collecting the aliases bound below; stop as soon as
\* the tree is empty (the NULL return), else place a filter at n.
RECURSIVE AddFilters(_, _, _), AddFiltersChildren(_, _, _, _, _)
AddFilters(o, tree, n) == AddFiltersChildren(o, tree, n, Len(o[n].children), {})
AddFiltersChildren(o, tree, n, i, seen) ==
    IF i = 0 THEN PlaceFilter(o, tree, n, seen)
    ELSE LET r == AddFilters(o, tree, o[n].children[i]) IN
         IF r.tree = {} THEN [ops |-> r.ops, tree |-> {}, seen |-> {}]
         ELSE AddFiltersChildren(r.ops, r.tree, n, i - 1, seen \cup r.seen)

\* OpNode_Free (lines 520-529): how many times freeing the plan below n
\* frees op k; it frees each child link's subtree, then n.
RECURSIVE OpNode_Free(_, _, _), FreeChildren(_, _, _, _)
OpNode_Free(o, n, k) == FreeChildren(o, n, k, 1) + (IF n = k THEN 1 ELSE 0)
FreeChildren(o, n, k, i) ==
    IF i > Len(o[n].children) THEN 0
    ELSE OpNode_Free(o, o[n].children[i], k) + FreeChildren(o, n, k, i + 1)

\* ExecutionPlanFree (lines 531-538).
ExecutionPlanFree(o, k) == OpNode_Free(o, Root, k)

-----------------------------------------------------------------------------
(* The steps of NewExecutionPlan.                                          *)

\* Lines 296-322: ProduceResults is op 1, then an Aggregate if RETURN has an
\* aggregation function; both start the vector Ops.
Init ==
    \E m \in Matches, r \in ReturnNode :
    \E ft \in SUBSET {p \in Preds : p \subseteq ToSet(PatternNodes(m))} :
        LET pr  == NewOpNode(<<>>, Operation("ProduceResults", NONE, NONE, NONE, NONE, {}))
            agg == ReturnClause_ContainsAggregation(r)
        IN  /\ match = m
            /\ aggregate = agg
            /\ where = ft
            /\ filterTree = ft
            /\ ops = IF agg THEN NewOpNode(pr, Operation("Aggregate", NONE, NONE, NONE, NONE, {}))
                            ELSE pr
            /\ opStack = IF agg THEN <<1, 2>> ELSE <<1>>
            /\ pc = "entry"
            /\ entryIdx = 1
            /\ srcNode = NONE
            /\ reversed = <<>>
            /\ mergeIdx = 1

\* One iteration of the entry-node loop (lines 327-392) for a node without
\* outgoing edges: a scan, pushed on Ops, then Ops is linked into a chain.
LoneNode ==
    /\ pc = "entry"
    /\ entryIdx <= Len(EntryNodes)
    /\ OutEdges(EntryNodes[entryIdx]) = <<>>
    /\ Len(ops) < MaxOps
    /\ LET r == ConsumeOps(NewOpNode(ops, ScanOp(EntryNodes[entryIdx])),
                           Append(opStack, Len(ops) + 1))
       IN  /\ ops' = r.ops
           /\ opStack' = r.stack
    /\ entryIdx' = entryIdx + 1
    /\ UNCHANGED <<match, aggregate, where, filterTree, pc, srcNode, reversed, mergeIdx>>

\* The start of the walk (lines 332-337) for an entry node with outgoing edges.
StartWalk ==
    /\ pc = "entry"
    /\ entryIdx <= Len(EntryNodes)
    /\ OutEdges(EntryNodes[entryIdx]) # <<>>
    /\ pc' = "walk"
    /\ srcNode' = EntryNodes[entryIdx]
    /\ reversed' = <<>>
    /\ UNCHANGED <<match, aggregate, where, filterTree, ops, opStack, entryIdx, mergeIdx>>

\* Mutant: the new expansion is recorded under the wrong index.
ExpandHopOffByOne ==
    /\ pc = "walk"
    /\ OutEdges(srcNode) # <<>>
    /\ Len(ops) < MaxOps
    /\ LET e == Head(OutEdges(srcNode)) IN
       /\ ops' = NewOpNode(ops, ExpandAllOp(e))
       /\ reversed' = Append(reversed, Len(ops) + 2)
       /\ srcNode' = Edges[e][2]
    /\ UNCHANGED <<match, aggregate, where, filterTree, opStack, pc, entryIdx, mergeIdx>>

\* One hop of the walk (lines 340-352): an ExpandAll over the first
\* outgoing edge of srcNode, then advance to its destination.
ExpandHop ==
    /\ pc = "walk"
    /\ OutEdges(srcNode) # <<>>
    /\ Len(ops) < MaxOps
    /\ LET e == Head(OutEdges(srcNode)) IN
       /\ ops' = NewOpNode(ops, ExpandAllOp(e))
       /\ reversed' = Append(reversed, Len(ops) + 1)
       /\ srcNode' = Edges[e][2]
    /\ UNCHANGED <<match, aggregate, where, filterTree, opStack, pc, entryIdx, mergeIdx>>

\* Mutant: the expansions are pushed in walk order, not last-first.
EndWalkUnreversed ==
    /\ pc = "walk"
    /\ OutEdges(srcNode) = <<>>
    /\ LET r == ConsumeOps(ops, opStack \o reversed) IN
       /\ ops' = r.ops
       /\ opStack' = r.stack
    /\ pc' = "entry"
    /\ entryIdx' = entryIdx + 1
    /\ reversed' = <<>>
    /\ UNCHANGED <<match, aggregate, where, filterTree, srcNode, mergeIdx>>

\* End of the walk (lines 354-359 and 376-391): the expansions are pushed on
\* Ops last-first, then Ops is linked into a chain.
EndWalk ==
    /\ pc = "walk"
    /\ OutEdges(srcNode) = <<>>
    /\ LET r == ConsumeOps(ops, opStack \o Reverse(reversed)) IN
       /\ ops' = r.ops
       /\ opStack' = r.stack
    /\ pc' = "entry"
    /\ entryIdx' = entryIdx + 1
    /\ reversed' = <<>>
    /\ UNCHANGED <<match, aggregate, where, filterTree, srcNode, mergeIdx>>

\* Line 397: attach scans below the leaf expansions.
AttachScans ==
    /\ pc = "entry"
    /\ entryIdx > Len(EntryNodes)
    /\ ops' = OptimizeEntryPoints(ops, Root)
    /\ pc' = "merge"
    /\ UNCHANGED <<match, aggregate, where, filterTree, opStack, entryIdx, srcNode,
                   reversed, mergeIdx>>

\* Lines 400-404: one node of in-degree 2 merged.
MergeNode ==
    /\ pc = "merge"
    /\ mergeIdx <= Len(NodesToMerge)
    /\ ops' = MergeNodes(ops, NodesToMerge[mergeIdx])
    /\ mergeIdx' = mergeIdx + 1
    /\ UNCHANGED <<match, aggregate, where, filterTree, opStack, pc, entryIdx,
                   srcNode, reversed>>

\* Lines 408-410: with a WHERE clause, push filters down.
PushFilters ==
    /\ pc = "merge"
    /\ mergeIdx > Len(NodesToMerge)
    /\ where # {}
    /\ LET r == AddFilters(ops, filterTree, Root) IN
       /\ ops' = r.ops
       /\ filterTree' = r.tree
    /\ pc' = "done"
    /\ UNCHANGED <<match, aggregate, where, opStack, entryIdx, srcNode, reversed, mergeIdx>>

\* Line 416 without a WHERE clause: the plan is returned.
ReturnPlan ==
    /\ pc = "merge"
    /\ mergeIdx > Len(NodesToMerge)
    /\ where = {}
    /\ pc' = "done"
    /\ UNCHANGED <<match, aggregate, where, filterTree, ops, opStack, entryIdx,
                   srcNode, reversed, mergeIdx>>

Next ==
    \/ LoneNode \/ StartWalk \/ ExpandHop \/ EndWalk
    \/ AttachScans \/ MergeNode \/ PushFilters \/ ReturnPlan

Spec == Init /\ [][Next]_vars /\ WF_vars(Next)

-----------------------------------------------------------------------------
(* Properties.                                                             *)

\* Every variable holds a value of its kind; op links and the vectors
\* Ops and reversedExpandOps index allocated ops.
TypeOK ==
    /\ pc \in {"entry", "walk", "merge", "done"}
    /\ aggregate \in BOOLEAN
    /\ filterTree \subseteq where
    /\ Len(ops) <= MaxOps
    /\ \A i \in 1..Len(ops) :
          /\ ops[i].type \in OpTypes
          /\ ToSet(ops[i].children) \subseteq 1..Len(ops)
          /\ ToSet(ops[i].parents) \subseteq 1..Len(ops)
          /\ ops[i].childCap \in Nat /\ ops[i].parentCap \in Nat
    /\ ToSet(opStack) \subseteq 1..Len(ops)
    /\ ToSet(reversed) \subseteq 1..Len(ops)

Built == pc = "done"
Plan  == Reachable(ops, Root)

\* Aliases bound by the operations strictly below op n.
BoundBelow(n) == UNION {Modifies(ops[d]) : d \in Descendants(ops, n)}

\* No write into an op's children or parents array goes past its
\* allocation.  _OpNode_AddChild writes at index count before it reallocs
\* (lines 49 and 58), counting on the spare slot its previous realloc left
\* (lines 51 and 60); _OpNode_RemoveNode reallocs to exactly count (lines
\* 75 and 89), so an AddChild on an array that a removal shrank but did not
\* empty writes one slot past it.  The removals come from the merge's
\* parent hand-over and from the filter push-down, in either order.
LinksInBounds == \A n \in 1..Len(ops) : ~ops[n].overrun

\* ExecutionPlanFree frees every op of the plan exactly once: OpNode_Free
\* recurses into every child link, so an op reachable along two paths (a
\* shared node) is freed twice.
FreedOnce ==
    Built => \A k \in Plan : ExecutionPlanFree(ops, k) = 1

\* No op is below itself, at any step: MergeNodes re-links parents and
\* AddFilters pushes filters in between without closing a cycle, so the
\* recursive walks of the optimizer, the executor and OpNode_Free end.
Acyclic == \A n \in 1..Len(ops) : n \notin Descendants(ops, n)

\* In the built plan every expansion's source, every ExpandInto's
\* destination and every Filter's aliases are bound by ops below it: the
\* chain is linked in the order the walk visited the nodes and scans are
\* attached at the leaves.
OperandsBoundBelow ==
    Built => \A n \in Plan :
        /\ ops[n].type \in {"ExpandAll", "ExpandInto"} => ops[n].src \in BoundBelow(n)
        /\ ops[n].type = "ExpandInto" => ops[n].dest \in BoundBelow(n)
        /\ ops[n].type = "Filter" => UNION ops[n].preds \subseteq BoundBelow(n)

\* The plan binds every node of the pattern and traverses each of its
\* edges exactly once (spec section 4.1 and scenario 3).
PatternCovered ==
    Built => /\ \A x \in ToSet(Nodes) : \E n \in Plan : x \in Modifies(ops[n])
             /\ \A e \in 1..Len(Edges) :
                  Cardinality({n \in Plan : ops[n].type \in {"ExpandAll", "ExpandInto"}
                                            /\ ops[n].edge = e}) = 1

\* AddFilters loses no predicate and places none twice: the predicates of
\* the placed Filters and the remaining tree partition the WHERE clause,
\* and what remains once the plan is built is exactly what no op binds.
FilterConservation ==
    LET placed == {n \in 1..Len(ops) : ops[n].type = "Filter"}
    IN  /\ where = filterTree \cup UNION {ops[n].preds : n \in placed}
        /\ \A n \in placed : ops[n].preds \cap filterTree = {}
        /\ \A n, k \in placed : n # k => ops[n].preds \cap ops[k].preds = {}
        /\ Built => filterTree = {p \in where : ~(p \subseteq BoundBelow(Root))}

\* The leaves of the built plan are exactly its scans: OptimizeEntryPoints
\* gives each childless ExpandAll a scan, and no other op is left childless.
LeavesAreScans ==
    Built => \A n \in Plan \ {Root} : ops[n].children = <<>> <=> ops[n].type \in ScanTypes

\* The chain walk of NewExecutionPlan (lines 340-352) ends: it never takes
\* a pattern edge twice.  The hop is a function of srcNode alone, so a
\* repeated edge means the walk is on a cycle and never leaves it.
WalkEnds ==
    IsInjective([k \in 1..Len(reversed) |-> ops[reversed[k]].edge])
=============================================================================
