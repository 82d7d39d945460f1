# TLA+ models of the redis-graph execution plan

This directory models `src/src/execution_plan/execution_plan.c`, the query
planner and pull-based executor, together with the parts of
`src/src/parser/ast.h` that the planner reads. The models are checked with TLC.

## The system

A query arrives as an AST with three parts: a MATCH clause (graph entities,
nodes and links), an optional WHERE filter tree and a RETURN clause.
`NewExecutionPlan` turns it into a DAG of *op nodes* (`OpNode`: an operation
plus `children` and `parents` arrays) in the following steps:

1. Push `ProduceResults`, and an `Aggregate` if RETURN aggregates, on the
   vector `Ops`.
2. For every pattern node of in-degree 0 (an *entry node*), do one of two
   things:
   - walk along its first outgoing edge until a node without outgoing edges,
     creating one `ExpandAll` per hop;
   - if it has no edges, create a scan.
3. Link the contents of `Ops` into a chain under the root. Only
   `ProduceResults` is then pushed back on `Ops`.
4. `_ExecutionPlan_OptimizeEntryPoints` hangs a scan below every childless
   `ExpandAll`.
5. `_ExecutionPlan_MergeNodes` turns one of the two expansions into a node of
   in-degree 2 into an `ExpandInto`, and re-links the other below it.
6. `_ExecutionPlan_AddFilters` pushes `Filter` ops down, in post-order, to the
   lowest point where the aliases they mention are bound.

`ExecutionPlan_Execute` runs the plan. It calls `_ExecuteOpNode` on the root
until the root stops returning `OP_OK`. `_ExecuteOpNode` consumes an operation.
On `OP_REFRESH` it resets the operation and calls `PullFromStreams`, which
makes the children yield a new combination as a nested loop:

- advance the first stream that yields;
- initialise the uninitialised streams after it;
- rewind (`ResetStream`) and re-pull every stream before it.

`OpNode_Free` tears the plan down recursively.

The operations themselves (`ops/`), the pattern graph (`BuildGraph`) and the
filter-tree module are not part of this repository's sources. They are
modelled from `spec.md` (sections 3 and 4), and those definitions are marked
`spec_modelled` in `PROJECT.json`.

## Modules

| Module | Models |
|---|---|
| `OpNode.tla` | The DAG helpers (lines 20-112), as operators on a sequence of op records. `children` and `parents` are sequences, so multiplicity and order are kept, as in the C arrays. Each array also carries its allocated size in slots (`childCap`, `parentCap`). |
| `ExecutionPlanBuild.tla` | `NewExecutionPlan` and its optimisations (lines 120-417), plus `OpNode_Free` (520-538). |
| `MCExecutionPlanBuild.tla` | The builder's inputs for TLC. |
| `ExecutionPlanExecute.tla` | The executor (lines 441-518). |
| `ResultSet.tla` | What execution promises: each tuple the plan computes is produced once, then execution stops. |
| `MCExecutionPlanExecute.tla` | The executor's inputs for TLC. |
| `QueryEngine.tla` | The two composed: `NewExecutionPlan`, then `ExecutionPlan_Execute` on the plan it returned. |
| `MCQueryEngine.tla` | The composition's inputs for TLC: patterns and data graphs. |

### OpNode

The pointer arrays are modelled with their allocations, because the helpers
disagree about them. `_OpNode_AddChild` writes at index `count` (lines 49
and 58), then reallocs to `count + 1` slots (lines 51 and 60), so it counts
on a spare slot. `GrowArray` is that half of the call: it mallocs one slot
for a NULL array, reports an overrun when `count` is not below the
allocation, and leaves `count + 2` slots. `_OpNode_RemoveNode` reallocs to
exactly the entries left (lines 75 and 89). `realloc(p, 0)` returns NULL
under glibc, so an emptied array is NULL again. An op's `overrun` flag
records that some write went past one of its arrays.

### ExecutionPlanBuild

The state mirrors the local variables of `NewExecutionPlan`:

- `ops` (every op allocated, op 1 the root);
- `opStack` (the vector `Ops`);
- `entryIdx`, `srcNode` and `reversed` (the loop at 327 and the walk at
  340);
- `mergeIdx` (the loop at 400);
- `filterTree` (`executionPlan->filter_tree`).

Each loop iteration is one action, so every invariant is checked on every
intermediate plan:

| Action | Lines |
|---|---|
| `LoneNode` | 360-391 |
| `StartWalk` | 332-338 |
| `ExpandHop` | 340-352 |
| `EndWalk` | 354-359, then `ConsumeOps` (376-391) |
| `AttachScans` | 397 |
| `MergeNode` | 400-404 |
| `PushFilters` | 408-410 |
| `ReturnPlan` | 416 |

The recursive C functions are RECURSIVE operators that follow the code's
iteration order:

- `OptimizeEntryPoints`;
- `MergeSearch`, a stack popped from its end, with no visited set and
  `continue` at the first match;
- `InheritParents`, which indexes `b->parents` while removing from it;
- `AddFilters`, over the children from last to first, with the early NULL
  return.

A MATCH clause is a sequence of segments `<<x>>` or `<<x, "->"|"<-", y>>`.
A WHERE clause is a set of predicates. Each `AST_PredicateNode` (`PredicateNode`:
`alias.prop op constant` or `alias.prop op other.prop`) is abstracted to the
set of aliases it references (`PredicateAliases`). The filter tree is therefore a conjunction, which is enough for
`contains_any`, `min_subtree` and `remove_predicates`.

### ExecutionPlanExecute

The mutual recursion of `_ExecuteOpNode` and `PullFromStreams` is an explicit
`stack` of frames. `ret` holds the result of the frame that has just returned.
One action is one block of code between calls:

| Action | Lines |
|---|---|
| `ExecuteRoot` | 514 |
| `ConsumeOp`, `RefreshOp` | 450-461 |
| `ResetFails` | 456-459 |
| `Pulled` | 462-468 |
| `AdvanceStream`, `AdvanceReturned` | 476-487 |
| `PullUninitialized`, `UninitializedReturned` | 489-498 |
| `PullPassed`, `PassedReturned` | 500-510 |
| `PassedResetFails` | 500-506, with the failed resets of line 442 |

`ex` holds what the operations share:

- the stream states;
- the scan cursors;
- the ExpandAll iterators;
- the `refreshAfterPass` flags;
- the current tuple `bind`;
- the result set `res`.

Operations behave as the spec describes them:

- scans yield the data nodes in a fixed order, then `OP_DEPLETED`;
- `ExpandAll` iterates the successors of its source, then `OP_REFRESH`;
- `ExpandInto`, `Filter`, `Aggregate` and `ProduceResults` test or record the
  tuple once and ask for a refresh before the next one;
- a reset fails only under the fault model below.

**Fault model.** `ResetFails` is the branch at lines 457-459: the operation's
reset after `OP_REFRESH` does not return `OP_OK`, and `_ExecuteOpNode` returns
`OP_ERR`. The operation code that decides this is not in the repository, so
the failure is a nondeterministic choice, taken at most `MaxResetFailures`
times per run (counted in `failures`). `PassedResetFails` covers lines
500-506 when resets inside `ResetStream` fail. Line 442 ignores what reset
returns, so the ops whose reset failed, a nondeterministic set, are simply
not rewound. Their children are still reset, nothing is reported, and the
stream is pulled as if it had been rewound. Both kinds of failure count
against `MaxResetFailures`.

### ResultSet

The abstract spec has a fixed set of expected `rows`, the produced sequence
`out`, and two flags. `Emit` appends a new row. `Finish` stops once `out` holds
every row. `Fail` records an error, and may stop in the same step (an error at
the root). `Abort` stops after an error. The executor maps `rows` to the
tuples the plan computes on the graph, `out` to the result set, `failed` to
`failures > 0` and `finished` to an empty stack after `OP_DEPLETED` or
`OP_ERR`.

### QueryEngine

`QueryEngine` instantiates both modules on shared variables. The builder's
variables are the input query and the plan under construction. The executor's
variables are the plan being run and the data graph. `phase` is `"plan"`
while `NewExecutionPlan` runs. `StartExecution` copies the returned `ops` into
the executor's `plan` and sets up the initial stream states, and then `phase`
is `"exec"`. The property `QueryAnswered` compares the result set with
`Answers`, the bindings of the pattern's aliases to data nodes that satisfy:

- the labels;
- the edges;
- the WHERE predicates.

Rows must be answers and distinct, even when resets fail. When execution
stops without a failed reset, the rows must be all of the answers.
`query_chains` runs without the fault model, and `query_faults` runs with one
failure allowed.

## Runs

| Run | Expect | Shows |
|---|---|---|
| `build_safety` | pass | The DAG stays acyclic at every step; Filters and the residual tree partition WHERE; leaves are scans; every operand is bound below its op. |
| `build_freed_once` | violation | `(a)->(b)<-(c)` with aggregation: the merged ExpandInto gets two parents, so `OpNode_Free` frees it twice. |
| `build_links_in_bounds` | violation | `(a)->(b)<-(c) WHERE b.v = 1`: the merge shrinks the parents array of the ExpandAll `c->b` to exactly one slot (line 89). The Filter pushed under the ExpandInto then adds a second parent, written at index 1 (line 58), one slot past the allocation. |
| `build_pattern_covered` | violation | `(a)->(a)` has no entry node and yields an empty plan. Branches other than a node's first out-edge are dropped. |
| `build_walk_ends` | violation | `(a)->(b),(b)->(b)`: the walk at line 340 never ends. |
| `execute_results` | pass | The executor implements `ResultSet`: it produces every expected tuple exactly once and stops. |
| `execute_no_spurious_error` | violation | `(a)->(b),(c)` on a graph without edges ends in `OP_ERR` (line 506). |
| `execute_leftmost_outermost` | violation | The first child stream is the innermost loop, against spec section 4.6. |
| `execute_error_propagation` | violation | A failed reset below a scan, in `(a)->(b)`, is swallowed at line 479. The query ends `OP_DEPLETED`, as if it had succeeded. |
| `query_chains` | pass | Every unlabelled, acyclic pattern with out-degree at most 1 and in-degree at most 2, under every WHERE clause, is planned and executed to exactly its answers, each once. Merged ExpandIntos and pushed Filters are included. |
| `query_faults` | violation | `(a)->(b),(c)` WHERE `a.v = 1`: the scan of a fails to reset inside `ResetStream` (line 442) and keeps a binding the Filter rejected. The ExpandAll above expands from it, and a row that violates WHERE is returned with no error. |
| `query_labels` | violation | `(a)->(b:L)`: b is reached by an ExpandAll, which never checks labels, so nodes without `L` are returned. |

`PROJECT.json` lists a mutant for each property of the passing runs: a
plausible bug in the mapped code that TLC catches with that property.

### Bounds

**Builder.** The builder is checked on every MATCH clause of at most three
segments over four aliases, counted once per renaming of the aliases. Each
clause is checked under every RETURN clause of one or two elements (entity,
property or aggregation call), so both with and without aggregation, and with
every WHERE clause
over the predicates `a.v = 1`, `b.v = 1` and `a.v = b.v` (alias sets `{a}`, `{b}`
and `{a,b}`). Alias `b` is labelled.

Three segments are enough to produce:

- two entry nodes;
- chains of two hops;
- nodes of in-degree 2 and 3;
- self-loops and cycles;
- a lone node beside a chain.

Those shapes cover every branch of lines 296-417. `MaxOps = 20` caps allocation
only on a walk that never ends. Every plan that terminates has at most 11
ops.

**Executor.** The executor runs ten plans taken from the builder's output:

- lone scans;
- one and two hops;
- a Filter;
- a merged ExpandInto;
- two and three sibling streams;
- a chain beside a scan.

Each plan runs against every data graph of two nodes: labels, edges and a 0/1
property. Two nodes are the fewest for which the order of sibling loops and
the rewind of a passed stream are visible.

**Composition.** `query_chains` plans every MATCH clause of at most three
segments over three aliases that satisfies all of these:

- it is acyclic;
- every node has out-degree at most 1 and in-degree at most 2;
- it has no repeated segment;
- it has no lone-node segment for an alias a link already mentions.

That leaves 21 clauses. They include:

- the two-entry merge `(a)->(b)<-(c)`;
- two-hop chains;
- a chain beside a lone node.

The other restrictions are needed because plans of cyclic or branching
patterns are already known to be wrong (the builder's violation runs).
Spec section 8 limits merging to nodes of in-degree exactly 2, as line 399
does, so an in-degree-3 pattern is outside what the planner handles. The data graphs have two nodes, no labels, every edge set and every
0/1 property. `query_labels` uses the same clauses with `b` labelled.

### Fairness

`ExecutionPlanExecute` runs on one thread, and every step it can take is
taken. `WF_vars(Next)` states exactly that, and it is what lets the
refinement check the termination of the loop at line 514. The builder is
also sequential. Its termination is checked as a safety property
(`WalkEnds`): the walk is a function of `srcNode`, so a repeated edge means it
never leaves a cycle. TLC cannot check liveness over the builder's recursive
big-step operators in reasonable time, because ENABLED re-evaluates them.

## Not modelled

- **The plan printer** (`_ExecutionPlanPrint`, lines 419-439). It only
  formats text. Its heap string is sized by `calloc(k + 1)` and
  `realloc(strlen + k + 2)`, which always leave room for the line and the
  NUL. The 512-byte `strOp` overflows only at an indentation of about 490,
  a chain of some 120 ops. No property of the printer could fail within
  any bound TLC can check, so the printer is not modelled.
- **The heap after an overrun.** After a write past an allocation, the
  model carries on as if the write had landed in the array. What the heap
  really holds then is undefined. `LinksInBounds` is violated from that
  state on, so no other property relies on it.
- **What Aggregate computes.** The model's Aggregate passes tuples through.
  Line 390 leaves later chains outside it, so an aggregate over several
  entry nodes is computed over the wrong tuples. No property checks this:
  only the plan's shape shows it, and `FreedOnce` catches the double parent
  it gives a merged node.
- **The WHERE condition tree** (`AST_ConditionNode`, `AST_FilterNode`).
  `PredicateNode` models `AST_PredicateNode` (constant and varying
  comparisons), and the MC modules build their predicates from it through
  `PredicateAliases`. The N_COND tree above the predicates is taken as a
  conjunction: `BuildFiltersTree` and the filter tree that would give an
  OR its meaning are outside the repository. The rest of `ast.h` declares
  types (ORDER BY, LIMIT, columns) and constructors that the planner and
  the executor never read.
- **`_ExecutionPlan_EstimateNodeCardinality`.** It is never called.
- **Storage errors other than a failed reset, and partial resets.** A failed
  reset is modelled as one that changes nothing. What a real operation leaves
  behind is defined by code outside the repository.
- **Liveness and refinement of the composition.** `QueryAnswered` is a state
  invariant, because a refinement mapping that evaluates `Answers` on every
  step makes TLC too slow. The executor's termination is already checked by
  `execute_results`. Termination of the whole query, `<>(phase = "exec"
  /\ E!Finished)` under `WF_vars(Next)` on the `query_chains` instance, ran
  for more than 30 minutes without finishing, so it is not checked. Each
  evaluation of ENABLED re-runs the recursive builder operators.
- **ORDER, LIMIT and DISTINCT.** This code does not consume them.
- **OR in WHERE.** The filter tree is a conjunction.
- **What an empty Filter does.** `AddFilters` can push a Filter with an empty
  tree (line 274), when a predicate has only some of its aliases bound below
  the op. The spec does not say what such a Filter does, so no property
  judges it. `FilterConservation` still checks that no predicate is lost or
  placed twice on that path.

## Plan for later work

- Model Aggregate's grouping, so that the composition can check aggregating
  queries end to end.
- Check the merge search on plans that already share nodes (two merges),
  which needs four-segment clauses. With three segments a plan has at most
  one merge, and it joins disjoint chains.
