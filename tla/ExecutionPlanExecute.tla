------------------------- MODULE ExecutionPlanExecute -------------------------
(***************************************************************************)
(* The pull-based executor (src/src/execution_plan/execution_plan.c,      *)
(* lines 441-518): ExecutionPlan_Execute calls _ExecuteOpNode on the root *)
(* until it stops returning OP_OK; _ExecuteOpNode consumes an operation   *)
(* and, on OP_REFRESH, resets it and pulls new data from its child        *)
(* streams (PullFromStreams), which composes sibling streams as a nested  *)
(* loop and rewinds passed streams with ResetStream.                      *)
(*                                                                         *)
(* The mutual recursion of _ExecuteOpNode and PullFromStreams is an      *)
(* explicit stack of frames; one step is one block of one frame, up to    *)
(* its next call or return.  The module is shown to implement ResultSet.  *)
(*                                                                         *)
(* The operations' consume and reset functions live in ops/, which is not *)
(* part of this repository's sources; they are modelled from the spec     *)
(* (sections 3 and 4.6): scans walk the data nodes in a fixed order and   *)
(* report depletion; ExpandAll iterates the successors of its bound       *)
(* source and asks for a refresh when done; ExpandInto, Filter, Aggregate *)
(* and ProduceResults test (or record) the current tuple once and ask for *)
(* a refresh before the next one; reset returns an operation to its       *)
(* initial state, its own bindings cleared.                               *)
(***************************************************************************)
EXTENDS Naturals, Sequences, SequencesExt, FiniteSets, Functions, OpNode

CONSTANTS
    Alias,      \* node aliases of the query
    DNode,      \* nodes of the data graph
    ScanOrder,  \* the order in which scans and edge iterators yield nodes
    Graphs,     \* data graphs: [label: SUBSET DNode, edge: ..., prop: ...]
    Plans,      \* the plans to execute: op sequences as built by the planner
    MaxResetFailures  \* how many operation resets may fail in one execution

ASSUME /\ ScanOrder \in Seq(DNode) /\ ToSet(ScanOrder) = DNode
       /\ \A g \in Graphs : /\ g.label \subseteq DNode
                            /\ g.edge \subseteq DNode \X DNode
                            /\ g.prop \in [DNode -> {0, 1}]

\* OpResult.
OP_OK == "OK"
OP_REFRESH == "REFRESH"
OP_DEPLETED == "DEPLETED"
OP_ERR == "ERR"

Root == 1

VARIABLES
    plan,      \* the op nodes (OpNode.operation and children)
    graph,     \* the data graph
    ex,        \* the state the operations share, a record:
               \*   st   OpNode.state of each node, "UnInitialized" or "Consuming"
               \*   cur  scans: how many nodes have been yielded
               \*   iter ExpandAll: the successors still to yield, or NONE
               \*   rap  pass-through ops: refreshAfterPass
               \*   bind the tuple: the data node bound to each alias, or NONE
               \*   res  the result set of ProduceResults, in order
    stack,     \* the C call stack of _ExecuteOpNode / PullFromStreams frames
    ret,       \* the OpResult the frame just popped returned, or NONE
    lastRes,   \* what the root call returned last, NONE before the first
    failures   \* how many operation resets have failed (the fault model)

vars == <<plan, graph, ex, stack, ret, lastRes, failures>>

Ops == 1..Len(plan)

-----------------------------------------------------------------------------
(* The operations (ops/, modelled from the spec), as operators on a record *)
(* S of the shape of ex.                                                   *)

Candidates(op) ==
    IF op.type = "NodeByLabelScan"
    THEN SelectSeq(ScanOrder, LAMBDA v : v \in graph.label)
    ELSE ScanOrder

Successors(v) == SelectSeq(ScanOrder, LAMBDA w : <<v, w>> \in graph.edge)

\* A predicate on one alias holds when its node's property is 1; one on
\* several aliases when their nodes' properties are equal.
PredHolds(p, b) ==
    IF Cardinality(p) = 1 THEN \A x \in p : graph.prop[b[x]] = 1
    ELSE Cardinality({graph.prop[b[x]] : x \in p}) = 1

Bound(b, xs) == \A x \in xs : b[x] # NONE

\* The test a pass-through op applies to the current tuple.
Passes(op, b) ==
    CASE op.type = "ExpandInto" ->
             Bound(b, {op.src, op.dest}) /\ <<b[op.src], b[op.dest]>> \in graph.edge
      [] op.type = "Filter" ->
             Bound(b, UNION op.preds) /\ \A p \in op.preds : PredHolds(p, b)
      [] OTHER -> TRUE

\* op->consume(op, graph): yields <<result, S'>>.
Consume(S, n) ==
    LET op == plan[n] IN
    CASE op.type \in ScanTypes ->
           IF S.cur[n] < Len(Candidates(op))
           THEN <<OP_OK, [S EXCEPT !.cur[n] = @ + 1,
                                   !.bind[op.alias] = Candidates(op)[S.cur[n] + 1]]>>
           ELSE <<OP_DEPLETED, S>>
      [] op.type = "ExpandAll" ->
           LET it == IF S.iter[n] = NONE /\ S.bind[op.src] # NONE
                     THEN Successors(S.bind[op.src]) ELSE S.iter[n]
           IN  IF it = NONE \/ it = <<>> THEN <<OP_REFRESH, [S EXCEPT !.iter[n] = it]>>
               ELSE <<OP_OK, [S EXCEPT !.iter[n] = Tail(it),
                                       !.bind[op.dest] = Head(it)]>>
      [] OTHER ->
           IF S.rap[n] THEN <<OP_REFRESH, [S EXCEPT !.rap[n] = FALSE]>>
           ELSE IF ~Passes(op, S.bind) THEN <<OP_REFRESH, S>>
           ELSE <<OP_OK, [S EXCEPT !.rap[n] = TRUE,
                                   !.res = IF op.type = "ProduceResults"
                                           THEN Append(@, S.bind) ELSE @]>>

\* op->reset(op): back to the initial cursor, own bindings cleared; the
\* pass-through ops keep their refresh flag.  Always OP_OK.
Reset(S, n) ==
    LET op == plan[n] IN
    CASE op.type \in ScanTypes ->
           [S EXCEPT !.cur[n] = 0, !.bind[op.alias] = NONE]
      [] op.type = "ExpandAll" ->
           [S EXCEPT !.iter[n] = NONE, !.bind[op.dest] = NONE]
      [] OTHER -> S

-----------------------------------------------------------------------------
(* The executor (the code of this repository).  The recursion between     *)
(* _ExecuteOpNode and PullFromStreams is an explicit stack of frames; each *)
(* action is one block of one of them, up to its next call or return.  A  *)
(* frame whose callee just returned finds the callee's result in `ret`.   *)

Kids(n) == plan[n].children

\* The ops of the stream rooted at n.
RECURSIVE Below(_)
Below(n) == {n} \cup UNION {Below(k) : k \in ToSet(Kids(n))}

\* ResetStream (lines 441-447): reset the op, then each child stream; it
\* calls nothing but the operations' reset functions, and ignores what
\* they return: an op in F, whose reset fails, keeps its state, and its
\* children are reset all the same.
RECURSIVE ResetStream(_, _, _), ResetChildren(_, _, _, _)
ResetStream(S, n, F) ==
    ResetChildren(IF n \in F THEN S ELSE Reset(S, n), n, 1, F)
ResetChildren(S, n, i, F) ==
    IF i > Len(Kids(n)) THEN S
    ELSE ResetChildren(ResetStream(S, Kids(n)[i], F), n, i + 1, F)

\* A frame of _ExecuteOpNode(n) is at "consume" or, at "pulled", waits for
\* PullFromStreams(n).  A frame of PullFromStreams(n) is in its "advance",
\* "uninit" or "passed" loop at child index i; idx is its stream_idx.
Frame(fn, n, pc, i) == [fn |-> fn, n |-> n, pc |-> pc, i |-> i, idx |-> 0]

Top == Last(stack)
Kid == Kids(Top.n)[Top.i]

\* The top frame returns r to its caller (to line 514 if it is the root's).
Return(r) ==
    /\ stack' = Front(stack)
    /\ ret' = r
    /\ lastRes' = IF Len(stack) = 1 THEN r ELSE lastRes

\* The top frame, updated to `resume`, calls `callee`.
Call(resume, callee) ==
    /\ stack' = Append([stack EXCEPT ![Len(stack)] = resume], callee)
    /\ ret' = NONE
    /\ UNCHANGED lastRes

\* Resume the top frame as `f` after handling `ret`.
Continue(f) ==
    /\ stack' = [stack EXCEPT ![Len(stack)] = f]
    /\ ret' = NONE
    /\ UNCHANGED lastRes

InFrame(fn, pc) == stack # <<>> /\ Top.fn = fn /\ Top.pc = pc

\* Line 514: while the root yields OP_OK, call _ExecuteOpNode on it again.
ExecuteRoot ==
    /\ stack = <<>>
    /\ lastRes \in {NONE, OP_OK}
    /\ stack' = <<Frame("exec", Root, "consume", 0)>>
    /\ ret' = NONE
    /\ UNCHANGED <<plan, graph, failures, ex, lastRes>>

\* Lines 450-453 and 468: mark the node consuming and consume; a result
\* other than OP_REFRESH is returned.
ConsumeOp ==
    /\ InFrame("exec", "consume") /\ ret = NONE
    /\ LET c == Consume([ex EXCEPT !.st[Top.n] = "Consuming"], Top.n) IN
       /\ c[1] # OP_REFRESH
       /\ ex' = c[2]
       /\ Return(c[1])
    /\ UNCHANGED <<plan, graph, failures>>

\* Lines 456-461: on OP_REFRESH reset the op (the modelled resets return
\* OP_OK) and call PullFromStreams.
RefreshOp ==
    /\ InFrame("exec", "consume") /\ ret = NONE
    /\ LET c == Consume([ex EXCEPT !.st[Top.n] = "Consuming"], Top.n) IN
       /\ c[1] = OP_REFRESH
       /\ ex' = Reset(c[2], Top.n)
    /\ Call([Top EXCEPT !.pc = "pulled"], Frame("pull", Top.n, "advance", 1))
    /\ UNCHANGED <<plan, graph, failures>>

\* Lines 457-458: the operation's reset fails (a storage call of the op
\* fails, spec section 7): the node returns OP_ERR, its state as consume
\* left it.
ResetFails ==
    /\ InFrame("exec", "consume") /\ ret = NONE
    /\ failures < MaxResetFailures
    /\ LET c == Consume([ex EXCEPT !.st[Top.n] = "Consuming"], Top.n) IN
       /\ c[1] = OP_REFRESH
       /\ ex' = c[2]
       /\ Return(OP_ERR)
    /\ failures' = failures + 1
    /\ UNCHANGED <<plan, graph>>

\* Lines 462-468: after the pull, OP_OK goes back to consume; anything
\* else is returned.
Pulled ==
    /\ InFrame("exec", "pulled") /\ ret # NONE
    /\ IF ret = OP_OK THEN Continue([Top EXCEPT !.pc = "consume"])
                      ELSE Return(ret)
    /\ UNCHANGED <<plan, graph, failures, ex>>

\* Mutant: the stream pulled is the node itself rather than its child.
AdvanceStreamSelf ==
    /\ InFrame("pull", "advance") /\ ret = NONE
    /\ IF Top.i > Len(Kids(Top.n)) THEN Return(OP_DEPLETED)
                                   ELSE Call(Top, Frame("exec", Top.n, "consume", 0))
    /\ UNCHANGED <<plan, graph, failures, ex>>

\* Lines 476-487: call _ExecuteOpNode on the streams in order up to the
\* first that yields OP_OK; none did: OP_DEPLETED.
AdvanceStream ==
    /\ InFrame("pull", "advance") /\ ret = NONE
    /\ IF Top.i > Len(Kids(Top.n)) THEN Return(OP_DEPLETED)
                                   ELSE Call(Top, Frame("exec", Kid, "consume", 0))
    /\ UNCHANGED <<plan, graph, failures, ex>>

AdvanceReturned ==
    /\ InFrame("pull", "advance") /\ ret # NONE
    /\ IF ret = OP_OK
       THEN Continue([Top EXCEPT !.pc = "uninit", !.idx = Top.i, !.i = Top.i + 1])
       ELSE Continue([Top EXCEPT !.i = @ + 1])
    /\ UNCHANGED <<plan, graph, failures, ex>>

\* Lines 489-498: pull from every stream after stream_idx still
\* uninitialized; a failure returns OP_DEPLETED.
PullUninitialized ==
    /\ InFrame("pull", "uninit") /\ ret = NONE
    /\ CASE Top.i > Len(Kids(Top.n)) ->
              Continue([Top EXCEPT !.pc = "passed", !.i = Top.idx - 1])
         [] ex.st[Kid] # "UnInitialized" -> Continue([Top EXCEPT !.i = @ + 1])
         [] OTHER -> Call(Top, Frame("exec", Kid, "consume", 0))
    /\ UNCHANGED <<plan, graph, failures, ex>>

UninitializedReturned ==
    /\ InFrame("pull", "uninit") /\ ret # NONE
    /\ IF ret # OP_OK THEN Return(OP_DEPLETED)
                      ELSE Continue([Top EXCEPT !.i = @ + 1])
    /\ UNCHANGED <<plan, graph, failures, ex>>

\* Mutant: a passed stream is pulled again without being reset.
PullPassedNoReset ==
    /\ InFrame("pull", "passed") /\ ret = NONE
    /\ IF Top.i = 0 THEN Return(OP_OK)
                    ELSE Call(Top, Frame("exec", Kid, "consume", 0))
    /\ UNCHANGED <<plan, graph, failures, ex>>

\* Lines 500-510: from stream_idx - 1 down to the first stream, reset the
\* stream and pull from it; a failure returns OP_ERR; then OP_OK.
PullPassed ==
    /\ InFrame("pull", "passed") /\ ret = NONE
    /\ IF Top.i = 0
       THEN /\ Return(OP_OK)
            /\ UNCHANGED ex
       ELSE /\ ex' = ResetStream(ex, Kid, {})
            /\ Call(Top, Frame("exec", Kid, "consume", 0))
    /\ UNCHANGED <<plan, graph, failures>>

\* Lines 500-506 when resets inside ResetStream fail (line 442): the failed
\* ops are not rewound, nothing is reported, and the stream is pulled.
PassedResetFails ==
    /\ InFrame("pull", "passed") /\ ret = NONE
    /\ Top.i # 0
    /\ \E F \in SUBSET Below(Kid) :
          /\ F # {}
          /\ failures + Cardinality(F) <= MaxResetFailures
          /\ ex' = ResetStream(ex, Kid, F)
          /\ failures' = failures + Cardinality(F)
    /\ Call(Top, Frame("exec", Kid, "consume", 0))
    /\ UNCHANGED <<plan, graph>>

PassedReturned ==
    /\ InFrame("pull", "passed") /\ ret # NONE
    /\ IF ret # OP_OK THEN Return(OP_ERR)
                      ELSE Continue([Top EXCEPT !.i = @ - 1])
    /\ UNCHANGED <<plan, graph, failures, ex>>

\* The state plan p starts in: NewOpNode leaves every stream
\* StreamUnInitialized (line 27); the op constructors (ops/) leave scans at
\* their start and nothing bound; no result yet.
InitialEx(p) ==
    [st   |-> [n \in 1..Len(p) |-> "UnInitialized"],
     cur  |-> [n \in 1..Len(p) |-> 0],
     iter |-> [n \in 1..Len(p) |-> NONE],
     rap  |-> [n \in 1..Len(p) |-> TRUE],
     bind |-> [x \in Alias |-> NONE],
     res  |-> <<>>]

\* ExecutionPlan_Execute is called on a built plan and a data graph.
StartExecute(p) ==
    /\ plan = p
    /\ graph \in Graphs
    /\ ex = InitialEx(p)
    /\ stack = <<>>
    /\ ret = NONE
    /\ lastRes = NONE
    /\ failures = 0

Init == \E p \in Plans : StartExecute(p)

Next ==
    \/ ExecuteRoot \/ ConsumeOp \/ RefreshOp \/ ResetFails \/ Pulled
    \/ AdvanceStream \/ AdvanceReturned \/ PullUninitialized
    \/ UninitializedReturned \/ PullPassed \/ PassedResetFails \/ PassedReturned

\* The executor is one thread that runs until the root stops yielding.
Spec == Init /\ [][Next]_vars /\ WF_vars(Next)

Finished == stack = <<>> /\ lastRes \in {OP_DEPLETED, OP_ERR}
results == ex.res

-----------------------------------------------------------------------------
(* What the plan computes: every assignment of data nodes to the aliases  *)
(* the plan binds that satisfies each of its operations.                   *)

PlanAliases == UNION {Modifies(plan[n]) : n \in Ops}

Satisfies(op, b) ==
    CASE op.type \in ScanTypes -> b[op.alias] \in ToSet(Candidates(op))
      [] op.type \in {"ExpandAll", "ExpandInto"} -> <<b[op.src], b[op.dest]>> \in graph.edge
      [] op.type = "Filter" -> \A p \in op.preds : PredHolds(p, b)
      [] OTHER -> TRUE

Expected ==
    LET Tuple(f) == [x \in Alias |-> IF x \in PlanAliases THEN f[x] ELSE NONE]
    IN  {b \in {Tuple(f) : f \in [PlanAliases -> DNode]} :
            \A n \in Ops : Satisfies(plan[n], b)}

\* Every variable holds a value of its kind; the call stack is no deeper
\* than an exec and a pull frame per op of the plan.
TypeOK ==
    /\ ex.st \in [Ops -> {"UnInitialized", "Consuming"}]
    /\ ex.cur \in [Ops -> 0..Len(ScanOrder)]
    /\ \A n \in Ops : ex.iter[n] = NONE \/ ex.iter[n] \in Seq(DNode)
    /\ ex.rap \in [Ops -> BOOLEAN]
    /\ ex.bind \in [Alias -> DNode \cup {NONE}]
    /\ Len(stack) <= 2 * Len(plan)
    /\ \A k \in 1..Len(stack) : /\ stack[k].fn \in {"exec", "pull"}
                                /\ stack[k].n \in Ops
    /\ ret \in {NONE, OP_OK, OP_DEPLETED, OP_ERR}
    /\ lastRes \in {NONE, OP_OK, OP_DEPLETED, OP_ERR}
    /\ failures \in 0..MaxResetFailures

-----------------------------------------------------------------------------
(* Properties.                                                             *)

\* The executor implements ResultSet: the result set grows one new
\* expected tuple at a time, and the root eventually stops yielding with
\* every expected tuple produced (the loop at line 514 terminates).
AbstractResults == INSTANCE ResultSet WITH
    Row <- [Alias -> DNode \cup {NONE}],
    rows <- Expected, out <- results, failed <- failures > 0,
    finished <- Finished
ImplementsResultSet == AbstractResults!Spec

\* Spec section 7: errors are never swallowed.  Once a reset has failed
\* (line 458 returns OP_ERR), the root's last result is OP_ERR: every frame
\* between the failing node and the root hands the error up.
ErrorsPropagate == Finished /\ failures > 0 => lastRes = OP_ERR

\* OP_ERR is an execution error (spec section 7: a failed reset or storage
\* call); with resets that never fail, execution ends with OP_DEPLETED.
NoSpuriousError == lastRes # OP_ERR

\* Spec section 4.6 and scenario 5: sibling streams compose as a nested loop
\* with the leftmost child as the outermost loop, so rows of a root whose
\* children are scans come in lexicographic order of those scans' aliases.
LeftmostOutermost ==
    LET xs == [i \in 1..Len(plan[Root].children) |-> plan[plan[Root].children[i]].alias]
        Pos(v) == CHOOSE k \in 1..Len(ScanOrder) : ScanOrder[k] = v
        Before(u, v) == \E i \in 1..Len(xs) :
                           /\ Pos(u[xs[i]]) < Pos(v[xs[i]])
                           /\ \A j \in 1..(i - 1) : u[xs[j]] = v[xs[j]]
    IN  (\A k \in ToSet(plan[Root].children) : plan[k].type \in ScanTypes) =>
            \A i, j \in 1..Len(results) : i < j => Before(results[i], results[j])
=============================================================================
