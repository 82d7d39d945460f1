----------------------------- MODULE QueryEngine -----------------------------
(***************************************************************************)
(* A query end to end: NewExecutionPlan plans a MATCH clause (the         *)
(* ExecutionPlanBuild machine), then ExecutionPlan_Execute runs the plan  *)
(* it returned (the ExecutionPlanExecute machine) on a data graph.  The   *)
(* two share the plan: the executor's `plan` is the builder's `ops`.      *)
(*                                                                         *)
(* What the query should return is the pattern's meaning, independent of  *)
(* any plan: every assignment of data nodes to the pattern's aliases that *)
(* respects its labels, its edges and the WHERE predicates (spec section  *)
(* 1).  The result set of the engine must be exactly those tuples.       *)
(***************************************************************************)
EXTENDS Naturals, Sequences, SequencesExt, FiniteSets

CONSTANTS NONE, Alias, Labelled, Matches, Preds, MaxOps, DNode, ScanOrder, Graphs,
          MaxResetFailures   \* the executor's fault model

VARIABLES
    phase,                                                \* "plan" or "exec"
    match, aggregate, where, filterTree, ops, opStack, pc,  \* the builder
    entryIdx, srcNode, reversed, mergeIdx,
    plan, graph, ex, stack, ret, lastRes, failures        \* the executor

bvars == <<match, aggregate, where, filterTree, ops, opStack, pc, entryIdx,
           srcNode, reversed, mergeIdx>>
evars == <<plan, graph, ex, stack, ret, lastRes, failures>>
vars  == <<phase, bvars, evars>>

B == INSTANCE ExecutionPlanBuild
E == INSTANCE ExecutionPlanExecute WITH Plans <- {}

\* The query arrives for a data graph; ExecutionPlan_Execute is only called
\* on the plan NewExecutionPlan returns, until then its state does not exist.
Init ==
    /\ B!Init
    /\ ~aggregate
    /\ phase = "plan"
    /\ plan = <<>> /\ graph \in Graphs /\ ex = NONE
    /\ stack = <<>> /\ ret = NONE /\ lastRes = NONE /\ failures = 0

Plan ==
    /\ phase = "plan"
    /\ B!Next
    /\ UNCHANGED <<phase, evars>>

\* The caller takes the plan NewExecutionPlan returned and executes it.
StartExecution ==
    /\ phase = "plan"
    /\ B!Built
    /\ phase' = "exec"
    /\ UNCHANGED bvars
    /\ plan' = ops
    /\ ex' = E!InitialEx(ops)
    /\ UNCHANGED <<graph, stack, ret, lastRes, failures>>

Execute ==
    /\ phase = "exec"
    /\ E!Next
    /\ UNCHANGED <<phase, bvars>>

Next == Plan \/ StartExecution \/ Execute

Spec == Init /\ [][Next]_vars

\* NewExecutionPlan and ExecutionPlan_Execute run to completion on the
\* calling thread; nothing else competes for it, so a step that stays
\* enabled is eventually taken.
FairSpec == Spec /\ WF_vars(Next)

-----------------------------------------------------------------------------
(* The meaning of the query.                                               *)

PatternAliases == ToSet(B!PatternNodes(match))

Answers ==
    LET Tuple(f) == [x \in Alias |-> IF x \in PatternAliases THEN f[x] ELSE NONE]
    IN  {b \in {Tuple(f) : f \in [PatternAliases -> DNode]} :
            /\ \A x \in PatternAliases \cap Labelled : b[x] \in graph.label
            /\ \A e \in ToSet(B!PatternEdges(match)) : <<b[e[1]], b[e[2]]>> \in graph.edge
            /\ \A p \in where : E!PredHolds(p, b)}

\* The query returns its answers: every tuple in the result set is an
\* answer of the pattern, none is produced twice, even when resets fail
\* and leave streams un-rewound (lines 442 and 457); and when the root
\* stops yielding without a failed reset, every answer has been produced.  Planning and execution must
\* agree for this: an op the plan drops, a binding it repeats, a label it
\* does not test or a filter it misplaces shows up as a wrong or missing
\* tuple.
QueryAnswered ==
    phase = "exec" =>
        /\ ToSet(ex.res) \subseteq Answers /\ IsInjective(ex.res)
        /\ E!Finished /\ failures = 0 => ToSet(ex.res) = Answers

\* Every query ends: planning returns a plan (the walk of lines 296-417
\* consumes the pattern one hop at a time and every later pass visits a
\* finite tree), and executing it reaches the root's depletion (line 514),
\* every Consume of every op giving up once its children are depleted.
QueryTerminates == <>(phase = "exec" /\ E!Finished)
=============================================================================
