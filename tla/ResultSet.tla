------------------------------ MODULE ResultSet ------------------------------
(***************************************************************************)
(* What ExecutionPlan_Execute promises (spec sections 1 and 4.6): the     *)
(* result set of ProduceResults receives every tuple the plan computes,   *)
(* each once, in some order, and then execution stops.  An execution     *)
(* error (spec section 7) may instead halt it with a partial result set.  *)
(***************************************************************************)
EXTENDS Sequences, SequencesExt

CONSTANT Row          \* the possible tuples

VARIABLES
    rows,       \* the tuples the plan computes on the data graph (fixed)
    out,        \* the result set so far, in order
    failed,     \* an execution error has happened
    finished    \* the root has stopped yielding

Init == rows \subseteq Row /\ out = <<>> /\ failed = FALSE /\ finished = FALSE

vars == <<rows, out, failed, finished>>

\* A tuple not yet produced is appended to the result set.
Emit ==
    /\ ~finished
    /\ \E r \in rows \ ToSet(out) : out' = Append(out, r)
    /\ UNCHANGED <<rows, failed, finished>>

\* Execution stops once every tuple has been produced.
Finish ==
    /\ ~finished
    /\ ToSet(out) = rows
    /\ finished' = TRUE
    /\ UNCHANGED <<rows, out, failed>>

\* An execution error happens; it may halt execution at once.
Fail ==
    /\ ~finished /\ ~failed
    /\ failed' = TRUE
    /\ finished' \in BOOLEAN
    /\ UNCHANGED <<rows, out>>

\* After an error, execution may stop with the tuples produced so far.
Abort ==
    /\ ~finished /\ failed
    /\ finished' = TRUE
    /\ UNCHANGED <<rows, out, failed>>

Next == Emit \/ Finish \/ Fail \/ Abort

Spec == Init /\ [][Next]_vars /\ WF_vars(Next)
=============================================================================
