------------------------------- MODULE OpNode -------------------------------
(***************************************************************************)
(* The doubly linked operator DAG of an execution plan                    *)
(* (src/src/execution_plan/execution_plan.c, lines 20-112).               *)
(*                                                                         *)
(* An OpNode owns an operation and two growable pointer arrays, children  *)
(* and parents.  Here a plan is a sequence `ops` of op records indexed by *)
(* op id (the id is the allocation order of NewOpNode); children and      *)
(* parents are sequences of op ids, kept in the same order as the C       *)
(* arrays because PullFromStreams, the merge search and the printer all   *)
(* depend on that order.  The helpers below are pure operators on `ops`.  *)
(***************************************************************************)
EXTENDS Naturals, Sequences, SequencesExt

CONSTANT NONE   \* a null alias / null predicate set: a model value

\* The operation kinds (OPType_* in the ops/ headers).
OpTypes == {"ProduceResults", "Aggregate", "AllNodeScan", "NodeByLabelScan",
            "ExpandAll", "ExpandInto", "Filter"}

ScanTypes == {"AllNodeScan", "NodeByLabelScan"}

\* An operation: scans carry the alias they bind, expansions the source
\* alias, the pattern edge and the destination alias, filters their minimum
\* filter tree (a set of predicates).  Unused fields hold NONE (or {}).
Operation(type, alias, src, edge, dest, preds) ==
    [type |-> type, alias |-> alias, src |-> src, edge |-> edge, dest |-> dest,
     preds |-> preds]

\* The allocation of a pointer array: its length in slots, 0 for NULL.
\* realloc(p, 0) frees p and returns NULL (glibc), so an array emptied by
\* _OpNode_RemoveNode is NULL again.  `overrun` records that some write
\* went past the allocation of this node's children or parents.

\* NewOpNode (lines 20-29): a fresh node with no children and no parents,
\* both arrays NULL, appended to the plan; its id is the new length of `ops`.
NewOpNode(ops, op) ==
    Append(ops, op @@ [children |-> <<>>, parents |-> <<>>,
                       childCap |-> 0, parentCap |-> 0, overrun |-> FALSE])

\* _OpNode_ContainsChild (lines 33-40).
OpNode_ContainsChild(ops, parent, child) ==
    Contains(ops[parent].children, child)

\* One half of _OpNode_AddChild on an array of count entries and cap slots:
\* malloc one slot if NULL, write at index count, then realloc to count + 2
\* slots.  Yields the new allocation and whether the write overran.
GrowArray(count, cap) ==
    LET slots == IF cap = 0 THEN 1 ELSE cap
    IN  [cap |-> count + 2, overrun |-> count >= slots]

\* _OpNode_AddChild (lines 42-61): append child to parent's children and
\* parent to child's parents.  No check for an existing link.
OpNode_AddChild(ops, parent, child) ==
    LET c == GrowArray(Len(ops[parent].children), ops[parent].childCap)
        p == GrowArray(Len(ops[child].parents), ops[child].parentCap)
    IN  [ops EXCEPT ![parent].children = Append(@, child),
                    ![parent].childCap = c.cap,
                    ![parent].overrun  = @ \/ c.overrun,
                    ![child].parents   = Append(@, parent),
                    ![child].parentCap = p.cap,
                    ![child].overrun   = @ \/ p.overrun]

\* _OpNode_RemoveNode (lines 65-93), also _OpNode_RemoveChild (95-97):
\* drop the first occurrence of b from a's children (shifting left) and
\* realloc the array to exactly the entries left; the same for a among
\* b's parents.  An array without the entry is left as it is.
OpNode_RemoveChild(ops, a, b) ==
    LET o1 == IF Contains(ops[a].children, b)
              THEN [ops EXCEPT ![a].children = RemoveFirst(@, b),
                               ![a].childCap = Len(ops[a].children) - 1]
              ELSE ops
    IN  IF Contains(o1[b].parents, a)
        THEN [o1 EXCEPT ![b].parents   = RemoveFirst(@, a),
                        ![b].parentCap = Len(o1[b].parents) - 1]
        ELSE o1

\* _OpNode_PushInBetween (lines 103-112): while parent has children, move
\* children[0] under onlyChild (AddChild, then RemoveChild); finally make
\* onlyChild parent's only child.
RECURSIVE OpNode_PushInBetween(_, _, _)
OpNode_PushInBetween(ops, parent, onlyChild) ==
    IF ops[parent].children = <<>>
    THEN OpNode_AddChild(ops, parent, onlyChild)
    ELSE LET first == Head(ops[parent].children)
         IN  OpNode_PushInBetween(
                 OpNode_RemoveChild(OpNode_AddChild(ops, onlyChild, first),
                                    parent, first),
                 parent, onlyChild)

-----------------------------------------------------------------------------
(* Derived views of a plan used by the properties.                        *)

\* Op ids reachable from the ids in S through children (S included); a
\* fixpoint, so it is defined on cyclic plans too.
RECURSIVE ReachableFrom(_, _)
ReachableFrom(ops, S) ==
    LET next == S \cup UNION {ToSet(ops[n].children) : n \in S}
    IN  IF next = S THEN S ELSE ReachableFrom(ops, next)

Reachable(ops, n) == ReachableFrom(ops, {n})

\* Op ids strictly below n.
Descendants(ops, n) == ReachableFrom(ops, ToSet(ops[n].children))

\* The aliases an operation binds: its `modifies` vector.  Scans bind
\* their alias, ExpandAll its destination; ExpandInto, Filter, Aggregate
\* and ProduceResults bind no node alias.
Modifies(op) ==
    CASE op.type \in ScanTypes   -> {op.alias}
      [] op.type = "ExpandAll"   -> {op.dest}
      [] OTHER                   -> {}
=============================================================================
