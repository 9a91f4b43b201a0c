--------------------------- MODULE MCDagExecutor ----------------------------
(* Small flows on which TLC checks DagExecutor. *)
EXTENDS DagExecutorProps, TLC

CONSTANTS a, b, c, d

\* a before b and c, both before d: one batch of two, a join.
Diamond == [t \in {a, b, c, d} |->
    CASE t = a -> {} [] t \in {b, c} -> {a} [] t = d -> {b, c}]
\* A chain a, b, c.
Chain == [t \in {a, b, c} |-> CASE t = a -> {} [] t = b -> {a} [] t = c -> {b}]
Chain4 == [t \in {a, b, c, d} |->
    CASE t = a -> {} [] t = b -> {a} [] t = c -> {b} [] t = d -> {c}]
Alone == [t \in {a} |-> {}]

Tasks4 == {a, b, c, d}
Tasks3 == {a, b, c}
Tasks1 == {a}

NoEdges == {}
\* b sends the flow back to a, once.
ReviewEdge == {[from |-> b, to |-> a, max |-> 1]}
\* b and c of the chain both send it back to a, twice each.
CascadeEdges == {[from |-> b, to |-> a, max |-> 2], [from |-> c, to |-> a, max |-> 2]}
\* The documented example: a task that is its own target.
SelfEdge == {[from |-> a, to |-> a, max |-> 3]}

Retries0 == [t \in Task |-> 0]
Retries3 == [t \in Task |-> IF t = a THEN 3 ELSE 0]
=============================================================================
