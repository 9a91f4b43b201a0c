------------------------------ MODULE TaskGraph ------------------------------
(***************************************************************************)
(* The dependency graph of a flow (navra-flow/src/dag.rs): tasks, the      *)
(* tasks each one depends on, and the two queries the executors ask of it. *)
(* A graph reaches the executor only through DependencyGraph::new, which   *)
(* refuses references to unknown tasks and cycles; TopologicalSort models  *)
(* that check.                                                             *)
(***************************************************************************)
EXTENDS Naturals, FiniteSets

CONSTANTS
    Task,       \* the task ids of the flow
    DependsOn   \* DependsOn[t]: the ids listed in t's depends_on

ASSUME TaskAssumption ==
    /\ IsFiniteSet(Task)
    /\ DependsOn \in [Task -> SUBSET Task]
    \* no cycle, in the form that Kahn's algorithm establishes: whatever part of
    \* the graph is left, some task in it waits for nothing in it
    /\ \A S \in SUBSET Task : S # {} => \E t \in S : DependsOn[t] \cap S = {}

\* The reverse edges kept in DependencyGraph.dependents.
DependentsOf(t) == {u \in Task : t \in DependsOn[u]}

\* No dependent of a member lies outside S.
ClosedUnderDependents(S) == \A t \in S : DependentsOf(t) \subseteq S

\* Mutant: only the direct dependents, the walk not continued.
AllDependents_Direct(t) == DependentsOf(t)

\* The tasks that transitively depend on t: the least closed set that holds
\* t's dependents, which is what the stack walk accumulates in `result`.
AllDependents(t) ==
    {u \in Task : \A S \in SUBSET Task :
        DependentsOf(t) \subseteq S /\ ClosedUnderDependents(S) => u \in S}

\* Tasks not completed whose dependencies all are. The code collects them from
\* a HashMap, so their order is arbitrary: the set is all there is to know.
GetReadyTasks(completed) ==
    {t \in Task \ completed : DependsOn[t] \subseteq completed}
=============================================================================
