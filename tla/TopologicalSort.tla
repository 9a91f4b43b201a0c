--------------------------- MODULE TopologicalSort ---------------------------
(***************************************************************************)
(* DependencyGraph::new (navra-flow/src/dag.rs:26): the check that lets    *)
(* only acyclic graphs of known tasks into an executor.  It counts         *)
(* depends_on entries, not dependencies: the lists may repeat an id.       *)
(***************************************************************************)
EXTENDS Integers, Sequences, FiniteSets, Functions

CONSTANTS
    Id,         \* ids of the tasks, numbers in the order in which they sort
    UnknownId,  \* an id no task has
    MaxList,    \* bound: length of a depends_on list
    Repeats     \* whether a list may name an id twice

ASSUME SortAssumption ==
    /\ Id \subseteq Nat /\ IsFiniteSet(Id)
    /\ UnknownId \notin Id
    /\ MaxList \in Nat
    /\ Repeats \in BOOLEAN

VARIABLES
    dependsOn,  \* the lists given
    verdict,    \* what new() returns, "sorting" until then
    inDegree,   \* in_degree
    queue,      \* queue; sorted before each pop, so a set
    order       \* result

sortVars == <<dependsOn, verdict, inDegree, queue, order>>

Lists ==
    {l \in UNION {[1..n -> Id \cup {UnknownId}] : n \in 0..MaxList} :
        Repeats \/ IsInjective(l)}
Names(l) == {l[i] : i \in DOMAIN l}

SortTypeOK ==
    /\ dependsOn \in [Id -> Lists]
    /\ verdict \in {"sorting", "ok", "cycle", "unknown"}
    /\ inDegree \in [Id -> Nat]
    /\ queue \in SUBSET Id
    /\ order \in Seq(Id)

\* In-degrees count list entries; the roots are queued.
InDegrees_LastOnly(deps) == [t \in Id |-> IF deps[t] = <<>> THEN 0 ELSE 1]
InDegrees(deps) == [t \in Id |-> Len(deps[t])]

SortInit ==
    /\ dependsOn \in [Id -> Lists]
    /\ inDegree = InDegrees(dependsOn)
    /\ verdict = IF \E t \in Id : UnknownId \in Names(dependsOn[t])
                 THEN "unknown" ELSE "sorting"
    /\ queue = {t \in Id : inDegree[t] = 0}
    /\ order = <<>>

Released_FirstEntry(n) ==
    {t \in Id : dependsOn[t] # <<>> /\ dependsOn[t][1] = n}
\* A popped task satisfies one entry of each list that names it.
Released(n) == {t \in Id : n \in Names(dependsOn[t])}

PopNode ==
    /\ verdict = "sorting"
    /\ queue # {}
    /\ \E n \in queue :
        /\ \A m \in queue : m <= n
        /\ order' = Append(order, n)
        /\ inDegree' = [t \in Id |-> IF t \in Released(n) THEN inDegree[t] - 1
                                                          ELSE inDegree[t]]
        /\ queue' = (queue \ {n}) \cup {t \in Released(n) : inDegree'[t] = 0}
    /\ UNCHANGED <<dependsOn, verdict>>

Outcome == IF Len(order) = Cardinality(Id) THEN "ok" ELSE "cycle"

ReturnOrder ==
    /\ verdict = "sorting"
    /\ queue = {}
    /\ verdict' = Outcome
    /\ UNCHANGED <<dependsOn, inDegree, queue, order>>

SortNext == PopNode \/ ReturnOrder
SortSpec == SortInit /\ [][SortNext]_sortVars
-----------------------------------------------------------------------------
\* The reference: every nonempty part of the graph has a task that waits for
\* nothing in it.
WellFounded ==
    \A S \in SUBSET Id :
        S # {} => \E t \in S : Names(dependsOn[t]) \cap S = {}

\* A graph that is let in is acyclic, and the order lists each task once and
\* after the tasks it depends on (dag.rs:25).
OrderIsTopological ==
    verdict = "ok" =>
        /\ WellFounded
        /\ IsInjective(order)
        /\ \A i \in DOMAIN order :
            Names(dependsOn[order[i]]) \subseteq {order[j] : j \in 1..i - 1}

\* Only cyclic graphs are refused as cyclic: "Returns an error if the graph
\* contains a cycle" (dag.rs:112).
OnlyCyclesRefused == verdict = "cycle" => ~WellFounded
=============================================================================
