-------------------------- MODULE DagExecutorProps ---------------------------
(***************************************************************************)
(* What a run of a flow promises.  Properties that only flows without      *)
(* back-edges, or a healthy checkpoint database, keep say so.              *)
(***************************************************************************)
EXTENDS DagExecutor

\* A task is attempted only while every task it depends on is Complete, so its
\* prompt carries all the outputs it asked for ("Tasks are run in dependency
\* order", executor.rs:252); across crashes and resumes, without back-edges.
DependencyOrder ==
    current # NoTask => \A d \in DependsOn[current] : StatusIs(d, "Complete")

\* Every result returned was computed from the results returned for its
\* dependencies, never from an output that a later run of the dependency
\* replaced.
FreshInputs ==
    phase = "done" =>
        \A t \in Task : StatusIs(t, "Complete") =>
            \A d \in DependsOn[t] : result[t].out.from[d] = result[d].out.ver

\* A finished flow has a verdict for every task, and the verdicts agree: a
\* Complete task has Complete dependencies, a Skipped one is downstream of a
\* Failed one (executor.rs:653-676).
Accounted ==
    phase = "done" =>
        \A t \in Task :
            /\ ~StatusIs(t, "None")
            /\ StatusIs(t, "Complete") => \A d \in DependsOn[t] : StatusIs(d, "Complete")
            /\ StatusIs(t, "Skipped") =>
                   \E f \in Task : t \in AllDependents(f) /\ StatusIs(f, "Failed")

\* Crashes and resumes included, the output of a task is accepted at most once:
\* a task whose node was checkpointed is never run again.
CompletedOnce == \A t \in Task : version[t] <= 1

\* What a run holds as Complete is the latest output ever accepted for the
\* task, also when the result came back from the checkpoint.
LatestOutput ==
    \A t \in Task : StatusIs(t, "Complete") => result[t].out.ver = version[t]

\* What a restarted run takes from the checkpoint is consistent: with a task it
\* has the tasks it depends on, in the version it was computed from.
ResumeConsistent ==
    [][StartRun =>
        \A t \in completed' : \A d \in DependsOn[t] :
            /\ d \in completed'
            /\ result[t].out.from[d]' = result[d].out.ver']_vars

\* The inductive invariant of flows without back-edges on a healthy database:
\* the checkpoint is closed under dependencies, and so is what a run has done.
Done(t) == StatusIs(t, "Complete")
NothingRemembered ==
    /\ current = NoTask
    /\ \A t \in Task : StatusIs(t, "None")
CheckpointClosed ==
    /\ phase # "done" => \A t \in Task : ckpt[t].ver = version[t]
    /\ \A t \in Task : ckpt[t].ver > 0 =>
           \A d \in DependsOn[t] : ckpt[d].ver = 1 /\ ckpt[t].from[d] = 1
ResultsClosed ==
    /\ \A t \in Task : Done(t) <=> version[t] = 1
    /\ \A t \in Task : Done(t) =>
           /\ result[t].out.ver = 1
           /\ \A d \in DependsOn[t] : result[t].out.from[d] = 1
    /\ completed = {t \in Task : Done(t) \/ StatusIs(t, "Failed")}
    /\ \A t \in completed, d \in Task : d \in DependsOn[t] => Done(d)
SkipsClosed ==
    /\ skipped = {t \in Task : StatusIs(t, "Skipped")}
    /\ \A t \in Task : StatusIs(t, "Failed") \/ StatusIs(t, "Skipped") =>
           DependentsOf(t) \subseteq skipped
    /\ \A t \in skipped :
           /\ \E d \in DependsOn[t] : StatusIs(d, "Failed") \/ StatusIs(d, "Skipped")
           /\ \E f \in Task : t \in AllDependents(f) /\ StatusIs(f, "Failed")
Chosen == batch \cup ({current} \ {NoTask})
ChosenReady ==
    /\ Chosen \cap (completed \cup skipped) = {}
    /\ current \notin batch
    /\ \A t \in Chosen, d \in Task : d \in DependsOn[t] => Done(d)
PhaseInv ==
    /\ phase = "attempt" => current # NoTask
    /\ phase \in {"select", "batch"} => current = NoTask
    /\ phase \in {"select", "done"} => batch = {}
    /\ phase = "done" => Task \subseteq completed \cup skipped
PlainInv ==
    /\ \A t \in Task : version[t] \in {0, 1}
    /\ CheckpointClosed
    /\ PhaseInv
    /\ IF phase = "idle" THEN NothingRemembered
       ELSE ResultsClosed /\ SkipsClosed /\ ChosenReady

\* A flow without back-edges implements FlowPromise.
Promise == INSTANCE FlowPromise WITH
    accepted <- version,
    report <- [t \in Task |-> IF phase = "done" THEN result[t].status ELSE "None"]
KeepsPromise == Promise!Spec

\* A task that keeps failing the same way is never given a fourth attempt, by
\* whichever of the two places detects it (recovery.rs:43 and executor.rs:591).
CircularFixStopsRetry ==
    /\ ~\E i \in 1..Len(attempts) - 2 :
           attempts[i] = attempts[i + 1] /\ attempts[i] = attempts[i + 2]
    /\ "circularfix" \notin {attempts[i] : i \in DOMAIN attempts}

\* The aggregate label covers every result (flows.md:506); within one run.
TaintCoversResults ==
    (\E t \in Untrusted : StatusIs(t, "Complete")) => taint

\* A run costs one hop per task and one more per task and back-edge activation,
\* of which there are no more than the bounds allow; the hop limit is passed by
\* less than the batch in which it is reached.
RunBounded ==
    /\ \A e \in BackEdge : activations[e] <= e.max
    /\ globalActs <= GlobalMax
    /\ hops <= Cardinality(Task) * (GlobalMax + 1)
    /\ MaxHops > 0 => hops < MaxHops + Cardinality(Task)

\* A run ends, whatever the agents answer and however its back-edges requeue
\* each other (llms-full.txt:2007, "DAG back-edge cascading creates unbounded
\* re-execution").
RunEnds == (phase \in Running) ~> (phase \notin Running)

-----------------------------------------------------------------------------
(* Claims of the repository that the code does not keep.                   *)

\* "the target task is re-queued" (navra-flow/README.md:115), and the guide's
\* own example targets the task itself (docs/content/docs/guides/flows.md:233).
TargetRequeued ==
    [][\A e \in BackEdge : activations'[e] > activations[e] => e.to \notin completed']_vars

\* A finished flow returns no result computed from an output that was replaced:
\* "Activation invalidates downstream results via all_dependents()"
\* (DESIGN.md:1490) is FreshInputs, for a flow with a back-edge.
=============================================================================
