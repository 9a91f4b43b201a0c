----------------------------- MODULE DagExecutor -----------------------------
(***************************************************************************)
(* DagExecutor::run (navra-flow/src/executor.rs): one flow, its retries,   *)
(* its back-edges, its hop limit, and the per-node checkpoint from which a *)
(* run of the same flow_id resumes after the process died or the run was   *)
(* aborted.                                                                *)
(*                                                                         *)
(* An output is abstracted to its provenance: which acceptance of the task *)
(* it is (ver) and which outputs of the dependencies its prompt carried    *)
(* (from).                                                                 *)
(***************************************************************************)
EXTENDS TaskGraph, Sequences

CONSTANTS
    BackEdge,         \* conditional edges, [from, to, max]; `to` is not checked to exist
    MaxRetries,       \* MaxRetries[t]: task.max_retries
    ErrorType,        \* failure classes of agent errors, lower-cased as in Attempt
    Verified,         \* tasks with a cross-validation config
    Unassigned,       \* tasks whose specialist has no registered agent
    Untrusted,        \* tasks whose agent reads untrusted data
    MaxHops,          \* 0 = unlimited
    GlobalMax,        \* BackEdgeTracker.global_max
    IoErrors,         \* whether the checkpoint database may fail
    MaxRuns,          \* bound: how often run() is called for this flow_id
    NoTask

ASSUME ExecutorAssumption ==
    /\ IsFiniteSet(BackEdge)
    /\ \A e \in BackEdge : e.from \in Task /\ e.max \in Nat
    \* iteration counts are keyed by (from, to): one edge per pair
    /\ \A e, f \in BackEdge : e.from = f.from /\ e.to = f.to => e = f
    /\ MaxRetries \in [Task -> Nat]
    /\ MaxHops \in Nat
    /\ GlobalMax \in Nat
    /\ MaxRuns \in Nat
    /\ IoErrors \in BOOLEAN
    /\ "circularfix" \notin ErrorType
    /\ Verified \cup Unassigned \cup Untrusted \subseteq Task
    /\ NoTask \notin Task

VARIABLES
    phase,       \* where run() is; "idle": no run in progress
    runs,        \* calls of run() so far
    completed,   \* completed: HashSet<String>
    skipped,     \* skipped: HashSet<String>
    result,      \* results: status and output per task
    batch,       \* what is left of the `ready` batch being iterated
    current,     \* the task whose attempts are running
    attempts,    \* error types of its failed attempts
    activations, \* BackEdgeTracker.counts
    globalActs,  \* BackEdgeTracker.global_activations
    hops,        \* hop_count
    taint,       \* TaintTracker: has an untrusted label been absorbed?
    ckpt,        \* the checkpoint row: last saved output per task
    version      \* history: outputs of the task accepted so far, over all runs

tracker == <<activations, globalActs>>
memory == <<completed, skipped, result, batch, current, attempts, tracker,
            hops, taint>>
durable == <<ckpt, version>>
vars == <<phase, runs, memory, durable>>

Running == {"select", "batch", "attempt"}
Phase == {"idle", "done", "aborted"} \cup Running
Status == {"None", "Complete", "Failed", "Skipped"}
Output == [ver : Nat, from : [Task -> Nat]]
NoOutput == [ver |-> 0, from |-> [d \in Task |-> 0]]
NoResult == [status |-> "None", out |-> NoOutput]
AttemptError == {"validation_failed", "verification_failed", "circularfix"} \cup ErrorType

TypeOK ==
    /\ phase \in Phase
    /\ runs \in 0..MaxRuns
    /\ completed \in SUBSET Task
    /\ skipped \in SUBSET Task
    /\ result \in [Task -> [status : Status, out : Output]]
    /\ batch \in SUBSET Task
    /\ current \in Task \cup {NoTask}
    /\ attempts \in Seq(AttemptError)
    /\ activations \in [BackEdge -> Nat]
    /\ globalActs \in Nat
    /\ hops \in Nat
    /\ taint \in BOOLEAN
    /\ ckpt \in [Task -> Output]
    /\ version \in [Task -> Nat]

StatusIs(t, s) == result[t].status = s

Init ==
    /\ phase = "idle"
    /\ runs = 0
    /\ completed = {}
    /\ skipped = {}
    /\ result = [t \in Task |-> NoResult]
    /\ batch = {}
    /\ current = NoTask
    /\ attempts = <<>>
    /\ activations = [e \in BackEdge |-> 0]
    /\ globalActs = 0
    /\ hops = 0
    /\ taint = FALSE
    /\ ckpt = [t \in Task |-> NoOutput]
    /\ version = [t \in Task |-> 0]

-----------------------------------------------------------------------------
\* What a resumed run knows of a task: status and output, the label is gone.
Resumed_NoOutput(t, saved) ==
    IF t \in saved THEN [status |-> "Complete", out |-> NoOutput] ELSE NoResult
Resumed(t, saved) ==
    IF t \in saved THEN [status |-> "Complete", out |-> ckpt[t]] ELSE NoResult

\* run() up to the loop: everything is fresh except what the checkpoint holds.
\* Resumed results carry TRUSTED_PUBLIC; a failing load is ignored.
StartRun ==
    /\ phase \in {"idle", "aborted"}
    /\ runs < MaxRuns
    /\ runs' = runs + 1
    /\ phase' = "select"
    /\ \E loaded \in IF IoErrors THEN BOOLEAN ELSE {TRUE} :
        LET saved == {t \in Task : loaded /\ ckpt[t].ver > 0} IN
        /\ completed' = saved
        /\ result' = [t \in Task |-> Resumed(t, saved)]
    /\ skipped' = {}
    /\ batch' = {}
    /\ current' = NoTask
    /\ attempts' = <<>>
    /\ activations' = [e \in BackEdge |-> 0]
    /\ globalActs' = 0
    /\ hops' = 0
    /\ taint' = FALSE
    /\ UNCHANGED durable

\* run() returns Err: the caller loses the results, the checkpoint row stays.
Abort ==
    /\ phase' = "aborted"
    /\ UNCHANGED <<runs, memory, durable>>

HopLimitReached == MaxHops > 0 /\ hops >= MaxHops

AbortAtHopLimit == phase = "select" /\ HopLimitReached /\ Abort

Ready_WithSkipped == GetReadyTasks(completed)
Ready == GetReadyTasks(completed) \ skipped

\* The batch is collected once and then iterated, whatever happens meanwhile.
SelectBatch ==
    /\ phase = "select"
    /\ ~HopLimitReached
    /\ Ready # {}
    /\ batch' = Ready
    /\ phase' = "batch"
    /\ UNCHANGED <<runs, completed, skipped, result, current, attempts,
                   tracker, hops, taint, durable>>

\* Nothing is ready: delete the checkpoint and return the results.
Finish ==
    /\ phase = "select"
    /\ ~HopLimitReached
    /\ Ready = {}
    /\ phase' = "done"
    /\ \E deleted \in IF IoErrors THEN BOOLEAN ELSE {TRUE} :
        ckpt' = IF deleted THEN [t \in Task |-> NoOutput] ELSE ckpt
    /\ UNCHANGED <<runs, memory, version>>

AbortUnassigned ==
    /\ phase = "batch"
    /\ batch \cap Unassigned # {}
    /\ Abort

\* task.approval_required is not consulted.
BeginTask(t) ==
    /\ phase = "batch"
    /\ t \in batch \ Unassigned
    /\ phase' = "attempt"
    /\ current' = t
    /\ attempts' = <<>>
    /\ batch' = batch \ {t}
    /\ UNCHANGED <<runs, completed, skipped, result, tracker, hops, taint, durable>>

-----------------------------------------------------------------------------
\* After a task: the next of the batch, or the head of the outer loop.
LeaveTask ==
    /\ current' = NoTask
    /\ attempts' = <<>>
    /\ phase' = IF batch = {} THEN "select" ELSE "batch"
    /\ hops' = hops + 1
    /\ UNCHANGED <<runs, batch>>

\* The dependency outputs that build_task_prompt injects.
PromptInputs(t) ==
    [d \in Task |-> IF d \in DependsOn[t] /\ StatusIs(d, "Complete")
                    THEN result[d].out.ver ELSE 0]

\* Which back-edges of t fire: those whose condition the output meets (any
\* subset, the output being abstract) while neither bound is reached.
Firing(t) ==
    {F \in SUBSET {e \in BackEdge : e.from = t /\ activations[e] < e.max} :
        F = {} \/ globalActs + Cardinality(F) <= GlobalMax}

\* What firing F takes out of `completed` and `results`.
Invalidated(F) ==
    Task \cap UNION {{e.to} \cup (IF e.to \in Task THEN AllDependents(e.to) ELSE {}) :
                      e \in F}

\* should_activate's counters after firing F.
RecordActivations(F) ==
    /\ activations' = [e \in BackEdge |->
           IF e \in F THEN activations[e] + 1 ELSE activations[e]]
    /\ globalActs' = globalActs + Cardinality(F)

\* TaintTracker::absorb of an agent's label.
Absorb_Latest(t) == taint' = (t \in Untrusted)
Absorb(t) == taint' = (taint \/ t \in Untrusted)

\* DagCheckpoint::save_node: one transaction adds the node to the row.
SaveNode_Replacing(t, out) ==
    ckpt' = [u \in Task |-> IF u = t THEN out ELSE NoOutput]
SaveNode(t, out) == ckpt' = [ckpt EXCEPT ![t] = out]

\* The response passes validation and, if configured, cross-validation: fire
\* the back-edges, save the node (a failing save is only logged), and record
\* the task itself as completed even when it is among the invalidated ones.
AcceptResponse ==
    /\ phase = "attempt"
    /\ LET t == current
           out == [ver |-> version[t] + 1, from |-> PromptInputs(t)]
       IN \E F \in Firing(t), saved \in IF IoErrors THEN BOOLEAN ELSE {TRUE} :
            /\ completed' = (completed \ Invalidated(F)) \cup {t}
            /\ result' = [u \in Task |->
                   IF u = t THEN [status |-> "Complete", out |-> out]
                   ELSE IF u \in Invalidated(F) THEN NoResult ELSE result[u]]
            /\ RecordActivations(F)
            /\ IF saved THEN SaveNode(t, out) ELSE UNCHANGED ckpt
            /\ version' = [version EXCEPT ![t] = @ + 1]
            /\ Absorb(t)
    /\ LeaveTask
    /\ UNCHANGED skipped

\* detect_circular_fix(attempts, 3): the last three failed the same way.
Circular(s) ==
    /\ Len(s) >= 3
    /\ s[Len(s)] = s[Len(s) - 1]
    /\ s[Len(s)] = s[Len(s) - 2]

\* No attempt is left: the task failed, and whatever depends on it and has not
\* completed is skipped. The failed task counts as completed.
FailTask ==
    /\ LET t == current
           toSkip == AllDependents(t) \ completed
       IN /\ skipped' = skipped \cup toSkip
          /\ result' = [u \in Task |->
                 IF u \in toSkip THEN [status |-> "Skipped", out |-> NoOutput]
                 ELSE IF u = t THEN [status |-> "Failed", out |-> NoOutput]
                 ELSE result[u]]
          /\ completed' = completed \cup {t}
    /\ LeaveTask
    /\ UNCHANGED <<tracker, durable>>

RecordAttempt_NotCircular(kind) ==
    IF Len(attempts) >= MaxRetries[current]
    THEN FailTask
    ELSE /\ attempts' = Append(attempts, kind)
         /\ UNCHANGED <<phase, runs, completed, skipped, result, batch, current,
                        tracker, hops, durable>>

RecordAttempt_Forgetting(kind) ==
    IF kind = "circularfix" \/ Len(attempts) + 1 > MaxRetries[current]
    THEN FailTask
    ELSE /\ attempts' = <<kind>>
         /\ UNCHANGED <<phase, runs, completed, skipped, result, batch, current,
                        tracker, hops, durable>>

\* One more failed attempt: retry unless the errors are circular (or said to be
\* skipped), or max_retries is used up. strategy.max_retries is not consulted.
RecordAttempt(kind) ==
    LET tried == Append(attempts, kind) IN
    IF kind = "circularfix" \/ Circular(tried) \/ Len(tried) > MaxRetries[current]
    THEN FailTask
    ELSE /\ attempts' = tried
         /\ UNCHANGED <<phase, runs, completed, skipped, result, batch, current,
                        tracker, hops, durable>>

\* The agent answered, but the mandate validation or the verifiers reject it.
RejectResponse ==
    /\ phase = "attempt"
    /\ Absorb(current)
    /\ \/ RecordAttempt("validation_failed")
       \/ current \in Verified /\ RecordAttempt("verification_failed")

\* agent.run returned Err; classify_failure looks at the earlier attempts first.
AgentError ==
    /\ phase = "attempt"
    /\ UNCHANGED taint
    /\ \E e \in ErrorType :
        RecordAttempt(IF Circular(attempts) THEN "circularfix" ELSE e)

\* verify_result itself failed: `?` leaves run().
VerifierError ==
    /\ phase = "attempt"
    /\ current \in Verified
    /\ Abort

\* The process dies: only the database survives.
Crash ==
    /\ phase \in Running
    /\ phase' = "idle"
    /\ completed' = {}
    /\ skipped' = {}
    /\ result' = [t \in Task |-> NoResult]
    /\ batch' = {}
    /\ current' = NoTask
    /\ attempts' = <<>>
    /\ activations' = [e \in BackEdge |-> 0]
    /\ globalActs' = 0
    /\ hops' = 0
    /\ taint' = FALSE
    /\ UNCHANGED <<runs, durable>>

\* What the executor does by itself once run() has been called.
RunStep ==
    \/ AbortAtHopLimit
    \/ SelectBatch
    \/ Finish
    \/ AbortUnassigned
    \/ \E t \in Task : BeginTask(t)
    \/ AcceptResponse
    \/ RejectResponse
    \/ AgentError
    \/ VerifierError

Next == StartRun \/ RunStep \/ Crash

Spec == Init /\ [][Next]_vars

\* Every agent turn is bounded (iterations, timeouts), so run() keeps stepping.
FairSpec == Spec /\ WF_vars(RunStep)
=============================================================================
