-------------------------- MODULE DagExecutorProofs --------------------------
(***************************************************************************)
(* Types, retries, taint and the cost of a run, for every flow; for flows  *)
(* without back-edges on a healthy checkpoint database, the inductive      *)
(* invariant PlainInv and what follows from it, for every graph, retry     *)
(* budget, hop limit and number of runs.  Last, the check that lets only   *)
(* acyclic graphs into an executor, for all depends_on lists: there the    *)
(* constants and variables are those of TopologicalSort.                   *)
(***************************************************************************)
EXTENDS DagExecutorProps, TopologicalSort, FiniteSetTheorems,
        WellFoundedInduction, TLAPS

-----------------------------------------------------------------------------
(* all_dependents *)

\* AllDependents(t) contains the direct dependents and is closed.
LEMMA DependentsClosed ==
    ASSUME NEW t \in Task
    PROVE  /\ AllDependents(t) \subseteq Task
           /\ DependentsOf(t) \subseteq AllDependents(t)
           /\ \A u \in AllDependents(t) : DependentsOf(u) \subseteq AllDependents(t)
BY DEF AllDependents, DependentsOf, ClosedUnderDependents

\* It is the least such set.
LEMMA DependentsLeast ==
    ASSUME NEW t \in Task, NEW S \in SUBSET Task,
           DependentsOf(t) \subseteq S,
           \A u \in S : DependentsOf(u) \subseteq S
    PROVE  AllDependents(t) \subseteq S
BY DEF AllDependents, ClosedUnderDependents

-----------------------------------------------------------------------------
(* Types *)

\* While attempts are made there is a task whose attempts they are.
AttemptHasTask == phase = "attempt" => current \in Task

LEMMA OutputTypes ==
    /\ NoOutput \in Output
    /\ NoResult \in [status : Status, out : Output]
BY DEF NoOutput, NoResult, Output, Status

\* The values the variables of a run start from.
LEMMA FreshTypes ==
    /\ <<>> \in Seq(AttemptError)
    /\ [e \in BackEdge |-> 0] \in [BackEdge -> Nat]
    /\ [t \in Task |-> 0] \in [Task -> Nat]
    /\ [t \in Task |-> NoResult] \in [Task -> [status : Status, out : Output]]
    /\ [t \in Task |-> NoOutput] \in [Task -> Output]
    /\ 0 \in Nat /\ 0 \in 0..MaxRuns
<1>1. 0 \in 0..MaxRuns
    BY ExecutorAssumption
<1> QED
    BY <1>1, OutputTypes

LEMMA PromptInputsType ==
    ASSUME TypeOK, NEW t \in Task
    PROVE  PromptInputs(t) \in [Task -> Nat]
BY DEF TypeOK, PromptInputs, Output, StatusIs

LEMMA FailTaskType ==
    ASSUME TypeOK, current \in Task, FailTask, taint' \in BOOLEAN
    PROVE  TypeOK'
<1>1. AllDependents(current) \subseteq Task
    BY DependentsClosed
<1>2. /\ skipped' \in SUBSET Task
      /\ completed' \in SUBSET Task
    BY <1>1 DEF TypeOK, FailTask
<1>3. result' \in [Task -> [status : Status, out : Output]]
    BY OutputTypes DEF TypeOK, FailTask, Status
<1>4. /\ phase' \in Phase
      /\ current' \in Task \cup {NoTask}
      /\ attempts' \in Seq(AttemptError)
      /\ hops' \in Nat
    BY DEF TypeOK, FailTask, LeaveTask, Phase, Running
<1> QED
    BY <1>2, <1>3, <1>4 DEF TypeOK, FailTask, LeaveTask, tracker, durable

LEMMA RecordAttemptType ==
    ASSUME TypeOK, current \in Task, NEW kind \in AttemptError,
           RecordAttempt(kind), taint' \in BOOLEAN
    PROVE  TypeOK'
<1>1. CASE FailTask
    BY <1>1, FailTaskType
<1>2. CASE ~FailTask
    <2>1. /\ attempts' = Append(attempts, kind)
          /\ UNCHANGED <<phase, runs, completed, skipped, result, batch, current,
                         tracker, hops, durable>>
        BY <1>2 DEF RecordAttempt
    <2> QED
        BY <2>1 DEF TypeOK, tracker, durable
<1> QED
    BY <1>1, <1>2

LEMMA AcceptType ==
    ASSUME TypeOK, current \in Task, AcceptResponse
    PROVE  TypeOK'
<1> DEFINE out == [ver |-> version[current] + 1, from |-> PromptInputs(current)]
<1>0. PICK F \in Firing(current), saved \in BOOLEAN :
        /\ completed' = (completed \ Invalidated(F)) \cup {current}
        /\ result' = [u \in Task |->
               IF u = current THEN [status |-> "Complete", out |-> out]
               ELSE IF u \in Invalidated(F) THEN NoResult ELSE result[u]]
        /\ RecordActivations(F)
        /\ IF saved THEN SaveNode(current, out) ELSE UNCHANGED ckpt
        /\ version' = [version EXCEPT ![current] = @ + 1]
        /\ Absorb(current)
    BY DEF AcceptResponse
<1>1. out \in Output
    BY PromptInputsType DEF TypeOK, Output
<1>2. completed' \in SUBSET Task
    BY <1>0 DEF TypeOK
<1>3. result' \in [Task -> [status : Status, out : Output]]
    <2> SUFFICES ASSUME NEW u \in Task
                 PROVE (IF u = current THEN [status |-> "Complete", out |-> out]
                        ELSE IF u \in Invalidated(F) THEN NoResult ELSE result[u])
                       \in [status : Status, out : Output]
        BY <1>0
    <2>1. [status |-> "Complete", out |-> out] \in [status : Status, out : Output]
        BY <1>1 DEF Status
    <2> QED
        BY <2>1, OutputTypes DEF TypeOK
<1>4. Cardinality(F) \in Nat
    BY FS_Subset, FS_CardinalityType, ExecutorAssumption DEF Firing
<1>5. activations' \in [BackEdge -> Nat] /\ globalActs' \in Nat
    BY <1>0, <1>4 DEF TypeOK, RecordActivations
<1>6. ckpt' \in [Task -> Output]
    BY <1>0, <1>1 DEF TypeOK, SaveNode
<1>7. version' \in [Task -> Nat]
    BY <1>0 DEF TypeOK
<1>8. taint' \in BOOLEAN
    BY <1>0 DEF TypeOK, Absorb
<1>9. /\ phase' \in Phase
      /\ current' \in Task \cup {NoTask}
      /\ attempts' \in Seq(AttemptError)
      /\ hops' \in Nat
      /\ runs' \in 0..MaxRuns
      /\ batch' \in SUBSET Task
      /\ skipped' \in SUBSET Task
    BY DEF TypeOK, AcceptResponse, LeaveTask, Phase, Running
<1> QED
    BY <1>2, <1>3, <1>5, <1>6, <1>7, <1>8, <1>9 DEF TypeOK

LEMMA LoopType ==
    ASSUME TypeOK,
           AbortAtHopLimit \/ SelectBatch \/ Finish \/ AbortUnassigned \/ VerifierError
    PROVE  TypeOK' /\ phase' # "attempt"
<1>1. CASE AbortAtHopLimit \/ AbortUnassigned \/ VerifierError
    BY <1>1 DEF TypeOK, AbortAtHopLimit, AbortUnassigned, VerifierError, Abort,
                Phase, memory, tracker, durable
<1>2. CASE SelectBatch
    <2>1. Ready \in SUBSET Task
        BY DEF Ready, GetReadyTasks
    <2> QED
        BY <1>2, <2>1 DEF TypeOK, SelectBatch, Phase, Running, tracker, durable
<1>3. CASE Finish
    <2>1. ckpt' \in [Task -> Output]
        BY <1>3, OutputTypes DEF TypeOK, Finish
    <2> QED
        BY <1>3, <2>1 DEF TypeOK, Finish, Phase, memory, tracker
<1> QED
    BY <1>1, <1>2, <1>3

LEMMA FreshType ==
    ASSUME TypeOK, StartRun \/ Crash
    PROVE  TypeOK' /\ phase' # "attempt"
<1>1. CASE StartRun
    <2>1. PICK loaded \in BOOLEAN :
            LET saved == {t \in Task : loaded /\ ckpt[t].ver > 0} IN
            /\ completed' = saved
            /\ result' = [t \in Task |-> Resumed(t, saved)]
        BY <1>1 DEF StartRun
    <2>2. \A t \in Task : Resumed(t, completed') \in [status : Status, out : Output]
        BY OutputTypes DEF TypeOK, Resumed, Status
    <2>3. /\ completed' \in SUBSET Task
          /\ result' \in [Task -> [status : Status, out : Output]]
        BY <2>1, <2>2
    <2>4. runs' \in 0..MaxRuns
        BY <1>1, ExecutorAssumption DEF TypeOK, StartRun
    <2> QED
        BY <1>1, <2>3, <2>4, FreshTypes DEF TypeOK, StartRun, Phase, Running, durable
<1>2. CASE Crash
    BY <1>2, FreshTypes DEF TypeOK, Crash, Phase, durable
<1> QED
    BY <1>1, <1>2

LEMMA AttemptType ==
    ASSUME TypeOK, current \in Task, RejectResponse \/ AgentError
    PROVE  TypeOK'
<1>1. taint' \in BOOLEAN
    BY DEF TypeOK, RejectResponse, AgentError, Absorb
<1>2. PICK kind \in AttemptError : RecordAttempt(kind)
    BY DEF RejectResponse, AgentError, AttemptError
<1> QED
    BY <1>1, <1>2, RecordAttemptType

\* Attempts end, or go on with the same task.
LEMMA AttemptPhase ==
    ASSUME TypeOK, current \in Task, AcceptResponse \/ RejectResponse \/ AgentError
    PROVE  AttemptHasTask'
<1>1. CASE LeaveTask
    BY <1>1 DEF LeaveTask, AttemptHasTask
<1>2. CASE ~LeaveTask
    <2>1. PICK kind \in AttemptError : RecordAttempt(kind)
        BY <1>2 DEF AcceptResponse, RejectResponse, AgentError, AttemptError
    <2>2. current' = current
        BY <1>2, <2>1 DEF RecordAttempt, FailTask
    <2> QED
        BY <2>2 DEF AttemptHasTask
<1> QED
    BY <1>1, <1>2

LEMMA TypeInvariant == Spec => [](TypeOK /\ AttemptHasTask)
<1> DEFINE TypeInv == TypeOK /\ AttemptHasTask
<1>1. Init => TypeInv
    <2>1. Init => AttemptHasTask
        BY DEF Init, AttemptHasTask
    <2>2. Init => TypeOK
        BY FreshTypes, Zenon DEF Init, TypeOK, Phase
    <2> QED
        BY <2>1, <2>2
<1>2. TypeInv /\ [Next]_vars => TypeInv'
    <2> SUFFICES ASSUME TypeInv, [Next]_vars
                 PROVE  TypeInv'
        OBVIOUS
    <2>1. CASE StartRun \/ Crash
        BY <2>1, FreshType DEF AttemptHasTask
    <2>2. CASE AbortAtHopLimit \/ SelectBatch \/ Finish \/ AbortUnassigned \/ VerifierError
        BY <2>2, LoopType DEF AttemptHasTask
    <2>3. ASSUME NEW t \in Task, BeginTask(t)
          PROVE  TypeInv'
        BY <2>3 DEF BeginTask, TypeOK, AttemptHasTask, Phase, Running, tracker, durable
    <2>4. CASE AcceptResponse \/ RejectResponse \/ AgentError
        <3>1. current \in Task
            BY <2>4 DEF AcceptResponse, RejectResponse, AgentError, AttemptHasTask
        <3> QED
            BY <2>4, <3>1, AcceptType, AttemptType, AttemptPhase
    <2>5. CASE UNCHANGED vars
        BY <2>5 DEF vars, memory, tracker, durable, TypeOK, AttemptHasTask
    <2> QED
        BY <2>1, <2>2, <2>3, <2>4, <2>5 DEF Next, RunStep
<1> QED
    BY <1>1, <1>2, PTL DEF Spec

\* Every variable keeps its type, for every flow: with back-edges, retries,
\* crashes and a failing checkpoint database.
THEOREM TypeCorrect == Spec => []TypeOK
BY TypeInvariant, PTL

-----------------------------------------------------------------------------
(* Flows without back-edges, on a healthy checkpoint database *)

PlainFlow == BackEdge = {} /\ IoErrors = FALSE
PlainState == TypeOK /\ AttemptHasTask /\ PlainInv

-----------------------------------------------------------------------------
(* The walk from a failing task *)

\* Whoever is reached was reached from the task itself or from someone reached.
LEMMA DependentsReached ==
    ASSUME NEW t \in Task, NEW u \in AllDependents(t)
    PROVE  \E d \in DependsOn[u] : d = t \/ d \in AllDependents(t)
<1> DEFINE S == {v \in AllDependents(t) :
                   \E d \in DependsOn[v] : d = t \/ d \in AllDependents(t)}
<1>1. S \in SUBSET Task /\ DependentsOf(t) \subseteq S
    BY DependentsClosed DEF DependentsOf
<1>2. \A v \in S : DependentsOf(v) \subseteq S
    BY DependentsClosed DEF DependentsOf
<1>3. AllDependents(t) \subseteq S
    BY <1>1, <1>2, DependentsLeast
<1> QED
    BY <1>3

\* None of the tasks a failing task takes down has completed, none of them was
\* about to run, and the failing task is not one of them.
LEMMA SkippedNotDone ==
    ASSUME PlainState, phase = "attempt"
    PROVE  /\ current \in Task
           /\ current \notin completed \cup skipped
           /\ AllDependents(current) \cap completed = {}
           /\ AllDependents(current) \cap Chosen = {}
<1> DEFINE S == Task \ completed
<1>1. current \in Task /\ current \in Chosen
    BY ExecutorAssumption DEF PlainState, AttemptHasTask, Chosen
<1>2. ResultsClosed /\ ChosenReady
    BY DEF PlainState, PlainInv
<1>3. current \notin completed \cup skipped
    BY <1>1, <1>2 DEF ChosenReady
<1>4. \A u \in S : ~Done(u) /\ DependentsOf(u) \subseteq S
    BY <1>2 DEF ResultsClosed, DependentsOf
<1>5. AllDependents(current) \subseteq S
    BY <1>1, <1>3, <1>4, DependentsLeast
<1>6. ASSUME NEW u \in AllDependents(current)
      PROVE  u \notin Chosen
    <2>1. PICK d \in DependsOn[u] : d = current \/ d \in AllDependents(current)
        BY <1>1, DependentsReached
    <2>2. d \in Task /\ ~Done(d)
        BY <1>1, <1>3, <1>4, <1>5, <2>1
    <2> QED
        BY <1>2, <2>1, <2>2 DEF ChosenReady
<1> QED
    BY <1>1, <1>3, <1>5, <1>6

-----------------------------------------------------------------------------
(* PlainInv is preserved, action by action *)

\* Aborting, and one more attempt, leave what the invariant speaks of alone.
LEMMA PlainAbort ==
    ASSUME PlainState, Abort, phase \in Running
    PROVE  PlainInv'
<1>1. phase # "idle" /\ phase # "done"
    BY DEF Running
<1> QED
    BY <1>1 DEF PlainState, PlainInv, Abort, memory, tracker, durable, CheckpointClosed,
           ResultsClosed, SkipsClosed, ChosenReady, Chosen, PhaseInv, Done, StatusIs

LEMMA PlainRetry ==
    ASSUME PlainState,
           UNCHANGED <<phase, completed, skipped, result, batch, current, ckpt, version>>
    PROVE  PlainInv'
BY DEF PlainState, PlainInv, CheckpointClosed, ResultsClosed, SkipsClosed,
       ChosenReady, Chosen, PhaseInv, Done, StatusIs, NothingRemembered

\* A restart finds in the checkpoint exactly what was accepted.
LEMMA PlainStart ==
    ASSUME PlainFlow, PlainState, StartRun
    PROVE  PlainInv'
<1> DEFINE saved == {t \in Task : ckpt[t].ver > 0}
<1>1. /\ completed' = saved
      /\ result' = [t \in Task |-> Resumed(t, saved)]
    <2>1. PICK loaded \in {TRUE} :
            LET s == {t \in Task : loaded /\ ckpt[t].ver > 0} IN
            /\ completed' = s
            /\ result' = [t \in Task |-> Resumed(t, s)]
        BY DEF StartRun, PlainFlow
    <2>2. {t \in Task : loaded /\ ckpt[t].ver > 0} = saved
        OBVIOUS
    <2> QED
        BY <2>1, <2>2
<1>2. /\ \A t \in Task : ckpt[t].ver = version[t] /\ version[t] \in {0, 1}
      /\ \A t \in Task : ckpt[t].ver > 0 =>
             \A d \in DependsOn[t] : ckpt[d].ver = 1 /\ ckpt[t].from[d] = 1
    BY DEF StartRun, PlainState, PlainInv, CheckpointClosed
<1>3. /\ skipped' = {} /\ batch' = {} /\ current' = NoTask /\ phase' = "select"
      /\ ckpt' = ckpt /\ version' = version
    BY DEF StartRun, durable
<1>4. \A t \in Task : /\ Done(t)' <=> t \in saved
                      /\ ~StatusIs(t, "Failed")' /\ ~StatusIs(t, "Skipped")'
                      /\ t \in saved => result'[t].out = ckpt[t]
    BY <1>1 DEF Done, StatusIs, Resumed, NoResult
<1>5. ResultsClosed'
    <2>1. \A t \in Task : Done(t)' <=> version'[t] = 1
        BY <1>2, <1>3, <1>4
    <2>2. \A t \in Task : Done(t)' =>
              /\ result'[t].out.ver = 1
              /\ \A d \in DependsOn[t] : result'[t].out.from[d] = 1
        BY <1>2, <1>4
    <2>3. completed' = {t \in Task : Done(t)' \/ StatusIs(t, "Failed")'}
        BY <1>1, <1>4
    <2>4. \A t \in completed', d \in Task : d \in DependsOn[t] => Done(d)'
        <3> SUFFICES ASSUME NEW t \in completed', NEW d \in Task, d \in DependsOn[t]
                     PROVE  Done(d)'
            OBVIOUS
        <3>1. t \in Task /\ ckpt[t].ver > 0
            BY <1>1
        <3>2. d \in saved
            BY <1>2, <3>1
        <3> QED
            BY <1>4, <3>2
    <2> QED
        BY <2>1, <2>2, <2>3, <2>4 DEF ResultsClosed
<1>6. SkipsClosed'
    BY <1>3, <1>4 DEF SkipsClosed
<1>7. ChosenReady'
    BY <1>3 DEF ChosenReady, Chosen
<1>8. CheckpointClosed' /\ PhaseInv'
    BY <1>2, <1>3 DEF CheckpointClosed, PhaseInv
<1> QED
    BY <1>2, <1>3, <1>5, <1>6, <1>7, <1>8 DEF PlainInv

LEMMA PlainCrash ==
    ASSUME PlainState, Crash
    PROVE  PlainInv'
<1>1. phase # "done"
    BY DEF Crash, Running
<1>2. NothingRemembered'
    BY DEF Crash, NothingRemembered, StatusIs, NoResult
<1> QED
    BY <1>1, <1>2 DEF PlainState, PlainInv, Crash, durable, CheckpointClosed, PhaseInv

\* What is ready has its dependencies Done: a failed one would have skipped it.
LEMMA PlainSelect ==
    ASSUME PlainState, SelectBatch
    PROVE  PlainInv'
<1>1. /\ phase = "select" /\ phase' = "batch" /\ batch' = Ready /\ current = NoTask
      /\ UNCHANGED <<completed, skipped, result, current, ckpt, version>>
    BY DEF SelectBatch, PlainState, PlainInv, PhaseInv, durable
<1>2. CheckpointClosed /\ ResultsClosed /\ SkipsClosed
    BY <1>1 DEF PlainState, PlainInv
<1>3. CheckpointClosed' /\ ResultsClosed' /\ SkipsClosed'
    BY <1>1, <1>2 DEF CheckpointClosed, ResultsClosed, SkipsClosed, Done, StatusIs
<1>4. \A t \in Ready : /\ t \in Task
                       /\ t \notin completed \cup skipped
                       /\ \A d \in Task : d \in DependsOn[t] => Done(d)
    <2> SUFFICES ASSUME NEW t \in Ready, NEW d \in Task, d \in DependsOn[t]
                 PROVE  Done(d)
        BY DEF Ready, GetReadyTasks
    <2>1. d \in completed /\ t \in DependentsOf(d) /\ t \notin skipped
        BY DEF Ready, GetReadyTasks, DependentsOf
    <2>2. ~StatusIs(d, "Failed")
        BY <1>2, <2>1 DEF SkipsClosed
    <2> QED
        BY <1>2, <2>1, <2>2 DEF ResultsClosed
<1>5. ChosenReady'
    <2>1. Chosen' = Ready /\ current' \notin batch'
        BY <1>1, <1>4, ExecutorAssumption DEF Chosen
    <2> QED
        BY <1>1, <1>4, <2>1 DEF ChosenReady, Done, StatusIs
<1>6. PhaseInv'
    BY <1>1 DEF PhaseInv
<1> QED
    BY <1>1, <1>3, <1>5, <1>6 DEF PlainState, PlainInv

LEMMA PlainBegin ==
    ASSUME PlainState, NEW t \in Task, BeginTask(t)
    PROVE  PlainInv'
<1>1. /\ phase = "batch" /\ phase' = "attempt" /\ t \in batch /\ current = NoTask
      /\ batch' = batch \ {t} /\ current' = t
      /\ UNCHANGED <<completed, skipped, result, ckpt, version>>
    BY DEF BeginTask, PlainState, PlainInv, PhaseInv, durable
<1>2. CheckpointClosed /\ ResultsClosed /\ SkipsClosed /\ ChosenReady
    BY <1>1 DEF PlainState, PlainInv
<1>3. CheckpointClosed' /\ ResultsClosed' /\ SkipsClosed'
    BY <1>1, <1>2 DEF CheckpointClosed, ResultsClosed, SkipsClosed, Done, StatusIs
<1>4. Chosen' = Chosen /\ current' \notin batch'
    BY <1>1, ExecutorAssumption DEF Chosen
<1>5. ChosenReady'
    BY <1>1, <1>2, <1>4 DEF ChosenReady, Done, StatusIs
<1>6. PhaseInv'
    BY <1>1, ExecutorAssumption DEF PhaseInv
<1> QED
    BY <1>1, <1>3, <1>5, <1>6 DEF PlainState, PlainInv

\* When nothing is ready everything has a verdict: of what had none, some task
\* would wait for nothing without a verdict, and be ready or skipped.
LEMMA PlainFinish ==
    ASSUME PlainFlow, PlainState, Finish
    PROVE  PlainInv'
<1> DEFINE S == Task \ (completed \cup skipped)
<1>1. /\ phase = "select" /\ phase' = "done" /\ Ready = {}
      /\ UNCHANGED <<completed, skipped, result, batch, current, version>>
    BY DEF Finish, memory
<1>2. ckpt' = [t \in Task |-> NoOutput]
    BY DEF Finish, PlainFlow
<1>3. ResultsClosed /\ SkipsClosed /\ ChosenReady /\ batch = {} /\ current = NoTask
    BY <1>1 DEF PlainState, PlainInv, PhaseInv
<1>4. S = {}
    <2> SUFFICES ASSUME S # {} PROVE FALSE
        OBVIOUS
    <2>1. PICK t \in S : DependsOn[t] \cap S = {}
        BY TaskAssumption
    <2>2. \A e \in DependsOn[t] : e \notin skipped
        BY <1>3, <2>1, TaskAssumption DEF SkipsClosed, DependentsOf
    <2>3. DependsOn[t] \subseteq completed
        BY <2>1, <2>2, TaskAssumption
    <2> QED
        BY <1>1, <2>1, <2>3 DEF Ready, GetReadyTasks
<1>5. PhaseInv'
    BY <1>1, <1>3, <1>4 DEF PhaseInv
<1>6. CheckpointClosed'
    BY <1>1, <1>2 DEF CheckpointClosed, NoOutput
<1>7. ResultsClosed' /\ SkipsClosed' /\ ChosenReady'
    BY <1>1, <1>3 DEF ResultsClosed, SkipsClosed, ChosenReady, Chosen, Done, StatusIs
<1> QED
    BY <1>1, <1>5, <1>6, <1>7 DEF PlainState, PlainInv

\* Leaving a task: the next of the batch, or the head of the loop.
LEMMA PlainLeave ==
    ASSUME LeaveTask
    PROVE  PhaseInv' /\ Chosen' = batch /\ current' = NoTask /\ phase' # "idle" /\ phase' # "done"
BY DEF LeaveTask, PhaseInv, Chosen

\* What accepting a response does in a flow without back-edges.
LEMMA PlainAcceptEffect ==
    ASSUME PlainFlow, PlainState, AcceptResponse
    PROVE  LET out == [ver |-> 1, from |-> PromptInputs(current)] IN
           /\ current \in Task /\ version[current] = 0
           /\ completed' = completed \cup {current}
           /\ result' = [result EXCEPT ![current] = [status |-> "Complete", out |-> out]]
           /\ ckpt' = [ckpt EXCEPT ![current] = out]
           /\ version' = [version EXCEPT ![current] = 1]
           /\ skipped' = skipped
<1> DEFINE out == [ver |-> version[current] + 1, from |-> PromptInputs(current)]
<1>1. current \in Task /\ current \notin completed
    BY SkippedNotDone DEF AcceptResponse
<1>2. version[current] = 0
    BY <1>1 DEF AcceptResponse, PlainState, PlainInv, ResultsClosed
<1>3. PICK F \in Firing(current) :
        /\ completed' = (completed \ Invalidated(F)) \cup {current}
        /\ result' = [u \in Task |->
               IF u = current THEN [status |-> "Complete", out |-> out]
               ELSE IF u \in Invalidated(F) THEN NoResult ELSE result[u]]
        /\ SaveNode(current, out)
        /\ version' = [version EXCEPT ![current] = @ + 1]
    BY DEF AcceptResponse, PlainFlow
<1>4. Invalidated(F) = {}
    BY <1>3 DEF Firing, Invalidated, PlainFlow
<1>5. out = [ver |-> 1, from |-> PromptInputs(current)]
    BY <1>2
<1>6. result' = [result EXCEPT ![current] = [status |-> "Complete", out |-> out]]
    BY <1>3, <1>4 DEF PlainState, TypeOK
<1>7. version' = [version EXCEPT ![current] = 1]
    BY <1>2, <1>3
<1> QED
    BY <1>1, <1>2, <1>3, <1>4, <1>5, <1>6, <1>7 DEF AcceptResponse, SaveNode

\* The accepted output was computed from version 1 of every dependency.
LEMMA PlainAccept ==
    ASSUME PlainFlow, PlainState, AcceptResponse
    PROVE  PlainInv'
<1> DEFINE t == current
           out == [ver |-> 1, from |-> PromptInputs(current)]
<1>1. /\ phase = "attempt" /\ current \in Task /\ version[t] = 0
      /\ completed' = completed \cup {t}
      /\ result' = [result EXCEPT ![t] = [status |-> "Complete", out |-> out]]
      /\ ckpt' = [ckpt EXCEPT ![t] = out]
      /\ version' = [version EXCEPT ![t] = 1]
      /\ skipped' = skipped
    BY PlainAcceptEffect DEF AcceptResponse
<1>2. /\ CheckpointClosed /\ ResultsClosed /\ SkipsClosed /\ ChosenReady
      /\ \A u \in Task : version[u] \in {0, 1}
      /\ t \in Chosen /\ t \notin completed \cup skipped
    BY <1>1, SkippedNotDone, ExecutorAssumption DEF PlainState, PlainInv, Chosen
<1>3. /\ \A u \in Task : u # t => /\ result'[u] = result[u] /\ ckpt'[u] = ckpt[u]
                                  /\ version'[u] = version[u]
      /\ result'[t] = [status |-> "Complete", out |-> out]
      /\ ckpt'[t] = out /\ version'[t] = 1
    BY <1>1 DEF PlainState, TypeOK
<1>4. \A d \in DependsOn[t] : /\ d \in Task /\ d # t /\ Done(d)
                              /\ version[d] = 1 /\ out.from[d] = 1
    BY <1>1, <1>2, TaskAssumption DEF ChosenReady, ResultsClosed, PromptInputs, Done
<1>5. \A u \in Task : /\ Done(u)' <=> (u = t \/ Done(u))
                      /\ StatusIs(u, "Failed")' <=> StatusIs(u, "Failed")
                      /\ StatusIs(u, "Skipped")' <=> StatusIs(u, "Skipped")
    BY <1>2, <1>3 DEF Done, StatusIs, ResultsClosed, SkipsClosed
<1>6. CheckpointClosed'
    <2>1. \A u \in Task : ckpt'[u].ver = version'[u]
        BY <1>1, <1>2, <1>3 DEF CheckpointClosed
    <2>2. ASSUME NEW u \in Task, ckpt'[u].ver > 0, NEW d \in DependsOn[u]
          PROVE  ckpt'[d].ver = 1 /\ ckpt'[u].from[d] = 1
        <3>1. d \in Task
            BY TaskAssumption
        <3>2. CASE u = t
            BY <1>1, <1>2, <1>3, <1>4, <3>2 DEF CheckpointClosed
        <3>3. CASE u # t
            BY <1>2, <1>3, <2>2, <3>1, <3>3 DEF CheckpointClosed
        <3> QED
            BY <3>2, <3>3
    <2> QED
        BY <2>1, <2>2 DEF CheckpointClosed
<1>7. ResultsClosed'
    <2>1. \A u \in Task : Done(u)' <=> version'[u] = 1
        BY <1>2, <1>3, <1>5 DEF ResultsClosed
    <2>2. \A u \in Task : Done(u)' =>
              /\ result'[u].out.ver = 1
              /\ \A d \in DependsOn[u] : result'[u].out.from[d] = 1
        BY <1>2, <1>3, <1>4, <1>5 DEF ResultsClosed
    <2>3. completed' = {u \in Task : Done(u)' \/ StatusIs(u, "Failed")'}
        BY <1>1, <1>2, <1>5 DEF ResultsClosed
    <2>4. \A u \in completed', d \in Task : d \in DependsOn[u] => Done(d)'
        BY <1>1, <1>2, <1>4, <1>5 DEF ResultsClosed
    <2> QED
        BY <2>1, <2>2, <2>3, <2>4 DEF ResultsClosed
<1>8. SkipsClosed'
    BY <1>1, <1>2, <1>5, TaskAssumption DEF SkipsClosed
<1>9. LeaveTask
    BY DEF AcceptResponse
<1>10. ChosenReady'
    <2>1. Chosen' = batch /\ current' = NoTask
        BY <1>9, PlainLeave
    <2>2. batch \subseteq Chosen /\ t \notin batch /\ batch \subseteq Task /\ NoTask \notin batch'
        BY <1>2, <1>9, ExecutorAssumption
           DEF Chosen, ChosenReady, PlainState, TypeOK, LeaveTask
    <2> QED
        BY <1>1, <1>2, <1>5, <2>1, <2>2 DEF ChosenReady
<1> QED
    BY <1>2, <1>3, <1>6, <1>7, <1>8, <1>9, <1>10, PlainLeave DEF PlainInv

\* Failing takes down tasks that had not completed and were not about to run.
LEMMA PlainFail ==
    ASSUME PlainState, phase = "attempt", FailTask
    PROVE  PlainInv'
<1> DEFINE t == current
           down == AllDependents(t)
<1>1. /\ t \in Task /\ t \in Chosen /\ t \notin completed \cup skipped
      /\ down \subseteq Task /\ DependentsOf(t) \subseteq down
      /\ \A u \in down : DependentsOf(u) \subseteq down
      /\ down \cap completed = {} /\ down \cap Chosen = {} /\ t \notin down
    BY SkippedNotDone, DependentsClosed, ExecutorAssumption
       DEF PlainState, PlainInv, PhaseInv, Chosen
<1>2. /\ CheckpointClosed /\ ResultsClosed /\ SkipsClosed /\ ChosenReady
      /\ \A u \in Task : version[u] \in {0, 1}
    BY DEF PlainState, PlainInv
<1>3. down \ completed = down
    BY <1>1
<1>4. /\ skipped' = skipped \cup down
      /\ completed' = completed \cup {t}
      /\ result' = [u \in Task |->
             IF u \in down THEN [status |-> "Skipped", out |-> NoOutput]
             ELSE IF u = t THEN [status |-> "Failed", out |-> NoOutput]
             ELSE result[u]]
      /\ UNCHANGED <<ckpt, version>>
    BY <1>3 DEF FailTask, durable
<1>5. \A u \in Task : /\ Done(u)' <=> Done(u)
                      /\ Done(u) => result'[u] = result[u]
                      /\ StatusIs(u, "Failed")' <=> (u = t \/ StatusIs(u, "Failed"))
                      /\ StatusIs(u, "Skipped")' <=> (u \in down \/ StatusIs(u, "Skipped"))
    BY <1>1, <1>2, <1>4 DEF Done, StatusIs, ResultsClosed, SkipsClosed
<1>6. CheckpointClosed'
    BY <1>2, <1>4 DEF CheckpointClosed, PlainState, PlainInv
<1>7. ResultsClosed'
    <2>1. \A u \in Task : Done(u)' <=> version'[u] = 1
        BY <1>2, <1>4, <1>5 DEF ResultsClosed
    <2>2. \A u \in Task : Done(u)' =>
              /\ result'[u].out.ver = 1
              /\ \A d \in DependsOn[u] : result'[u].out.from[d] = 1
        BY <1>2, <1>5 DEF ResultsClosed
    <2>3. completed' = {u \in Task : Done(u)' \/ StatusIs(u, "Failed")'}
        BY <1>1, <1>2, <1>4, <1>5 DEF ResultsClosed
    <2>4. \A u \in completed', d \in Task : d \in DependsOn[u] => Done(d)'
        BY <1>1, <1>2, <1>4, <1>5 DEF ResultsClosed, ChosenReady
    <2> QED
        BY <2>1, <2>2, <2>3, <2>4 DEF ResultsClosed
<1>8. SkipsClosed'
    <2>1. skipped' = {u \in Task : StatusIs(u, "Skipped")'}
        BY <1>1, <1>2, <1>4, <1>5 DEF SkipsClosed
    <2>2. \A u \in Task : StatusIs(u, "Failed")' \/ StatusIs(u, "Skipped")' =>
              DependentsOf(u) \subseteq skipped'
        BY <1>1, <1>2, <1>4, <1>5 DEF SkipsClosed
    <2>3. ASSUME NEW u \in skipped'
          PROVE  \E d \in DependsOn[u] : StatusIs(d, "Failed")' \/ StatusIs(d, "Skipped")'
        <3>1. u \in Task /\ DependsOn[u] \subseteq Task
            BY <2>1, TaskAssumption
        <3>2. CASE u \in down
            BY <1>1, <1>5, <3>1, <3>2, DependentsReached
        <3>3. CASE u \notin down
            BY <1>2, <1>4, <1>5, <3>1, <3>3 DEF SkipsClosed
        <3> QED
            BY <3>2, <3>3
    <2>4. \A u \in skipped' : \E f \in Task : u \in AllDependents(f) /\ StatusIs(f, "Failed")'
        BY <1>1, <1>2, <1>4, <1>5 DEF SkipsClosed
    <2> QED
        BY <2>1, <2>2, <2>3, <2>4 DEF SkipsClosed
<1>9. LeaveTask
    BY DEF FailTask
<1>10. ChosenReady'
    <2>1. Chosen' = batch /\ current' = NoTask
        BY <1>9, PlainLeave
    <2>2. batch \subseteq Chosen /\ t \notin batch /\ batch \subseteq Task /\ NoTask \notin batch'
        BY <1>2, <1>9, ExecutorAssumption
           DEF Chosen, ChosenReady, PlainState, TypeOK, LeaveTask
    <2> QED
        BY <1>1, <1>2, <1>4, <1>5, <2>1, <2>2 DEF ChosenReady
<1>11. \A u \in Task : version'[u] \in {0, 1}
    BY <1>2, <1>4
<1> QED
    BY <1>6, <1>7, <1>8, <1>9, <1>10, <1>11, PlainLeave DEF PlainInv

LEMMA PlainStep ==
    ASSUME PlainFlow, PlainState, [Next]_vars
    PROVE  PlainInv'
<1>1. CASE StartRun
    BY <1>1, PlainStart
<1>2. CASE Crash
    BY <1>2, PlainCrash
<1>3. CASE AbortAtHopLimit \/ AbortUnassigned \/ VerifierError
    BY <1>3, PlainAbort DEF AbortAtHopLimit, AbortUnassigned, VerifierError, Running
<1>4. CASE SelectBatch
    BY <1>4, PlainSelect
<1>5. CASE Finish
    BY <1>5, PlainFinish
<1>6. ASSUME NEW t \in Task, BeginTask(t)
      PROVE  PlainInv'
    BY <1>6, PlainBegin
<1>7. CASE AcceptResponse
    BY <1>7, PlainAccept
<1>8. CASE RejectResponse \/ AgentError
    <2>1. phase = "attempt" /\ \E kind \in AttemptError : RecordAttempt(kind)
        BY <1>8 DEF RejectResponse, AgentError, AttemptError
    <2>2. FailTask \/ UNCHANGED <<phase, completed, skipped, result, batch, current, ckpt, version>>
        BY <2>1 DEF RecordAttempt, durable
    <2> QED
        BY <2>1, <2>2, PlainFail, PlainRetry
<1>9. CASE UNCHANGED vars
    BY <1>9, PlainRetry DEF vars, memory, durable
<1> QED
    BY <1>1, <1>2, <1>3, <1>4, <1>5, <1>6, <1>7, <1>8, <1>9 DEF Next, RunStep

\* What a plain flow has accepted, checkpointed, done and skipped stays in step
\* with each other, across crashes, aborted runs and resumed runs.
THEOREM PlainInvariant ==
    ASSUME PlainFlow
    PROVE  Spec => []PlainState
<1>1. Init /\ TypeOK /\ AttemptHasTask => PlainState
    BY DEF Init, PlainState, PlainInv, CheckpointClosed, PhaseInv, NothingRemembered,
           StatusIs, NoResult, NoOutput
<1>2. PlainState /\ [Next]_vars /\ (TypeOK /\ AttemptHasTask)' => PlainState'
    BY PlainStep DEF PlainState
<1> QED
    BY <1>1, <1>2, TypeInvariant, PTL DEF Spec

-----------------------------------------------------------------------------
(* What follows *)

\* An attempted task has the results of all its dependencies ("Tasks are run in
\* dependency order", executor.rs:252).
THEOREM RunsInDependencyOrder ==
    ASSUME PlainFlow
    PROVE  Spec => []DependencyOrder
<1>1. PlainState => DependencyOrder
    BY TaskAssumption DEF PlainState, TypeOK, PlainInv, NothingRemembered, ChosenReady,
       Chosen, DependencyOrder, Done
<1> QED
    BY <1>1, PlainInvariant, PTL

\* No output is accepted twice, whatever crashes between the acceptance of a
\* task and the end of the flow.
THEOREM AcceptsOnce ==
    ASSUME PlainFlow
    PROVE  Spec => []CompletedOnce
<1>1. PlainState => CompletedOnce
    BY DEF PlainState, PlainInv, CompletedOnce
<1> QED
    BY <1>1, PlainInvariant, PTL

\* Results, resumed ones included, are the outputs last accepted.
THEOREM HoldsLatestOutput ==
    ASSUME PlainFlow
    PROVE  Spec => []LatestOutput
<1>1. PlainState => LatestOutput
    BY DEF PlainState, PlainInv, NothingRemembered, ResultsClosed, Done, StatusIs, LatestOutput
<1> QED
    BY <1>1, PlainInvariant, PTL

\* A returned result was computed from the results returned with it.
THEOREM ReturnsFreshInputs ==
    ASSUME PlainFlow
    PROVE  Spec => []FreshInputs
<1>1. PlainState => FreshInputs
    <2> SUFFICES ASSUME PlainState, phase = "done", NEW t \in Task, Done(t),
                        NEW d \in DependsOn[t]
                 PROVE  result[t].out.from[d] = result[d].out.ver
        BY DEF FreshInputs, Done
    <2>1. ResultsClosed /\ d \in Task
        BY TaskAssumption DEF PlainState, PlainInv
    <2>2. t \in completed /\ Done(d)
        BY <2>1 DEF ResultsClosed
    <2> QED
        BY <2>1, <2>2 DEF ResultsClosed
<1> QED
    BY <1>1, PlainInvariant, PTL

\* A finished flow has a verdict for every task, and the verdicts agree.
THEOREM AccountsForAll ==
    ASSUME PlainFlow
    PROVE  Spec => []Accounted
<1>1. PlainState => Accounted
    <2> SUFFICES ASSUME PlainState, phase = "done", NEW t \in Task
                 PROVE  /\ ~StatusIs(t, "None")
                        /\ Done(t) => \A d \in DependsOn[t] : Done(d)
                        /\ StatusIs(t, "Skipped") =>
                               \E f \in Task : t \in AllDependents(f) /\ StatusIs(f, "Failed")
        BY DEF Accounted, Done
    <2>1. ResultsClosed /\ SkipsClosed /\ t \in completed \cup skipped
        BY DEF PlainState, PlainInv, PhaseInv
    <2>2. ~StatusIs(t, "None")
        BY <2>1 DEF ResultsClosed, SkipsClosed, Done, StatusIs
    <2>3. Done(t) => \A d \in DependsOn[t] : Done(d)
        BY <2>1, TaskAssumption DEF ResultsClosed
    <2> QED
        BY <2>1, <2>2, <2>3 DEF SkipsClosed
<1> QED
    BY <1>1, PlainInvariant, PTL

\* A restarted run takes from the checkpoint, with a task, the tasks it depends
\* on, in the version it was computed from.
THEOREM ResumesConsistently ==
    ASSUME PlainFlow
    PROVE  Spec => ResumeConsistent
<1>1. PlainState /\ PlainState' /\ [Next]_vars =>
        [StartRun => \A t \in completed' : \A d \in DependsOn[t] :
            /\ d \in completed'
            /\ result[t].out.from[d]' = result[d].out.ver']_vars
    <2> SUFFICES ASSUME PlainState, PlainState', StartRun, NEW t \in completed',
                        NEW d \in DependsOn[t]
                 PROVE  /\ d \in completed'
                        /\ result[t].out.from[d]' = result[d].out.ver'
        OBVIOUS
    <2>1. ResultsClosed' /\ completed' \in SUBSET Task
        BY DEF PlainState, PlainInv, StartRun, TypeOK
    <2>2. d \in Task /\ Done(d)'
        BY <2>1, TaskAssumption DEF ResultsClosed
    <2>3. skipped' = {} /\ \A u \in completed' : Done(u)'
        BY DEF StartRun, Done, StatusIs, Resumed
    <2> QED
        BY <2>1, <2>2, <2>3 DEF ResultsClosed
<1> QED
    BY <1>1, PlainInvariant, PTL DEF Spec, ResumeConsistent

-----------------------------------------------------------------------------
(* The refinement of FlowPromise *)

Report == [t \in Task |-> IF phase = "done" THEN result[t].status ELSE "None"]

\* An accepted response is the promised acceptance.
LEMMA AcceptRefines ==
    ASSUME PlainFlow, PlainState, AcceptResponse
    PROVE  Promise!Accept(current)
<1>1. /\ current \in Task /\ version[current] = 0 /\ current \in Chosen
      /\ version' = [version EXCEPT ![current] = 1]
    BY PlainAcceptEffect, ExecutorAssumption DEF AcceptResponse, Chosen
<1>2. phase = "attempt" /\ phase' # "done"
    BY PlainLeave DEF AcceptResponse
<1>3. DependsOn[current] \subseteq Promise!Accepted
    BY <1>1, <1>2, TaskAssumption
       DEF PlainState, PlainInv, ChosenReady, ResultsClosed, Promise!Accepted
<1> QED
    BY <1>1, <1>2, <1>3 DEF Promise!Accept, Promise!NoReport

\* A finished run returns the promised report.
LEMMA FinishRefines ==
    ASSUME PlainFlow, PlainState, Finish
    PROVE  Promise!Return
<1>1. /\ phase = "select" /\ phase' = "done"
      /\ result' = result /\ version' = version
    BY DEF Finish, memory
<1>2. PlainInv'
    BY PlainFinish
<1>3. /\ ResultsClosed /\ SkipsClosed
      /\ Task \subseteq completed \cup skipped
    BY <1>1, <1>2 DEF PlainState, PlainInv, PhaseInv, Finish, memory
<1>4. ASSUME NEW t \in Task
      PROVE  result[t].status =
                 IF t \in Promise!Accepted THEN "Complete"
                 ELSE IF DependsOn[t] \subseteq Promise!Accepted THEN "Failed" ELSE "Skipped"
    <2>1. \A u \in Task : u \in Promise!Accepted <=> Done(u)
        BY <1>3 DEF ResultsClosed, Promise!Accepted
    <2>2. CASE Done(t)
        BY <2>1, <2>2 DEF Done, StatusIs
    <2>3. CASE StatusIs(t, "Failed")
        <3>1. DependsOn[t] \subseteq Promise!Accepted /\ ~Done(t)
            BY <1>3, <2>1, <2>3, TaskAssumption DEF ResultsClosed, Done, StatusIs
        <3> QED
            BY <2>1, <2>3, <3>1 DEF StatusIs
    <2>4. CASE StatusIs(t, "Skipped")
        <3>1. ~Done(t) /\ \E d \in DependsOn[t] : d \in Task /\ ~Done(d)
            BY <1>3, <2>4, TaskAssumption DEF SkipsClosed, Done, StatusIs
        <3> QED
            BY <2>1, <2>4, <3>1 DEF StatusIs
    <2> QED
        BY <1>3, <2>2, <2>3, <2>4 DEF ResultsClosed, SkipsClosed
<1>5. Report = Promise!NoReport /\ Report' = [t \in Task |-> result[t].status]
    BY <1>1 DEF Report, Promise!NoReport
<1> QED
    BY <1>1, <1>4, <1>5 DEF Promise!Return, Report

\* Everything else is invisible to the caller.
LEMMA OthersStutter ==
    ASSUME StartRun \/ Crash \/ AbortAtHopLimit \/ SelectBatch \/ AbortUnassigned
           \/ RejectResponse \/ AgentError \/ VerifierError
           \/ (\E t \in Task : BeginTask(t)) \/ UNCHANGED vars
    PROVE  version' = version /\ Report' = Report
<1>1. CASE UNCHANGED vars
    BY <1>1 DEF vars, durable, memory, Report
<1>2. CASE RejectResponse \/ AgentError
    <2>1. phase = "attempt" /\ \E kind \in AttemptError : RecordAttempt(kind)
        BY <1>2 DEF RejectResponse, AgentError, AttemptError
    <2>2. version' = version /\ phase # "done" /\ phase' # "done"
        BY <2>1 DEF RecordAttempt, FailTask, LeaveTask, durable
    <2> QED
        BY <2>2 DEF Report
<1>3. CASE ~UNCHANGED vars /\ ~(RejectResponse \/ AgentError)
    <2>1. version' = version /\ phase # "done" /\ phase' # "done"
        BY <1>3 DEF StartRun, Crash, AbortAtHopLimit, SelectBatch, AbortUnassigned,
           VerifierError, BeginTask, Abort, durable, Running
    <2> QED
        BY <2>1 DEF Report
<1> QED
    BY <1>1, <1>2, <1>3

\* A flow without back-edges keeps the promise of FlowPromise, crashes, aborted
\* runs and resumed runs included.
THEOREM ImplementsPromise ==
    ASSUME PlainFlow
    PROVE  Spec => KeepsPromise
<1>1. Init => Promise!Init
    BY DEF Init, Promise!Init, Promise!NoReport
<1>2. PlainState /\ [Next]_vars => [Promise!Next]_(Promise!pvars)
    <2> SUFFICES ASSUME PlainState, [Next]_vars
                 PROVE  [Promise!Next]_(Promise!pvars)
        OBVIOUS
    <2>1. CASE AcceptResponse
        <3>1. current \in Task
            BY <2>1, PlainAcceptEffect
        <3> QED
            BY <2>1, <3>1, AcceptRefines DEF Promise!Next
    <2>2. CASE Finish
        BY <2>2, FinishRefines DEF Promise!Next
    <2>3. CASE ~AcceptResponse /\ ~Finish
        <3>1. version' = version /\ Report' = Report
            BY <2>3, OthersStutter DEF Next, RunStep
        <3> QED
            BY <3>1 DEF Promise!pvars, Report
    <2> QED
        BY <2>1, <2>2, <2>3
<1> QED
    BY <1>1, <1>2, PlainInvariant, PTL DEF Spec, Promise!Spec, KeepsPromise
-----------------------------------------------------------------------------
(* Retries, taint and limits, for every flow                               *)

\* No attempt goes on with the errors of three equal failures behind it.
Untiring(s) ==
    /\ ~\E i \in 1..Len(s) - 2 : s[i] = s[i + 1] /\ s[i] = s[i + 2]
    /\ "circularfix" \notin {s[i] : i \in DOMAIN s}

\* One more error, if the last three are not alike.
LEMMA UntiringGrows ==
    ASSUME NEW s \in Seq(AttemptError), NEW kind \in AttemptError, Untiring(s),
           kind # "circularfix", ~Circular(Append(s, kind))
    PROVE  Untiring(Append(s, kind))
<1> DEFINE r == Append(s, kind)
           n == Len(s)
<1>1. /\ n \in Nat /\ Len(r) = n + 1 /\ DOMAIN s = 1..n /\ DOMAIN r = 1..n + 1
      /\ r[n + 1] = kind /\ \A i \in 1..n : r[i] = s[i]
    OBVIOUS
<1> HIDE DEF r, n
<1>2. ASSUME NEW i \in 1..Len(r) - 2, r[i] = r[i + 1], r[i] = r[i + 2]
      PROVE  FALSE
    <2>1. CASE i = n - 1
        <3>1. Len(r) >= 3 /\ i = Len(r) - 2 /\ i + 1 = Len(r) - 1 /\ i + 2 = Len(r)
            BY <1>1, <2>1
        <3>2. ~Circular(r)
            BY DEF r
        <3> QED
            BY <1>2, <3>1, <3>2 DEF Circular
    <2>2. CASE i # n - 1
        <3>1. i \in 1..n - 2 /\ {i, i + 1, i + 2} \subseteq 1..n
            BY <1>1, <2>2
        <3>2. s[i] = s[i + 1] /\ s[i] = s[i + 2]
            BY <1>1, <1>2, <3>1
        <3> QED
            BY <3>1, <3>2 DEF Untiring, n
    <2> QED
        BY <2>1, <2>2
<1>3. "circularfix" \notin {r[i] : i \in DOMAIN r}
    BY <1>1 DEF Untiring
<1> QED
    BY <1>2, <1>3 DEF Untiring, r

\* What an attempt that is not the last adds to the errors.
LEMMA AttemptsGrow ==
    ASSUME TypeOK, Untiring(attempts), NEW kind \in AttemptError, RecordAttempt(kind)
    PROVE  Untiring(attempts')
<1>0. Untiring(<<>>)
    BY DEF Untiring
<1>1. CASE FailTask
    BY <1>0, <1>1 DEF FailTask, LeaveTask
<1>2. CASE ~FailTask
    <2>1. /\ attempts' = Append(attempts, kind)
          /\ kind # "circularfix" /\ ~Circular(Append(attempts, kind))
        BY <1>2 DEF RecordAttempt
    <2> QED
        BY <2>1, UntiringGrows DEF TypeOK
<1> QED
    BY <1>1, <1>2

\* A task that keeps failing the same way is given up at the third failure,
\* whichever of the two places detects it (recovery.rs:43, executor.rs:591), in
\* every flow.
THEOREM StopsCircularFixes == Spec => []CircularFixStopsRetry
<1> DEFINE Inv == Untiring(attempts)
<1>0. Untiring(<<>>)
    BY DEF Untiring
<1>1. Init => Inv
    BY <1>0 DEF Init
<1>2. TypeOK /\ Inv /\ [Next]_vars => Inv'
    <2> SUFFICES ASSUME TypeOK, Inv, [Next]_vars PROVE Inv'
        OBVIOUS
    <2>1. CASE RejectResponse \/ AgentError
        <3>1. PICK kind \in AttemptError : RecordAttempt(kind)
            BY <2>1 DEF RejectResponse, AgentError, AttemptError
        <3> QED
            BY <3>1, AttemptsGrow
    <2>2. CASE ~(RejectResponse \/ AgentError)
        <3>1. attempts' = attempts \/ attempts' = <<>>
            BY <2>2 DEF Next, RunStep, StartRun, Crash, AbortAtHopLimit, SelectBatch, Finish,
                        AbortUnassigned, BeginTask, AcceptResponse, VerifierError, Abort,
                        LeaveTask, vars, memory
        <3> QED
            BY <1>0, <3>1
    <2> QED
        BY <2>1, <2>2
<1>3. Inv => CircularFixStopsRetry
    BY DEF Untiring, CircularFixStopsRetry
<1> HIDE DEF Inv
<1> QED
    BY <1>1, <1>2, <1>3, TypeCorrect, PTL DEF Spec

\* A first run finds nothing in the checkpoint, and its label covers what it has.
FirstRunTainted ==
    /\ runs = 0 => phase = "idle" /\ \A t \in Task : ckpt[t].ver = 0
    /\ runs <= 1 => TaintCoversResults

\* The label of a run never forgets that it has absorbed an untrusted one.
LEMMA TaintKept ==
    ASSUME TypeOK, RunStep
    PROVE  taint => taint'
<1>1. ASSUME Absorb(current) PROVE taint => taint'
    BY <1>1 DEF Absorb
<1>2. CASE AcceptResponse \/ RejectResponse
    BY <1>1, <1>2 DEF AcceptResponse, RejectResponse
<1>3. CASE ~(AcceptResponse \/ RejectResponse)
    <2>1. taint' = taint
        BY <1>3 DEF RunStep, AbortAtHopLimit, SelectBatch, Finish, AbortUnassigned, BeginTask,
                    AgentError, VerifierError, Abort, memory
    <2> QED
        BY <2>1
<1> QED
    BY <1>2, <1>3

\* Results become Complete by being accepted, and then their label is absorbed.
LEMMA CompleteIsAbsorbed ==
    ASSUME TypeOK, AttemptHasTask, RunStep, NEW t \in Task, StatusIs(t, "Complete")'
    PROVE  StatusIs(t, "Complete") \/ (t \in Untrusted => taint')
<1>1. CASE AcceptResponse
    <2>1. CASE t = current
        BY <1>1, <2>1 DEF AcceptResponse, Absorb
    <2>2. CASE t # current
        <3>1. PICK F \in Firing(current) :
                result' = [u \in Task |->
                   IF u = current
                   THEN [status |-> "Complete",
                         out |-> [ver |-> version[current] + 1, from |-> PromptInputs(current)]]
                   ELSE IF u \in Invalidated(F) THEN NoResult ELSE result[u]]
            BY <1>1 DEF AcceptResponse
        <3>2. result'[t] = IF t \in Invalidated(F) THEN NoResult ELSE result[t]
            BY <2>2, <3>1
        <3> QED
            BY <3>2 DEF StatusIs, NoResult
    <2> QED
        BY <2>1, <2>2
<1>2. CASE RejectResponse \/ AgentError
    <2>1. PICK kind \in AttemptError : RecordAttempt(kind)
        BY <1>2 DEF RejectResponse, AgentError, AttemptError
    <2>2. CASE FailTask
        BY <2>2 DEF FailTask, StatusIs
    <2>3. CASE ~FailTask
        BY <2>1, <2>3 DEF RecordAttempt, StatusIs
    <2> QED
        BY <2>2, <2>3
<1>3. CASE ~(AcceptResponse \/ RejectResponse \/ AgentError)
    <2>1. result' = result
        BY <1>3 DEF RunStep, AbortAtHopLimit, SelectBatch, Finish, AbortUnassigned, BeginTask,
                    VerifierError, Abort, memory
    <2> QED
        BY <2>1 DEF StatusIs
<1> QED
    BY <1>1, <1>2, <1>3

\* In every flow, back-edges and failed saves included, the label of a run that
\* resumes nothing covers every result it holds (flows.md:506).  What a resumed
\* run takes from the checkpoint has lost its label (executor.rs:290).
THEOREM TaintCoversFirstRun == Spec => [](runs <= 1 => TaintCoversResults)
<1> DEFINE Inv == TypeOK /\ AttemptHasTask /\ FirstRunTainted
<1>1. Init /\ TypeOK /\ AttemptHasTask => Inv
    BY ExecutorAssumption
       DEF Init, FirstRunTainted, TaintCoversResults, NoOutput, NoResult, StatusIs
<1>2. Inv /\ [Next]_vars /\ (TypeOK /\ AttemptHasTask)' => Inv'
    <2> SUFFICES ASSUME TypeOK, AttemptHasTask, FirstRunTainted, [Next]_vars
                 PROVE  FirstRunTainted'
        OBVIOUS
    <2>0. runs \in Nat
        BY ExecutorAssumption DEF TypeOK
    <2>1. CASE StartRun
        <3>1. /\ runs' = runs + 1
              /\ \A t \in Task : result'[t] \in {NoResult, Resumed(t, completed')}
              /\ completed' \subseteq {u \in Task : ckpt[u].ver > 0}
            BY <2>1 DEF StartRun
        <3>2. CASE runs = 0
            <4>1. completed' = {}
                <5>1. \A t \in Task : ckpt[t].ver = 0
                    BY <3>2 DEF FirstRunTainted
                <5>2. {u \in Task : ckpt[u].ver > 0} = {}
                    BY <5>1
                <5> QED
                    BY <3>1, <5>2
            <4>2. \A t \in Task : result'[t] = NoResult
                BY <3>1, <4>1 DEF Resumed
            <4> QED
                BY <2>0, <3>1, <4>2, ExecutorAssumption
                   DEF FirstRunTainted, TaintCoversResults, StatusIs, NoResult
        <3>3. CASE runs # 0
            BY <2>0, <3>1, <3>3 DEF FirstRunTainted
        <3> QED
            BY <3>2, <3>3
    <2>2. CASE RunStep
        <3>1. phase # "idle" /\ runs' = runs
            BY <2>2 DEF RunStep, AbortAtHopLimit, SelectBatch, Finish, AbortUnassigned, BeginTask,
                        AcceptResponse, RejectResponse, AgentError, VerifierError, Abort,
                        RecordAttempt, FailTask, LeaveTask
        <3>2. TaintCoversResults => TaintCoversResults'
            <4> SUFFICES ASSUME TaintCoversResults, NEW t \in Untrusted, StatusIs(t, "Complete")'
                         PROVE  taint'
                BY DEF TaintCoversResults
            <4> QED
                BY <2>2, TaintKept, CompleteIsAbsorbed, ExecutorAssumption DEF TaintCoversResults
        <3> QED
            BY <3>1, <3>2 DEF FirstRunTainted
    <2>3. CASE Crash
        BY <2>3, <2>0, ExecutorAssumption
           DEF Crash, FirstRunTainted, TaintCoversResults, StatusIs, NoResult, durable
    <2>4. CASE UNCHANGED vars
        BY <2>4 DEF vars, memory, durable, FirstRunTainted, TaintCoversResults, StatusIs
    <2> QED
        BY <2>1, <2>2, <2>3, <2>4 DEF Next
<1>3. Inv => (runs <= 1 => TaintCoversResults)
    BY DEF FirstRunTainted
<1> HIDE DEF Inv
<1> QED
    BY <1>1, <1>2, <1>3, TypeInvariant, PTL DEF Spec

\* Who is about to run has not completed; nobody is before the head of the loop.
ChosenFresh ==
    /\ Chosen \cap completed = {} /\ current \notin batch
    /\ phase \in {"select", "batch"} => current = NoTask
    /\ phase = "select" => batch = {}

\* No back-edge fires more often than it may, nor all of them together.
ActivationLimits ==
    /\ globalActs <= GlobalMax
    /\ \A e \in BackEdge : activations[e] <= e.max

\* A hop has completed a task, or one that a back-edge has taken out since; and
\* the hop limit is passed by what was selected before it was reached.
HopLimits ==
    /\ hops <= Cardinality(completed) + Cardinality(Task) * globalActs
    /\ MaxHops > 0 => hops + Cardinality(Chosen) <= MaxHops - 1 + Cardinality(Task)

Limits == ChosenFresh /\ ActivationLimits /\ HopLimits

\* Sets of tasks can be counted.
LEMMA TasksCounted ==
    ASSUME NEW S \in SUBSET Task
    PROVE  /\ IsFiniteSet(S) /\ Cardinality(S) \in Nat
           /\ Cardinality(S) <= Cardinality(Task) /\ Cardinality(Task) \in Nat
           /\ Cardinality({}) = 0
           /\ \A t \in Task : t \notin S => Cardinality(S \cup {t}) = Cardinality(S) + 1
<1>1. IsFiniteSet(Task)
    BY TaskAssumption
<1>2. IsFiniteSet(S) /\ Cardinality(S) <= Cardinality(Task)
    BY <1>1, FS_Subset
<1>3. \A t \in Task : t \notin S => Cardinality(S \cup {t}) = Cardinality(S) + 1
    BY <1>2, FS_AddElement
<1> QED
    BY <1>1, <1>2, <1>3, FS_CardinalityType, FS_EmptySet

\* A task that is left counts as one hop, and has not completed before.
LEMMA LeaveCounts ==
    ASSUME TypeOK, current \in Task, Limits, LeaveTask
    PROVE  /\ Chosen' = batch /\ phase' \in {"select", "batch"}
           /\ current' = NoTask /\ current' \notin batch' /\ batch' = batch
           /\ phase' = "select" => batch' = {}
           /\ current \notin completed /\ batch \cap (completed \cup {current}) = {}
           /\ MaxHops > 0 => hops' + Cardinality(batch) <= MaxHops - 1 + Cardinality(Task)
           /\ hops' = hops + 1
<1>1. /\ current' = NoTask /\ batch' = batch /\ hops' = hops + 1
      /\ phase' = IF batch = {} THEN "select" ELSE "batch"
    BY DEF LeaveTask
<1>2. NoTask \notin batch /\ batch \in SUBSET Task /\ hops \in Nat
    BY ExecutorAssumption DEF TypeOK
<1>3. Chosen = batch \cup {current} /\ current \notin batch /\ Chosen \cap completed = {}
    BY ExecutorAssumption DEF Chosen, Limits, ChosenFresh
<1>4. Cardinality(Chosen) = Cardinality(batch) + 1
    BY <1>2, <1>3, TasksCounted
<1>5. Chosen' = batch
    BY <1>1 DEF Chosen
<1>6. MaxHops > 0 => hops' + Cardinality(batch) <= MaxHops - 1 + Cardinality(Task)
    <2>1. MaxHops > 0 => hops + Cardinality(Chosen) <= MaxHops - 1 + Cardinality(Task)
        BY DEF Limits, HopLimits
    <2>2. MaxHops \in Nat /\ Cardinality(batch) \in Nat /\ Cardinality(Task) \in Nat
        BY <1>2, TasksCounted, ExecutorAssumption
    <2> QED
        BY <1>1, <1>2, <1>4, <2>1, <2>2
<1> QED
    BY <1>1, <1>2, <1>3, <1>5, <1>6

\* Counting with one activation more, at least.
LEMMA MoreActivations ==
    ASSUME NEW n \in Nat, NEW g \in Nat, NEW k \in Nat, k >= 1
    PROVE  n * g + n <= n * (g + k)
<1>1. n * (g + k) = n * g + n * k
    OBVIOUS
<1>2. n * k >= n
    OBVIOUS
<1>3. n * g \in Nat /\ n * k \in Nat
    OBVIOUS
<1> QED
    BY <1>1, <1>2, <1>3

\* An accepted response fires back-edges within their limits, and the hops it
\* has cost are paid for by what completed or by an activation.
LEMMA AcceptLimits ==
    ASSUME TypeOK, current \in Task, Limits, AcceptResponse
    PROVE  Limits'
<1>1. PICK F \in Firing(current) :
        /\ completed' = (completed \ Invalidated(F)) \cup {current}
        /\ RecordActivations(F)
    BY DEF AcceptResponse
<1>2. LeaveTask
    BY DEF AcceptResponse
<1>3. /\ Chosen' = batch /\ current' = NoTask /\ current' \notin batch' /\ batch' = batch
      /\ phase' = "select" => batch' = {}
      /\ current \notin completed /\ batch \cap (completed \cup {current}) = {}
      /\ MaxHops > 0 => hops' + Cardinality(batch) <= MaxHops - 1 + Cardinality(Task)
      /\ hops' = hops + 1
    BY <1>2, LeaveCounts
<1>4. /\ F \subseteq {e \in BackEdge : e.from = current /\ activations[e] < e.max}
      /\ F = {} \/ globalActs + Cardinality(F) <= GlobalMax
    BY DEF Firing
<1>5. IsFiniteSet(F) /\ Cardinality(F) \in Nat
    <2>1. F \subseteq BackEdge
        BY <1>4
    <2> QED
        BY <2>1, FS_Subset, FS_CardinalityType, ExecutorAssumption
<1>6. globalActs \in Nat /\ globalActs' = globalActs + Cardinality(F)
    BY <1>1 DEF RecordActivations, TypeOK
<1>7. completed \in SUBSET Task /\ completed' \in SUBSET Task
    BY <1>1 DEF TypeOK
<1>8. ChosenFresh'
    BY <1>1, <1>3 DEF ChosenFresh
<1>9. ActivationLimits'
    <2>1. ASSUME NEW e \in BackEdge PROVE activations'[e] <= e.max
        <3>1. activations'[e] = IF e \in F THEN activations[e] + 1 ELSE activations[e]
            BY <1>1 DEF RecordActivations
        <3>2. activations[e] \in Nat /\ e.max \in Nat /\ activations[e] <= e.max
            BY ExecutorAssumption DEF TypeOK, Limits, ActivationLimits
        <3>3. e \in F => activations[e] < e.max
            BY <1>4
        <3> QED
            BY <3>1, <3>2, <3>3
    <2>2. F = {} => Cardinality(F) = 0
        BY FS_EmptySet
    <2>3. globalActs' <= GlobalMax
        BY <1>4, <1>6, <2>2 DEF Limits, ActivationLimits
    <2> QED
        BY <2>1, <2>3 DEF ActivationLimits
<1>10. HopLimits'
    <2> DEFINE n == Cardinality(Task)
               done == Cardinality(completed)
    <2>1. /\ n \in Nat /\ done \in Nat /\ Cardinality(completed') \in Nat
          /\ Cardinality(completed \cup {current}) = done + 1 /\ done + 1 <= n
        <3>1. completed \cup {current} \in SUBSET Task
            BY <1>7
        <3> QED
            BY <1>3, <1>7, <3>1, TasksCounted
    <2>2. hops \in Nat /\ hops <= done + n * globalActs /\ n * globalActs \in Nat
        BY <1>6, <2>1 DEF TypeOK, Limits, HopLimits
    <2> HIDE DEF n, done
    <2>3. hops + 1 <= Cardinality(completed') + n * globalActs'
        <3>1. CASE F = {}
            <4>1. Invalidated(F) = {} /\ Cardinality(F) = 0
                BY <3>1, FS_EmptySet DEF Invalidated
            <4>2. completed' = completed \cup {current} /\ globalActs' = globalActs
                BY <1>1, <1>6, <4>1
            <4> QED
                BY <2>1, <2>2, <4>2
        <3>2. CASE F # {}
            <4>1. Cardinality(F) >= 1
                BY <1>5, <3>2, FS_EmptySet
            <4>2. n * globalActs + n <= n * globalActs'
                BY <1>5, <1>6, <2>1, <4>1, MoreActivations
            <4>3. n * globalActs' \in Nat
                BY <1>5, <1>6, <2>1
            <4> QED
                BY <2>1, <2>2, <4>2, <4>3
        <3> QED
            BY <3>1, <3>2
    <2> QED
        BY <1>3, <2>3 DEF HopLimits, n
<1> QED
    BY <1>8, <1>9, <1>10 DEF Limits

\* So does a task that fails.
LEMMA FailLimits ==
    ASSUME TypeOK, current \in Task, Limits, FailTask
    PROVE  Limits'
<1>1. /\ completed' = completed \cup {current} /\ LeaveTask
      /\ UNCHANGED <<activations, globalActs>>
    BY DEF FailTask, tracker
<1>2. /\ Chosen' = batch /\ current' = NoTask /\ current' \notin batch' /\ batch' = batch
      /\ phase' = "select" => batch' = {}
      /\ current \notin completed /\ batch \cap (completed \cup {current}) = {}
      /\ MaxHops > 0 => hops' + Cardinality(batch) <= MaxHops - 1 + Cardinality(Task)
      /\ hops' = hops + 1
    BY <1>1, LeaveCounts
<1>3. completed \in SUBSET Task /\ globalActs \in Nat /\ hops \in Nat
    BY DEF TypeOK
<1>4. /\ Cardinality(completed') = Cardinality(completed) + 1
      /\ Cardinality(completed) \in Nat /\ Cardinality(Task) \in Nat
    BY <1>1, <1>2, <1>3, TasksCounted
<1>5. Cardinality(Task) * globalActs \in Nat
    BY <1>3, <1>4
<1>6. ChosenFresh'
    BY <1>1, <1>2 DEF ChosenFresh
<1>7. ActivationLimits'
    BY <1>1 DEF Limits, ActivationLimits
<1>8. HopLimits'
    <2>1. hops <= Cardinality(completed) + Cardinality(Task) * globalActs
        BY DEF Limits, HopLimits
    <2>2. hops' <= Cardinality(completed') + Cardinality(Task) * globalActs'
        BY <1>1, <1>2, <1>3, <1>4, <1>5, <2>1
    <2> QED
        BY <1>2, <2>2 DEF HopLimits
<1> QED
    BY <1>6, <1>7, <1>8 DEF Limits

\* A run begins, or what was left of one is forgotten.
LEMMA FreshLimits ==
    ASSUME TypeOK, StartRun \/ Crash
    PROVE  Limits'
<1>1. /\ batch' = {} /\ current' = NoTask /\ hops' = 0 /\ globalActs' = 0
      /\ activations' = [e \in BackEdge |-> 0]
    BY DEF StartRun, Crash
<1>2. completed' \in SUBSET Task
    BY DEF StartRun, Crash
<1>3. Cardinality(completed') \in Nat /\ Cardinality(Task) \in Nat /\ Cardinality({}) = 0
    BY <1>2, TasksCounted
<1>4. Chosen' = {}
    BY <1>1 DEF Chosen
<1>5. ChosenFresh'
    BY <1>1, <1>4 DEF ChosenFresh
<1>6. ActivationLimits'
    BY <1>1, ExecutorAssumption DEF ActivationLimits
<1>7. HopLimits'
    <2>1. Cardinality(Task) * 0 = 0
        BY <1>3
    <2> QED
        BY <1>1, <1>3, <1>4, <2>1, ExecutorAssumption DEF HopLimits
<1> QED
    BY <1>5, <1>6, <1>7 DEF Limits

\* A batch is selected below the hop limit only.
LEMMA SelectLimits ==
    ASSUME TypeOK, Limits, SelectBatch
    PROVE  Limits'
<1>1. /\ batch' = Ready /\ current = NoTask /\ phase' = "batch"
      /\ UNCHANGED <<completed, current, hops, activations, globalActs>>
    BY DEF SelectBatch, Limits, ChosenFresh, tracker
<1>2. Ready \in SUBSET Task /\ Ready \cap completed = {} /\ NoTask \notin Ready
    BY ExecutorAssumption DEF Ready, GetReadyTasks
<1>3. Chosen' = Ready
    BY <1>1 DEF Chosen
<1>4. MaxHops > 0 => hops < MaxHops
    BY ExecutorAssumption DEF SelectBatch, HopLimitReached, TypeOK
<1>5. Cardinality(Ready) \in Nat /\ Cardinality(Ready) <= Cardinality(Task) /\ Cardinality(Task) \in Nat
    BY <1>2, TasksCounted
<1>6. ChosenFresh'
    BY <1>1, <1>2, <1>3 DEF ChosenFresh
<1>7. ActivationLimits'
    BY <1>1 DEF Limits, ActivationLimits
<1>8. HopLimits'
    <2>1. MaxHops > 0 => hops + Cardinality(Ready) <= MaxHops - 1 + Cardinality(Task)
        BY <1>4, <1>5, ExecutorAssumption DEF TypeOK
    <2> QED
        BY <1>1, <1>3, <2>1 DEF Limits, HopLimits
<1> QED
    BY <1>6, <1>7, <1>8 DEF Limits

\* A step that leaves the counts alone.
LEMMA SameLimits ==
    ASSUME Limits, UNCHANGED <<completed, activations, globalActs, hops>>, Chosen' = Chosen,
           current' \notin batch',
           phase' \in {"select", "batch"} => current' = NoTask,
           phase' = "select" => batch' = {}
    PROVE  Limits'
BY DEF Limits, ChosenFresh, ActivationLimits, HopLimits

\* Every step keeps the limits.
LEMMA NextLimits == TypeOK /\ AttemptHasTask /\ Limits /\ [Next]_vars => Limits'
<1> SUFFICES ASSUME TypeOK, AttemptHasTask, Limits, [Next]_vars PROVE Limits'
    OBVIOUS
<1>1. CASE StartRun \/ Crash
    BY <1>1, FreshLimits
<1>2. CASE SelectBatch
    BY <1>2, SelectLimits
<1>3. CASE AbortAtHopLimit \/ AbortUnassigned \/ VerifierError \/ Finish
    <2>1. /\ UNCHANGED <<completed, activations, globalActs, hops, batch, current>>
          /\ phase' \notin {"select", "batch"}
        BY <1>3 DEF AbortAtHopLimit, AbortUnassigned, VerifierError, Finish, Abort, memory, tracker
    <2> QED
        BY <2>1, SameLimits DEF Limits, ChosenFresh, Chosen
<1>4. ASSUME NEW t \in Task, BeginTask(t) PROVE Limits'
    <2>1. /\ UNCHANGED <<completed, activations, globalActs, hops>>
          /\ current = NoTask /\ t \in batch /\ batch' = batch \ {t} /\ current' = t
          /\ phase' = "attempt" /\ t # NoTask
        BY <1>4, ExecutorAssumption DEF BeginTask, tracker, Limits, ChosenFresh
    <2>2. Chosen' = Chosen
        BY <2>1 DEF Chosen
    <2> QED
        BY <2>1, <2>2, SameLimits
<1>5. CASE AcceptResponse
    <2>1. current \in Task
        BY <1>5 DEF AcceptResponse, AttemptHasTask
    <2> QED
        BY <1>5, <2>1, AcceptLimits
<1>6. CASE RejectResponse \/ AgentError
    <2>1. PICK kind \in AttemptError : RecordAttempt(kind)
        BY <1>6 DEF RejectResponse, AgentError, AttemptError
    <2>2. current \in Task
        BY <1>6 DEF RejectResponse, AgentError, AttemptHasTask
    <2>3. CASE FailTask
        BY <2>2, <2>3, FailLimits
    <2>4. CASE ~FailTask
        <3>1. UNCHANGED <<phase, completed, batch, current, activations, globalActs, hops>>
            BY <2>1, <2>4 DEF RecordAttempt, tracker
        <3> QED
            BY <3>1, SameLimits DEF Limits, ChosenFresh, Chosen
    <2> QED
        BY <2>3, <2>4
<1>7. CASE UNCHANGED vars
    BY <1>7, SameLimits DEF vars, memory, tracker, Limits, ChosenFresh, Chosen
<1> QED
    BY <1>1, <1>2, <1>3, <1>4, <1>5, <1>6, <1>7 DEF Next, RunStep

\* In every flow, however its back-edges requeue each other, a run makes at most
\* one hop per task and one more per task and activation (backedge.rs:105), and
\* passes its hop limit by less than a batch (executor.rs:307).
THEOREM BoundsRuns == Spec => []RunBounded
<1> DEFINE Inv == TypeOK /\ AttemptHasTask /\ Limits
<1>1. Init /\ TypeOK /\ AttemptHasTask => Inv
    <2> SUFFICES ASSUME Init PROVE Limits
        OBVIOUS
    <2>1. Cardinality({}) = 0 /\ Cardinality(Task) \in Nat /\ Cardinality(Task) * 0 = 0
        BY TasksCounted
    <2>2. Chosen = {} /\ completed = {} /\ hops = 0 /\ globalActs = 0 /\ current \notin batch
        BY DEF Init, Chosen
    <2>3. ActivationLimits
        BY <2>2, ExecutorAssumption DEF Init, ActivationLimits
    <2>4. HopLimits
        BY <2>1, <2>2, ExecutorAssumption DEF HopLimits
    <2>5. ChosenFresh
        BY <2>2 DEF Init, ChosenFresh
    <2> QED
        BY <2>3, <2>4, <2>5 DEF Limits
<1>2. Inv /\ [Next]_vars /\ (TypeOK /\ AttemptHasTask)' => Inv'
    BY NextLimits
<1>3. Inv => RunBounded
    <2> SUFFICES ASSUME TypeOK, Limits PROVE RunBounded
        OBVIOUS
    <2> DEFINE n == Cardinality(Task)
    <2>1. /\ n \in Nat /\ Cardinality(completed) \in Nat /\ Cardinality(completed) <= n
          /\ Cardinality(Chosen) \in Nat
        <3>1. completed \in SUBSET Task /\ Chosen \in SUBSET Task
            BY DEF TypeOK, Chosen
        <3> QED
            BY <3>1, TasksCounted
    <2>2. globalActs \in Nat /\ GlobalMax \in Nat /\ globalActs <= GlobalMax /\ hops \in Nat
        BY ExecutorAssumption DEF TypeOK, Limits, ActivationLimits
    <2>3. hops <= Cardinality(completed) + n * globalActs
        BY DEF Limits, HopLimits
    <2> HIDE DEF n
    <2>4. n * globalActs <= n * GlobalMax /\ n * globalActs \in Nat /\ n * GlobalMax \in Nat
        BY <2>1, <2>2
    <2>5. n * (GlobalMax + 1) = n * GlobalMax + n
        BY <2>1, <2>2
    <2>6. hops <= n * (GlobalMax + 1)
        BY <2>1, <2>2, <2>3, <2>4, <2>5
    <2>7. MaxHops > 0 => hops < MaxHops + n
        BY <2>1, <2>2, ExecutorAssumption DEF Limits, HopLimits, n
    <2> QED
        BY <2>2, <2>6, <2>7 DEF RunBounded, Limits, ActivationLimits, n
<1> HIDE DEF Inv
<1> QED
    BY <1>1, <1>2, <1>3, TypeInvariant, PTL DEF Spec

-----------------------------------------------------------------------------
(* DependencyGraph::new *)

\* A set of numbers has a least one.
LEMMA LeastNumber ==
    ASSUME NEW S \in SUBSET Nat, S # {}
    PROVE  \E i \in S : \A j \in S : i <= j
<1> DEFINE Less == OpToRel(<, Nat)
<1>1. \A x, y \in Nat : x < y => <<x, y>> \in Less
    BY DEF OpToRel
<1>2. IsWellFoundedOn(Less, Nat)
    BY NatLessThanWellFounded
<1> HIDE DEF Less
<1>3. PICK x \in S : \A y \in S : ~ (<<y, x>> \in Less)
    BY <1>2, WFMin, Zenon
<1>4. \A y \in S : ~ (y < x)
    BY <1>1, <1>3, Zenon
<1> QED
    BY <1>4

\* The ids on the result so far
Placed == {order[i] : i \in DOMAIN order}

\* in_degree counts the entries still to be placed, a task is queued or placed
\* when none is left, and the order so far is topological.
SortInv ==
    /\ SortTypeOK
    /\ IsInjective(order)
    /\ queue \cap Placed = {}
    /\ \A t \in Id :
         inDegree[t] + Cardinality(Names(dependsOn[t]) \cap Placed) = Len(dependsOn[t])
    /\ \A t \in Id : inDegree[t] = 0 <=> t \in queue \cup Placed
    /\ \A i \in DOMAIN order :
         Names(dependsOn[order[i]]) \subseteq {order[j] : j \in 1..i - 1}
    /\ verdict # "unknown" => \A t \in Id : UnknownId \notin Names(dependsOn[t])
    /\ verdict \in {"ok", "cycle"} => queue = {} /\ verdict = Outcome

\* A depends_on list names at most as many ids as it has entries; exactly as
\* many when none is repeated.
LEMMA NamesOf ==
    ASSUME NEW l \in Lists
    PROVE  /\ Len(l) \in Nat /\ IsFiniteSet(Names(l))
           /\ Cardinality(Names(l)) \in Nat /\ Cardinality(Names(l)) <= Len(l)
           /\ ~Repeats => Cardinality(Names(l)) = Len(l)
           /\ Names(l) \subseteq Id \cup {UnknownId}
           /\ l = <<>> <=> Len(l) = 0
<1>1. PICK n \in 0..MaxList : l \in [1..n -> Id \cup {UnknownId}]
    BY DEF Lists
<1>2. n \in Nat /\ l \in Seq(Id \cup {UnknownId}) /\ Len(l) = n
    BY <1>1, SortAssumption
<1>3. IsFiniteSet(1..n) /\ Cardinality(1..n) = n
    BY <1>2, FS_Interval
<1>4. l \in Surjection(1..n, Names(l))
    BY <1>1 DEF Surjection, Names
<1>5. /\ IsFiniteSet(Names(l)) /\ Cardinality(Names(l)) <= n
      /\ Cardinality(Names(l)) = n <=> l \in Injection(1..n, Names(l))
    BY <1>3, <1>4, FS_Surjection
<1>6. ~Repeats => l \in Injection(1..n, Names(l))
    BY <1>1 DEF Lists, Injection, Names
<1>7. Cardinality(Names(l)) \in Nat
    BY <1>5, FS_CardinalityType
<1>8. Names(l) \subseteq Id \cup {UnknownId}
    BY <1>1 DEF Names
<1> QED
    BY <1>2, <1>5, <1>6, <1>7, <1>8

\* When nothing is left to be placed, every name is.
LEMMA NoneLeft ==
    ASSUME NEW l \in Lists, NEW P, Cardinality(Names(l) \cap P) = Len(l)
    PROVE  Names(l) \subseteq P
<1>1. Names(l) \cap P \in SUBSET Names(l)
    OBVIOUS
<1>2. Cardinality(Names(l) \cap P) <= Cardinality(Names(l))
    BY <1>1, NamesOf, FS_Subset
<1>3. Cardinality(Names(l)) = Cardinality(Names(l) \cap P)
    BY <1>2, NamesOf
<1>4. Names(l) = Names(l) \cap P
    BY <1>1, <1>3, NamesOf, FS_Subset
<1> QED
    BY <1>4

\* The loop starts with the tasks that depend on nothing.
LEMMA SortStarts == SortInit => SortInv
<1> SUFFICES ASSUME SortInit PROVE SortInv
    OBVIOUS
<1>1. /\ dependsOn \in [Id -> Lists] /\ inDegree = [t \in Id |-> Len(dependsOn[t])]
      /\ order = <<>> /\ queue = {t \in Id : inDegree[t] = 0}
      /\ verdict \in {"unknown", "sorting"}
      /\ verdict # "unknown" => \A t \in Id : UnknownId \notin Names(dependsOn[t])
    BY DEF SortInit, InDegrees
<1>2. \A t \in Id : Len(dependsOn[t]) \in Nat
    BY <1>1, NamesOf
<1>3. SortTypeOK
    BY <1>1, <1>2 DEF SortTypeOK
<1>4. Placed = {} /\ IsInjective(order) /\ DOMAIN order = {}
    BY <1>1 DEF Placed, IsInjective
<1>5. \A t \in Id :
         inDegree[t] + Cardinality(Names(dependsOn[t]) \cap Placed) = Len(dependsOn[t])
    BY <1>1, <1>2, <1>4, FS_EmptySet
<1> QED
    BY <1>1, <1>3, <1>4, <1>5 DEF SortInv

\* What pop() and the loop over the dependents do to the counts.
LEMMA PopCounts ==
    ASSUME SortInv, NEW n \in queue,
           inDegree' = [t \in Id |-> IF t \in Released(n) THEN inDegree[t] - 1 ELSE inDegree[t]]
    PROVE  \A t \in Id :
             /\ t \in Released(n) => inDegree[t] > 0
             /\ inDegree'[t] \in Nat
             /\ inDegree'[t] + Cardinality(Names(dependsOn[t]) \cap (Placed \cup {n}))
                  = Len(dependsOn[t])
<1> SUFFICES ASSUME NEW t \in Id
             PROVE  /\ t \in Released(n) => inDegree[t] > 0
                    /\ inDegree'[t] \in Nat
                    /\ inDegree'[t] + Cardinality(Names(dependsOn[t]) \cap (Placed \cup {n}))
                         = Len(dependsOn[t])
    OBVIOUS
<1> DEFINE N == Names(dependsOn[t])
<1>1. /\ dependsOn[t] \in Lists /\ inDegree[t] \in Nat /\ n \notin Placed
      /\ inDegree[t] + Cardinality(N \cap Placed) = Len(dependsOn[t])
      /\ inDegree'[t] = IF n \in N THEN inDegree[t] - 1 ELSE inDegree[t]
      /\ t \in Released(n) <=> n \in N
    BY DEF SortInv, SortTypeOK, Released
<1>2. /\ IsFiniteSet(N) /\ Cardinality(N) \in Nat /\ Len(dependsOn[t]) \in Nat
      /\ Cardinality(N) <= Len(dependsOn[t])
    BY <1>1, NamesOf
<1> HIDE DEF N
<1>3. CASE n \notin N
    <2>1. N \cap (Placed \cup {n}) = N \cap Placed
        BY <1>3
    <2> QED
        BY <1>1, <1>3, <2>1 DEF N
<1>4. CASE n \in N
    <2>1. N \cap (Placed \cup {n}) = (N \cap Placed) \cup {n} /\ n \notin N \cap Placed
        BY <1>1, <1>4
    <2>2. /\ IsFiniteSet(N \cap Placed) /\ Cardinality(N \cap Placed) \in Nat
        BY <1>2, FS_Subset, FS_CardinalityType
    <2>3. Cardinality((N \cap Placed) \cup {n}) = Cardinality(N \cap Placed) + 1
        BY <2>1, <2>2, FS_AddElement
    <2>4. Cardinality((N \cap Placed) \cup {n}) <= Cardinality(N)
        <3>1. (N \cap Placed) \cup {n} \in SUBSET N
            BY <1>4
        <3> QED
            BY <1>2, <3>1, FS_Subset
    <2> DEFINE c == Cardinality(N \cap Placed)
               l == Len(dependsOn[t])
               d == inDegree[t]
    <2>5. /\ c \in Nat /\ l \in Nat /\ d \in Nat
          /\ d + c = l /\ c + 1 <= l
        BY <1>1, <1>2, <2>2, <2>3, <2>4
    <2>6. inDegree'[t] = d - 1 /\ Cardinality(N \cap (Placed \cup {n})) = c + 1
        BY <1>1, <1>4, <2>1, <2>3
    <2> HIDE DEF c, l, d
    <2>7. d > 0 /\ d - 1 \in Nat /\ (d - 1) + (c + 1) = l
        BY <2>5
    <2> QED
        BY <2>6, <2>7 DEF c, l, d, N
<1> QED
    BY <1>3, <1>4

\* A popped task goes behind everything it depends on.
LEMMA PopNodeSorts == SortInv /\ PopNode => SortInv'
<1> SUFFICES ASSUME SortInv, PopNode PROVE SortInv'
    OBVIOUS
<1>1. PICK n \in queue :
        /\ order' = Append(order, n)
        /\ inDegree' = [t \in Id |-> IF t \in Released(n) THEN inDegree[t] - 1
                                                          ELSE inDegree[t]]
        /\ queue' = (queue \ {n}) \cup {t \in Released(n) : inDegree'[t] = 0}
        /\ verdict = "sorting" /\ verdict' = verdict /\ dependsOn' = dependsOn
    BY DEF PopNode
<1>2. /\ dependsOn \in [Id -> Lists] /\ inDegree \in [Id -> Nat] /\ queue \subseteq Id
      /\ order \in Seq(Id) /\ n \in Id /\ n \notin Placed /\ IsInjective(order)
      /\ queue \cap Placed = {} /\ Placed \subseteq Id
    BY <1>1 DEF SortInv, SortTypeOK, Placed
<1>3. \A t \in Id :
        /\ t \in Released(n) => inDegree[t] > 0
        /\ inDegree'[t] \in Nat
        /\ inDegree'[t] + Cardinality(Names(dependsOn[t]) \cap (Placed \cup {n}))
             = Len(dependsOn[t])
    BY <1>1, PopCounts
<1>4. /\ order' \in Seq(Id) /\ Len(order') = Len(order) + 1 /\ order'[Len(order) + 1] = n
      /\ DOMAIN order = 1..Len(order) /\ DOMAIN order' = 1..Len(order) + 1
      /\ Len(order) \in Nat /\ \A i \in 1..Len(order) : order'[i] = order[i]
    BY <1>1, <1>2
<1>5. Placed' = Placed \cup {n}
    BY <1>4 DEF Placed
<1>6. SortTypeOK'
    <2>1. queue' \subseteq Id
        BY <1>1, <1>2 DEF Released
    <2>2. inDegree' \in [Id -> Nat]
        BY <1>1, <1>3
    <2> QED
        BY <1>1, <1>2, <1>4, <2>1, <2>2 DEF SortInv, SortTypeOK
<1>7. IsInjective(order')
    <2>1. \A i \in 1..Len(order) : order[i] # n
        BY <1>2, <1>4 DEF Placed
    <2> QED
        BY <1>2, <1>4, <2>1 DEF IsInjective
<1>8. \A t \in Id : /\ inDegree[t] = 0 <=> t \in queue \cup Placed
                    /\ inDegree'[t] = IF t \in Released(n) THEN inDegree[t] - 1 ELSE inDegree[t]
                    /\ inDegree[t] \in Nat
    BY <1>1, <1>2 DEF SortInv
<1>9. queue' \cap Placed' = {}
    <2>1. \A t \in Released(n) : t \in Id /\ inDegree[t] > 0
        BY <1>3 DEF Released
    <2>2. \A t \in Released(n) : t \notin Placed /\ t # n
        BY <1>8, <2>1
    <2> QED
        BY <1>1, <1>2, <1>5, <2>2
<1>10. \A t \in Id : inDegree'[t] = 0 <=> t \in queue' \cup Placed'
    <2> SUFFICES ASSUME NEW t \in Id
                 PROVE  inDegree'[t] = 0 <=> t \in queue' \cup Placed'
        OBVIOUS
    <2>1. CASE t \in Released(n)
        <3>0. inDegree[t] # 0
            <4>1. inDegree[t] > 0
                BY <1>3, <2>1, Zenon
            <4>2. inDegree[t] \in Nat
                BY <1>8, Zenon
            <4> QED
                BY <4>1, <4>2
        <3>1. t \notin queue /\ t \notin Placed /\ t # n
            BY <1>1, <1>8, <3>0
        <3>2. t \in queue' <=> inDegree'[t] = 0
            BY <1>1, <2>1, <3>1
        <3> QED
            BY <1>5, <3>1, <3>2
    <2>2. CASE t \notin Released(n)
        <3>1. inDegree'[t] = inDegree[t]
            BY <1>8, <2>2
        <3>2. t \in queue' \cup Placed' <=> t \in queue \cup Placed
            BY <1>1, <1>5, <2>2
        <3> QED
            BY <1>8, <3>1, <3>2
    <2> QED
        BY <2>1, <2>2
<1>11. Names(dependsOn[n]) \subseteq Placed
    <2>1. inDegree[n] = 0 /\ dependsOn[n] \in Lists
        BY <1>2, <1>8
    <2>2. inDegree[n] + Cardinality(Names(dependsOn[n]) \cap Placed) = Len(dependsOn[n])
        BY <1>2 DEF SortInv
    <2>3. Cardinality(Names(dependsOn[n]) \cap Placed) \in Nat
        <3>1. IsFiniteSet(Names(dependsOn[n]) \cap Placed)
            BY <2>1, NamesOf, FS_Subset
        <3> QED
            BY <3>1, FS_CardinalityType
    <2>4. Cardinality(Names(dependsOn[n]) \cap Placed) = Len(dependsOn[n])
        BY <2>1, <2>2, <2>3
    <2> QED
        BY <2>1, <2>4, NoneLeft
<1>12. ASSUME NEW i \in DOMAIN order'
       PROVE  Names(dependsOn'[order'[i]]) \subseteq {order'[j] : j \in 1..i - 1}
    <2>1. CASE i \in 1..Len(order)
        <3>1. Names(dependsOn[order[i]]) \subseteq {order[j] : j \in 1..i - 1}
            BY <1>4, <2>1 DEF SortInv
        <3>2. \A j \in 1..i - 1 : order'[j] = order[j]
            BY <1>4, <2>1
        <3> QED
            BY <1>1, <1>4, <2>1, <3>1, <3>2
    <2>2. CASE i = Len(order) + 1
        <3>1. Placed = {order'[j] : j \in 1..i - 1}
            BY <1>4, <2>2 DEF Placed
        <3> QED
            BY <1>1, <1>4, <1>11, <2>2, <3>1
    <2> QED
        BY <1>4, <2>1, <2>2
<1>13. \A t \in Id :
         inDegree'[t] + Cardinality(Names(dependsOn'[t]) \cap Placed') = Len(dependsOn'[t])
    BY <1>1, <1>3, <1>5
<1> QED
    BY <1>1, <1>6, <1>7, <1>9, <1>10, <1>12, <1>13 DEF SortInv

\* The verdict is given on what has been placed.
LEMMA ReturnOrderSorts == SortInv /\ ReturnOrder => SortInv'
<1> SUFFICES ASSUME SortInv, ReturnOrder PROVE SortInv'
    OBVIOUS
<1>1. /\ verdict = "sorting" /\ queue = {} /\ verdict' = Outcome
      /\ UNCHANGED <<dependsOn, inDegree, queue, order>>
    BY DEF ReturnOrder
<1>2. Outcome \in {"ok", "cycle"} /\ Outcome' = Outcome /\ Placed' = Placed
    BY <1>1 DEF Outcome, Placed
<1>3. SortTypeOK'
    BY <1>1, <1>2 DEF SortInv, SortTypeOK
<1> QED
    BY <1>1, <1>2, <1>3 DEF SortInv

\* The counts, the queue and the order agree throughout.
LEMMA SortsThroughout == SortSpec => []SortInv
<1>1. ASSUME SortInv, UNCHANGED sortVars PROVE SortInv'
    <2>1. /\ dependsOn' = dependsOn /\ verdict' = verdict /\ inDegree' = inDegree
          /\ queue' = queue /\ order' = order
        BY <1>1 DEF sortVars
    <2>2. Placed' = Placed /\ Outcome' = Outcome
        BY <2>1 DEF Placed, Outcome
    <2>3. SortTypeOK'
        BY <1>1, <2>1 DEF SortInv, SortTypeOK
    <2>4. IsInjective(order') /\ queue' \cap Placed' = {}
        BY <1>1, <2>1, <2>2 DEF SortInv
    <2>5. /\ \A t \in Id :
               inDegree'[t] + Cardinality(Names(dependsOn'[t]) \cap Placed') = Len(dependsOn'[t])
          /\ \A t \in Id : inDegree'[t] = 0 <=> t \in queue' \cup Placed'
        BY <1>1, <2>1, <2>2 DEF SortInv
    <2>6. \A i \in DOMAIN order' :
            Names(dependsOn'[order'[i]]) \subseteq {order'[j] : j \in 1..i - 1}
        BY <1>1, <2>1 DEF SortInv
    <2>7. /\ verdict' # "unknown" => \A t \in Id : UnknownId \notin Names(dependsOn'[t])
          /\ verdict' \in {"ok", "cycle"} => queue' = {} /\ verdict' = Outcome'
        BY <1>1, <2>1, <2>2 DEF SortInv
    <2> QED
        BY <2>3, <2>4, <2>5, <2>6, <2>7 DEF SortInv
<1>2. SortInv /\ [SortNext]_sortVars => SortInv'
    BY <1>1, PopNodeSorts, ReturnOrderSorts DEF SortNext
<1> QED
    BY <1>2, SortStarts, PTL DEF SortSpec

\* How many ids have been placed, and what is left when it is not all.
LEMMA PlacedAll ==
    ASSUME SortInv
    PROVE  Len(order) = Cardinality(Id) <=> Placed = Id
<1>1. order \in Seq(Id) /\ IsInjective(order) /\ DOMAIN order = 1..Len(order) /\ Len(order) \in Nat
    BY DEF SortInv, SortTypeOK
<1>2. IsFiniteSet(1..Len(order)) /\ Cardinality(1..Len(order)) = Len(order)
    BY <1>1, FS_Interval
<1>3. order \in Surjection(1..Len(order), Placed) /\ order \in Injection(1..Len(order), Placed)
    BY <1>1 DEF Surjection, Injection, Placed
<1>4. Cardinality(Placed) = Len(order)
    BY <1>2, <1>3, FS_Surjection
<1>5. Placed \in SUBSET Id /\ IsFiniteSet(Id)
    BY <1>1, SortAssumption DEF Placed
<1> QED
    BY <1>4, <1>5, FS_Subset

\* DependencyGraph::new lets only acyclic graphs in, and returns an order in
\* which every task follows the tasks it depends on: this is the assumption
\* TaskAssumption of every flow the executor runs.
THEOREM SortsAcyclic == SortSpec => []OrderIsTopological
<1>1. SortInv => OrderIsTopological
    <2> SUFFICES ASSUME SortInv, verdict = "ok" PROVE OrderIsTopological
        BY DEF OrderIsTopological
    <2>1. /\ order \in Seq(Id) /\ IsInjective(order)
          /\ \A i \in DOMAIN order :
               Names(dependsOn[order[i]]) \subseteq {order[j] : j \in 1..i - 1}
        BY DEF SortInv, SortTypeOK
    <2>4. DOMAIN order = 1..Len(order) /\ Len(order) \in Nat
        BY <2>1
    <2>2. Placed = Id
        <3>1. Outcome = "ok"
            BY DEF SortInv
        <3> QED
            BY <3>1, PlacedAll DEF Outcome
    <2>3. ASSUME NEW S \in SUBSET Id, S # {}
          PROVE  \E t \in S : Names(dependsOn[t]) \cap S = {}
        <3> DEFINE P == {i \in DOMAIN order : order[i] \in S}
        <3>1. P \in SUBSET Nat /\ P # {}
            BY <2>2, <2>3, <2>4 DEF Placed
        <3>2. PICK i \in P : \A j \in P : i <= j
            BY <3>1, LeastNumber
        <3>3. \A j \in 1..i - 1 : order[j] \notin S
            <4>1. \A j \in 1..i - 1 : j \in DOMAIN order /\ ~(i <= j)
                BY <2>4, <3>2
            <4> QED
                BY <3>2, <4>1, Zenon
        <3>4. order[i] \in S /\ i \in DOMAIN order
            BY <3>2
        <3>5. Names(dependsOn[order[i]]) \subseteq {order[j] : j \in 1..i - 1}
            BY <2>1, <3>4, Zenon
        <3>6. Names(dependsOn[order[i]]) \cap S = {}
            <4> DEFINE D == Names(dependsOn[order[i]])
                       I == 1..i - 1
            <4>1. D \subseteq {order[j] : j \in I} /\ \A j \in I : order[j] \notin S
                BY <3>3, <3>5
            <4> HIDE DEF D, I
            <4>2. D \cap S = {}
                BY <4>1
            <4> QED
                BY <4>2 DEF D
        <3> QED
            BY <3>4, <3>6
    <2> QED
        BY <2>1, <2>3 DEF OrderIsTopological, WellFounded
<1> QED
    BY <1>1, SortsThroughout, PTL

\* When no list repeats an id, only graphs with a cycle are refused as cyclic:
\* each task that was never placed waits for another one that was not.
THEOREM RefusesCyclesOnly ==
    ASSUME ~Repeats
    PROVE  SortSpec => []OnlyCyclesRefused
<1>1. SortInv => OnlyCyclesRefused
    <2> SUFFICES ASSUME SortInv, verdict = "cycle" PROVE ~WellFounded
        BY DEF OnlyCyclesRefused
    <2> DEFINE S == Id \ Placed
    <2>1. queue = {} /\ Placed # Id /\ Placed \subseteq Id
        <3>1. queue = {} /\ Outcome = "cycle"
            BY DEF SortInv
        <3>2. Placed # Id
            BY <3>1, PlacedAll DEF Outcome
        <3> QED
            BY <3>1, <3>2 DEF SortInv, SortTypeOK, Placed
    <2>2. ASSUME NEW t \in S PROVE Names(dependsOn[t]) \cap S # {}
        <3>1. /\ dependsOn[t] \in Lists /\ inDegree[t] \in Nat /\ inDegree[t] # 0
              /\ inDegree[t] + Cardinality(Names(dependsOn[t]) \cap Placed) = Len(dependsOn[t])
              /\ UnknownId \notin Names(dependsOn[t])
            BY <2>1 DEF SortInv, SortTypeOK
        <3>2. Cardinality(Names(dependsOn[t])) = Len(dependsOn[t]) /\ Len(dependsOn[t]) \in Nat
            BY <3>1, NamesOf
        <3>3. ~(Names(dependsOn[t]) \subseteq Placed)
            <4> SUFFICES ASSUME Names(dependsOn[t]) \subseteq Placed PROVE FALSE
                OBVIOUS
            <4>1. Names(dependsOn[t]) \cap Placed = Names(dependsOn[t])
                OBVIOUS
            <4> DEFINE l == Len(dependsOn[t])
            <4>2. inDegree[t] + l = l /\ inDegree[t] # 0 /\ inDegree[t] \in Nat /\ l \in Nat
                BY <3>1, <3>2, <4>1
            <4> HIDE DEF l
            <4> QED
                BY <4>2
        <3>4. Names(dependsOn[t]) \subseteq Id
            BY <3>1, NamesOf
        <3> QED
            BY <3>3, <3>4
    <2>3. S \in SUBSET Id /\ S # {}
        BY <2>1
    <2> QED
        BY <2>2, <2>3 DEF WellFounded
<1> QED
    BY <1>1, SortsThroughout, PTL
=============================================================================
