------------------------------ MODULE ServerFlow ------------------------------
(***************************************************************************)
(* The flows the server runs for flow_start, flow_resume and               *)
(* flow_escalate: the batch loop (navra-server flow_execution.rs,          *)
(* flow_escalation.rs), the teams its tasks run in (team_tools.rs), the    *)
(* agents of the team, each holding one permit of a shared semaphore       *)
(* while it runs (agent_spawn.rs), and what a crash of the server leaves:  *)
(* checkpoints, task results and flow metadata.                            *)
(***************************************************************************)
EXTENDS Integers, FiniteSets, Sequences

CONSTANTS
    Flow,        \* flow ids, one per call that registers a flow
    NoFlow,      \* the origin of a flow no other flow led to
    Task,        \* ids of task definitions; also the teammates' names
    NoTask,      \* the caller of a flow no agent escalated
    Sink,        \* "synthesize", "synthesizer", "verify"
    Yamls,       \* the lists of definitions a flow may be started with
    SubDefs,     \* the lists an escalating agent may ask for
    Plans,       \* the lists parse_planner_tasks may return
    MaxParallel, \* budget.max_parallel, 0 for no throttle
    Permits,     \* permits of gpu_semaphore
    MaxAgents,   \* budget.max_agents
    MaxDepth,    \* budget.max_depth
    Started,     \* the flows flow_start may register, a bound
    Overlap,     \* whether flows that still run are resumed, a bound
    MaxCrashes,  \* bound on the crashes of the server
    MaxRefused   \* bound on the rows missing because the audit log refused them

ASSUME ServerFlowAssumption ==
    /\ NoFlow \notin Flow /\ NoTask \notin Task
    /\ Sink \subseteq Task /\ Started \subseteq Flow /\ Overlap \in BOOLEAN
    /\ {MaxParallel, MaxAgents, MaxDepth, MaxCrashes, MaxRefused} \subseteq Nat
    /\ Permits \in Nat \ {0}
    /\ IsFiniteSet(Flow) /\ IsFiniteSet(Task)

Def == [id: Task, deps: SUBSET Task, gen: BOOLEAN]

ASSUME DefsAssumption == Yamls \cup SubDefs \cup Plans \subseteq Seq(Def)

VARIABLES
    \* the flow registry
    kind,       \* how a flow began: "none", "start", "resume" or "sub"
    origin,     \* the flow it resumes, or whose agent escalated to it
    caller,     \* the agent that escalated
    status,     \* FlowRun.status
    \* the local variables of its loop
    pc, defs, completed, failed,
    batch,      \* positions in defs of the ready tasks of this round
    todo,       \* those this stage has not come to yet
    spawned,    \* spawned_ids
    \* the team registry and its agents
    team,       \* "none", "live", "expired" or "gone"
    depth, budget,
    member,     \* status of a teammate
    board,      \* task ids whose findings/<id> is on the team's blackboard
    total,      \* total_agents
    agent,      \* the task that runs a teammate's agent
    \* what outlives the process
    checkpoint, \* dag_checkpoints
    results,    \* flow_results: "none" for a task that at most has started
    yaml,       \* the definitions a flow was started or resumed with
    meta,       \* flow_metadata: whether it has a row with them
    unaudited,  \* history: the tasks whose last result the audit log refused
    crashes     \* crashes so far

registry == <<kind, origin, caller, status>>
round    == <<batch, todo, spawned>>
settled  == <<completed, failed>>
teams    == <<team, depth, budget, member, board, total>>
disk     == <<checkpoint, results, yaml, meta, unaudited>>
vars == <<registry, pc, defs, settled, round, teams, agent, disk, crashes>>

-----------------------------------------------------------------------------

Statuses == {"none", "running", "completed", "failed"}
Stages   == {"select", "add", "send", "poll", "record", "save", "inject",
             "report"}
NoCheckpoint == [completed |-> {}, failed |-> {}, defs |-> << >>, kept |-> FALSE]

Ids(d) == {d[i].id : i \in DOMAIN d}
Settled(f) == completed[f] \cup failed[f]
Pending(d, s) == {i \in DOMAIN d : d[i].id \notin s}
Without(d, s) == [i \in Pending(d, s) |-> d[i]]
Lowest(S) == CHOOSE i \in S : \A j \in S : i <= j
Last(d) == IF DOMAIN d = {} THEN 0 ELSE CHOOSE i \in DOMAIN d : \A j \in DOMAIN d : j <= i

Exists(f) == team[f] \in {"live", "expired"}
Members(f) == {t \in Task : member[f][t] # "none"}
HoldsPermit == {p \in Flow \X Task : agent[p[1]][p[2]] \in {"running", "calling"}}

TypeOK ==
    /\ kind \in [Flow -> {"none", "start", "resume", "sub"}]
    /\ origin \in [Flow -> Flow \cup {NoFlow}]
    /\ caller \in [Flow -> Task \cup {NoTask}]
    /\ status \in [Flow -> Statuses]
    /\ pc \in [Flow -> Stages \cup {"none", "over", "dead"}]
    /\ \A f \in Flow : \A i \in DOMAIN defs[f] : i \in Nat /\ defs[f][i] \in Def
    /\ completed \in [Flow -> SUBSET Task]
    /\ failed \in [Flow -> SUBSET Task]
    /\ \A f \in Flow : todo[f] \subseteq batch[f] /\ batch[f] \subseteq DOMAIN defs[f]
    /\ spawned \in [Flow -> SUBSET Task]
    /\ team \in [Flow -> {"none", "live", "expired", "gone"}]
    /\ depth \in [Flow -> Nat]
    /\ budget \in [Flow -> Nat]
    /\ member \in [Flow -> [Task -> {"none", "idle", "working", "done", "failed"}]]
    /\ board \in [Flow -> SUBSET Task]
    /\ total \in Nat
    /\ agent \in [Flow -> [Task -> {"none", "waiting", "running", "calling", "over"}]]
    /\ results \in [Flow -> [Task -> {"none", "done", "failed"}]]
    /\ meta \in [Flow -> {"none", "saved"}]
    /\ unaudited \in [Flow -> SUBSET Task]
    /\ crashes \in 0..MaxCrashes

Init ==
    /\ kind = [f \in Flow |-> "none"]
    /\ origin = [f \in Flow |-> NoFlow]
    /\ caller = [f \in Flow |-> NoTask]
    /\ status = [f \in Flow |-> "none"]
    /\ pc = [f \in Flow |-> "none"]
    /\ defs = [f \in Flow |-> << >>]
    /\ completed = [f \in Flow |-> {}]
    /\ failed = [f \in Flow |-> {}]
    /\ batch = [f \in Flow |-> {}]
    /\ todo = [f \in Flow |-> {}]
    /\ spawned = [f \in Flow |-> {}]
    /\ team = [f \in Flow |-> "none"]
    /\ depth = [f \in Flow |-> 0]
    /\ budget = [f \in Flow |-> 0]
    /\ member = [f \in Flow |-> [t \in Task |-> "none"]]
    /\ board = [f \in Flow |-> {}]
    /\ total = 0
    /\ agent = [f \in Flow |-> [t \in Task |-> "none"]]
    /\ checkpoint = [f \in Flow |-> NoCheckpoint]
    /\ results = [f \in Flow |-> [t \in Task |-> "none"]]
    /\ yaml = [f \in Flow |-> << >>]
    /\ meta = [f \in Flow |-> "none"]
    /\ unaudited = [f \in Flow |-> {}]
    /\ crashes = 0

-----------------------------------------------------------------------------
\* The team registry

\* TeamBudget.max_agents as handle_flow_start and its two siblings set it
BudgetFor(d) ==
    LET n == Cardinality(DOMAIN d) + 2 IN IF n > MaxAgents THEN n ELSE MaxAgents

\* create_team counts the agents of all teams
TeamRefused(d) == total >= BudgetFor(d)

\* register, create_team and the entry of the loop; refused is the status the
\* flow keeps when there is no team for it
Begin(g, n, d, published, refused) ==
    /\ IF TeamRefused(d)
       THEN /\ status' = [status EXCEPT ![g] = refused]
            /\ pc' = [pc EXCEPT ![g] = "over"]
            /\ UNCHANGED <<defs, team, depth, budget, board>>
       ELSE /\ status' = [status EXCEPT ![g] = "running"]
            /\ pc' = [pc EXCEPT ![g] = "select"]
            /\ defs' = [defs EXCEPT ![g] = d]
            /\ team' = [team EXCEPT ![g] = "live"]
            /\ depth' = [depth EXCEPT ![g] = n]
            /\ budget' = [budget EXCEPT ![g] = BudgetFor(d)]
            /\ board' = [board EXCEPT ![g] = published]
    /\ UNCHANGED <<settled, round, member, total>>

Register(g, k, o, c) ==
    /\ kind[g] = "none"
    /\ kind' = [kind EXCEPT ![g] = k]
    /\ origin' = [origin EXCEPT ![g] = o]
    /\ caller' = [caller EXCEPT ![g] = c]

\* Mutant: a team that is shut down keeps its agents counted
ShutDown_Uncounted(f) ==
    /\ team' = [team EXCEPT ![f] = "gone"]
    /\ total' = total
    /\ member' = [member EXCEPT ![f] = [t \in Task |-> "none"]]
    /\ board' = [board EXCEPT ![f] = {}]
    /\ agent' = [agent EXCEPT ![f] =
                   [t \in Task |-> IF agent[f][t] = "none" THEN "none" ELSE "over"]]
    /\ UNCHANGED <<depth, budget>>

\* TeamRegistry::shutdown; on a team that is gone it changes nothing
ShutDown(f) ==
    /\ team' = [team EXCEPT ![f] = "gone"]
    /\ total' = total - Cardinality(Members(f))
    /\ member' = [member EXCEPT ![f] = [t \in Task |-> "none"]]
    /\ board' = [board EXCEPT ![f] = {}]
    /\ agent' = [agent EXCEPT ![f] =
                   [t \in Task |-> IF agent[f][t] = "none" THEN "none" ELSE "over"]]
    /\ UNCHANGED <<depth, budget>>

\* the team_shutdown tool, called by a client
TeamShutdownTool(f) ==
    /\ Exists(f)
    /\ ShutDown(f)
    /\ UNCHANGED <<registry, pc, defs, settled, round, disk, crashes>>

\* the team's timeout_secs have passed
TeamExpires(f) ==
    /\ team[f] = "live"
    /\ team' = [team EXCEPT ![f] = "expired"]
    /\ UNCHANGED <<registry, pc, defs, settled, round, depth, budget, member,
                   board, total, agent, disk, crashes>>

-----------------------------------------------------------------------------
\* How flows begin

\* Rows that are missing because the audit log refused them
Missing == {p \in Flow \X Task : p[2] \in unaudited[p[1]]}
           \cup {f \in Flow : yaml[f] # << >> /\ meta[f] = "none"}

\* Which of the rows S it refuses now: none, some, or every one if there is no
\* audit log. The callers warn at most, and go on.
Refusals(S) ==
    {R \in SUBSET S : R = {} \/ Cardinality(Missing) + Cardinality(R) <= MaxRefused}

\* save_flow_metadata; nothing that is read depends on the status which
\* complete_flow_metadata writes into the row at the end
SaveMetadata(f) ==
    \E refused \in Refusals({f}) :
        meta' = [meta EXCEPT ![f] = IF f \in refused THEN @ ELSE "saved"]

\* handle_flow_start
StartFlow(f, y) ==
    /\ f \in Started
    /\ Register(f, "start", NoFlow, NoTask)
    /\ yaml' = [yaml EXCEPT ![f] = y]
    /\ SaveMetadata(f)
    /\ Begin(f, 0, y, {}, "failed")
    /\ UNCHANGED <<agent, checkpoint, results, unaudited, crashes>>

\* handle_flow_escalate; the agent waits for the answer with its permit
Escalate(f, t, g, d) ==
    /\ agent[f][t] = "running"
    /\ depth[f] < MaxDepth
    /\ Register(g, "sub", f, t)
    /\ Begin(g, depth[f] + 1, d, {}, "failed")
    /\ agent' = IF TeamRefused(d) THEN agent
                ELSE [agent EXCEPT ![f][t] = "calling"]
    /\ UNCHANGED <<disk, crashes>>

\* handle_flow_resume does not ask whether the flow still runs
Resumable(f) == Overlap \/ pc[f] \in {"over", "dead"}

\* The results it copies to the new flow
CopyResults(g, done) ==
    \E refused \in Refusals(done) :
        /\ results' = [results EXCEPT ![g] =
             [t \in Task |-> IF t \in done \ refused THEN "done" ELSE "none"]]
        /\ unaudited' = [unaudited EXCEPT ![g] = refused]

\* handle_flow_resume with a checkpoint
ResumeCheckpoint(f, g) ==
    LET cp == checkpoint[f] IN
    /\ Resumable(f) /\ cp.kept /\ DOMAIN cp.defs # {}
    /\ Register(g, "resume", f, NoTask)
    /\ CopyResults(g, cp.completed)
    /\ Begin(g, 0, cp.defs, cp.completed, "running")
    /\ UNCHANGED <<agent, checkpoint, yaml, meta, crashes>>

\* handle_flow_resume without one: the YAML less the tasks the audit log has done
ResumeAudit(f, g) ==
    LET done == {t \in Task : results[f][t] = "done"} IN
    /\ Resumable(f) /\ ~checkpoint[f].kept /\ meta[f] # "none"
    /\ Pending(yaml[f], done) # {}
    /\ Register(g, "resume", f, NoTask)
    /\ CopyResults(g, done)
    /\ yaml' = [yaml EXCEPT ![g] = yaml[f]]
    /\ SaveMetadata(g)
    /\ Begin(g, 0, Without(yaml[f], done), {}, "running")
    /\ UNCHANGED <<agent, checkpoint, crashes>>

-----------------------------------------------------------------------------
\* A round of the loop: select, spawn, poll, record, save, inject

Ready(f) == {i \in Pending(defs[f], Settled(f)) : defs[f][i].deps \subseteq Settled(f)}

Throttled(S) ==
    IF MaxParallel = 0 THEN S
    ELSE {i \in S : Cardinality({j \in S : j < i}) < MaxParallel}

\* Mutant: total is not updated when a planner adds tasks
Blocked_StaleTotal(f) ==
    /\ Ready(f) = {}
    /\ Cardinality(completed[f]) + Cardinality(failed[f]) < Cardinality(DOMAIN yaml[f])
    /\ Pending(defs[f], Settled(f)) # {}

Blocked(f) ==
    /\ Ready(f) = {}
    /\ Cardinality(completed[f]) + Cardinality(failed[f]) < Cardinality(DOMAIN defs[f])
    /\ Pending(defs[f], Settled(f)) # {}

SelectBatch(f) ==
    /\ pc[f] = "select" /\ Ready(f) # {}
    /\ batch' = [batch EXCEPT ![f] = Throttled(Ready(f))]
    /\ todo' = [todo EXCEPT ![f] = Throttled(Ready(f))]
    /\ spawned' = [spawned EXCEPT ![f] = {}]
    /\ pc' = [pc EXCEPT ![f] = "add"]
    /\ UNCHANGED <<registry, defs, settled, teams, agent, disk, crashes>>

\* "Flow deadlocked"
Deadlock(f) ==
    /\ pc[f] = "select" /\ Blocked(f)
    /\ status' = [status EXCEPT ![f] = "failed"]
    /\ pc' = [pc EXCEPT ![f] = "report"]
    /\ ShutDown(f)
    /\ UNCHANGED <<kind, origin, caller, defs, settled, round, disk, crashes>>

Finish(f) ==
    /\ pc[f] = "select" /\ Ready(f) = {} /\ ~Blocked(f)
    /\ checkpoint' = [checkpoint EXCEPT ![f] = NoCheckpoint]
    /\ status' = [status EXCEPT ![f] = "completed"]
    /\ pc' = [pc EXCEPT ![f] = "report"]
    /\ ShutDown(f)
    /\ UNCHANGED <<kind, origin, caller, defs, settled, round, results, yaml,
                   meta, unaudited, crashes>>

\* The task the stage is at
Current(f) == defs[f][Lowest(todo[f])].id

\* On to the next task of the batch, or to the given stage after the last one
NextOr(f, again, stage) ==
    LET rest == todo[f] \ {Lowest(todo[f])} IN
    /\ todo' = [todo EXCEPT ![f] = rest]
    /\ pc' = [pc EXCEPT ![f] = IF rest = {} THEN stage ELSE again]
    /\ UNCHANGED batch

MayAdd(f) ==
    /\ Exists(f) /\ member[f][Current(f)] = "none" /\ total < budget[f]

\* add_teammate
AddMember(f) ==
    /\ pc[f] = "add" /\ MayAdd(f)
    /\ member' = [member EXCEPT ![f][Current(f)] = "idle"]
    /\ total' = total + 1
    /\ pc' = [pc EXCEPT ![f] = "send"]
    /\ UNCHANGED <<registry, defs, settled, round, team, depth, budget, board,
                   agent, disk, crashes>>

\* add_teammate or send_message errs: the task has failed
SpawnFails(f) ==
    /\ \/ pc[f] = "add" /\ ~MayAdd(f)
       \/ pc[f] = "send" /\ team[f] # "live"
    /\ failed' = [failed EXCEPT ![f] = @ \cup {Current(f)}]
    /\ NextOr(f, "add", "poll")
    /\ UNCHANGED <<registry, defs, completed, spawned, teams, agent, disk, crashes>>

\* send_message, spawn_teammate_agent, store_handle, record_flow_task_start,
\* whose error is dropped
Launch(f) ==
    /\ pc[f] = "send" /\ team[f] = "live"
    /\ member' = [member EXCEPT ![f][Current(f)] = "working"]
    /\ agent' = [agent EXCEPT ![f][Current(f)] = "waiting"]
    /\ results' \in {results, [results EXCEPT ![f][Current(f)] = "none"]}
    /\ spawned' = [spawned EXCEPT ![f] = @ \cup {Current(f)}]
    /\ NextOr(f, "add", "poll")
    /\ UNCHANGED <<registry, defs, settled, team, depth, budget, board, total,
                   checkpoint, yaml, meta, unaudited, crashes>>

\* poll_tasks_until_done reads one teammate's status
Collect(f, t) ==
    /\ pc[f] = "poll" /\ t \in spawned[f] \ Settled(f)
    /\ \/ /\ member[f][t] = "done"
          /\ completed' = [completed EXCEPT ![f] = @ \cup {t}]
          /\ UNCHANGED failed
       \/ /\ member[f][t] = "failed"
          /\ failed' = [failed EXCEPT ![f] = @ \cup {t}]
          /\ UNCHANGED completed
    /\ UNCHANGED <<registry, pc, defs, round, teams, agent, disk, crashes>>

BatchDone(f) ==
    /\ pc[f] = "poll" /\ spawned[f] \subseteq Settled(f)
    /\ pc' = [pc EXCEPT ![f] = "record"]
    /\ UNCHANGED <<registry, defs, settled, round, teams, agent, disk, crashes>>


\* The flow has run for 3600 s (a subflow for 900 s)
PollTimeout(f) ==
    /\ pc[f] = "poll" /\ ~(spawned[f] \subseteq Settled(f))
    /\ status' = [status EXCEPT ![f] = "failed"]
    /\ pc' = [pc EXCEPT ![f] = "report"]
    /\ ShutDown(f)
    /\ UNCHANGED <<kind, origin, caller, defs, settled, round, disk, crashes>>

\* Mutant: the audit reads the teammate, who goes with the team
Outcome_InTeam(f, t) ==
    IF member[f][t] \in {"done", "failed"} THEN member[f][t] ELSE results[f][t]

Outcome(f, t) ==
    IF t \in completed[f] THEN "done"
    ELSE IF t \in failed[f] THEN "failed" ELSE results[f][t]

\* record_task_results_to_audit: a row the audit log refuses keeps its old value
\* and the flow goes on; the loop of a subflow ends its round here
RecordResults(f) ==
    /\ pc[f] = "record"
    /\ \E refused \in Refusals(spawned[f]) :
         /\ results' = [results EXCEPT ![f] =
              [t \in Task |-> IF t \in spawned[f] \ refused THEN Outcome(f, t)
                                                         ELSE results[f][t]]]
         /\ unaudited' = [unaudited EXCEPT ![f] = (@ \ spawned[f]) \cup refused]
    /\ pc' = [pc EXCEPT ![f] = IF kind[f] = "sub" THEN "select" ELSE "save"]
    /\ UNCHANGED <<registry, defs, settled, round, teams, agent, checkpoint,
                   yaml, meta, crashes>>

\* Mutant: no findings are published when the checkpoint cannot be written
SaveCheckpoint_OrReturn(f) ==
    LET planners == {i \in batch[f] : defs[f][i].gen} IN
    /\ pc[f] = "save"
    /\ \/ /\ checkpoint' = [checkpoint EXCEPT ![f] =
               [completed |-> completed[f], failed |-> failed[f],
                defs |-> Without(defs[f], Settled(f)), kept |-> TRUE]]
          /\ board' = [board EXCEPT ![f] =
               IF Exists(f) THEN @ \cup (spawned[f] \cap completed[f]) ELSE @]
       \/ UNCHANGED <<checkpoint, board>>
    /\ todo' = [todo EXCEPT ![f] = planners]
    /\ pc' = [pc EXCEPT ![f] = IF planners = {} THEN "select" ELSE "inject"]
    /\ UNCHANGED <<registry, defs, settled, batch, spawned, team, depth, budget,
                   member, total, agent, results, yaml, meta, unaudited, crashes>>

\* The checkpoint, whose write may fail, then the findings of the batch
SaveCheckpoint(f) ==
    LET planners == {i \in batch[f] : defs[f][i].gen} IN
    /\ pc[f] = "save"
    /\ \/ checkpoint' = [checkpoint EXCEPT ![f] =
            [completed |-> completed[f], failed |-> failed[f],
             defs |-> Without(defs[f], Settled(f)), kept |-> TRUE]]
       \/ UNCHANGED checkpoint
    /\ board' = [board EXCEPT ![f] =
         IF Exists(f) THEN @ \cup (spawned[f] \cap completed[f]) ELSE @]
    /\ todo' = [todo EXCEPT ![f] = planners]
    /\ pc' = [pc EXCEPT ![f] = IF planners = {} THEN "select" ELSE "inject"]
    /\ UNCHANGED <<registry, defs, settled, batch, spawned, team, depth, budget,
                   member, total, agent, results, yaml, meta, unaudited, crashes>>

\* The definitions after the planner's tasks p are appended: those without
\* dependencies wait for the planner, and every sink waits for all of them
Extended(d, planner, p) ==
    LET n == Last(d)
        new(k) == [p[k] EXCEPT !.deps = IF @ = {} THEN {planner} ELSE @]
        all == [i \in DOMAIN d \cup (n+1)..(n+Len(p)) |->
                  IF i \in DOMAIN d THEN d[i] ELSE new(i - n)]
    IN [i \in DOMAIN all |->
          IF all[i].id \in Sink THEN [all[i] EXCEPT !.deps = @ \cup Ids(p)] ELSE all[i]]

Inject(f, p) ==
    /\ pc[f] = "inject"
    /\ defs' = IF Current(f) \in completed[f]
               THEN [defs EXCEPT ![f] = Extended(@, Current(f), p)]
               ELSE defs
    /\ NextOr(f, "inject", "select")
    /\ UNCHANGED <<registry, settled, spawned, teams, agent, disk, crashes>>

\* After run_dag_execution: a flow resumed from a checkpoint drops it, a subflow
\* answers its caller; the local variables go with the call
Report(f) ==
    /\ pc[f] = "report"
    /\ pc' = [pc EXCEPT ![f] = "over"]
    /\ checkpoint' = IF kind[f] = "resume" /\ yaml[f] = << >>
                     THEN [checkpoint EXCEPT ![origin[f]] = NoCheckpoint]
                     ELSE checkpoint
    /\ agent' = IF kind[f] = "sub" /\ agent[origin[f]][caller[f]] = "calling"
                THEN [agent EXCEPT ![origin[f]][caller[f]] = "running"]
                ELSE agent
    /\ defs' = [defs EXCEPT ![f] = << >>]
    /\ completed' = [completed EXCEPT ![f] = {}]
    /\ failed' = [failed EXCEPT ![f] = {}]
    /\ batch' = [batch EXCEPT ![f] = {}]
    /\ todo' = [todo EXCEPT ![f] = {}]
    /\ spawned' = [spawned EXCEPT ![f] = {}]
    /\ UNCHANGED <<registry, teams, results, yaml, meta, unaudited, crashes>>

-----------------------------------------------------------------------------
\* An agent: spawn_containerized_agent and its siblings

Acquire(f, t) ==
    /\ agent[f][t] = "waiting"
    /\ Cardinality(HoldsPermit) < Permits
    /\ agent' = [agent EXCEPT ![f][t] = "running"]
    /\ UNCHANGED <<registry, pc, defs, settled, round, teams, disk, crashes>>

AgentEnds(f, t, outcome) ==
    /\ agent' = [agent EXCEPT ![f][t] = "over"]
    /\ member' = [member EXCEPT ![f][t] = outcome]
    /\ UNCHANGED <<registry, pc, defs, settled, round, team, depth, budget,
                   board, total, disk, crashes>>

Answer(f, t) ==
    /\ agent[f][t] = "running"
    /\ \E outcome \in {"done", "failed"} : AgentEnds(f, t, outcome)

\* tokio::time::timeout around the permit and the run
Deadline(f, t) ==
    /\ agent[f][t] \in {"waiting", "running", "calling"}
    /\ AgentEnds(f, t, "failed")

\* The process dies: only the three tables stay
Crash ==
    /\ crashes < MaxCrashes
    /\ crashes' = crashes + 1
    /\ status' = [f \in Flow |-> "none"]
    /\ pc' = [f \in Flow |-> IF pc[f] = "none" THEN "none" ELSE "dead"]
    /\ defs' = [f \in Flow |-> << >>]
    /\ completed' = [f \in Flow |-> {}]
    /\ failed' = [f \in Flow |-> {}]
    /\ batch' = [f \in Flow |-> {}]
    /\ todo' = [f \in Flow |-> {}]
    /\ spawned' = [f \in Flow |-> {}]
    /\ team' = [f \in Flow |-> "none"]
    /\ member' = [f \in Flow |-> [t \in Task |-> "none"]]
    /\ board' = [f \in Flow |-> {}]
    /\ total' = 0
    /\ agent' = [f \in Flow |-> [t \in Task |-> "none"]]
    /\ UNCHANGED <<kind, origin, caller, depth, budget, disk>>

-----------------------------------------------------------------------------

FlowStep(f) ==
    \/ SelectBatch(f) \/ Deadlock(f) \/ Finish(f)
    \/ AddMember(f) \/ SpawnFails(f) \/ Launch(f)
    \/ \E t \in Task : Collect(f, t)
    \/ BatchDone(f) \/ PollTimeout(f)
    \/ RecordResults(f) \/ SaveCheckpoint(f)
    \/ \E p \in Plans : Inject(f, p)
    \/ Report(f)

AgentStep(f, t) == Acquire(f, t) \/ Answer(f, t) \/ Deadline(f, t)

Next ==
    \/ \E f \in Flow :
         \/ \E y \in Yamls : StartFlow(f, y)
         \/ \E g \in Flow : ResumeCheckpoint(f, g) \/ ResumeAudit(f, g)
         \/ \E t \in Task, g \in Flow, d \in SubDefs : Escalate(f, t, g, d)
         \/ FlowStep(f) \/ \E t \in Task : AgentStep(f, t)
         \/ TeamShutdownTool(f) \/ TeamExpires(f)
    \/ Crash

Spec == Init /\ [][Next]_vars

\* The loop of a flow is a task of the runtime, and the clock its poll reads goes on
FairSpec == Spec /\ \A f \in Flow : WF_vars(FlowStep(f))

-----------------------------------------------------------------------------
\* What flows, teams and restarts guarantee

\* total_agents counts the teammates of the teams that exist, and a team's
\* members never pass the budget it was created with.
AgentsCounted ==
    /\ total = Cardinality({p \in Flow \X Task : member[p[1]][p[2]] # "none"})
    /\ \A f \in Flow : Cardinality(Members(f)) <= budget[f]

\* A flow the registry reports completed has settled every task it was given
\* or a planner added, each either completed or failed.
EndsSettled ==
    \A f \in Flow :
        /\ completed[f] \cap failed[f] = {}
        /\ status[f] = "completed" /\ pc[f] = "report" => Ids(defs[f]) \subseteq Settled(f)

\* Definitions that share an id wait for the same tasks, or the id for itself
Agree(d) ==
    \A i, j \in DOMAIN d :
        d[i].id = d[j].id => d[i].id \in d[i].deps \/ d[j].deps \subseteq d[i].deps

OnePlanner(d) == \A i, j \in DOMAIN d : d[i].gen /\ d[j].gen => i = j

\* What a planner of d may add is new, but for a sink, and every sink waits for it
Open(d) ==
    \A i \in DOMAIN d : d[i].gen =>
        /\ \A p \in Plans : Ids(p) \cap Ids(d) \subseteq Sink
        /\ \A j \in DOMAIN d : d[j].id \in Sink => d[i].id \in d[j].deps

WellFormed(d) == Agree(d) /\ OnePlanner(d) /\ Open(d)

\* TaskDefinition (definition.rs:131) calls an id a "Unique task identifier", but
\* neither the YAML nor a plan is refused for breaking this: it is what the one
\* who writes them has to see to for DependentsSeeFindings to hold.
WellFormedFlows ==
    /\ \A d \in Yamls \cup SubDefs : WellFormed(d)
    /\ \A p \in Plans : \A i, j \in DOMAIN p :
         ~p[i].gen /\ (p[i].id = p[j].id => p[i].deps = p[j].deps)

\* When a task has an agent, everything it depends on, the tasks a planner
\* added for it included, is settled, and what completed is on the blackboard.
DependentsSeeFindings ==
    \A f \in Flow : \A i \in DOMAIN defs[f] :
        Exists(f) /\ agent[f][defs[f][i].id] # "none" =>
            /\ defs[f][i].deps \subseteq Settled(f)
            /\ kind[f] # "sub" => defs[f][i].deps \cap completed[f] \subseteq board[f]

\* What a flow's checkpoint calls completed has its result in the audit log but
\* for the rows the log itself refused (flow_tools.rs:808 warns and goes on):
\* no timeout, shutdown or crash on the way loses another one. And it forgets
\* no task of the YAML: completed, failed or still to run.
CheckpointBacked ==
    \A f \in Flow : checkpoint[f].kept =>
        /\ \A t \in checkpoint[f].completed \ unaudited[f] : results[f][t] = "done"
        /\ kind[f] = "start" =>
             Ids(yaml[f]) \subseteq checkpoint[f].completed \cup checkpoint[f].failed
                                    \cup Ids(checkpoint[f].defs)


\* flow_tools.rs:1006 says of flow_resume that it "Skips completed tasks ...
\* and runs only the remaining ones": a resumed flow finds a task to run as
\* long as some remain.
ResumeRuns == \A f \in Flow : kind[f] = "resume" /\ pc[f] = "select" => ~Blocked(f)

\* flow_tools.rs:1006 says too that the completed tasks are "read from audit.db",
\* so what a checkpoint calls completed should be there. The audit log may refuse
\* a row and the checkpoint still be written.
CheckpointAudited ==
    \A f \in Flow : checkpoint[f].kept =>
        \A t \in checkpoint[f].completed : results[f][t] = "done"

=============================================================================
