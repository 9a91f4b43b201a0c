-------------------------------- MODULE AcpRuns --------------------------------
(***************************************************************************)
(* ACP runs: the run store, the executor of each run, clients that create, *)
(* cancel and leave runs, and the sweep that removes finished ones         *)
(* (navra-core acp/store.rs, acp/dispatch.rs, transport/acp.rs;            *)
(* navra-server acp_agent.rs).  Each call of the store takes its own lock. *)
(***************************************************************************)
CONSTANTS
    Run,      \* runs that may be created
    Client(_) \* clients that may cancel a run, each once

VARIABLES
    dispatcher, \* ToolDispatcher or AgentDispatcher
    mode,       \* how the client asked for the run
    \* the store
    status,
    finished,   \* finished_at: unset, within RUN_MAX_AGE_SECS, or older
    output,     \* the run has its output message
    logged,     \* the store has a list of events for the run
    \* its users
    pc,         \* the run's executor
    stream,     \* the channel of 64 events that only the stream's client drains
    reads,      \* for each run and client, the status its cancel handler read
    collected   \* runs the sweep found under its read lock

store == <<status, finished, output, logged>>
vars == <<dispatcher, mode, store, pc, stream, reads, collected>>

Terminal == {"completed", "failed", "cancelled"}
Known == {"created", "in-progress"} \cup Terminal
Background == {"async", "stream"}

TypeOK ==
    /\ dispatcher \in {"tools", "agent"}
    /\ mode \in [Run -> {"none", "sync"} \cup Background]
    /\ status \in [Run -> {"none", "removed"} \cup Known]
    /\ finished \in [Run -> {"unset", "recent", "old"}]
    /\ output \in [Run -> BOOLEAN] /\ logged \in [Run -> BOOLEAN]
    /\ pc \in [Run -> {"none", "start", "run", "finish", "log", "done", "left", "panicked"}]
    /\ stream \in [Run -> {"open", "full", "drained"}]
    /\ reads = [r \in Run |-> reads[r]]
    /\ \A r \in Run : reads[r] \in [Client(r) -> {"none", "answered"} \cup Known]
    /\ collected \in SUBSET Run

Init ==
    /\ dispatcher \in {"tools", "agent"}
    /\ mode = [r \in Run |-> "none"]
    /\ status = [r \in Run |-> "none"]
    /\ finished = [r \in Run |-> "unset"]
    /\ output = [r \in Run |-> FALSE]
    /\ logged = [r \in Run |-> FALSE]
    /\ pc = [r \in Run |-> "none"]
    /\ stream = [r \in Run |-> "open"]
    /\ reads = [r \in Run |-> [c \in Client(r) |-> "none"]]
    /\ collected = {}

-----------------------------------------------------------------------------

\* POST /acp/runs; the executor is awaited (sync) or spawned
Create(r, m) ==
    /\ status[r] = "none"
    /\ mode' = [mode EXCEPT ![r] = m]
    /\ status' = [status EXCEPT ![r] = "created"]
    /\ logged' = [logged EXCEPT ![r] = TRUE]
    /\ pc' = [pc EXCEPT ![r] = "start"]
    /\ UNCHANGED <<dispatcher, finished, output, stream, reads, collected>>

Exists(r) == status[r] \in Known

\* The ToolDispatcher sends a stream's events to the client only
Logs(r) == ~(dispatcher = "tools" /\ mode[r] = "stream")

\* Whatever the status was
Start(r) ==
    /\ pc[r] = "start"
    /\ status' = [status EXCEPT ![r] = IF Exists(r) THEN "in-progress" ELSE @]
    /\ logged' = [logged EXCEPT ![r] = @ \/ (Exists(r) /\ Logs(r))]
    /\ pc' = [pc EXCEPT ![r] = "run"]
    /\ UNCHANGED <<dispatcher, mode, finished, output, stream, reads, collected>>

\* execute_run_stream awaits tx.send on a full channel; a run sends a number of
\* events fixed by its input, and one wait stands for all of them
Fill(r) ==
    /\ pc[r] = "run" /\ dispatcher = "tools" /\ mode[r] = "stream" /\ stream[r] = "open"
    /\ stream' = [stream EXCEPT ![r] = "full"]
    /\ UNCHANGED <<dispatcher, mode, store, pc, reads, collected>>

\* The client reads on, or goes away: then tx.send fails, which is ignored
Drain(r) ==
    /\ stream[r] = "full"
    /\ stream' = [stream EXCEPT ![r] = "drained"]
    /\ UNCHANGED <<dispatcher, mode, store, pc, reads, collected>>

\* Mutant: the message is logged, and stored after the run has finished
Save_Late(r) ==
    /\ pc[r] = "run" /\ stream[r] # "full"
    /\ logged' = [logged EXCEPT ![r] = @ \/ Logs(r)]
    /\ pc' = [pc EXCEPT ![r] = "finish"]
    /\ UNCHANGED <<dispatcher, mode, status, finished, output, stream, reads, collected>>

\* The tools, or the agent's loop, have answered: add_event, even for a run
\* the store has no more, and add_output_message
Save(r) ==
    /\ pc[r] = "run" /\ stream[r] # "full"
    /\ output' = [output EXCEPT ![r] = Exists(r)]
    /\ logged' = [logged EXCEPT ![r] = @ \/ Logs(r)]
    /\ pc' = [pc EXCEPT ![r] = "finish"]
    /\ UNCHANGED <<dispatcher, mode, status, finished, stream, reads, collected>>

\* set_finished and set_error; the executors expect the run to exist
Settle(r, s) ==
    /\ status' = [status EXCEPT ![r] = IF Exists(r) THEN s ELSE @]
    /\ finished' = [finished EXCEPT ![r] = IF Exists(r) THEN "recent" ELSE @]
    /\ pc' = [pc EXCEPT ![r] = IF Exists(r) THEN "log" ELSE "panicked"]
    /\ UNCHANGED <<dispatcher, mode, output, logged, stream, reads, collected>>

Finish(r) == pc[r] = "finish" /\ Settle(r, "completed")

\* The peer cannot be connected, or the agent's loop returns an error
Fail(r) == pc[r] = "run" /\ dispatcher = "agent" /\ Settle(r, "failed")

\* The rest of set_finished reads the run again; then the last event
Log(r) ==
    /\ pc[r] = "log"
    /\ logged' = [logged EXCEPT ![r] = @ \/ (Exists(r) /\ Logs(r))]
    /\ pc' = [pc EXCEPT ![r] = IF Exists(r) THEN "done" ELSE "panicked"]
    /\ UNCHANGED <<dispatcher, mode, status, finished, output, stream, reads, collected>>

\* The client of a sync run goes away: the handler's future is dropped where
\* it awaits a tool or the agent
Leave(r) ==
    /\ pc[r] = "run" /\ mode[r] = "sync"
    /\ pc' = [pc EXCEPT ![r] = "left"]
    /\ UNCHANGED <<dispatcher, mode, store, stream, reads, collected>>

-----------------------------------------------------------------------------

\* POST /acp/runs/{id}/cancel: the handler clones the run
ReadRun(r, c) ==
    /\ reads[r][c] = "none" /\ Exists(r)
    /\ reads' = [reads EXCEPT ![r][c] = status[r]]
    /\ UNCHANGED <<dispatcher, mode, store, pc, stream, collected>>

Cancelling(r) ==
    /\ status' = [status EXCEPT ![r] = IF Exists(r) THEN "cancelled" ELSE @]
    /\ finished' = [finished EXCEPT ![r] = IF Exists(r) THEN "recent" ELSE @]
    /\ logged' = [logged EXCEPT ![r] = @ \/ Exists(r)]

\* A finished run is refused, by the status that was read
Cancel(r, c) ==
    /\ reads[r][c] \in Known
    /\ reads' = [reads EXCEPT ![r][c] = "answered"]
    /\ IF reads[r][c] \in Terminal THEN UNCHANGED <<status, finished, logged>>
       ELSE Cancelling(r)
    /\ UNCHANGED <<dispatcher, mode, output, pc, stream, collected>>

Asked(r) == {c \in Client(r) : reads[r][c] # "none"}
Open(r) == {c \in Client(r) : reads[r][c] \in Known}

\* RUN_MAX_AGE_SECS is an hour: only tools and agents take that long
Age(r) ==
    /\ finished[r] = "recent" /\ pc[r] \in {"run", "done", "left", "panicked"}
    /\ Open(r) = {} /\ collected = {}
    /\ finished' = [finished EXCEPT ![r] = "old"]
    /\ UNCHANGED <<dispatcher, mode, status, output, logged, pc, stream, reads, collected>>

\* Mutant: a run that has not finished is as old as can be
Expirable_Unfinished(r) == Exists(r) /\ finished[r] # "recent"

\* Mutant: the sweep forgets cancelled runs
Expirable_Forgetful(r) == status[r] \in {"completed", "failed"} /\ finished[r] = "old"

Expirable(r) == status[r] \in Terminal /\ finished[r] = "old"

\* expire: finds the runs under a read lock
Collect ==
    /\ collected = {}
    /\ \E r \in Run : Expirable(r)
    /\ collected' = {r \in Run : Expirable(r)}
    /\ UNCHANGED <<dispatcher, mode, store, pc, stream, reads>>

\* expire: removes them and their events under the write locks
Remove ==
    /\ collected # {}
    /\ status' = [r \in Run |-> IF r \in collected THEN "removed" ELSE status[r]]
    /\ finished' = [r \in Run |-> IF r \in collected THEN "unset" ELSE finished[r]]
    /\ output' = [r \in Run |-> output[r] /\ r \notin collected]
    /\ logged' = [r \in Run |-> logged[r] /\ r \notin collected]
    /\ collected' = {}
    /\ UNCHANGED <<dispatcher, mode, pc, stream, reads>>

Execute(r) == Start(r) \/ Save(r) \/ Finish(r) \/ Fail(r) \/ Log(r)

Next ==
    \/ \E r \in Run :
        \/ \E m \in {"sync"} \cup Background : Create(r, m)
        \/ Execute(r) \/ Fill(r) \/ Drain(r) \/ Leave(r) \/ Age(r)
        \/ \E c \in Client(r) : ReadRun(r, c) \/ Cancel(r, c)
    \/ Collect \/ Remove

Spec == Init /\ [][Next]_vars

\* Executors, handlers and the clock go on, and the sweep runs every five
\* minutes.  Clients need not do anything, and Execute asks for no more: a full
\* channel disables it until its client drains it, which is not fair
FairSpec ==
    /\ Spec
    /\ \A r \in Run : WF_vars(Execute(r)) /\ WF_vars(Age(r))
    /\ \A r \in Run : \A c \in Client(r) : WF_vars(Cancel(r, c))
    /\ WF_vars(Collect) /\ WF_vars(Remove)

-----------------------------------------------------------------------------

\* The sweep never takes a run away from its executor, and leaves nothing of
\* it behind, unless a client asked to cancel the run: expire goes by status
\* and finished_at, and only a cancel sets those while the executor works.
SweptWereDone ==
    \A r \in Run : status[r] = "removed" /\ Asked(r) = {} => pc[r] = "done" /\ ~logged[r]

\* A run that reads as completed has its output message: clients poll the
\* status and then take the output.
CompletedHasOutput == \A r \in Run : status[r] = "completed" => output[r]

\* The store does not fill up: every run leaves it at last, except one that is
\* still in progress because its sync client left it unfinished or its stream's
\* client does not read; once cancelled, those go as well.
RunsGo ==
    \A r \in Run :
        status[r] # "none"
        ~> \/ status[r] = "removed"
           \/ status[r] = "in-progress" /\ (pc[r] = "left" \/ stream[r] = "full")

=============================================================================
