----------------------------- MODULE HandoffFlow -----------------------------
(***************************************************************************)
(* Flow::run and run_node_loop (navra-flow/src/engine.rs): nodes visited   *)
(* one after the other, each an agent loop that may hand off to another,   *)
(* with the mailboxes and the blackboard they share.  A Flow can be run    *)
(* again: its agents, mailboxes and blackboard keep what they hold.        *)
(*                                                                         *)
(* Text is abstracted to where it comes from.  Of a conversation, a        *)
(* message or an entry the history fields `content` keep the integrity of  *)
(* what its writer took through tools and the board (read), and of         *)
(* everything it was derived from, mail and hand-off tasks included (any). *)
(***************************************************************************)
EXTENDS DataLabels, Sequences, FiniteSets

CONSTANTS
    Node,
    Entry,          \* the entry node
    Key,            \* blackboard keys
    MaxHops,        \* visits one run may make
    MaxIterations,  \* MaxIterations[n]: model responses per visit of n
    MaxCalls,       \* bound: function calls in one response
    MailCapacity,   \* messages a mailbox holds; 0: the flow has no mailboxes
    BoardCapacity,  \* entries the blackboard holds; 0: the flow has none
    MaxRuns,        \* bound: calls of run() on this Flow
    Nowhere,        \* a hand-off target that is no node
    NoEntry         \* an absent blackboard entry

ASSUME FlowAssumption ==
    /\ Entry \in Node
    /\ Nowhere \notin Node
    /\ MaxIterations \in [Node -> Nat]
    /\ {MaxHops, MaxCalls, MailCapacity, BoardCapacity, MaxRuns} \subseteq Nat

VARIABLES
    phase,       \* "respond": the model is asked; "call": its calls are served
    runs,        \* calls of run() so far
    node,        \* current_node_id
    hop,         \* visits begun in this run
    iteration,   \* responses processed in this visit
    calls,       \* function calls of the response still to serve
    context,     \* history: content of the node's conversation
    localTaint,  \* blackboard reads of this visit
    agentTaint,  \* per node: its client's tracker, kept over visits and runs
    flowTaint,   \* the tracker of this run
    held,        \* history: content of all conversations this run left
    mailbox,     \* per node: pending messages
    board        \* per key: its entry

visit == <<iteration, calls, context, localTaint>>
flow == <<runs, node, hop, flowTaint, held>>
vars == <<phase, visit, flow, agentTaint, mailbox, board>>

Content == [read : Integrity, any : Integrity]
Clean == [read |-> Trusted, any |-> Trusted]
Tainted == [read |-> Untrusted, any |-> Untrusted]
Mixed(c, d) == [read |-> Higher(c.read, d.read), any |-> Higher(c.any, d.any)]
Labelled == [label : DataLabel, content : Content]

Running == phase \in {"respond", "call"}

\* Labels, texts and counters stay in range.
TypeOK ==
    /\ phase \in {"idle", "respond", "call", "stopped", "failed"}
    /\ runs \in 0..MaxRuns
    /\ node \in Node
    /\ hop \in 0..MaxHops
    /\ iteration \in 0..MaxIterations[node]
    /\ calls \in 0..MaxCalls
    /\ (calls > 0) <=> (phase = "call")
    /\ {context, held} \subseteq Content
    /\ {localTaint, flowTaint} \subseteq DataLabel
    /\ agentTaint \in [Node -> DataLabel]
    /\ mailbox \in [Node -> Seq(Labelled)]
    /\ board \in [Key -> Labelled \cup {NoEntry}]

Init ==
    /\ phase = "idle"
    /\ runs = 0
    /\ node = Entry
    /\ hop = 0
    /\ iteration = 0
    /\ calls = 0
    /\ context = Clean
    /\ localTaint = TrustedPublic
    /\ agentTaint = [n \in Node |-> TrustedPublic]
    /\ flowTaint = TrustedPublic
    /\ held = Clean
    /\ mailbox = [n \in Node |-> <<>>]
    /\ board = [k \in Key |-> NoEntry]

-----------------------------------------------------------------------------
\* The label of what the node writes, and of its result.
NodeLabel_AgentOnly == agentTaint[node]
NodeLabel == Join(agentTaint[node], localTaint)

\* One turn of the hop loop: n starts with `text` in an empty conversation and
\* a fresh local tracker, or the loop is exhausted: FlowError::MaxHops.
Visit_HopKept(n, visits, text) ==
    /\ node' = n
    /\ IF visits < MaxHops
       THEN phase' = "respond" /\ hop' = IF visits = 0 THEN 1 ELSE visits
       ELSE phase' = "failed" /\ hop' = visits
    /\ iteration' = 0
    /\ calls' = 0
    /\ context' = text
    /\ localTaint' = TrustedPublic
Visit(n, visits, text) ==
    /\ node' = n
    /\ IF visits < MaxHops
       THEN phase' = "respond" /\ hop' = visits + 1
       ELSE phase' = "failed" /\ hop' = visits
    /\ iteration' = 0
    /\ calls' = 0
    /\ context' = text
    /\ localTaint' = TrustedPublic

StartRun ==
    /\ ~Running
    /\ runs < MaxRuns
    /\ runs' = runs + 1
    /\ flowTaint' = TrustedPublic
    /\ held' = Clean
    /\ Visit(Entry, 0, Clean)
    /\ UNCHANGED <<agentTaint, mailbox, board>>

\* A node's result arrives: the run's tracker absorbs its label.
LeaveNode_Latest ==
    /\ flowTaint' = NodeLabel
    /\ held' = Mixed(held, context)
LeaveNode ==
    /\ flowTaint' = Join(flowTaint, NodeLabel)
    /\ held' = Mixed(held, context)

EndVisit(outcome) ==
    /\ phase' = outcome
    /\ calls' = 0
    /\ UNCHANGED <<runs, node, hop, iteration, context, localTaint, agentTaint,
                   mailbox, board>>

\* Listing the tools, the model, a tool or the parsing of a virtual call fails:
\* run() returns the error, the node's label is not absorbed.
NodeError == Running /\ EndVisit("failed") /\ UNCHANGED <<flowTaint, held>>

\* run_node_loop's loop is exhausted: AgentError::MaxIterations.
IterationsExhausted ==
    /\ phase = "respond"
    /\ iteration = MaxIterations[node]
    /\ EndVisit("failed")
    /\ UNCHANGED <<flowTaint, held>>

\* A response without calls is the flow's response.
Stop ==
    /\ phase = "respond"
    /\ iteration < MaxIterations[node]
    /\ LeaveNode
    /\ EndVisit("stopped")

RespondWithCalls(n) ==
    /\ phase = "respond"
    /\ iteration < MaxIterations[node]
    /\ phase' = "call"
    /\ calls' = n
    /\ UNCHANGED <<iteration, context, localTaint, flow, agentTaint, mailbox, board>>

-----------------------------------------------------------------------------
\* The calls of a response are served in order; the last one ends the iteration.
CallServed ==
    /\ phase = "call"
    /\ calls' = calls - 1
    /\ phase' = IF calls = 1 THEN "respond" ELSE "call"
    /\ iteration' = IF calls = 1 THEN iteration + 1 ELSE iteration
    /\ UNCHANGED flow

\* handoff: the calls after it are dropped.  The task is text of the sender's
\* conversation and the target starts with it; no label goes along.  Edges only
\* decide whether the tool is offered: any node may be named.
Handoff(target) ==
    /\ phase = "call"
    /\ LeaveNode
    /\ IF target \in Node
       THEN Visit(target, hop, [read |-> Trusted, any |-> context.any])
       ELSE /\ phase' = "failed"
            /\ calls' = 0
            /\ UNCHANGED <<node, hop, iteration, context, localTaint>>
    /\ UNCHANGED <<runs, agentTaint, mailbox, board>>

\* Every mailbox has Public clearance.  A refused message is a text error.
Deliverable(label, target) ==
    /\ target \in Node
    /\ CanWriteTo(label, Public)
    /\ Len(mailbox[target]) < MailCapacity

MeshPost(target) ==
    /\ CallServed
    /\ mailbox' = IF Deliverable(NodeLabel, target)
                  THEN [mailbox EXCEPT ![target] =
                           Append(@, [label |-> NodeLabel, content |-> context])]
                  ELSE mailbox
    /\ UNCHANGED <<context, localTaint, agentTaint, board>>

\* What messages add to the conversation of their receiver.
MailContent(msgs) ==
    [read |-> Trusted,
     any |-> IF \E i \in DOMAIN msgs : msgs[i].content.any = Untrusted
             THEN Untrusted ELSE Trusted]

\* mesh_recv: all pending messages enter the conversation, their labels do not
\* enter the tracker.
MeshRecv ==
    /\ CallServed
    /\ context' = Mixed(context, MailContent(mailbox[node]))
    /\ mailbox' = [mailbox EXCEPT ![node] = <<>>]
    /\ UNCHANGED <<localTaint, agentTaint, board>>

\* Only a new key can be refused.  Overwriting replaces the label as well.
Publishable(k) ==
    \/ board[k] # NoEntry
    \/ Cardinality({j \in Key : board[j] # NoEntry}) < BoardCapacity

BbPublish(k) ==
    /\ CallServed
    /\ board' = IF Publishable(k)
                THEN [board EXCEPT ![k] = [label |-> NodeLabel, content |-> context]]
                ELSE board
    /\ UNCHANGED <<context, localTaint, agentTaint, mailbox>>

BbRead(k) ==
    /\ CallServed
    /\ IF board[k] = NoEntry
       THEN UNCHANGED <<context, localTaint>>
       ELSE /\ localTaint' = Join(localTaint, board[k].label)
            /\ context' = Mixed(context, board[k].content)
    /\ UNCHANGED <<agentTaint, mailbox, board>>

\* bb_keys: names only, no label.
BbKeys == CallServed /\ UNCHANGED <<context, localTaint, agentTaint, mailbox, board>>

UntrustedPublic == [integrity |-> Untrusted, confidentiality |-> Public]

\* A tool of the gateway itself (navra_*) is trusted, every other an external
\* read whose result taints the agent.
CallLabel_Trusted(external) == TrustedPublic
CallLabel(external) == IF external THEN UntrustedPublic ELSE TrustedPublic

CallTool(external) ==
    /\ CallServed
    /\ agentTaint' = [agentTaint EXCEPT ![node] = Join(@, CallLabel(external))]
    /\ context' = IF external THEN Mixed(context, Tainted) ELSE context
    /\ UNCHANGED <<localTaint, mailbox, board>>

-----------------------------------------------------------------------------
RunStep ==
    \/ NodeError
    \/ IterationsExhausted
    \/ Stop
    \/ \E n \in 1..MaxCalls : RespondWithCalls(n)
    \/ \E t \in Node \cup {Nowhere} : Handoff(t) \/ MeshPost(t)
    \/ MeshRecv
    \/ \E k \in Key : BbPublish(k) \/ BbRead(k)
    \/ BbKeys
    \/ \E external \in BOOLEAN : CallTool(external)

Next == StartRun \/ RunStep

\* Models and tools answer or fail; the caller need not run the flow again.
Spec == Init /\ [][Next]_vars /\ WF_vars(RunStep)

-----------------------------------------------------------------------------
\* What a node wrote carries at least the label of what its author had read
\* through tools and the blackboard, over any chain of authors (DataLabel in
\* BlackboardEntry and MailboxMessage; blackboard.rs `read` absorbs).
LabelsCoverReads ==
    /\ \A k \in Key : board[k] # NoEntry =>
           board[k].label.integrity >= board[k].content.read
    /\ \A n \in Node : \A i \in DOMAIN mailbox[n] :
           mailbox[n][i].label.integrity >= mailbox[n][i].content.read

\* FlowResult.taint of any run covers what every node visited in it had read
\* through tools and the blackboard, also where nodes that handed off were
\* followed by ones that read nothing.
ResultCoversReads == phase = "stopped" => flowTaint.integrity >= held.read

\* In the first run of a Flow the result covers mail and hand-off tasks too,
\* although neither carries its label along: whoever wrote them was absorbed.
FirstResultCovers ==
    phase = "stopped" /\ runs = 1 => flowTaint.integrity >= held.any

\* Every run returns, whatever the agents do: the hop loop and the iteration
\* loop bound ping-pong hand-offs and endless calls.
FlowEnds == Running ~> ~Running

\* Taint follows the data flow over every channel nodes share.  It does not: a
\* hand-off task carries no label (engine.rs `current_prompt = task`) and
\* mesh_recv absorbs none, so what the receiver publishes next is labelled as
\* if its author had read nothing.
EntriesCoverInputs ==
    \A k \in Key : board[k] # NoEntry =>
        board[k].label.integrity >= board[k].content.any
=============================================================================
