------------------------------- MODULE ToolLoop -------------------------------
(***************************************************************************)
(* An agent's loop of model requests and tool calls, run_tool_loop of      *)
(* navra-agent tool_loop/mod.rs: its limits, the conversation it keeps and *)
(* compacts, and the signals others send it while it works (signal.rs).    *)
(***************************************************************************)
EXTENDS Integers, FiniteSets, Sequences

CONSTANTS
    Call,          \* a tool name with arguments, as a model may ask for it
    Refused,       \* calls of unknown tools or with malformed arguments
    NonProgress,   \* calls of tools listed as non_progress_tools
    StatusPoll,    \* calls of flow_status and team_status
    HasSystem,     \* whether config.system_prompt is set
    Retrieval,     \* numbers of items a context_retriever may add, {0} for none
    MaxIterations, \* config.max_iterations
    TokenBudget,   \* config.max_tokens_per_run
    Usages,        \* tokens a response may report, 0 if it reports none
    KeepRecent,    \* config.effective_keep_recent()
    LoopThreshold, \* config.loop_detection_threshold, 0 for none
    Repetitions,   \* REPETITION_THRESHOLD
    Outputs,       \* what a model may answer
    MaxPolls       \* rounds of polling until the conversation is recorded no further

ASSUME LoopAssumption ==
    /\ Refused \cup NonProgress \cup StatusPoll \subseteq Call
    /\ HasSystem \in BOOLEAN /\ Retrieval \subseteq {0, 1} /\ Retrieval # {}
    /\ {MaxIterations, TokenBudget, KeepRecent, LoopThreshold, MaxPolls} \subseteq Nat
    /\ Usages \subseteq Nat /\ Repetitions \in Nat \ {0}

Output == [calls: Seq(Call), text: {"empty", "brief", "long"}]

ASSUME OutputsAssumption == Outputs \subseteq Output

VARIABLES
    pc,        \* "head", "paused", "request", "model", "calls", "compact" or "over"
    outcome,   \* how it ended
    input,     \* the conversation: from positions to items
    length,    \* items ever added to it, hence the last position
    progress,  \* progress_iterations
    exhausted, \* budget_exhausted
    retried,   \* empty_retries
    tokens,    \* total_tokens_consumed
    last,      \* the last of prev_outputs
    repeats,   \* how many of prev_outputs are equal to it, counted from the end
    todo,      \* function calls of the response still to serve
    counts,    \* the loop detector's, as far as it looks
    signal,    \* the value of the watch channel
    sender,    \* whether a SignalHandle exists
    requests,  \* history: model requests, less those that a round of polling answered;
               \* a hook's retry or a fallback apart
    polls,     \* history: rounds of polling, up to MaxPolls + 1
    late       \* history: requests since the signal became "pause" or "stop", up to two

loop == <<pc, outcome, progress, exhausted, retried, tokens, last, repeats, todo, counts>>
conversation == <<input, length>>
channel == <<signal, sender>>
vars == <<loop, conversation, channel, requests, polls, late>>

\* Interrupt and terminate end a run alike, but for the wording; None, the first
\* value, and Resume are "go"
Signals == {"go", "pause", "stop"}
NoOutput == [calls |-> << >>, text |-> "none"]

\* An item of the conversation; a call is known by its position, which stands
\* for the call_id, new for every call
Item == [kind: {"prompt", "note", "call", "out"}, id: Nat]
Prompt == [kind |-> "prompt", id |-> 0]
Note == [kind |-> "note", id |-> 0]
Prompts == IF HasSystem THEN 2 ELSE 1

TypeOK ==
    /\ pc \in {"head", "paused", "request", "model", "calls", "compact", "over"}
    /\ outcome \in {"none", "interrupted", "answer", "stopped", "error"}
    /\ length \in Nat /\ DOMAIN input \subseteq 1..length
    /\ input \in [DOMAIN input -> Item]
    /\ progress \in Nat /\ exhausted \in BOOLEAN /\ retried \in BOOLEAN /\ tokens \in Nat
    /\ last \in Output \cup {NoOutput} /\ repeats \in Nat
    /\ todo \in Seq(Call) /\ counts \in [Call -> Nat]
    /\ signal \in Signals /\ sender \in BOOLEAN
    /\ requests \in Nat /\ polls \in Nat /\ late \in Nat

Init ==
    /\ pc = "head" /\ outcome = "none"
    /\ input = [i \in 1..Prompts |-> Prompt] /\ length = Prompts
    /\ progress = 0 /\ exhausted = FALSE /\ retried = FALSE /\ tokens = 0
    /\ last = NoOutput /\ repeats = 0
    /\ todo = << >> /\ counts = [c \in Call |-> 0]
    /\ signal = "go" /\ sender = TRUE
    /\ requests = 0 /\ polls = 0 /\ late = 0

-----------------------------------------------------------------------------
\* Signals: agent_signal, and the end of the last handle

Send(s) ==
    /\ sender /\ pc # "over" /\ s # signal
    /\ signal' = s
    /\ late' = 0
    /\ UNCHANGED <<loop, conversation, sender, requests, polls>>

DropSender ==
    /\ sender /\ pc # "over"
    /\ sender' = FALSE
    /\ UNCHANGED <<loop, conversation, signal, requests, polls, late>>

-----------------------------------------------------------------------------
\* The loop

End(o) == pc' = "over" /\ outcome' = o

\* n notes at the end of the conversation
NotesAdded(n) ==
    /\ input' = [i \in DOMAIN input \cup length + 1..length + n |->
                    IF i \in DOMAIN input THEN input[i] ELSE Note]
    /\ length' = length + n

\* Nothing ends an agent that polls for ever, and its conversation grows: its
\* first MaxPolls rounds are followed in full, from then on all but the items
Recorded == polls <= MaxPolls

Noted(n) == IF Recorded THEN NotesAdded(n) ELSE UNCHANGED conversation

Stop ==
    /\ pc = "head" /\ signal = "stop"
    /\ End("interrupted")
    /\ UNCHANGED <<progress, exhausted, retried, tokens, last, repeats, todo, counts,
                   conversation, channel, requests, polls, late>>

Pause ==
    /\ pc = "head" /\ signal = "pause"
    /\ pc' = "paused"
    /\ UNCHANGED <<outcome, progress, exhausted, retried, tokens, last, repeats, todo, counts,
                   conversation, channel, requests, polls, late>>

\* The iterations are used up and so is the synthesis
GiveUp ==
    /\ progress >= MaxIterations /\ exhausted
    /\ End("error")
    /\ UNCHANGED <<progress, exhausted, retried, tokens, last, repeats, todo, counts,
                   conversation, channel, requests, polls, late>>

\* The next request: for a synthesis if the iterations are used up, with what
\* was retrieved
Prepare ==
    /\ ~(progress >= MaxIterations /\ exhausted)
    /\ exhausted' = (progress >= MaxIterations)
    /\ \E n \in Retrieval : Noted(n + IF progress >= MaxIterations THEN 1 ELSE 0)
    /\ pc' = "request"
    /\ UNCHANGED <<outcome, progress, retried, tokens, last, repeats, todo, counts,
                   channel, requests, polls, late>>

\* Mutant: signals are looked at only once there has been progress
Iterate_AfterProgress ==
    /\ pc = "head" /\ (signal = "go" \/ progress = 0)
    /\ GiveUp \/ Prepare

Iterate == pc = "head" /\ signal = "go" /\ (GiveUp \/ Prepare)

\* Mutant: only a resume ends the pause
Wake_Resumed ==
    /\ pc = "paused" /\ (signal = "go" \/ ~sender)
    /\ GiveUp \/ Prepare

\* wait_for_resume returns, and the iteration goes on
Wake ==
    /\ pc = "paused" /\ (signal # "pause" \/ ~sender)
    /\ GiveUp \/ Prepare

Ask ==
    /\ pc = "request" /\ pc' = "model"
    /\ requests' = requests + 1
    /\ late' = IF signal = "go" THEN 0 ELSE IF late < 2 THEN late + 1 ELSE late
    /\ UNCHANGED <<outcome, progress, exhausted, retried, tokens, last, repeats, todo, counts,
                   conversation, channel, polls>>

\* A hook blocks the request or the response, or the model or its fallback fails
ModelFails ==
    /\ pc \in {"request", "model"} /\ End("error")
    /\ UNCHANGED <<progress, exhausted, retried, tokens, last, repeats, todo, counts,
                   conversation, channel, requests, polls, late>>

\* max_tokens_per_run: what was consumed is known only from what is reported
BurntOut == tokens' > TokenBudget

\* The reasoning of a response is kept only where it was truncated
Truncated(out) == IF out.text = "long" THEN 1 ELSE 0

Polling(out) == \E i \in DOMAIN out.calls : out.calls[i] \in StatusPoll
Quiet(out) == \A i \in DOMAIN out.calls : out.calls[i] \in NonProgress

\* prev_outputs, as far as the detection looks back
Remember(out) ==
    IF Polling(out) THEN UNCHANGED <<last, repeats>>
    ELSE /\ last' = out
         /\ repeats' = IF out = last THEN repeats + 1 ELSE 1

Repeated(out) == ~Polling(out) /\ repeats' >= Repetitions

\* Mutant: an empty answer is asked for again as often as it comes
Answer_Again(out) ==
    IF out.text = "empty" /\ progress > 0
    THEN /\ retried' = TRUE /\ pc' = "head" /\ UNCHANGED outcome
         /\ Noted(1)
    ELSE /\ End("answer") /\ UNCHANGED retried
         /\ Noted(Truncated(out))

\* The model's answer, if it has no calls: an empty one is asked for once more
Answer(out) ==
    IF out.text = "empty" /\ progress > 0 /\ ~retried
    THEN /\ retried' = TRUE /\ pc' = "head" /\ UNCHANGED outcome
         /\ Noted(1)
    ELSE /\ End("answer") /\ UNCHANGED retried
         /\ Noted(Truncated(out))

\* A round of calls counts unless all of them only look at the state; no limit
\* but that of tokens is set to rounds that do not count
Round(out) ==
    /\ pc' = "calls" /\ todo' = out.calls
    /\ Noted(Truncated(out))
    /\ IF Quiet(out)
       THEN /\ polls' = (IF Recorded THEN polls + 1 ELSE polls)
            /\ requests' = requests - 1
            /\ UNCHANGED progress
       ELSE progress' = progress + 1 /\ UNCHANGED <<polls, requests>>
    /\ UNCHANGED <<outcome, retried>>

Reply(out, usage) ==
    /\ pc = "model"
    /\ tokens' = tokens + usage
    /\ IF BurntOut
       THEN /\ End("stopped")
            /\ UNCHANGED <<progress, retried, last, repeats, todo, conversation, polls,
                           requests>>
       ELSE /\ Remember(out)
            /\ IF Repeated(out)
               THEN /\ End("error") /\ Noted(Truncated(out))
                    /\ UNCHANGED <<progress, retried, todo, polls, requests>>
               ELSE IF out.calls = << >>
               THEN Answer(out) /\ UNCHANGED <<progress, todo, polls, requests>>
               ELSE Round(out)
    /\ UNCHANGED <<exhausted, counts, channel, late>>

\* A call and its result, and the loop detector's warnings after them
CallAdded(n) ==
    /\ input' = [i \in DOMAIN input \cup length + 1..length + 2 + n |->
                    CASE i \in DOMAIN input -> input[i]
                      [] i = length + 1 -> [kind |-> "call", id |-> length + 1]
                      [] i = length + 2 -> [kind |-> "out", id |-> length + 1]
                      [] OTHER -> Note]
    /\ length' = length + 2 + n

Called(n) == IF Recorded THEN CallAdded(n) ELSE UNCHANGED conversation

Served ==
    /\ todo' = Tail(todo)
    /\ pc' = IF Len(todo) = 1 THEN "compact" ELSE "calls"
    /\ UNCHANGED <<outcome, progress, exhausted, retried, tokens, last, repeats,
                   channel, requests, polls, late>>

\* Unknown tools and malformed arguments are answered with an error
RefuseCall ==
    /\ pc = "calls" /\ Head(todo) \in Refused
    /\ Called(0) /\ Served
    /\ UNCHANGED counts

\* The detector compares a count with the threshold and with two more
Count(c) ==
    counts' = IF LoopThreshold > 0 /\ counts[c] < LoopThreshold + 2
              THEN [counts EXCEPT ![c] = @ + 1] ELSE counts

Warned(c) ==
    LoopThreshold > 0 /\ counts[c] + 1 \in {LoopThreshold, LoopThreshold + 2}

RunCall ==
    /\ pc = "calls" /\ Head(todo) \notin Refused
    /\ Count(Head(todo))
    /\ Called(IF Warned(Head(todo)) THEN 1 ELSE 0)
    /\ Served

\* The client fails, rather than the tool
CallFails ==
    /\ pc = "calls" /\ Head(todo) \notin Refused
    /\ End("error")
    /\ Count(Head(todo))
    /\ UNCHANGED <<progress, exhausted, retried, tokens, last, repeats, todo,
                   conversation, channel, requests, polls, late>>

\* Not one of the last keep_recent items
Old(i) == Cardinality({j \in DOMAIN input : j > i}) >= KeepRecent

\* Mutant: the calls of recent results are dropped as well
Dropped_Boundary ==
    LET ids == {input[i].id : i \in {j \in DOMAIN input : input[j].kind = "out"}} IN
    {i \in DOMAIN input : Old(i) /\ input[i].kind \in {"call", "out"} /\ input[i].id \in ids}

\* compact_conversation: old results go, and the calls they answer
Dropped ==
    LET ids == {input[i].id : i \in {j \in DOMAIN input : Old(j) /\ input[j].kind = "out"}} IN
    {i \in DOMAIN input : Old(i) /\ input[i].kind \in {"call", "out"} /\ input[i].id \in ids}

\* The end of a round: the size of the conversation, or the policy and the
\* phase of the flow, decide whether it is compacted
Compact ==
    /\ pc = "compact" /\ pc' = "head"
    /\ \/ UNCHANGED conversation
       \/ /\ Cardinality(DOMAIN input) > KeepRecent + 2
          /\ input' = [i \in DOMAIN input \ Dropped |-> input[i]]
          /\ UNCHANGED length
    /\ UNCHANGED <<outcome, progress, exhausted, retried, tokens, last, repeats, todo, counts,
                   channel, requests, polls, late>>

-----------------------------------------------------------------------------

LoopStep ==
    \/ Stop \/ Pause \/ Iterate \/ Wake
    \/ Ask \/ ModelFails \/ \E out \in Outputs, usage \in Usages : Reply(out, usage)
    \/ RefuseCall \/ RunCall \/ CallFails \/ Compact

Next == LoopStep \/ DropSender \/ \E s \in Signals : Send(s)

Spec == Init /\ [][Next]_vars

\* The loop is a task of the runtime, and models and tools answer or fail
FairSpec == Spec /\ WF_vars(LoopStep)

-----------------------------------------------------------------------------
\* What an agent's run promises

\* What a model is sent is a conversation its provider accepts, whatever has
\* been compacted: the prompts, and every call with its result next to it.
ConversationWhole ==
    /\ 1..Prompts \subseteq DOMAIN input
    /\ \A i \in DOMAIN input :
         /\ input[i].kind = "call" =>
              i + 1 \in DOMAIN input /\ input[i + 1] = [kind |-> "out", id |-> i]
         /\ input[i].kind = "out" =>
              i - 1 \in DOMAIN input /\ input[i - 1] = [kind |-> "call", id |-> i - 1]

\* max_iterations holds: but for rounds that only poll, a model is asked at
\* most once per iteration, once for the synthesis and once more if it
\* answered nothing, however often it disobeys.
RequestsBounded == requests <= MaxIterations + 1 + (IF retried THEN 1 ELSE 0)

\* "Signals are checked between iterations" (docs/guides/teams.md): an agent
\* told to stop or to pause asks its model at most once more, also when the
\* signal comes while it is paused; a pause lasts while there is a sender.
SignalsHeeded ==
    \/ late <= 1
    \/ signal = "pause" /\ ~sender

\* An answer that only polls, and whose provider reports no usage
FreePoll == pc = "model" /\ pc' = "calls" /\ progress' = progress /\ tokens' = tokens

\* An agent's run comes to an end, unless it is paused again and again, or its
\* model answers for ever with polls that are reported to cost nothing; where
\* usage is reported, polling ends with the token budget.
Returns ==
    \/ <>(pc = "over")
    \/ []<>(signal = "pause" /\ sender)
    \/ []<><<FreePoll>>_vars

\* docs/guides/teams.md says that "If the signal sender is dropped ..., a
\* paused agent treats it as a terminate signal and exits", and signal.rs:69
\* "Sender dropped - treat as terminate": an agent that is paused when its
\* sender is gone does not go on.
OrphanExits ==
    [][pc = "paused" /\ signal = "pause" => pc' \in {"paused", "over"}]_vars

=============================================================================
