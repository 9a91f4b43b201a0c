---------------------------- MODULE ToolLoopProofs ----------------------------
(***************************************************************************)
(* The safety properties of ToolLoop for any calls, answers and limits: a  *)
(* conversation that is whole however it is compacted, a bounded number of *)
(* requests, and signals that are heeded.                                  *)
(***************************************************************************)
EXTENDS ToolLoop, FiniteSetTheorems, TLAPS

\* What the ASSUMEs say of each constant.
LEMMA Constants ==
    /\ Prompts \in {1, 2}
    /\ MaxIterations \in Nat /\ TokenBudget \in Nat /\ LoopThreshold \in Nat /\ MaxPolls \in Nat
    /\ KeepRecent \in Nat /\ Retrieval \subseteq {0, 1} /\ Usages \subseteq Nat
    /\ Outputs \subseteq Output
BY LoopAssumption, OutputsAssumption DEF Prompts

-----------------------------------------------------------------------------
(* The conversation *)

\* Appending notes keeps what was there.
LEMMA NotesAppended ==
    ASSUME TypeOK, NEW n \in Nat, NotesAdded(n)
    PROVE  /\ length' \in Nat /\ DOMAIN input' \subseteq 1..length'
           /\ input' \in [DOMAIN input' -> Item]
           /\ DOMAIN input' = DOMAIN input \cup length + 1..length + n
           /\ \A i \in DOMAIN input : input'[i] = input[i]
           /\ \A i \in DOMAIN input' : i \notin DOMAIN input => input'[i] = Note
<1> USE DEF TypeOK
<1>1. length \in Nat /\ length' = length + n
    BY DEF NotesAdded
<1>2. input' = [i \in DOMAIN input \cup length + 1..length + n |->
                   IF i \in DOMAIN input THEN input[i] ELSE Note]
    BY DEF NotesAdded
<1>3. Note \in Item
    BY DEF Note, Item
<1>4. \A i \in DOMAIN input : input[i] \in Item
    OBVIOUS
<1>5. DOMAIN input' \subseteq 1..length'
    BY <1>1, <1>2
<1> QED
    BY <1>1, <1>2, <1>3, <1>4, <1>5

\* Appending a call and its result keeps what was there.
LEMMA CallAppended ==
    ASSUME TypeOK, NEW n \in Nat, CallAdded(n)
    PROVE  /\ length' \in Nat /\ DOMAIN input' \subseteq 1..length'
           /\ input' \in [DOMAIN input' -> Item]
           /\ DOMAIN input' = DOMAIN input \cup length + 1..length + 2 + n
           /\ \A i \in DOMAIN input : input'[i] = input[i]
           /\ input'[length + 1] = [kind |-> "call", id |-> length + 1]
           /\ input'[length + 2] = [kind |-> "out", id |-> length + 1]
           /\ \A i \in DOMAIN input' :
                 i \notin DOMAIN input \cup {length + 1, length + 2} => input'[i] = Note
<1> USE DEF TypeOK
<1>1. length \in Nat /\ length' = length + 2 + n
    BY DEF CallAdded
<1> DEFINE call == [kind |-> "call", id |-> length + 1]
           out == [kind |-> "out", id |-> length + 1]
<1>2. input' = [i \in DOMAIN input \cup length + 1..length + 2 + n |->
                   CASE i \in DOMAIN input -> input[i]
                     [] i = length + 1 -> call
                     [] i = length + 2 -> out
                     [] OTHER -> Note]
    BY DEF CallAdded
<1>3. Note \in Item /\ call \in Item /\ out \in Item
    BY <1>1 DEF Note, Item
<1>4. \A i \in DOMAIN input : input[i] \in Item
    OBVIOUS
<1>5. /\ DOMAIN input' \subseteq 1..length'
      /\ DOMAIN input' = DOMAIN input \cup length + 1..length + 2 + n
      /\ length + 1 \in DOMAIN input' \ DOMAIN input
      /\ length + 2 \in DOMAIN input' \ DOMAIN input
    BY <1>1, <1>2
<1> HIDE DEF call, out
<1>6. \A i \in DOMAIN input : input'[i] = input[i]
    BY <1>2
<1>7. input'[length + 1] = call /\ input'[length + 2] = out
    BY <1>1, <1>2, <1>5
<1>8. \A i \in DOMAIN input' :
         i \notin DOMAIN input \cup {length + 1, length + 2} => input'[i] = Note
    BY <1>2
<1>9. \A i \in DOMAIN input' : input'[i] \in Item
    BY <1>3, <1>4, <1>6, <1>7, <1>8
<1>10. input' \in [DOMAIN input' -> Item]
    BY <1>2, <1>9
<1> QED
    BY <1>1, <1>5, <1>6, <1>7, <1>8, <1>10 DEF call, out

-----------------------------------------------------------------------------
(* Types *)

Typed ==
    /\ TypeOK
    /\ pc = "calls" => todo # << >>
    /\ pc = "model" => requests > 0

Conversing ==
    length \in Nat /\ DOMAIN input \subseteq 1..length /\ input \in [DOMAIN input -> Item]

\* A conversation stays one, recorded further or not.
LEMMA NotedTypes ==
    ASSUME TypeOK, NEW n \in Nat, Noted(n)
    PROVE  Conversing'
<1>1. CASE NotesAdded(n)
    BY <1>1, NotesAppended DEF Conversing
<1>2. CASE UNCHANGED conversation
    BY <1>2 DEF conversation, Conversing, TypeOK
<1> QED
    BY <1>1, <1>2 DEF Noted

\* So it does when a call is served.
LEMMA CalledTypes ==
    ASSUME TypeOK, NEW n \in Nat, Called(n)
    PROVE  Conversing'
<1>1. CASE CallAdded(n)
    BY <1>1, CallAppended DEF Conversing
<1>2. CASE UNCHANGED conversation
    BY <1>2 DEF conversation, Conversing, TypeOK
<1> QED
    BY <1>1, <1>2 DEF Called

\* The types of what the loop detector counts.
LEMMA CountTypes ==
    ASSUME counts \in [Call -> Nat], NEW c, Count(c)
    PROVE  counts' \in [Call -> Nat]
<1>1. \A d \in Call : counts[d] + 1 \in Nat
    OBVIOUS
<1>2. counts' = counts \/ counts' = [counts EXCEPT ![c] = @ + 1]
    BY DEF Count
<1> QED
    BY <1>1, <1>2

\* What Prepare appends is counted.
LEMMA PreparedNotes ==
    ASSUME NEW n \in Retrieval
    PROVE  (n + IF progress >= MaxIterations THEN 1 ELSE 0) \in Nat
<1>1. n \in Nat /\ n + 1 \in Nat /\ n + 0 \in Nat
    BY Constants
<1>2. CASE progress >= MaxIterations
    BY <1>1, <1>2
<1>3. CASE ~(progress >= MaxIterations)
    BY <1>1, <1>3
<1> QED
    BY <1>2, <1>3

\* The types of what the repetition detection remembers.
LEMMA RememberTypes ==
    ASSUME last \in Output \cup {NoOutput}, repeats \in Nat, NEW out \in Output, Remember(out)
    PROVE  last' \in Output \cup {NoOutput} /\ repeats' \in Nat
<1>1. CASE Polling(out)
    BY <1>1 DEF Remember
<1>2. CASE ~Polling(out)
  <2>1. last' = out /\ repeats' = IF out = last THEN repeats + 1 ELSE 1
    BY <1>2 DEF Remember
  <2> QED
    BY <2>1
<1> QED
    BY <1>1, <1>2

\* The types of what a round counts.
LEMMA RoundTypes ==
    ASSUME progress \in Nat, polls \in Nat, requests \in Nat \ {0}, NEW out, Round(out)
    PROVE  progress' \in Nat /\ polls' \in Nat /\ requests' \in Nat
<1>1. CASE Quiet(out)
    BY <1>1 DEF Round
<1>2. CASE ~Quiet(out)
    BY <1>2 DEF Round
<1> QED
    BY <1>1, <1>2

\* The types of what a request counts.
LEMMA AskTypes ==
    ASSUME requests \in Nat, late \in Nat, Ask
    PROVE  requests' \in Nat /\ requests' > 0 /\ late' \in Nat
<1>1. /\ requests' = requests + 1
      /\ late' = IF signal = "go" THEN 0 ELSE IF late < 2 THEN late + 1 ELSE late
    BY DEF Ask
<1> QED
    BY <1>1

\* Type correctness of the loop, its conversation and its channel, and there
\* are calls to serve while calls are served.
THEOREM TypeCorrect == Spec => []Typed
<1>1. Init => Typed
  <2> SUFFICES ASSUME Init PROVE Typed
    OBVIOUS
  <2>1. input \in [DOMAIN input -> Item] /\ DOMAIN input \subseteq 1..length /\ length \in Nat
    BY Constants DEF Init, Item, Prompt
  <2>2. counts \in [Call -> Nat] /\ todo \in Seq(Call) /\ last \in Output \cup {NoOutput}
    BY DEF Init
  <2> QED
    BY <2>1, <2>2 DEF Init, Typed, TypeOK, Signals
<1>2. Typed /\ [Next]_vars => Typed'
  <2> SUFFICES ASSUME Typed, [Next]_vars PROVE Typed'
    OBVIOUS
  <2>0. TypeOK
    BY DEF Typed
  <2> USE <2>0, Constants DEF Typed, TypeOK, End, loop, conversation, channel
  <2>1. CASE UNCHANGED vars
    BY <2>1 DEF vars
  <2>2. CASE DropSender
    BY <2>2 DEF DropSender
  <2>3. ASSUME NEW s \in Signals, Send(s) PROVE Typed'
    BY <2>3 DEF Send, Signals
  <2>4. CASE Stop
    BY <2>4 DEF Stop
  <2>5. CASE Pause
    BY <2>5 DEF Pause
  <2>6. CASE GiveUp
    BY <2>6 DEF GiveUp
  <2>7. CASE Prepare
    <3>1. PICK n \in Retrieval : Noted(n + IF progress >= MaxIterations THEN 1 ELSE 0)
      BY <2>7 DEF Prepare
    <3>2. (n + IF progress >= MaxIterations THEN 1 ELSE 0) \in Nat
      BY PreparedNotes
    <3>3. Conversing'
      BY <3>1, <3>2, NotedTypes
    <3> QED
      BY <2>7, <3>3 DEF Prepare, Conversing
  <2>8. CASE Ask
    <3>1. requests' \in Nat /\ requests' > 0 /\ late' \in Nat
      BY <2>8, AskTypes
    <3>2. /\ pc' = "model"
          /\ UNCHANGED <<outcome, progress, exhausted, retried, tokens, last, repeats, todo,
                         counts, conversation, channel, polls>>
      BY <2>8 DEF Ask
    <3> QED
      BY <3>1, <3>2
  <2>9. CASE ModelFails
    BY <2>9 DEF ModelFails
  <2>10. ASSUME NEW out \in Outputs, NEW usage \in Usages, Reply(out, usage) PROVE Typed'
    <3>1. out \in Output /\ out.calls \in Seq(Call)
      BY DEF Output
    <3>2. Truncated(out) \in Nat /\ 1 \in Nat
      BY DEF Truncated
    <3>3. /\ tokens' \in Nat
          /\ UNCHANGED <<exhausted, counts, channel, late>>
      BY <2>10 DEF Reply
    <3>4. CASE BurntOut
      BY <2>10, <3>3, <3>4 DEF Reply
    <3>5. CASE ~BurntOut
      <4>1. last' \in Output \cup {NoOutput} /\ repeats' \in Nat
        <5>1. Remember(out)
          BY <2>10, <3>5 DEF Reply
        <5> QED
          BY <3>1, <5>1, RememberTypes
      <4>2. CASE Repeated(out)
        <5>1. Noted(Truncated(out))
          BY <2>10, <3>5, <4>2 DEF Reply
        <5>2. Conversing'
          BY <3>2, <5>1, NotedTypes
        <5> QED
          BY <2>10, <3>3, <3>5, <4>1, <4>2, <5>2 DEF Reply, Conversing
      <4>3. CASE ~Repeated(out) /\ out.calls = << >>
        <5>1. Answer(out) /\ UNCHANGED <<progress, todo, polls, requests>>
          BY <2>10, <3>5, <4>3 DEF Reply
        <5>2. Noted(1) \/ Noted(Truncated(out))
          BY <5>1 DEF Answer
        <5>3. Conversing'
          BY <3>2, <5>2, NotedTypes
        <5> QED
          BY <3>3, <4>1, <5>1, <5>3 DEF Answer, Conversing
      <4>4. CASE ~Repeated(out) /\ out.calls # << >>
        <5>1. Round(out)
          BY <2>10, <3>5, <4>4 DEF Reply
        <5>2. Conversing'
          BY <3>2, <5>1, NotedTypes DEF Round
        <5>3. progress' \in Nat /\ polls' \in Nat /\ requests' \in Nat
          BY <2>10, <5>1, RoundTypes DEF Reply
        <5>4. /\ pc' = "calls" /\ todo' = out.calls
              /\ UNCHANGED <<outcome, retried>>
          BY <5>1 DEF Round
        <5> QED
          BY <3>1, <3>3, <4>1, <4>4, <5>2, <5>3, <5>4 DEF Conversing
      <4> QED
        BY <4>2, <4>3, <4>4
    <3> QED
      BY <3>4, <3>5
  <2>11. ASSUME pc = "calls", Served PROVE todo' \in Seq(Call) /\ (pc' = "calls" => todo' # << >>)
    <3>1. /\ todo \in Seq(Call) /\ todo # << >> /\ todo' = Tail(todo)
          /\ pc' = IF Len(todo) = 1 THEN "compact" ELSE "calls"
      BY <2>11 DEF Served
    <3>2. Len(todo) \in Nat \ {0} /\ Tail(todo) \in Seq(Call) /\ Len(Tail(todo)) = Len(todo) - 1
      BY <3>1
    <3>3. pc' = "calls" => Len(todo') # 0
      BY <3>1, <3>2
    <3> QED
      BY <3>1, <3>2, <3>3
  <2>12. CASE RefuseCall
    <3>1. Conversing'
      BY <2>12, CalledTypes DEF RefuseCall
    <3> QED
      BY <2>11, <2>12, <3>1 DEF RefuseCall, Served, Conversing
  <2>13. CASE RunCall
    <3>1. PICK n \in {0, 1} : Called(n)
      BY <2>13 DEF RunCall
    <3>2. Conversing'
      BY <3>1, CalledTypes
    <3>3. counts' \in [Call -> Nat]
      BY <2>13, CountTypes DEF RunCall
    <3> QED
      BY <2>11, <2>13, <3>2, <3>3 DEF RunCall, Served, Conversing
  <2>14. CASE CallFails
    <3>1. counts' \in [Call -> Nat]
      BY <2>14, CountTypes DEF CallFails
    <3> QED
      BY <2>14, <3>1 DEF CallFails
  <2>15. CASE Compact
    BY <2>15 DEF Compact
  <2> QED
    BY <2>1, <2>2, <2>3, <2>4, <2>5, <2>6, <2>7, <2>8, <2>9, <2>10, <2>12, <2>13,
       <2>14, <2>15 DEF Next, LoopStep, Iterate, Wake
<1> QED
    BY <1>1, <1>2, PTL DEF Spec

-----------------------------------------------------------------------------
(* Requests *)

\* Every request but the one on its way, rounds of polling apart, was followed by
\* progress or by the one retry of an empty answer; a request is made only while
\* there are iterations left, or for the synthesis.
Retries == IF retried THEN 1 ELSE 0

CountInv ==
    /\ progress <= MaxIterations + 1
    /\ pc \in {"request", "model"} =>
           progress <= MaxIterations /\ (exhausted <=> progress >= MaxIterations)
    /\ exhausted => progress >= MaxIterations
    /\ ~exhausted => progress <= MaxIterations
    /\ pc # "over" => requests <= progress + Retries + (IF pc = "model" THEN 1 ELSE 0)
    /\ requests <= MaxIterations + 1 + Retries

\* However a model answers, it is asked at most once per iteration, once for
\* the synthesis and once more after an empty answer, not counting requests it
\* answers with polls only (tool_loop/mod.rs:478-491).
THEOREM AsksBoundedly == Spec => []RequestsBounded
<1>1. Init => CountInv
    BY Constants DEF Init, CountInv, Retries
<1>2. Typed /\ CountInv /\ [Next]_vars => CountInv'
  <2> SUFFICES ASSUME Typed, CountInv, [Next]_vars PROVE CountInv'
    OBVIOUS
  <2>0. /\ progress \in Nat /\ requests \in Nat
        /\ exhausted \in BOOLEAN /\ retried \in BOOLEAN
    BY DEF Typed, TypeOK
  <2> USE <2>0, Constants DEF CountInv, Retries, End, loop, conversation, channel
  <2>1. CASE UNCHANGED vars
    BY <2>1 DEF vars
  <2>2. CASE DropSender
    BY <2>2 DEF DropSender
  <2>3. ASSUME NEW s \in Signals, Send(s) PROVE CountInv'
    BY <2>3 DEF Send
  <2>4. CASE Stop
    BY <2>4 DEF Stop
  <2>5. CASE Pause
    BY <2>5 DEF Pause
  <2>6. CASE (Iterate \/ Wake) /\ GiveUp
    BY <2>6 DEF GiveUp
  <2>7. CASE (Iterate \/ Wake) /\ Prepare
    <3>1. /\ pc \in {"head", "paused"} /\ pc' = "request"
          /\ ~(progress >= MaxIterations /\ exhausted)
          /\ exhausted' = (progress >= MaxIterations)
          /\ UNCHANGED <<progress, retried, requests>>
      BY <2>7 DEF Iterate, Wake, Prepare
    <3> QED
      BY <3>1
  <2>8. CASE Ask
    BY <2>8 DEF Ask
  <2>9. CASE ModelFails
    BY <2>9 DEF ModelFails
  <2>10. ASSUME NEW out \in Outputs, NEW usage \in Usages, Reply(out, usage) PROVE CountInv'
    <3>1. pc = "model" /\ UNCHANGED exhausted
      BY <2>10 DEF Reply
    <3>2. CASE pc' = "over" /\ UNCHANGED <<progress, retried, requests>>
      BY <3>1, <3>2
    <3>3. CASE Answer(out) /\ UNCHANGED <<progress, requests>>
      BY <3>1, <3>3 DEF Answer
    <3>4. CASE Round(out)
      <4>1. pc' = "calls" /\ UNCHANGED retried
        BY <3>4 DEF Round
      <4>2. \/ requests' = requests - 1 /\ UNCHANGED progress
            \/ progress' = progress + 1 /\ UNCHANGED requests
        BY <3>4 DEF Round
      <4> QED
        BY <3>1, <4>1, <4>2
    <3> QED
      BY <2>10, <3>2, <3>3, <3>4 DEF Reply
  <2>11. CASE RefuseCall \/ RunCall
    <3>1. /\ pc = "calls" /\ pc' \in {"calls", "compact"}
          /\ UNCHANGED <<progress, exhausted, retried, requests>>
      BY <2>11 DEF RefuseCall, RunCall, Served
    <3> QED
      BY <3>1
  <2>12. CASE CallFails
    BY <2>12 DEF CallFails
  <2>13. CASE Compact
    BY <2>13 DEF Compact
  <2> QED
    BY <2>1, <2>2, <2>3, <2>4, <2>5, <2>6, <2>7, <2>8, <2>9, <2>10, <2>11, <2>12,
       <2>13 DEF Next, LoopStep, Iterate, Wake
<1>3. CountInv => RequestsBounded
    BY DEF CountInv, Retries, RequestsBounded
<1> QED
    BY <1>1, <1>2, <1>3, TypeCorrect, PTL DEF Spec

-----------------------------------------------------------------------------
(* Signals *)

\* An agent that may go on has asked at most once since the signal; one on its
\* way to a request has not, unless nobody can end its pause any more.
HeedInv ==
    /\ signal = "go" => late = 0
    /\ signal = "stop" => late <= 1 /\ (pc \in {"paused", "request"} => late = 0)
    /\ signal = "pause" /\ sender => late <= 1 /\ (pc = "request" => late = 0)

\* An agent told to stop or to pause asks its model at most once more.
THEOREM HeedsSignals == Spec => []SignalsHeeded
<1>1. Init => HeedInv
    BY DEF Init, HeedInv
<1>2. Typed /\ HeedInv /\ [Next]_vars => HeedInv'
  <2> SUFFICES ASSUME Typed, HeedInv, [Next]_vars PROVE HeedInv'
    OBVIOUS
  <2>0. late \in Nat /\ signal \in Signals /\ sender \in BOOLEAN
    BY DEF Typed, TypeOK
  <2> USE <2>0 DEF HeedInv, Signals, End, loop, conversation, channel
  <2>1. CASE UNCHANGED vars
    BY <2>1 DEF vars
  <2>2. CASE DropSender
    BY <2>2 DEF DropSender
  <2>3. ASSUME NEW s \in Signals, Send(s) PROVE HeedInv'
    BY <2>3 DEF Send
  <2>4. CASE Stop
    BY <2>4 DEF Stop
  <2>5. CASE Pause
    BY <2>5 DEF Pause
  <2>6. CASE Iterate \/ Wake
    <3>1. /\ \/ pc = "head" /\ signal = "go"
             \/ pc = "paused" /\ (signal # "pause" \/ ~sender)
          /\ UNCHANGED <<signal, sender, late>>
          /\ pc' \in {"request", "over"}
      BY <2>6 DEF Iterate, Wake, GiveUp, Prepare
    <3> QED
      BY <3>1
  <2>7. CASE Ask
    <3>1. /\ pc = "request" /\ pc' = "model" /\ UNCHANGED <<signal, sender>>
          /\ late' = IF signal = "go" THEN 0 ELSE IF late < 2 THEN late + 1 ELSE late
      BY <2>7 DEF Ask
    <3> QED
      BY <3>1
  <2>8. CASE /\ ModelFails \/ CallFails \/ Compact
             /\ pc' \in {"over", "head"}
    BY <2>8 DEF ModelFails, CallFails, Compact
  <2>9. ASSUME NEW out \in Outputs, NEW usage \in Usages, Reply(out, usage) PROVE HeedInv'
    <3>1. UNCHANGED <<signal, sender, late>> /\ pc' \in {"over", "head", "calls"}
      BY <2>9 DEF Reply, Answer, Round
    <3> QED
      BY <3>1
  <2>10. CASE RefuseCall \/ RunCall
    <3>1. UNCHANGED <<signal, sender, late>> /\ pc' \in {"calls", "compact"}
      BY <2>10 DEF RefuseCall, RunCall, Served
    <3> QED
      BY <3>1
  <2> QED
    BY <2>1, <2>2, <2>3, <2>4, <2>5, <2>6, <2>7, <2>8, <2>9, <2>10
       DEF Next, LoopStep, ModelFails, CallFails, Compact
<1>3. Typed /\ HeedInv => SignalsHeeded
    BY DEF Typed, TypeOK, Signals, HeedInv, SignalsHeeded
<1> QED
    BY <1>1, <1>2, <1>3, TypeCorrect, PTL DEF Spec

-----------------------------------------------------------------------------
(* Compaction *)

\* The conversation is whole, and a call is known by its position.
WholeInv ==
    /\ Prompts <= length
    /\ \A i \in 1..Prompts : i \in DOMAIN input /\ input[i].kind = "prompt"
    /\ \A i \in DOMAIN input :
         /\ input[i].kind = "call" =>
              /\ input[i].id = i
              /\ i + 1 \in DOMAIN input /\ input[i + 1] = [kind |-> "out", id |-> i]
         /\ input[i].kind = "out" =>
              i - 1 \in DOMAIN input /\ input[i - 1] = [kind |-> "call", id |-> i - 1]

\* What precedes an old item is old.
LEMMA OldBefore ==
    ASSUME TypeOK, NEW i \in DOMAIN input, NEW k \in DOMAIN input, k <= i, Old(i)
    PROVE  Old(k)
<1> DEFINE After(m) == {j \in DOMAIN input : j > m}
<1>1. DOMAIN input \subseteq 1..length /\ length \in Nat
    BY DEF TypeOK
<1>2. IsFiniteSet(1..length)
    BY <1>1, FS_Interval
<1>3. IsFiniteSet(After(k)) /\ IsFiniteSet(After(i)) /\ After(i) \subseteq After(k)
    BY <1>1, <1>2, FS_Subset
<1>4. Cardinality(After(i)) <= Cardinality(After(k))
    BY <1>3, FS_Subset
<1>5. Cardinality(After(i)) \in Nat /\ Cardinality(After(k)) \in Nat
    BY <1>3, FS_CardinalityType
<1> QED
    BY <1>4, <1>5, Constants DEF Old

\* Dropping old results with their calls leaves a whole conversation.
LEMMA DropsPairs ==
    ASSUME TypeOK, WholeInv, UNCHANGED length,
           input' = [i \in DOMAIN input \ Dropped |-> input[i]]
    PROVE  WholeInv'
<1> DEFINE ids == {input[i].id : i \in {j \in DOMAIN input : Old(j) /\ input[j].kind = "out"}}
<1>1. DOMAIN input \subseteq 1..length /\ length \in Nat
    BY DEF TypeOK
<1>2. \A i \in DOMAIN input :
          i \in Dropped <=> Old(i) /\ input[i].kind \in {"call", "out"} /\ input[i].id \in ids
    BY DEF Dropped
<1>3. \A i \in DOMAIN input' : i \in DOMAIN input /\ i \notin Dropped /\ input'[i] = input[i]
    OBVIOUS
<1>4. \A i \in DOMAIN input : i \notin Dropped => i \in DOMAIN input'
    OBVIOUS
<1>5. ASSUME NEW i \in 1..Prompts PROVE i \in DOMAIN input' /\ input'[i].kind = "prompt"
  <2>1. i \in DOMAIN input /\ input[i].kind = "prompt"
    BY <1>5 DEF WholeInv
  <2> QED
    BY <1>2, <1>3, <1>4, <2>1
<1>6. ASSUME NEW i \in DOMAIN input', input'[i].kind = "call"
      PROVE  /\ input'[i].id = i
             /\ i + 1 \in DOMAIN input' /\ input'[i + 1] = [kind |-> "out", id |-> i]
  <2>1. i \in DOMAIN input /\ i \notin Dropped /\ input'[i] = input[i] /\ input[i].kind = "call"
    BY <1>3, <1>6
  <2>2. /\ input[i].id = i
        /\ i + 1 \in DOMAIN input /\ input[i + 1] = [kind |-> "out", id |-> i]
    BY <2>1 DEF WholeInv
  <2>3. input[i + 1].kind = "out" /\ input[i + 1].id = i
    BY <2>2
  <2>4. i + 1 \notin Dropped
    <3>1. SUFFICES ASSUME Old(i + 1), i \in ids PROVE FALSE
      BY <1>2, <2>2, <2>3
    <3>2. i <= i + 1
      BY <1>1, <2>1
    <3>3. Old(i)
      BY <2>1, <2>2, <3>1, <3>2, OldBefore
    <3> QED
      BY <1>2, <2>1, <2>2, <3>1, <3>3
  <2> QED
    BY <1>3, <1>4, <2>1, <2>2, <2>4
<1>7. ASSUME NEW i \in DOMAIN input', input'[i].kind = "out"
      PROVE  i - 1 \in DOMAIN input' /\ input'[i - 1] = [kind |-> "call", id |-> i - 1]
  <2>1. i \in DOMAIN input /\ i \notin Dropped /\ input'[i] = input[i] /\ input[i].kind = "out"
    BY <1>3, <1>7
  <2>2. i - 1 \in DOMAIN input /\ input[i - 1] = [kind |-> "call", id |-> i - 1]
    BY <2>1 DEF WholeInv
  <2>3. /\ input[i - 1].kind = "call" /\ input[i - 1].id = i - 1
        /\ i \in Nat /\ (i - 1) + 1 = i
    BY <1>1, <2>1, <2>2
  <2>4. input[i] = [kind |-> "out", id |-> i - 1]
    BY <2>2, <2>3 DEF WholeInv
  <2>5. i - 1 \notin Dropped
    <3>1. SUFFICES ASSUME i - 1 \in ids PROVE FALSE
      BY <1>2, <2>2, <2>3
    <3>2. PICK j \in DOMAIN input : Old(j) /\ input[j].kind = "out" /\ input[j].id = i - 1
      BY <3>1
    <3>3. j - 1 \in DOMAIN input /\ input[j - 1] = [kind |-> "call", id |-> j - 1]
      BY <3>2 DEF WholeInv
    <3>4. input[j - 1].kind = "call" /\ j \in Nat /\ (j - 1) + 1 = j
      BY <1>1, <3>2, <3>3
    <3>5. input[j] = [kind |-> "out", id |-> j - 1]
      BY <3>3, <3>4 DEF WholeInv
    <3>6. j = i
      BY <2>3, <3>2, <3>4, <3>5
    <3>7. input[i].id \in ids
      BY <3>2, <3>6
    <3> QED
      BY <1>2, <2>1, <3>2, <3>6, <3>7
  <2> QED
    BY <1>3, <1>4, <2>2, <2>5
<1> QED
    BY <1>5, <1>6, <1>7 DEF WholeInv, Prompts

\* Notes leave a whole conversation whole.
LEMMA NotesKeepWhole ==
    ASSUME TypeOK, WholeInv, NEW n \in Nat, Noted(n)
    PROVE  WholeInv'
<1> SUFFICES ASSUME NotesAdded(n) PROVE WholeInv'
    BY DEF Noted, conversation, WholeInv, Prompts
<1>0. length \in Nat /\ length' = length + n /\ Prompts \in Nat
    BY Constants DEF TypeOK, NotesAdded
<1>a. /\ DOMAIN input' = DOMAIN input \cup length + 1..length + n
      /\ \A i \in DOMAIN input : input'[i] = input[i]
      /\ \A i \in DOMAIN input' : i \notin DOMAIN input => input'[i] = Note
    BY NotesAppended
<1>b. Note.kind = "note"
    BY DEF Note
<1>1. /\ length \in Nat /\ length' = length + n /\ Prompts \in Nat
      /\ DOMAIN input \subseteq DOMAIN input'
      /\ \A i \in DOMAIN input : input'[i] = input[i]
      /\ \A i \in DOMAIN input' : i \notin DOMAIN input => input'[i].kind = "note"
    BY <1>0, <1>a, <1>b
<1> QED
    BY <1>1 DEF WholeInv, Prompts

\* So does a call with its result.
LEMMA CallKeepsWhole ==
    ASSUME TypeOK, WholeInv, NEW n \in Nat, Called(n)
    PROVE  WholeInv'
<1> SUFFICES ASSUME CallAdded(n) PROVE WholeInv'
    BY DEF Called, conversation, WholeInv, Prompts
<1> DEFINE p == length + 1
<1>0. /\ length \in Nat /\ length' = length + 2 + n /\ Prompts \in Nat
      /\ DOMAIN input \subseteq 1..length /\ p + 1 = length + 2
  <2>1. length \in Nat /\ DOMAIN input \subseteq 1..length
    BY DEF TypeOK
  <2>2. length' = length + 2 + n
    BY DEF CallAdded
  <2> QED
    BY <2>1, <2>2, Constants
<1>a. /\ DOMAIN input' = DOMAIN input \cup length + 1..length + 2 + n
      /\ \A i \in DOMAIN input : input'[i] = input[i]
      /\ input'[length + 1] = [kind |-> "call", id |-> length + 1]
      /\ input'[length + 2] = [kind |-> "out", id |-> length + 1]
      /\ \A i \in DOMAIN input' :
            i \notin DOMAIN input \cup {length + 1, length + 2} => input'[i] = Note
    BY CallAppended
<1>1. /\ length \in Nat /\ length' = length + 2 + n /\ Prompts \in Nat
      /\ DOMAIN input \subseteq DOMAIN input' /\ DOMAIN input \subseteq 1..length
      /\ p \in DOMAIN input' /\ p + 1 \in DOMAIN input'
      /\ \A i \in DOMAIN input : input'[i] = input[i]
    BY <1>0, <1>a
<1>b. Note.kind = "note"
    BY DEF Note
<1>2. /\ input'[p] = [kind |-> "call", id |-> p] /\ input'[p + 1] = [kind |-> "out", id |-> p]
      /\ \A i \in DOMAIN input' :
            i \notin DOMAIN input /\ i # p /\ i # p + 1 => input'[i].kind = "note"
    BY <1>0, <1>a, <1>b
<1>3. p \in Nat /\ (p + 1) - 1 = p
    BY <1>1
<1> HIDE DEF p
<1>4. ASSUME NEW i \in 1..Prompts PROVE i \in DOMAIN input' /\ input'[i].kind = "prompt"
    BY <1>1, <1>4 DEF WholeInv
<1>5. ASSUME NEW i \in DOMAIN input', input'[i].kind = "call"
      PROVE  /\ input'[i].id = i
             /\ i + 1 \in DOMAIN input' /\ input'[i + 1] = [kind |-> "out", id |-> i]
  <2>1. CASE i \in DOMAIN input
    BY <1>1, <1>5, <2>1 DEF WholeInv
  <2>2. CASE i = p
    BY <1>1, <1>2, <2>2
  <2> QED
    BY <1>2, <1>5, <2>1, <2>2
<1>6. ASSUME NEW i \in DOMAIN input', input'[i].kind = "out"
      PROVE  i - 1 \in DOMAIN input' /\ input'[i - 1] = [kind |-> "call", id |-> i - 1]
  <2>1. CASE i \in DOMAIN input
    BY <1>1, <1>6, <2>1 DEF WholeInv
  <2>2. CASE i = p + 1
    BY <1>1, <1>2, <1>3, <2>2
  <2> QED
    BY <1>2, <1>6, <2>1, <2>2
<1>7. Prompts <= length'
    BY <1>1 DEF WholeInv
<1> QED
    BY <1>4, <1>5, <1>6, <1>7 DEF WholeInv, Prompts

\* Whatever is compacted, the model gets its prompts, and every call with its
\* result.
THEOREM KeepsConversationWhole == Spec => []ConversationWhole
<1>1. Init => WholeInv
  <2> SUFFICES ASSUME Init PROVE WholeInv
    OBVIOUS
  <2>1. length = Prompts /\ Prompts \in Nat /\ DOMAIN input = 1..Prompts
    BY Constants DEF Init
  <2>2. \A i \in 1..Prompts : input[i].kind = "prompt"
    BY DEF Init, Prompt
  <2> QED
    BY <2>1, <2>2 DEF WholeInv
<1>2. Typed /\ WholeInv /\ [Next]_vars => WholeInv'
  <2> SUFFICES ASSUME Typed, WholeInv, [Next]_vars PROVE WholeInv'
    OBVIOUS
  <2>0. TypeOK
    BY DEF Typed
  <2>1. CASE UNCHANGED conversation
    BY <2>1 DEF conversation, WholeInv, Prompts
  <2>2. CASE Prepare
    <3>1. PICK n \in Retrieval : Noted(n + IF progress >= MaxIterations THEN 1 ELSE 0)
      BY <2>2 DEF Prepare
    <3>2. (n + IF progress >= MaxIterations THEN 1 ELSE 0) \in Nat
      BY Constants
    <3> QED
      BY <2>0, <3>1, <3>2, NotesKeepWhole
  <2>3. ASSUME NEW out \in Outputs, NEW usage \in Usages, Reply(out, usage) PROVE WholeInv'
    <3>1. Truncated(out) \in Nat /\ 1 \in Nat
      BY DEF Truncated
    <3>2. UNCHANGED conversation \/ Noted(1) \/ Noted(Truncated(out))
      BY <2>3 DEF Reply, Answer, Round
    <3> QED
      BY <2>0, <2>1, <3>1, <3>2, NotesKeepWhole
  <2>4. CASE RefuseCall
    BY <2>0, <2>4, CallKeepsWhole DEF RefuseCall
  <2>5. CASE RunCall
    <3>1. Called(0) \/ Called(1)
      BY <2>5 DEF RunCall
    <3> QED
      BY <2>0, <3>1, CallKeepsWhole
  <2>6. CASE Compact
    BY <2>0, <2>1, <2>6, DropsPairs DEF Compact
  <2>7. CASE \/ Stop \/ Pause \/ GiveUp \/ Ask \/ ModelFails \/ CallFails \/ DropSender
             \/ UNCHANGED vars \/ \E s \in Signals : Send(s)
    BY <2>1, <2>7 DEF Stop, Pause, GiveUp, Ask, ModelFails, CallFails, DropSender, Send,
                      vars, conversation
  <2> QED
    BY <2>2, <2>3, <2>4, <2>5, <2>6, <2>7 DEF Next, LoopStep, Iterate, Wake
<1>3. Typed /\ WholeInv => ConversationWhole
    BY DEF WholeInv, ConversationWhole
<1> QED
    BY <1>1, <1>2, <1>3, TypeCorrect, PTL DEF Spec

===============================================================================
