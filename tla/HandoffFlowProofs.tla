-------------------------- MODULE HandoffFlowProofs --------------------------
(***************************************************************************)
(* For every set of nodes and keys and every bound: the types, and that    *)
(* labels keep up with what nodes read.                                    *)
(*                                                                         *)
(* ReadInv adds to the invariants a run checks what makes them inductive:  *)
(* while a visit lasts, the label the node would write with covers its     *)
(* conversation, and the run's tracker what earlier visits held.  RunInv   *)
(* does the same for everything ever said during the first run.            *)
(***************************************************************************)
EXTENDS HandoffFlow, TLAPS

\* A visit serves calls only of a response it was allowed to ask for.
CallInIteration == phase = "call" => iteration < MaxIterations[node]

TypeInv == TypeOK /\ CallInIteration

ReadInv ==
    /\ LabelsCoverReads
    /\ NodeLabel.integrity >= context.read
    /\ flowTaint.integrity >= held.read

LEMMA JoinType ==
    ASSUME NEW l \in DataLabel, NEW m \in DataLabel
    PROVE  /\ Join(l, m) \in DataLabel
           /\ Join(l, m).integrity >= l.integrity
           /\ Join(l, m).integrity >= m.integrity
           /\ Join(l, m).integrity = Higher(l.integrity, m.integrity)
BY DEF Join, Higher, DataLabel, Integrity, Confidentiality, Trusted, Untrusted,
       Public, Secret

LEMMA MixedType ==
    ASSUME NEW c \in Content, NEW d \in Content
    PROVE  /\ Mixed(c, d) \in Content
           /\ Mixed(c, d).read = Higher(c.read, d.read)
           /\ Mixed(c, d).any = Higher(c.any, d.any)
BY DEF Mixed, Higher, Content, Integrity, Trusted, Untrusted

LEMMA MailType == \A msgs : MailContent(msgs) \in Content
BY DEF MailContent, Content, Integrity, Trusted, Untrusted

LEMMA Labels ==
    /\ TrustedPublic \in DataLabel
    /\ UntrustedPublic \in DataLabel
    /\ Clean \in Content
    /\ Tainted \in Content
    /\ Integrity = {0, 1}
BY DEF Tainted, TrustedPublic, UntrustedPublic, DataLabel, Clean, Content, Integrity,
       Confidentiality, Trusted, Untrusted, Public, Secret

-----------------------------------------------------------------------------
\* The control state after a visit is begun or refused at the hop limit.
LEMMA VisitControl ==
    ASSUME NEW n \in Node, NEW visits \in 0..MaxHops, NEW text \in Content,
           Visit(n, visits, text)
    PROVE  /\ phase' \in {"respond", "failed"}
           /\ node' = n
           /\ hop' \in 0..MaxHops
           /\ iteration' = 0 /\ iteration' \in 0..MaxIterations[n]
           /\ calls' = 0 /\ calls' \in 0..MaxCalls
           /\ context' = text
           /\ localTaint' = TrustedPublic
BY FlowAssumption DEF Visit, FlowAssumption

LEMMA ServedControl ==
    ASSUME TypeInv, CallServed
    PROVE  /\ phase' \in {"respond", "call"}
           /\ iteration' \in 0..MaxIterations[node]
           /\ calls' \in 0..MaxCalls
           /\ (calls' > 0) <=> (phase' = "call")
           /\ phase' = "call" => iteration' < MaxIterations[node]
           /\ UNCHANGED <<runs, node, hop, flowTaint, held>>
BY FlowAssumption DEF FlowAssumption, TypeInv, TypeOK, CallInIteration, CallServed, flow

\* A control step that serves a call keeps the types when the data does.
LEMMA ServedTypes ==
    ASSUME TypeInv, CallServed,
           context' \in Content,
           localTaint' \in DataLabel,
           agentTaint' \in [Node -> DataLabel],
           mailbox' \in [Node -> Seq(Labelled)],
           board' \in [Key -> Labelled \cup {NoEntry}]
    PROVE  TypeInv'
<1>1. /\ phase' \in {"idle", "respond", "call", "stopped", "failed"}
      /\ iteration' \in 0..MaxIterations[node']
      /\ calls' \in 0..MaxCalls
      /\ (calls' > 0) <=> (phase' = "call")
      /\ CallInIteration'
  BY ServedControl DEF CallInIteration
<1>2. /\ runs' \in 0..MaxRuns
      /\ node' \in Node
      /\ hop' \in 0..MaxHops
      /\ {context', held'} \subseteq Content
      /\ {localTaint', flowTaint'} \subseteq DataLabel
  BY ServedControl DEF TypeInv, TypeOK
<1> QED  BY <1>1, <1>2 DEF TypeInv, TypeOK

LEMMA NodeLabelType == TypeOK => NodeLabel \in DataLabel
BY JoinType DEF TypeOK, NodeLabel

LEMMA LeaveTypes ==
    ASSUME TypeOK, LeaveNode
    PROVE  flowTaint' \in DataLabel /\ held' \in Content
BY NodeLabelType, JoinType, MixedType DEF TypeOK, LeaveNode

LEMMA EndTypes ==
    ASSUME TypeInv, NEW outcome \in {"stopped", "failed"}, EndVisit(outcome),
           flowTaint' \in DataLabel, held' \in Content
    PROVE  TypeInv'
BY FlowAssumption DEF FlowAssumption, TypeInv, TypeOK, CallInIteration, EndVisit

LEMMA InitTypes == Init => TypeInv
BY FlowAssumption, Labels DEF FlowAssumption, Init, TypeInv, TypeOK, CallInIteration

\* No step leaves the types.
LEMMA StepTypes == TypeInv /\ [Next]_vars => TypeInv'
<1> SUFFICES ASSUME TypeInv, [Next]_vars PROVE TypeInv'
  OBVIOUS
<1> USE DEF TypeInv
<1>1. CASE StartRun
  <2>1. Clean \in Content /\ 0 \in 0..MaxHops /\ Entry \in Node
    BY Labels, FlowAssumption DEF FlowAssumption
  <2>2. Visit(Entry, 0, Clean)
    BY <1>1 DEF StartRun
  <2>3. /\ phase' \in {"respond", "failed"} /\ node' = Entry
        /\ hop' \in 0..MaxHops /\ iteration' \in 0..MaxIterations[Entry]
        /\ calls' = 0 /\ calls' \in 0..MaxCalls
        /\ context' = Clean /\ localTaint' = TrustedPublic
    BY <2>1, <2>2, VisitControl
  <2>4. runs' \in 0..MaxRuns
    BY <1>1, FlowAssumption DEF StartRun, TypeOK, FlowAssumption
  <2>5. /\ flowTaint' = TrustedPublic /\ held' = Clean
        /\ UNCHANGED <<agentTaint, mailbox, board>>
    BY <1>1 DEF StartRun
  <2> QED  BY <2>1, <2>3, <2>4, <2>5, Labels DEF TypeOK, CallInIteration
<1>2. CASE NodeError
  BY <1>2, EndTypes DEF NodeError, TypeOK
<1>3. CASE IterationsExhausted
  BY <1>3, EndTypes DEF IterationsExhausted, TypeOK
<1>4. CASE Stop
  BY <1>4, EndTypes, LeaveTypes DEF Stop
<1>5. CASE \E n \in 1..MaxCalls : RespondWithCalls(n)
  BY <1>5, FlowAssumption
  DEF FlowAssumption, RespondWithCalls, TypeOK, CallInIteration, flow
<1>6. ASSUME NEW t \in Node \cup {Nowhere}, Handoff(t)
      PROVE  TypeInv'
  <2>1. flowTaint' \in DataLabel /\ held' \in Content
    BY <1>6, LeaveTypes DEF Handoff
  <2>2. UNCHANGED <<runs, agentTaint, mailbox, board>>
    BY <1>6 DEF Handoff
  <2>3. CASE t \in Node
    <3> DEFINE text == [read |-> Trusted, any |-> context.any]
    <3>1. text \in Content
      BY DEF TypeOK, Content, Integrity, Trusted, Untrusted
    <3>2. Visit(t, hop, text)
      BY <1>6, <2>3 DEF Handoff
    <3>3. hop \in 0..MaxHops
      BY DEF TypeOK
    <3> HIDE DEF text
    <3>4. /\ phase' \in {"respond", "failed"} /\ node' = t
          /\ hop' \in 0..MaxHops /\ iteration' \in 0..MaxIterations[t]
          /\ calls' = 0 /\ calls' \in 0..MaxCalls
          /\ context' = text /\ localTaint' = TrustedPublic
      BY <2>3, <3>1, <3>2, <3>3, VisitControl
    <3> QED  BY <2>1, <2>2, <2>3, <3>1, <3>4, Labels DEF TypeOK, CallInIteration
  <2>4. CASE t \notin Node
    <3>1. /\ phase' = "failed" /\ calls' = 0
          /\ UNCHANGED <<node, hop, iteration, context, localTaint>>
      BY <1>6, <2>4 DEF Handoff
    <3>2. 0 \in 0..MaxCalls
      BY FlowAssumption DEF FlowAssumption
    <3> QED  BY <2>1, <2>2, <3>1, <3>2 DEF TypeOK, CallInIteration
  <2> QED  BY <2>3, <2>4
<1>7. ASSUME NEW t \in Node \cup {Nowhere}, MeshPost(t)
      PROVE  TypeInv'
  <2>1. [label |-> NodeLabel, content |-> context] \in Labelled
    BY NodeLabelType DEF Labelled, TypeOK
  <2>2. mailbox' \in [Node -> Seq(Labelled)]
    <3>1. CASE ~Deliverable(NodeLabel, t)
      BY <1>7, <3>1 DEF MeshPost, TypeOK
    <3>2. CASE Deliverable(NodeLabel, t)
      <4>1. t \in Node
        BY <3>2 DEF Deliverable
      <4>2. Append(mailbox[t], [label |-> NodeLabel, content |-> context])
              \in Seq(Labelled)
        BY <2>1, <4>1 DEF TypeOK
      <4> QED  BY <1>7, <3>2, <4>1, <4>2 DEF MeshPost, TypeOK
    <3> QED  BY <3>1, <3>2
  <2> QED  BY <1>7, <2>2, ServedTypes DEF MeshPost, TypeOK
<1>8. CASE MeshRecv
  <2>1. context' \in Content
    BY <1>8, MixedType, MailType DEF MeshRecv, TypeOK
  <2>2. mailbox' \in [Node -> Seq(Labelled)]
    BY <1>8 DEF MeshRecv, TypeOK
  <2> QED  BY <1>8, <2>1, <2>2, ServedTypes DEF MeshRecv, TypeOK
<1>9. ASSUME NEW k \in Key, BbPublish(k)
      PROVE  TypeInv'
  <2>1. [label |-> NodeLabel, content |-> context] \in Labelled
    BY NodeLabelType DEF Labelled, TypeOK
  <2>2. board' \in [Key -> Labelled \cup {NoEntry}]
    BY <1>9, <2>1 DEF BbPublish, TypeOK
  <2> QED  BY <1>9, <2>2, ServedTypes DEF BbPublish, TypeOK
<1>10. ASSUME NEW k \in Key, BbRead(k)
       PROVE  TypeInv'
  <2>1. CASE board[k] = NoEntry
    BY <1>10, <2>1, ServedTypes DEF BbRead, TypeOK
  <2>2. CASE board[k] # NoEntry
    <3>1. board[k].label \in DataLabel /\ board[k].content \in Content
      BY <2>2 DEF TypeOK, Labelled
    <3>2. localTaint' \in DataLabel /\ context' \in Content
      BY <1>10, <2>2, <3>1, JoinType, MixedType DEF BbRead, TypeOK
    <3> QED  BY <1>10, <3>2, ServedTypes DEF BbRead, TypeOK
  <2> QED  BY <2>1, <2>2
<1>11. CASE BbKeys
  BY <1>11, ServedTypes DEF BbKeys, TypeOK
<1>12. ASSUME NEW external \in BOOLEAN, CallTool(external)
       PROVE  TypeInv'
  <2>1. CallLabel(external) \in DataLabel
    BY Labels DEF CallLabel
  <2>2. Join(agentTaint[node], CallLabel(external)) \in DataLabel
    BY <2>1, JoinType DEF TypeOK
  <2>3. agentTaint' \in [Node -> DataLabel]
    BY <1>12, <2>2 DEF CallTool, TypeOK
  <2>4. context' \in Content
    BY <1>12, MixedType, Labels DEF CallTool, TypeOK
  <2> QED  BY <1>12, <2>3, <2>4, ServedTypes DEF CallTool, TypeOK
<1>13. CASE UNCHANGED vars
  BY <1>13 DEF TypeOK, CallInIteration, vars, visit, flow
<1> QED
  BY <1>1, <1>2, <1>3, <1>4, <1>5, <1>6, <1>7, <1>8, <1>9, <1>10, <1>11, <1>12,
     <1>13 DEF Next, RunStep

\* Every variable of a hand-off flow keeps its type, whatever its nodes, limits
\* and capacities: counters of visits, iterations and calls stay in bounds.
THEOREM TypeCorrect == Spec => []TypeOK
<1>1. Spec => []TypeInv
  BY InitTypes, StepTypes, PTL DEF Spec
<1>2. TypeInv => TypeOK
  BY DEF TypeInv
<1> QED  BY <1>1, <1>2, PTL

-----------------------------------------------------------------------------
LEMMA HigherIsUpper ==
    ASSUME NEW m \in Nat, NEW n \in Nat
    PROVE  /\ Higher(m, n) \in Nat
           /\ Higher(m, n) >= m /\ Higher(m, n) >= n
           /\ Higher(m, n) = m \/ Higher(m, n) = n
BY DEF Higher

\* Joining the labels of two covered contents covers what they make together.
LEMMA JoinCovers ==
    ASSUME NEW l \in DataLabel, NEW m \in DataLabel,
           NEW c \in Content, NEW d \in Content,
           l.integrity >= c.read, m.integrity >= d.read
    PROVE  Join(l, m).integrity >= Mixed(c, d).read
BY JoinType, MixedType DEF Higher, DataLabel, Content, Integrity, Trusted, Untrusted

\* A label that covers two contents covers what they make together.
LEMMA CoversBoth ==
    ASSUME NEW l \in DataLabel, NEW c \in Content, NEW d \in Content,
           l.integrity >= c.read, l.integrity >= d.read
    PROVE  l.integrity >= Mixed(c, d).read
BY MixedType DEF Higher, DataLabel, Content, Integrity, Trusted, Untrusted

\* While a visit lasts its label only rises.
LEMMA LabelRises ==
    ASSUME TypeOK, NEW a \in DataLabel, NEW m \in DataLabel
    PROVE  /\ Join(Join(agentTaint[node], a), localTaint).integrity >= NodeLabel.integrity
           /\ Join(Join(agentTaint[node], a), localTaint).integrity >= a.integrity
           /\ Join(agentTaint[node], Join(localTaint, m)).integrity >= NodeLabel.integrity
           /\ Join(agentTaint[node], Join(localTaint, m)).integrity >= m.integrity
BY JoinType DEF NodeLabel, TypeOK, Join, Higher, DataLabel, Integrity, Trusted, Untrusted

LEMMA CleanCovered ==
    ASSUME NEW l \in DataLabel
    PROVE  /\ l.integrity >= Clean.read
           /\ l.integrity >= Trusted
           /\ l.integrity >= 0
BY DEF Clean, DataLabel, Integrity, Trusted, Untrusted

LEMMA ReadLeave ==
    ASSUME TypeInv, ReadInv, LeaveNode
    PROVE  flowTaint'.integrity >= held'.read
BY NodeLabelType, JoinCovers DEF TypeInv, TypeOK, ReadInv, LeaveNode

LEMMA InitRead == Init => ReadInv
BY FlowAssumption, JoinType, Labels
DEF FlowAssumption, Init, ReadInv, LabelsCoverReads, NodeLabel, Join, Higher,
    TrustedPublic, Clean, Trusted, Public

\* No step lets a label fall behind what was read.
LEMMA StepRead == TypeInv /\ TypeInv' /\ ReadInv /\ [Next]_vars => ReadInv'
<1> SUFFICES ASSUME TypeInv, TypeInv', ReadInv, [Next]_vars PROVE ReadInv'
  OBVIOUS
<1> TypeOK /\ TypeOK'
  BY DEF TypeInv
<1>0. NodeLabel \in DataLabel /\ NodeLabel' \in DataLabel
  <2>1. NodeLabel \in DataLabel
    BY NodeLabelType
  <2>2. agentTaint'[node'] \in DataLabel /\ localTaint' \in DataLabel
    BY DEF TypeOK
  <2> QED  BY <2>1, <2>2, JoinType DEF NodeLabel
<1>1. CASE StartRun
  <2>1. context' = Clean /\ held' = Clean /\ UNCHANGED <<mailbox, board>>
    BY <1>1 DEF StartRun, Visit
  <2>2. flowTaint' \in DataLabel
    BY DEF TypeOK
  <2> QED  BY <1>0, <2>1, <2>2, CleanCovered DEF ReadInv, LabelsCoverReads
<1>2. ASSUME NodeError \/ IterationsExhausted PROVE ReadInv'
  BY <1>2 DEF NodeError, IterationsExhausted, EndVisit, ReadInv, LabelsCoverReads, NodeLabel
<1>3. CASE Stop
  <2>1. LeaveNode /\ UNCHANGED <<node, context, localTaint, agentTaint, mailbox, board>>
    BY <1>3 DEF Stop, EndVisit
  <2> QED  BY <2>1, ReadLeave DEF ReadInv, LabelsCoverReads, NodeLabel
<1>4. ASSUME NEW n \in 1..MaxCalls, RespondWithCalls(n) PROVE ReadInv'
  BY <1>4 DEF RespondWithCalls, flow, ReadInv, LabelsCoverReads, NodeLabel
<1>5. ASSUME NEW t \in Node \cup {Nowhere}, Handoff(t) PROVE ReadInv'
  <2>1. flowTaint'.integrity >= held'.read
    BY <1>5, ReadLeave DEF Handoff
  <2>2. UNCHANGED <<agentTaint, mailbox, board>>
    BY <1>5 DEF Handoff
  <2>3. NodeLabel'.integrity >= context'.read
    <3>1. CASE t \in Node
      <4>1. context'.read = Trusted
        BY <1>5, <3>1 DEF Handoff, Visit
      <4> QED  BY <1>0, <4>1, CleanCovered
    <3>2. CASE t \notin Node
      BY <1>5, <3>2 DEF Handoff, NodeLabel, ReadInv
    <3> QED  BY <3>1, <3>2
  <2> QED  BY <2>1, <2>2, <2>3 DEF ReadInv, LabelsCoverReads
<1>6. ASSUME NEW t \in Node \cup {Nowhere}, MeshPost(t) PROVE ReadInv'
  <2>1. UNCHANGED <<node, flowTaint, held, context, localTaint, agentTaint, board>>
    BY <1>6 DEF MeshPost, CallServed, flow
  <2>2. ASSUME NEW n \in Node, NEW i \in DOMAIN mailbox'[n]
        PROVE  mailbox'[n][i].label.integrity >= mailbox'[n][i].content.read
    <3>1. CASE n # t \/ ~Deliverable(NodeLabel, t)
      <4>1. mailbox'[n] = mailbox[n]
        BY <1>6, <3>1 DEF MeshPost, TypeOK
      <4> QED  BY <2>2, <4>1 DEF ReadInv, LabelsCoverReads
    <3>2. CASE n = t /\ Deliverable(NodeLabel, t)
      <4> DEFINE m == [label |-> NodeLabel, content |-> context]
      <4>1. mailbox'[n] = Append(mailbox[n], m)
        BY <1>6, <3>2 DEF MeshPost, TypeOK
      <4>2. m.label.integrity >= m.content.read
        BY DEF ReadInv
      <4>3. mailbox[n] \in Seq(Labelled)
        BY DEF TypeOK
      <4> HIDE DEF m
      <4>4. CASE i \in DOMAIN mailbox[n]
        <5>1. mailbox'[n][i] = mailbox[n][i]
          BY <4>1, <4>3, <4>4
        <5> QED  BY <4>4, <5>1 DEF ReadInv, LabelsCoverReads
      <4>5. CASE i \notin DOMAIN mailbox[n]
        <5>1. mailbox'[n][i] = m
          BY <2>2, <4>1, <4>3, <4>5
        <5> QED  BY <4>2, <5>1
      <4> QED  BY <4>4, <4>5
    <3> QED  BY <3>1, <3>2
  <2> QED  BY <2>1, <2>2 DEF ReadInv, LabelsCoverReads, NodeLabel
<1>7. CASE MeshRecv
  <2>1. /\ UNCHANGED <<node, flowTaint, held, localTaint, agentTaint, board>>
        /\ context' = Mixed(context, MailContent(mailbox[node]))
        /\ mailbox' = [mailbox EXCEPT ![node] = <<>>]
    BY <1>7 DEF MeshRecv, CallServed, flow
  <2>2. NodeLabel.integrity >= MailContent(mailbox[node]).read
    BY <1>0, CleanCovered DEF MailContent
  <2>3. NodeLabel.integrity >= context'.read
    BY <1>0, <2>1, <2>2, MailType, CoversBoth DEF ReadInv, TypeOK
  <2>4. \A n \in Node : mailbox'[n] = mailbox[n] \/ mailbox'[n] = <<>>
    BY <2>1 DEF TypeOK
  <2> QED  BY <2>1, <2>3, <2>4 DEF ReadInv, LabelsCoverReads, NodeLabel
<1>8. ASSUME NEW k \in Key, BbPublish(k) PROVE ReadInv'
  <2>1. UNCHANGED <<node, flowTaint, held, context, localTaint, agentTaint, mailbox>>
    BY <1>8 DEF BbPublish, CallServed, flow
  <2>2. \A j \in Key : \/ board'[j] = board[j]
                        \/ board'[j] = [label |-> NodeLabel, content |-> context]
    BY <1>8 DEF BbPublish, TypeOK
  <2> QED  BY <2>1, <2>2 DEF ReadInv, LabelsCoverReads, NodeLabel
<1>9. ASSUME NEW k \in Key, BbRead(k) PROVE ReadInv'
  <2>1. UNCHANGED <<node, flowTaint, held, agentTaint, mailbox, board>>
    BY <1>9 DEF BbRead, CallServed, flow
  <2>2. NodeLabel'.integrity >= context'.read
    <3>1. CASE board[k] = NoEntry
      BY <1>9, <2>1, <3>1 DEF BbRead, ReadInv, NodeLabel
    <3>2. CASE board[k] # NoEntry
      <4>1. board[k].label \in DataLabel /\ board[k].content \in Content
        BY <3>2 DEF TypeOK, Labelled
      <4>2. /\ localTaint' = Join(localTaint, board[k].label)
            /\ context' = Mixed(context, board[k].content)
        BY <1>9, <3>2 DEF BbRead
      <4>3. NodeLabel' = Join(agentTaint[node], Join(localTaint, board[k].label))
        BY <2>1, <4>2 DEF NodeLabel
      <4>4. /\ NodeLabel'.integrity >= NodeLabel.integrity
            /\ NodeLabel'.integrity >= board[k].label.integrity
        BY <4>1, <4>3, LabelRises, Labels
      <4>5. /\ NodeLabel'.integrity >= context.read
            /\ NodeLabel'.integrity >= board[k].content.read
        <5>1. /\ NodeLabel.integrity >= context.read
              /\ board[k].label.integrity >= board[k].content.read
          BY <3>2 DEF ReadInv, LabelsCoverReads
        <5>2. {NodeLabel.integrity, NodeLabel'.integrity, context.read,
               board[k].label.integrity, board[k].content.read} \subseteq Integrity
          BY <1>0, <4>1 DEF TypeOK, DataLabel, Content
        <5> QED  BY <4>4, <5>1, <5>2 DEF Integrity, Trusted, Untrusted
      <4> QED  BY <1>0, <4>1, <4>2, <4>5, CoversBoth DEF TypeOK
    <3> QED  BY <3>1, <3>2
  <2> QED  BY <2>1, <2>2 DEF ReadInv, LabelsCoverReads
<1>10. CASE BbKeys
  BY <1>10 DEF BbKeys, CallServed, flow, ReadInv, LabelsCoverReads, NodeLabel
<1>11. ASSUME NEW external \in BOOLEAN, CallTool(external) PROVE ReadInv'
  <2>1. UNCHANGED <<node, flowTaint, held, localTaint, mailbox, board>>
    BY <1>11 DEF CallTool, CallServed, flow
  <2> DEFINE l == CallLabel(external)
  <2>2. l \in DataLabel
    BY Labels DEF CallLabel
  <2>3. NodeLabel' = Join(Join(agentTaint[node], l), localTaint)
    <3>1. agentTaint'[node] = Join(agentTaint[node], l)
      BY <1>11 DEF CallTool, TypeOK
    <3> QED  BY <2>1, <3>1 DEF NodeLabel
  <2>4. NodeLabel'.integrity >= NodeLabel.integrity /\ NodeLabel'.integrity >= l.integrity
    BY <2>2, <2>3, LabelRises
  <2>5. NodeLabel'.integrity >= context'.read
    <3>1. {NodeLabel.integrity, NodeLabel'.integrity, context.read} \subseteq Integrity
      BY <1>0 DEF TypeOK, DataLabel, Content
    <3>2. NodeLabel'.integrity >= context.read
      BY <2>4, <3>1 DEF ReadInv, Integrity, Trusted, Untrusted
    <3>3. CASE ~external
      BY <1>11, <3>2, <3>3 DEF CallTool
    <3>4. CASE external
      <4>1. l.integrity = Untrusted
        BY <3>4 DEF CallLabel, UntrustedPublic
      <4>2. NodeLabel'.integrity >= Tainted.read
        BY <2>4, <4>1 DEF Tainted
      <4>3. context' = Mixed(context, Tainted)
        BY <1>11, <3>4 DEF CallTool
      <4> QED  BY <1>0, <3>2, <4>2, <4>3, CoversBoth, Labels DEF TypeOK
    <3> QED  BY <3>3, <3>4
  <2> QED  BY <2>1, <2>5 DEF ReadInv, LabelsCoverReads
<1>12. CASE UNCHANGED vars
  BY <1>12 DEF vars, visit, flow, ReadInv, LabelsCoverReads, NodeLabel
<1> QED
  BY <1>1, <1>2, <1>3, <1>4, <1>5, <1>6, <1>7, <1>8, <1>9, <1>10, <1>11, <1>12
  DEF Next, RunStep

LEMMA ReadInvariant == Spec => []ReadInv
<1>1. Spec => []TypeInv
  BY InitTypes, StepTypes, PTL DEF Spec
<1>2. Init => ReadInv
  BY InitRead
<1>3. TypeInv /\ TypeInv' /\ ReadInv /\ [Next]_vars => ReadInv'
  BY StepRead
<1> QED  BY <1>1, <1>2, <1>3, PTL DEF Spec

\* For every flow, a message or blackboard entry carries at least the label of
\* what its author read through tools and the blackboard, transitively.
THEOREM LabelsKeepUp == Spec => []LabelsCoverReads
<1>1. ReadInv => LabelsCoverReads
  BY DEF ReadInv
<1> QED  BY <1>1, ReadInvariant, PTL

\* For every flow and run, the label returned with the result covers what all
\* visited nodes read.
THEOREM ResultKeepsUp == Spec => []ResultCoversReads
<1>1. ReadInv => ResultCoversReads
  BY DEF ReadInv, ResultCoversReads
<1> QED  BY <1>1, ReadInvariant, PTL

-----------------------------------------------------------------------------
(* The first run: nothing was said before it, so whatever untrusted text is   *)
(* in a conversation, a message or an entry came from a node whose label the  *)
(* run has absorbed, or from the one being visited.                           *)
SaidAtMost(x) ==
    /\ \A n \in Node : \A i \in DOMAIN mailbox[n] : mailbox[n][i].content.any <= x
    /\ \A k \in Key : board[k] # NoEntry => board[k].content.any <= x

\* SaidAtMost after the step, of a bound that the step does not change.
SaidNext(x) ==
    /\ \A n \in Node : \A i \in DOMAIN mailbox'[n] : mailbox'[n][i].content.any <= x
    /\ \A k \in Key : board'[k] # NoEntry => board'[k].content.any <= x

Reached == Higher(flowTaint.integrity, NodeLabel.integrity)

FirstRunInv ==
    /\ runs = 0 => phase = "idle" /\ SaidAtMost(Trusted)
    /\ runs = 1 => /\ SaidAtMost(Reached)
                   /\ context.any <= Reached
                   /\ held.any <= flowTaint.integrity

LEMMA ReachedType ==
    TypeOK => /\ Reached \in Integrity
              /\ Reached >= flowTaint.integrity
              /\ Reached >= NodeLabel.integrity
              /\ NodeLabel.integrity \in Integrity
              /\ flowTaint.integrity \in Integrity
BY NodeLabelType DEF Reached, Higher, TypeOK, DataLabel, Integrity, Trusted, Untrusted

\* What is said in a step was in the conversation before it.
LEMMA SaidStep ==
    ASSUME TypeOK, TypeOK', RunStep, NEW x \in Integrity, NEW y \in Integrity,
           x <= y, SaidAtMost(x), context.any <= x
    PROVE  SaidNext(y)
<1> USE DEF Integrity, Trusted, Untrusted
<1>0. ASSUME UNCHANGED <<mailbox, board>> PROVE SaidNext(y)
  <2>1. ASSUME NEW n \in Node, NEW i \in DOMAIN mailbox[n]
        PROVE  mailbox[n][i].content.any <= y
    <3>1. mailbox[n][i] \in Labelled
      BY <2>1 DEF TypeOK
    <3> QED  BY <2>1, <3>1 DEF SaidAtMost, Labelled, Content
  <2>2. ASSUME NEW k \in Key, board[k] # NoEntry PROVE board[k].content.any <= y
    <3>1. board[k] \in Labelled
      BY <2>2 DEF TypeOK
    <3> QED  BY <2>2, <3>1 DEF SaidAtMost, Labelled, Content
  <2> QED  BY <1>0, <2>1, <2>2 DEF SaidNext
<1>1. ASSUME \A n \in Node : \A i \in DOMAIN mailbox'[n] :
                 \/ i \in DOMAIN mailbox[n] /\ mailbox'[n][i] = mailbox[n][i]
                 \/ mailbox'[n][i].content = context,
             \A k \in Key : board'[k] = board[k] \/ board'[k].content = context
      PROVE  SaidNext(y)
  <2>1. ASSUME NEW n \in Node, NEW i \in DOMAIN mailbox'[n]
        PROVE  mailbox'[n][i].content.any <= y
    <3>1. mailbox'[n][i] \in Labelled
      BY <2>1 DEF TypeOK
    <3> QED  BY <1>1, <2>1, <3>1 DEF SaidAtMost, Labelled, Content
  <2>2. ASSUME NEW k \in Key, board'[k] # NoEntry PROVE board'[k].content.any <= y
    <3>1. board'[k] \in Labelled
      BY <2>2 DEF TypeOK
    <3> QED  BY <1>1, <2>2, <3>1 DEF SaidAtMost, Labelled, Content
  <2> QED  BY <2>1, <2>2 DEF SaidNext
<1>2. ASSUME NodeError \/ IterationsExhausted \/ Stop PROVE SaidNext(y)
  BY <1>0, <1>2 DEF NodeError, IterationsExhausted, Stop, EndVisit
<1>3. ASSUME NEW n \in 1..MaxCalls, RespondWithCalls(n) PROVE SaidNext(y)
  BY <1>0, <1>3 DEF RespondWithCalls
<1>4. ASSUME NEW t \in Node \cup {Nowhere}, Handoff(t) PROVE SaidNext(y)
  BY <1>0, <1>4 DEF Handoff
<1>5. ASSUME NEW t \in Node \cup {Nowhere}, MeshPost(t) PROVE SaidNext(y)
  <2>1. ASSUME NEW n \in Node, NEW i \in DOMAIN mailbox'[n]
        PROVE  \/ i \in DOMAIN mailbox[n] /\ mailbox'[n][i] = mailbox[n][i]
               \/ mailbox'[n][i].content = context
    <3>1. CASE n # t \/ ~Deliverable(NodeLabel, t)
      BY <1>5, <2>1, <3>1 DEF MeshPost, TypeOK
    <3>2. CASE n = t /\ Deliverable(NodeLabel, t)
      <4> DEFINE m == [label |-> NodeLabel, content |-> context]
      <4>1. mailbox'[n] = Append(mailbox[n], m)
        BY <1>5, <3>2 DEF MeshPost, TypeOK
      <4>2. m.content = context
        OBVIOUS
      <4>3. mailbox[n] \in Seq(Labelled)
        BY DEF TypeOK
      <4> HIDE DEF m
      <4> QED  BY <2>1, <4>1, <4>2, <4>3
    <3> QED  BY <3>1, <3>2
  <2>2. board' = board
    BY <1>5 DEF MeshPost
  <2> QED  BY <1>1, <2>1, <2>2
<1>6. CASE MeshRecv
  <2>1. \A n \in Node : mailbox'[n] = mailbox[n] \/ mailbox'[n] = <<>>
    BY <1>6 DEF MeshRecv, TypeOK
  <2> QED  BY <1>1, <1>6, <2>1 DEF MeshRecv
<1>7. ASSUME NEW k \in Key, BbPublish(k) PROVE SaidNext(y)
  <2>1. \A j \in Key : \/ board'[j] = board[j]
                        \/ board'[j] = [label |-> NodeLabel, content |-> context]
    BY <1>7 DEF BbPublish, TypeOK
  <2>2. mailbox' = mailbox
    BY <1>7 DEF BbPublish
  <2> QED  BY <1>1, <2>1, <2>2
<1>8. ASSUME NEW k \in Key, BbRead(k) PROVE SaidNext(y)
  BY <1>0, <1>8 DEF BbRead
<1>9. CASE BbKeys
  BY <1>0, <1>9 DEF BbKeys
<1>10. ASSUME NEW external \in BOOLEAN, CallTool(external) PROVE SaidNext(y)
  BY <1>0, <1>10 DEF CallTool
<1> QED
  BY <1>2, <1>3, <1>4, <1>5, <1>6, <1>7, <1>8, <1>9, <1>10 DEF RunStep

\* What a run has reached only rises, and covers the conversation with it.
ReachedRises ==
    /\ Reached <= Reached'
    /\ context'.any <= Reached'
    /\ held'.any <= flowTaint'.integrity

LEMMA ReachedStep ==
    ASSUME TypeInv, TypeInv', RunStep,
           SaidAtMost(Reached), context.any <= Reached,
           held.any <= flowTaint.integrity
    PROVE  ReachedRises
<1> TypeOK /\ TypeOK'
  BY DEF TypeInv
<1> USE DEF Integrity, Trusted, Untrusted
<1>1. /\ {Reached, NodeLabel.integrity, flowTaint.integrity} \subseteq Integrity
      /\ Reached >= flowTaint.integrity /\ Reached >= NodeLabel.integrity
  BY ReachedType
<1>2. NodeLabel' \in DataLabel
  <2>1. agentTaint'[node'] \in DataLabel /\ localTaint' \in DataLabel
    BY DEF TypeOK
  <2> QED  BY <2>1, JoinType DEF NodeLabel
<1>3. /\ {Reached', NodeLabel'.integrity, flowTaint'.integrity} \subseteq Integrity
      /\ Reached' >= flowTaint'.integrity /\ Reached' >= NodeLabel'.integrity
  BY <1>2 DEF Reached, Higher, TypeOK, DataLabel
<1>4. {context.any, held.any, context'.any, held'.any} \subseteq Integrity
  BY DEF TypeOK, Content
<1>5. ASSUME LeaveNode, context'.any = context.any
      PROVE  ReachedRises
  <2>1. flowTaint'.integrity = Reached
    BY <1>5, NodeLabelType, JoinType DEF LeaveNode, Reached, TypeOK
  <2>2. held'.any = held.any \/ held'.any = context.any
    BY <1>5, MixedType DEF LeaveNode, Higher, TypeOK
  <2> QED  BY <1>1, <1>3, <1>4, <1>5, <2>1, <2>2 DEF ReachedRises
<1>6. ASSUME UNCHANGED <<flowTaint, held>>,
             NodeLabel'.integrity >= NodeLabel.integrity,
             context'.any <= Reached \/ context'.any <= NodeLabel'.integrity
      PROVE  ReachedRises
  <2>1. Reached <= Reached'
    BY <1>1, <1>3, <1>6 DEF Reached, Higher
  <2> QED  BY <1>1, <1>3, <1>4, <1>6, <2>1 DEF ReachedRises
<1>7. ASSUME UNCHANGED <<flowTaint, held, node, agentTaint, localTaint>>,
             context'.any <= Reached
      PROVE  ReachedRises
  BY <1>1, <1>6, <1>7 DEF NodeLabel
<1>8. ASSUME NodeError \/ IterationsExhausted PROVE ReachedRises
  BY <1>7, <1>8 DEF NodeError, IterationsExhausted, EndVisit
<1>9. CASE Stop
  BY <1>5, <1>9 DEF Stop, EndVisit
<1>10. ASSUME NEW n \in 1..MaxCalls, RespondWithCalls(n) PROVE ReachedRises
  BY <1>7, <1>10 DEF RespondWithCalls, flow
<1>11. ASSUME NEW t \in Node \cup {Nowhere}, Handoff(t) PROVE ReachedRises
  <2>1. context'.any = context.any
    BY <1>11 DEF Handoff, Visit
  <2> QED  BY <1>5, <1>11, <2>1 DEF Handoff
<1>12. ASSUME NEW t \in Node \cup {Nowhere}, MeshPost(t) PROVE ReachedRises
  BY <1>7, <1>12 DEF MeshPost, CallServed, flow
<1>13. CASE MeshRecv
  <2>1. context' = Mixed(context, MailContent(mailbox[node]))
    BY <1>13 DEF MeshRecv
  <2>2. MailContent(mailbox[node]).any <= Reached
    <3>1. CASE MailContent(mailbox[node]).any = Trusted
      BY <1>1, <3>1
    <3>2. CASE MailContent(mailbox[node]).any # Trusted
      <4>1. PICK i \in DOMAIN mailbox[node] : mailbox[node][i].content.any = Untrusted
        BY <3>2 DEF MailContent
      <4>2. Untrusted <= Reached
        BY <4>1 DEF SaidAtMost, TypeOK
      <4> QED  BY <1>1, <4>2 DEF MailContent
    <3> QED  BY <3>1, <3>2
  <2>3. context'.any <= Reached
    <3>1. context \in Content /\ MailContent(mailbox[node]) \in Content
      BY MailType DEF TypeOK
    <3>2. context'.any = Higher(context.any, MailContent(mailbox[node]).any)
      BY <2>1, <3>1, MixedType
    <3>3. context'.any \in {context.any, MailContent(mailbox[node]).any}
      BY <3>2 DEF Higher
    <3>4. context.any <= Reached
      OBVIOUS
    <3> QED
      BY <2>2, <3>3, <3>4
  <2> QED  BY <1>7, <1>13, <2>3 DEF MeshRecv, CallServed, flow
<1>14. ASSUME NEW k \in Key, BbPublish(k) PROVE ReachedRises
  BY <1>7, <1>14 DEF BbPublish, CallServed, flow
<1>15. ASSUME NEW k \in Key, BbRead(k) PROVE ReachedRises
  <2>1. UNCHANGED <<node, flowTaint, held, agentTaint>>
    BY <1>15 DEF BbRead, CallServed, flow
  <2>2. CASE board[k] = NoEntry
    BY <1>7, <1>15, <2>1, <2>2 DEF BbRead
  <2>3. CASE board[k] # NoEntry
    <3>1. board[k].label \in DataLabel /\ board[k].content \in Content
      BY <2>3 DEF TypeOK, Labelled
    <3>2. /\ localTaint' = Join(localTaint, board[k].label)
          /\ context' = Mixed(context, board[k].content)
      BY <1>15, <2>3 DEF BbRead
    <3>3. NodeLabel'.integrity >= NodeLabel.integrity
      BY <2>1, <3>1, <3>2, LabelRises, Labels DEF NodeLabel
    <3>4. board[k].content.any <= Reached
      BY <2>3 DEF SaidAtMost
    <3>5. context'.any <= Reached
      BY <3>1, <3>2, <3>4, MixedType DEF Higher, TypeOK
    <3> QED  BY <1>6, <2>1, <3>3, <3>5
  <2> QED  BY <2>2, <2>3
<1>16. CASE BbKeys
  BY <1>7, <1>16 DEF BbKeys, CallServed, flow
<1>17. ASSUME NEW external \in BOOLEAN, CallTool(external) PROVE ReachedRises
  <2>1. UNCHANGED <<node, flowTaint, held, localTaint>>
    BY <1>17 DEF CallTool, CallServed, flow
  <2> DEFINE l == CallLabel(external)
  <2>2. l \in DataLabel
    BY Labels DEF CallLabel
  <2>3. agentTaint'[node] = Join(agentTaint[node], l)
    BY <1>17 DEF CallTool, TypeOK
  <2>4. NodeLabel'.integrity >= NodeLabel.integrity /\ NodeLabel'.integrity >= l.integrity
    BY <2>1, <2>2, <2>3, LabelRises DEF NodeLabel
  <2>5. CASE external
    <3>1. l.integrity = Untrusted
      BY <2>5 DEF CallLabel, UntrustedPublic
    <3> QED  BY <1>3, <1>4, <1>6, <2>1, <2>4, <3>1
  <2>6. CASE ~external
    BY <1>6, <1>17, <2>1, <2>4, <2>6 DEF CallTool
  <2> QED  BY <2>5, <2>6
<1> QED
  BY <1>8, <1>9, <1>10, <1>11, <1>12, <1>13, <1>14, <1>15, <1>16, <1>17 DEF RunStep

LEMMA RunStepCounts == RunStep => Running /\ runs' = runs
BY DEF RunStep, Running, NodeError, IterationsExhausted, Stop, EndVisit,
   RespondWithCalls, Handoff, MeshPost, MeshRecv, BbPublish, BbRead, BbKeys,
   CallTool, CallServed, flow

LEMMA InitFirstRun == Init => FirstRunInv
BY DEF Init, FirstRunInv, SaidAtMost

LEMMA StepFirstRun == TypeInv /\ TypeInv' /\ FirstRunInv /\ [Next]_vars => FirstRunInv'
<1> SUFFICES ASSUME TypeInv, TypeInv', FirstRunInv, [Next]_vars PROVE FirstRunInv'
  OBVIOUS
<1> TypeOK /\ TypeOK'
  BY DEF TypeInv
<1> runs \in Nat
  BY FlowAssumption DEF TypeOK, FlowAssumption
<1>1. CASE StartRun
  <2>1. /\ runs' = runs + 1 /\ UNCHANGED <<mailbox, board>>
        /\ flowTaint' = TrustedPublic /\ held' = Clean /\ context' = Clean
    BY <1>1 DEF StartRun, Visit
  <2>2. CASE runs # 0
    BY <2>1, <2>2 DEF FirstRunInv
  <2>3. CASE runs = 0
    <3>1. SaidNext(Trusted)
      BY <2>1, <2>3 DEF FirstRunInv, SaidAtMost, SaidNext
    <3>2. Reached' \in Integrity
      <4>1. agentTaint'[node'] \in DataLabel /\ localTaint' \in DataLabel
        BY DEF TypeOK
      <4>2. NodeLabel' \in DataLabel
        BY <4>1, JoinType DEF NodeLabel
      <4> QED  BY <4>2 DEF Reached, Higher, TypeOK, DataLabel
    <3>3. SaidAtMost(Reached)'
      <4>1. ASSUME NEW n \in Node, NEW i \in DOMAIN mailbox'[n]
            PROVE  mailbox'[n][i].content.any <= Reached'
        <5>1. mailbox'[n][i] \in Labelled
          BY <4>1 DEF TypeOK
        <5> QED
          BY <3>1, <3>2, <4>1, <5>1
          DEF SaidNext, Labelled, Content, Integrity, Trusted, Untrusted
      <4>2. ASSUME NEW k \in Key, board'[k] # NoEntry
            PROVE  board'[k].content.any <= Reached'
        <5>1. board'[k] \in Labelled
          BY <4>2 DEF TypeOK
        <5> QED
          BY <3>1, <3>2, <4>2, <5>1
          DEF SaidNext, Labelled, Content, Integrity, Trusted, Untrusted
      <4> QED  BY <4>1, <4>2 DEF SaidAtMost
    <3> QED
      BY <2>1, <2>3, <3>2, <3>3
      DEF FirstRunInv, Clean, TrustedPublic, Integrity, Trusted, Untrusted
  <2> QED  BY <2>2, <2>3
<1>2. CASE RunStep
  <2>1. Running /\ runs' = runs
    BY <1>2, RunStepCounts
  <2>2. runs # 0
    BY <2>1 DEF FirstRunInv, Running
  <2>3. CASE runs = 1
    <3>1. ReachedRises
      BY <1>2, <2>3, ReachedStep DEF FirstRunInv
    <3>2. Reached \in Integrity /\ Reached' \in Integrity
      <4>1. agentTaint'[node'] \in DataLabel /\ localTaint' \in DataLabel
        BY DEF TypeOK
      <4>2. NodeLabel' \in DataLabel
        BY <4>1, JoinType DEF NodeLabel
      <4> QED  BY <4>2, ReachedType DEF Reached, Higher, TypeOK, DataLabel
    <3>3. PICK x \in Integrity, y \in Integrity : x = Reached /\ y = Reached'
      BY <3>2
    <3>4. SaidAtMost(x) /\ context.any <= x /\ x <= y
      BY <2>3, <3>1, <3>3 DEF FirstRunInv, ReachedRises
    <3>5. SaidNext(y)
      BY <1>2, <3>4, SaidStep
    <3>6. SaidAtMost(Reached)'
      BY <3>3, <3>5 DEF SaidAtMost, SaidNext
    <3> QED  BY <2>1, <2>2, <2>3, <3>1, <3>6 DEF FirstRunInv, ReachedRises
  <2>4. CASE runs # 1
    BY <2>1, <2>2, <2>4 DEF FirstRunInv
  <2> QED  BY <2>3, <2>4
<1>3. CASE UNCHANGED vars
  BY <1>3 DEF vars, visit, flow, FirstRunInv, SaidAtMost, Reached, NodeLabel
<1> QED  BY <1>1, <1>2, <1>3 DEF Next

\* For every flow, the label returned by its first run covers everything any
\* visited node was told, mail and hand-off tasks included, although neither
\* carries its label along.
THEOREM FirstResultKeepsUp == Spec => []FirstResultCovers
<1>1. Spec => []TypeInv
  BY InitTypes, StepTypes, PTL DEF Spec
<1>2. Init => FirstRunInv
  BY InitFirstRun
<1>3. TypeInv /\ TypeInv' /\ FirstRunInv /\ [Next]_vars => FirstRunInv'
  BY StepFirstRun
<1>4. TypeInv /\ FirstRunInv => FirstResultCovers
  BY DEF TypeInv, TypeOK, FirstRunInv, FirstResultCovers, DataLabel, Content,
         Integrity, Trusted, Untrusted
<1> QED  BY <1>1, <1>2, <1>3, <1>4, PTL DEF Spec
=============================================================================
