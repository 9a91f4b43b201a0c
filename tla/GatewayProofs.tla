---------------------------- MODULE GatewayProofs ----------------------------
(***************************************************************************)
(* Proofs about Gateway for any number of agents, requests and tools, any  *)
(* policies, limits and filters.                                           *)
(***************************************************************************)
EXTENDS Gateway, FiniteSetTheorems, TLAPS

-----------------------------------------------------------------------------
(* Labels *)

\* Joining labels gives a label that is above both (navra-protocol label.rs).
LEMMA JoinBounds ==
    ASSUME NEW l \in DataLabel, NEW m \in DataLabel
    PROVE  /\ Join(l, m) \in DataLabel
           /\ AtMost(l, Join(l, m))
           /\ AtMost(m, Join(l, m))
BY DEF DataLabel, Integrity, Confidentiality, Trusted, Untrusted, Public, Secret,
       Join, Higher, AtMost

\* The labels the code writes down are labels.
LEMMA Labels ==
    /\ TrustedPublic \in DataLabel
    /\ TrustedPublic.integrity = Trusted
    /\ \A recs, c : [integrity |-> IF tool[c] \in ExternalRead THEN Untrusted ELSE Trusted,
                     confidentiality |-> ResultConfidentiality(recs)] \in DataLabel
    /\ \A l \in DataLabel : /\ Declassified(l, Sensitive) \in DataLabel
                            /\ Declassified(l, Sensitive).integrity = l.integrity
BY DEF TrustedPublic, DataLabel, Integrity, Confidentiality, Trusted, Untrusted, Public,
       Sensitive, Pii, Secret, ResultConfidentiality, Declassified

-----------------------------------------------------------------------------
(* Types *)

\* A filter makes one of the five outcomes of a result.
LEMMA FilterOutcomes == \A action : FilterOutcome(action) \subseteq Outcome
BY Zenon DEF FilterOutcome, Outcome

\* Sessions created or being created are bounded by the initialize requests.
InitsBound == orphans + creating <= inits

\* A request that has arrived has an agent and a tool.
Arrived == \A c \in Call : pc[c] # "idle" => owner[c] \in Agent /\ tool[c] \in Tool

TypeInv == TypeOK /\ InitsBound /\ Arrived

\* The initial state is well typed.
LEMMA InitTypes == Init => TypeInv
<1> SUFFICES ASSUME Init PROVE TypeInv
  OBVIOUS
<1>1. 0 \in 0..MaxInits /\ 0 \in Nat
  BY GatewayAssumption
<1>2. "idle" \in Step /\ "clean" \in Outcome /\ FALSE \in BOOLEAN
  BY DEF Step, Outcome
<1>3. TypeOK
  BY <1>1, <1>2, Labels, Zenon DEF Init, TypeOK
<1>4. InitsBound
  BY DEF Init, InitsBound
<1>5. Arrived
  BY DEF Init, Arrived
<1> QED
  BY <1>3, <1>4, <1>5 DEF TypeInv

\* Adding a request to what an agent's session absorbed keeps the type.
LEMMA AbsorbTypes ==
    ASSUME NEW A \in [Agent -> SUBSET Call], NEW a, NEW c \in Call
    PROVE  \A B : B = A \/ B = [A EXCEPT ![a] = @ \cup {c}] => B \in [Agent -> SUBSET Call]
OBVIOUS

\* Every step keeps every type.
LEMMA NextTypes == TypeInv /\ [Next]_vars => TypeInv'
<1> SUFFICES ASSUME TypeInv, [Next]_vars PROVE TypeInv'
  OBVIOUS
<1> USE GatewayAssumption DEF TypeInv, TypeOK, InitsBound, Arrived
<1>1. ASSUME NEW a \in Agent, Initialize(a) PROVE TypeInv'
  <2>1. PICK gone \in SUBSET Agent, left \in 0..orphans :
            Forget(gone) /\ orphans' = left /\ creating' \in {creating, creating + 1}
    BY <1>1, Zenon DEF Initialize
  <2>2. label' \in [Agent -> DataLabel] /\ absorbed' \in [Agent -> SUBSET Call]
    BY <2>1, Labels DEF Forget
  <2>3. live' \in SUBSET Agent
    BY <2>1 DEF Forget
  <2>4. /\ orphans' \in 0..MaxInits /\ creating' \in 0..MaxInits /\ inits' \in 0..MaxInits
        /\ InitsBound'
    BY <1>1, <2>1 DEF Initialize
  <2> QED
    BY <1>1, <2>2, <2>3, <2>4, Zenon DEF Initialize, requestVars, resultVars
<1>2. ASSUME CreateOrphan PROVE TypeInv'
  BY <1>2 DEF CreateOrphan, requestVars, resultVars
<1>3. ASSUME NEW c \in Call, Arrive(c) PROVE TypeInv'
  <2>1. pc' \in [Call -> Step]
    BY <1>3 DEF Arrive, Goto, Step, Admitted
  <2>2. owner' \in [Call -> Agent \cup {NoAgent}]
    BY <1>3 DEF Arrive, Is
  <2>3. tool' \in [Call -> Tool \cup {NoTool}]
    BY <1>3 DEF Arrive, Is
  <2>4. refs' \in [Call -> SUBSET Call]
    BY <1>3 DEF Arrive, Is
  <2>5. Arrived'
    BY <1>3 DEF Arrive, Goto, Is
  <2> QED
    BY <1>3, <2>1, <2>2, <2>3, <2>4, <2>5, Zenon DEF Arrive, sessionVars, resultVars
<1>4. ASSUME NEW c \in Call, EnsureSession(c) PROVE TypeInv'
  <2>1. pc' \in [Call -> Step]
    BY <1>4 DEF EnsureSession, Goto, Step, Admitted
  <2>2. Arrived'
    BY <1>4 DEF EnsureSession, Goto, Is, requestVars
  <2> QED
    BY <1>4, <2>1, <2>2, Zenon DEF EnsureSession, sessionVars, requestVars, resultVars
<1>5. ASSUME NEW c \in Call, CreateSession(c) PROVE TypeInv'
  <2>1. pc' \in [Call -> Step]
    BY <1>5 DEF CreateSession, Goto, Step, Admitted
  <2>2. live' \in SUBSET Agent
    BY <1>5 DEF CreateSession, Is
  <2>3. label' \in [Agent -> DataLabel]
    BY <1>5, Labels DEF CreateSession, Is
  <2>4. absorbed' \in [Agent -> SUBSET Call]
    BY <1>5, Labels DEF CreateSession, Is
  <2>5. Arrived'
    BY <1>5 DEF CreateSession, Goto, Is, requestVars
  <2> QED
    BY <1>5, <2>1, <2>2, <2>3, <2>4, <2>5, Zenon DEF CreateSession, requestVars, resultVars
<1>6. ASSUME NEW c \in Call, ReadSessionLabel(c) PROVE TypeInv'
  <2>1. pc' \in [Call -> Step]
    BY <1>6 DEF ReadSessionLabel, Goto, Step, Admitted
  <2>2. taint' \in [Call -> DataLabel]
    BY <1>6 DEF ReadSessionLabel, Is
  <2>3. seenAt' \in [Call -> SUBSET Call]
    BY <1>6 DEF ReadSessionLabel, Is
  <2>4. Arrived'
    BY <1>6 DEF ReadSessionLabel, Goto, Is
  <2> QED
    BY <1>6, <2>1, <2>2, <2>3, <2>4, Zenon DEF ReadSessionLabel, sessionVars, resultVars
<1>7. ASSUME NEW c \in Call, Refuse(c) PROVE TypeInv'
  <2>1. pc' \in [Call -> Step]
    BY <1>7 DEF Refuse, Goto, Step, Admitted
  <2>2. Arrived'
    BY <1>7 DEF Refuse, Goto, Is, requestVars
  <2> QED
    BY <1>7, <2>1, <2>2, Zenon DEF Refuse, sessionVars, requestVars, resultVars
<1>8. ASSUME NEW c \in Call, Admit(c) PROVE TypeInv'
  <2>1. pc' \in [Call -> Step]
    BY <1>8 DEF Admit, Goto, Step, Admitted
  <2>2. active' \in [Agent -> [Tool -> Nat]]
    BY <1>8 DEF Admit, Is
  <2>3. Arrived'
    BY <1>8 DEF Admit, Goto, Is, requestVars
  <2> QED
    BY <1>8, <2>1, <2>2, <2>3, Zenon DEF Admit, sessionVars, requestVars, resultVars
<1>9. ASSUME NEW c \in Call, Answer(c) PROVE TypeInv'
  <2>1. pc' \in [Call -> Step]
    BY <1>9 DEF Answer, Goto, Step, Admitted
  <2>2. asked' \in [Call -> BOOLEAN]
    BY <1>9 DEF Answer
  <2>3. Arrived'
    BY <1>9 DEF Answer, Goto, Is, requestVars
  <2> QED
    BY <1>9, <2>1, <2>2, <2>3, Zenon DEF Answer, sessionVars, requestVars
<1>10. ASSUME NEW c \in Call, Cut(c) PROVE TypeInv'
  <2>1. pc' \in [Call -> Step]
    BY <1>10 DEF Cut, Goto, Step, Admitted
  <2>2. active' \in [Agent -> [Tool -> Nat]]
    BY <1>10 DEF Cut, CompleteCall, Is
  <2>3. Arrived'
    BY <1>10 DEF Cut, Goto, Is, requestVars
  <2> QED
    BY <1>10, <2>1, <2>2, <2>3, Zenon DEF Cut, sessionVars, requestVars, resultVars
<1>11. ASSUME NEW c \in Call, LeavePending(c) PROVE TypeInv'
  <2>1. pc' \in [Call -> Step]
    BY <1>11 DEF LeavePending, Goto, Step, Admitted
  <2>2. Arrived'
    BY <1>11 DEF LeavePending, Goto, Is, requestVars
  <2> QED
    BY <1>11, <2>1, <2>2, Zenon DEF LeavePending, sessionVars, requestVars, resultVars
<1>12. ASSUME NEW c \in Call, Filter(c) PROVE TypeInv'
  <2>1. pc' \in [Call -> Step]
    BY <1>12 DEF Filter, Goto, Step, Admitted
  <2>2. outcome' \in [Call -> Outcome]
    BY <1>12, FilterOutcomes DEF Filter, Is
  <2>3. ledger' \in SUBSET Call
    BY <1>12, FilterOutcomes DEF Filter, Is
  <2>4. overlapped' \in SUBSET Call
    BY <1>12, FilterOutcomes DEF Filter, Is
  <2>5. Arrived'
    BY <1>12 DEF Filter, Goto, Is, requestVars
  <2> QED
    BY <1>12, <2>1, <2>2, <2>3, <2>4, <2>5, Zenon DEF Filter, sessionVars, requestVars
<1>13. ASSUME NEW c \in Call, LabelResult(c) PROVE TypeInv'
  <2>1. pc' \in [Call -> Step]
    BY <1>13 DEF LabelResult, Goto, Step, Admitted
  <2>2. rlabel' \in [Call -> DataLabel]
    BY <1>13, Labels, JoinBounds DEF LabelResult
  <2>3. taint' \in [Call -> DataLabel]
    BY <1>13, Labels, JoinBounds DEF LabelResult
  <2>4. down' \in [Call -> BOOLEAN]
    BY <1>13, Labels, JoinBounds DEF LabelResult
  <2>5. ledger' \in SUBSET Call
    BY <1>13, Labels, JoinBounds DEF LabelResult
  <2>6. Arrived'
    BY <1>13 DEF LabelResult, Goto, Is, requestVars
  <2>7. takers' \in [Call -> SUBSET Call]
    BY <1>13 DEF LabelResult, Take
  <2> QED
    BY <1>13, <2>1, <2>2, <2>3, <2>4, <2>5, <2>6, <2>7, Zenon
    DEF LabelResult, sessionVars, requestVars
<1>14. ASSUME NEW c \in Call, RejectInput(c) PROVE TypeInv'
  <2>1. pc' \in [Call -> Step]
    BY <1>14 DEF RejectInput, Goto, Step, Admitted
  <2>2. ledger' \in SUBSET Call
    BY <1>14 DEF RejectInput
  <2>3. Arrived'
    BY <1>14 DEF RejectInput, Goto, Is, requestVars
  <2>4. takers' \in [Call -> SUBSET Call]
    BY <1>14 DEF RejectInput, Take
  <2> QED
    BY <1>14, <2>1, <2>2, <2>3, <2>4, Zenon DEF RejectInput, sessionVars, requestVars
<1>15. ASSUME NEW c \in Call, AbsorbResult(c) PROVE TypeInv'
  <2>1. pc' \in [Call -> Step]
    BY <1>15 DEF AbsorbResult, Goto, Step, Admitted
  <2>2. label' \in [Agent -> DataLabel]
    BY <1>15, JoinBounds DEF AbsorbResult, UpdateContextLabel, Is
  <2>3. absorbed' \in [Agent -> SUBSET Call]
    <3>1. \/ absorbed' = absorbed
          \/ absorbed' = [absorbed EXCEPT ![owner[c]] = @ \cup {c}]
      BY <1>15 DEF AbsorbResult
    <3> QED
      BY <3>1, AbsorbTypes
  <2>4. stored' \in SUBSET Call
    BY <1>15, JoinBounds DEF AbsorbResult, UpdateContextLabel, Is
  <2>5. vlabel' \in [Call -> DataLabel]
    BY <1>15, JoinBounds DEF AbsorbResult, UpdateContextLabel, Is
  <2>6. Arrived'
    BY <1>15 DEF AbsorbResult, Goto, Is, requestVars
  <2> QED
    BY <1>15, <2>1, <2>2, <2>3, <2>4, <2>5, <2>6, Zenon DEF AbsorbResult, requestVars
<1>16. ASSUME NEW c \in Call, Lower(c) PROVE TypeInv'
  <2>1. pc' \in [Call -> Step]
    BY <1>16 DEF Lower, Goto, Step, Admitted
  <2>2. taint' \in [Call -> DataLabel]
    BY <1>16, Labels DEF Lower
  <2>3. vlabel' \in [Call -> DataLabel]
    BY <1>16, Labels DEF Lower
  <2>4. Arrived'
    BY <1>16 DEF Lower, Goto, Is, requestVars
  <2> QED
    BY <1>16, <2>1, <2>2, <2>3, <2>4, Zenon DEF Lower, sessionVars, requestVars
<1>17. ASSUME NEW c \in Call, LowerWrite(c) PROVE TypeInv'
  <2>1. pc' \in [Call -> Step]
    BY <1>17 DEF LowerWrite, Goto, Step, Admitted
  <2>2. label' \in [Agent -> DataLabel]
    BY <1>17, Labels DEF LowerWrite
  <2>3. Arrived'
    BY <1>17 DEF LowerWrite, Goto, Is, requestVars
  <2> QED
    BY <1>17, <2>1, <2>2, <2>3, Zenon DEF LowerWrite, requestVars, resultVars
<1>18. ASSUME NEW c \in Call, Finish(c) PROVE TypeInv'
  <2>1. pc' \in [Call -> Step]
    BY <1>18 DEF Finish, Goto, Step, Admitted
  <2>2. active' \in [Agent -> [Tool -> Nat]]
    BY <1>18 DEF Finish, CompleteCall, Is
  <2>3. Arrived'
    BY <1>18 DEF Finish, Goto, Is, requestVars
  <2> QED
    BY <1>18, <2>1, <2>2, <2>3, Zenon DEF Finish, sessionVars, requestVars, resultVars
<1>19. ASSUME UNCHANGED vars PROVE TypeInv'
  BY <1>19, Zenon DEF vars, sessionVars, requestVars, resultVars
<1> QED
  BY <1>1, <1>2, <1>3, <1>4, <1>5, <1>6, <1>7, <1>8, <1>9, <1>10, <1>11, <1>12, <1>13,
     <1>14, <1>15, <1>16, <1>17, <1>18, <1>19, Zenon DEF Next

\* Type correctness: labels stay in the lattice, counts stay in range, whatever
\* requests of whatever agents interleave (server/handlers.rs, session.rs).
THEOREM TypeCorrect == Spec => []TypeOK
<1>1. TypeInv => TypeOK
  BY DEF TypeInv
<1> QED
  BY <1>1, InitTypes, NextTypes, PTL DEF Spec

-----------------------------------------------------------------------------
(* The process table *)

\* The running calls of an agent to a tool.
Listed(a, t) == {c \in InFlight(a) : tool[c] = t}

\* Counting them is meaningful, and adding or removing one counts by one.
LEMMA ListedFinite ==
    ASSUME NEW a, NEW t
    PROVE  /\ IsFiniteSet(Listed(a, t)) /\ Cardinality(Listed(a, t)) \in Nat
           /\ IsFiniteSet(Listed(a, t)') /\ Cardinality(Listed(a, t)') \in Nat
<1>1. Listed(a, t) \subseteq Call /\ Listed(a, t)' \subseteq Call
  BY DEF Listed, InFlight
<1> QED
  BY <1>1, GatewayAssumption, FS_Subset, FS_CardinalityType

\* A step that moves no request into or out of the running ones, or takes one
\* out, and leaves the table alone, keeps them listed.
LEMMA ListedShrinks ==
    ASSUME RunningIsListed, UNCHANGED active,
           \A a \in Agent, t \in Tool : Listed(a, t)' \subseteq Listed(a, t),
           TypeOK
    PROVE  RunningIsListed'
<1> SUFFICES ASSUME NEW a \in Agent, NEW t \in Tool
             PROVE  Cardinality(Listed(a, t)') <= active[a][t]
  BY DEF RunningIsListed, Listed
<1>1. Cardinality(Listed(a, t)') <= Cardinality(Listed(a, t))
  BY ListedFinite, FS_Subset
<1>2. Cardinality(Listed(a, t)) <= active[a][t]
  BY DEF RunningIsListed, Listed
<1> QED
  BY <1>1, <1>2, ListedFinite DEF TypeOK

\* A call that completes leaves the running ones and takes one entry with it.
LEMMA ListedCompletes ==
    ASSUME RunningIsListed, TypeOK, NEW c \in Call, pc[c] \in Admitted,
           owner[c] \in Agent, tool[c] \in Tool,
           CompleteCall(c), UNCHANGED <<owner, tool>>,
           NEW step, step \notin Admitted, Goto(c, step)
    PROVE  RunningIsListed'
<1> SUFFICES ASSUME NEW a \in Agent, NEW t \in Tool
             PROVE  Cardinality(Listed(a, t)') <= active'[a][t]
  BY DEF RunningIsListed, Listed
<1>1. Cardinality(Listed(a, t)) <= active[a][t]
  BY DEF RunningIsListed, Listed
<1>2. CASE a = owner[c] /\ t = tool[c]
  <2>1. Listed(a, t)' = Listed(a, t) \ {c} /\ c \in Listed(a, t)
    BY <1>2 DEF Listed, InFlight, Goto, TypeOK
  <2>2. Cardinality(Listed(a, t)') = Cardinality(Listed(a, t)) - 1
    BY <2>1, ListedFinite, FS_RemoveElement
  <2>3. active[a][t] \in Nat
    BY DEF TypeOK
  <2>4. active'[a][t] = IF active[a][t] > 0 THEN active[a][t] - 1 ELSE 0
    BY <1>2 DEF CompleteCall, TypeOK
  <2> QED
    BY <1>1, <2>2, <2>3, <2>4, ListedFinite
<1>3. CASE ~(a = owner[c] /\ t = tool[c])
  <2>1. Listed(a, t)' = Listed(a, t)
    BY <1>3 DEF Listed, InFlight, Goto, TypeOK
  <2>2. active'[a][t] = active[a][t]
    BY <1>3 DEF CompleteCall, TypeOK
  <2> QED
    BY <1>1, <2>1, <2>2
<1> QED
  BY <1>2, <1>3

\* The process table lists every running call ("active_calls", process.rs:33).
THEOREM KeepsRunningListed == Spec => []RunningIsListed
<1>1. Init => RunningIsListed
  <2> SUFFICES ASSUME Init, NEW a \in Agent, NEW t \in Tool
               PROVE  Cardinality(Listed(a, t)) <= active[a][t]
    BY DEF RunningIsListed, Listed
  <2>1. Listed(a, t) = {}
    BY DEF Init, Listed, InFlight, Admitted
  <2>2. active[a][t] = 0
    BY DEF Init
  <2> QED
    BY <2>1, <2>2, FS_EmptySet
<1>2. TypeInv /\ RunningIsListed /\ [Next]_vars => RunningIsListed'
  <2> SUFFICES ASSUME TypeInv, RunningIsListed, [Next]_vars PROVE RunningIsListed'
    OBVIOUS
  <2> USE DEF TypeInv
  <2>1. ASSUME UNCHANGED <<pc, owner, tool, active>> PROVE RunningIsListed'
    <3>1. \A a \in Agent, t \in Tool : Listed(a, t)' \subseteq Listed(a, t)
      BY <2>1 DEF Listed, InFlight
    <3> QED
      BY <2>1, <3>1, ListedShrinks
  <2>2. ASSUME NEW c \in Call, NEW step, Goto(c, step), UNCHANGED <<owner, tool, active>>,
               step \in Admitted => pc[c] \in Admitted
        PROVE  RunningIsListed'
    <3>1. \A a \in Agent, t \in Tool : Listed(a, t)' \subseteq Listed(a, t)
      BY <2>2 DEF Listed, InFlight, Goto, TypeOK
    <3> QED
      BY <2>2, <3>1, ListedShrinks
  <2>3. ASSUME NEW c \in Call, Arrive(c) PROVE RunningIsListed'
    <3>1. \A a \in Agent, t \in Tool : Listed(a, t)' \subseteq Listed(a, t)
      BY <2>3 DEF Arrive, Listed, InFlight, Goto, TypeOK, Admitted
    <3> QED
      BY <2>3, <3>1, ListedShrinks DEF Arrive
  <2>4. ASSUME NEW c \in Call, Admit(c) PROVE RunningIsListed'
    <3> SUFFICES ASSUME NEW a \in Agent, NEW t \in Tool
                 PROVE  Cardinality(Listed(a, t)') <= active'[a][t]
      BY DEF RunningIsListed, Listed
    <3>1. Cardinality(Listed(a, t)) <= active[a][t] /\ active[a][t] \in Nat
      BY DEF RunningIsListed, Listed, TypeOK
    <3>2. CASE a = owner[c] /\ t = tool[c]
      <4>1. Listed(a, t)' = Listed(a, t) \cup {c} /\ c \notin Listed(a, t)
        BY <2>4, <3>2 DEF Admit, Listed, InFlight, Goto, Is, TypeOK, Admitted, requestVars
      <4>2. Cardinality(Listed(a, t)') = Cardinality(Listed(a, t)) + 1
        BY <4>1, ListedFinite, FS_AddElement
      <4>3. active'[a][t] = active[a][t] + 1
        BY <2>4, <3>2 DEF Admit, TypeOK
      <4> QED
        BY <3>1, <4>2, <4>3, ListedFinite
    <3>3. CASE ~(a = owner[c] /\ t = tool[c])
      <4>1. Listed(a, t)' = Listed(a, t)
        BY <2>4, <3>3 DEF Admit, Listed, InFlight, Goto, Is, TypeOK, Admitted, requestVars
      <4>2. active'[a][t] = active[a][t]
        BY <2>4, <3>3 DEF Admit, TypeOK
      <4> QED
        BY <3>1, <4>1, <4>2
    <3> QED
      BY <3>2, <3>3
  <2>5. ASSUME NEW c \in Call, Cut(c) PROVE RunningIsListed'
    <3>1. pc[c] \in Admitted /\ owner[c] \in Agent /\ tool[c] \in Tool
      BY <2>5 DEF Cut, Is, Admitted, Arrived
    <3>2. CompleteCall(c) /\ UNCHANGED <<owner, tool>> /\ Goto(c, "dropped")
      BY <2>5 DEF Cut, requestVars
    <3> QED
      BY <3>1, <3>2, ListedCompletes DEF Admitted
  <2>6. ASSUME NEW c \in Call, Finish(c) PROVE RunningIsListed'
    <3>1. pc[c] \in Admitted /\ owner[c] \in Agent /\ tool[c] \in Tool
      BY <2>6 DEF Finish, Is, Admitted, Arrived
    <3>2. PICK step \in {"delivered", "withheld"} :
              CompleteCall(c) /\ UNCHANGED <<owner, tool>> /\ Goto(c, step)
      BY <2>6 DEF Finish, requestVars
    <3> QED
      BY <3>1, <3>2, ListedCompletes DEF Admitted
  <2>7. ASSUME NEW a \in Agent, Initialize(a) PROVE RunningIsListed'
    BY <2>1, <2>7 DEF Initialize, requestVars
  <2>8. CASE CreateOrphan
    BY <2>1, <2>8 DEF CreateOrphan, requestVars
  <2>9. ASSUME NEW c \in Call,
               EnsureSession(c) \/ CreateSession(c) \/ ReadSessionLabel(c) \/ Refuse(c)
               \/ LeavePending(c) \/ RejectInput(c)
        PROVE  RunningIsListed'
    <3>1. PICK step \in {"snapshot", "create", "admit", "dropped"} : Goto(c, step)
      BY <2>9 DEF EnsureSession, CreateSession, ReadSessionLabel, Refuse, LeavePending,
                  RejectInput
    <3>2. UNCHANGED <<owner, tool, active>>
      BY <2>9 DEF EnsureSession, CreateSession, ReadSessionLabel, Refuse, LeavePending,
                  RejectInput, requestVars
    <3> QED
      BY <2>2, <3>1, <3>2 DEF Admitted
  <2>10. ASSUME NEW c \in Call,
                Answer(c) \/ Filter(c) \/ LabelResult(c) \/ AbsorbResult(c) \/ Lower(c)
                \/ LowerWrite(c)
         PROVE  RunningIsListed'
    <3>1. \E step : Goto(c, step)
      BY <2>10 DEF Answer, Filter, LabelResult, AbsorbResult, Lower, LowerWrite
    <3>2. pc[c] \in Admitted /\ UNCHANGED <<owner, tool, active>>
      BY <2>10 DEF Answer, Filter, LabelResult, AbsorbResult, Lower, LowerWrite,
                   requestVars, Is, Admitted
    <3> QED
      BY <2>2, <3>1, <3>2
  <2>11. CASE UNCHANGED vars
    BY <2>1, <2>11 DEF vars, requestVars
  <2> QED
    BY <2>3, <2>4, <2>5, <2>6, <2>7, <2>8, <2>9, <2>10, <2>11, Zenon DEF Next
<1> QED
  BY <1>1, <1>2, InitTypes, NextTypes, PTL DEF Spec

-----------------------------------------------------------------------------
(* Taint *)

\* Requests whose result is labelled for good.
Labelled == {"lower", "lowerWrite", "finish", "delivered", "withheld"}

\* History names such requests only, and an agent without session has none.
HistoryIsPast ==
    /\ \A a \in Agent : \A d \in absorbed[a] : pc[d] \in Labelled
    /\ \A a \in Agent : a \notin live => absorbed[a] = {}
    /\ \A c \in Call : \A d \in seenAt[c] : pc[d] \in Labelled
    /\ \A d \in stored : pc[d] \in Labelled
    /\ \A c \in Call : refs[c] \subseteq stored /\ \A d \in refs[c] : pc[d] = "delivered"

\* The request's own taint covers its result, and what it saw of the session.
TaintCovers ==
    \A c \in Call :
        /\ \A d \in seenAt[c] : rlabel[d].integrity <= taint[c].integrity
        /\ pc[c] \in Labelled \cup {"absorb"} =>
               rlabel[c].integrity <= taint[c].integrity

\* A stored value is no more trusted than the result it came from.
ValueCovers == \A d \in stored : rlabel[d].integrity <= vlabel[d].integrity

\* The inductive invariant: what the session and a request know of the results
\* they have seen is at least what the results' labels say.
TaintInv == SessionLabelCovers /\ HistoryIsPast /\ TaintCovers /\ ValueCovers
            /\ WritesSeeTaint

\* Joining a label, or lowering it to Sensitive, loses no cover.
LEMMA CoverJoin ==
    ASSUME NEW l \in DataLabel, NEW m \in DataLabel, NEW k \in DataLabel
    PROVE  /\ LabelCovers(l, k) => LabelCovers(Join(l, m), k)
           /\ LabelCovers(Join(l, m), m)
           /\ LabelCovers(l, k) => LabelCovers(Declassified(l, Sensitive), k)
           /\ m.integrity <= Join(l, m).integrity
           /\ k.integrity <= l.integrity => k.integrity <= Join(l, m).integrity
           /\ Declassified(l, Sensitive).integrity = l.integrity
BY DEF LabelCovers, Join, Higher, Declassified, DataLabel, Integrity, Confidentiality,
       Trusted, Untrusted, Public, Sensitive, Secret

\* A step that leaves alone what TaintInv is about keeps it, if it moves no
\* labelled request back and lets no request through.
LEMMA TaintFrame ==
    ASSUME TypeInv, TaintInv, NEW c \in Call, NEW step \in Step, Goto(c, step),
           UNCHANGED <<live, label, absorbed, owner, tool, refs, seenAt, taint, rlabel,
                       stored, vlabel>>,
           step \in Admitted => pc[c] \in Admitted,
           pc[c] \in Labelled => step \in Labelled,
           pc[c] \notin Labelled => step \notin Labelled \cup {"absorb"},
           pc[c] # "delivered"
    PROVE  TaintInv'
<1> USE DEF TypeInv, TypeOK, TaintInv
<1>1. \A d \in Call : pc'[d] = IF d = c THEN step ELSE pc[d]
  BY DEF Goto
<1>2. SessionLabelCovers'
  BY DEF SessionLabelCovers
<1>3. HistoryIsPast'
  BY <1>1 DEF HistoryIsPast
<1>4. TaintCovers'
  BY <1>1 DEF TaintCovers
<1>5. ValueCovers'
  BY DEF ValueCovers
<1>6. WritesSeeTaint'
  BY <1>1 DEF WritesSeeTaint
<1> QED
  BY <1>2, <1>3, <1>4, <1>5, <1>6

\* A request whose result is not labelled yet moves, and no other does.
LEMMA OneMoves ==
    ASSUME TypeOK, NEW c \in Call, NEW step, Goto(c, step),
           pc[c] \notin Labelled \cup {"absorb"}, step \notin Labelled \cup {"absorb"}
    PROVE  /\ pc'[c] = step
           /\ \A d \in Call :
                  /\ d # c => pc'[d] = pc[d]
                  /\ (pc'[d] \in Labelled) = (pc[d] \in Labelled)
                  /\ (pc'[d] = "absorb") = (pc[d] = "absorb")
                  /\ (pc'[d] = "delivered") = (pc[d] = "delivered")
<1>1. pc'[c] = step /\ \A d \in Call : d # c => pc'[d] = pc[d]
  BY DEF Goto, TypeOK
<1>2. "delivered" \in Labelled
  BY DEF Labelled
<1> QED
  BY <1>1, <1>2

\* The first move of a call is one of these.
LEMMA ArriveMoves ==
    ASSUME TypeOK, NEW c \in Call, pc[c] = "idle", Goto(c, "ensure")
    PROVE  /\ pc'[c] = "ensure"
           /\ \A d \in Call :
                  /\ d # c => pc'[d] = pc[d]
                  /\ (pc'[d] \in Labelled) = (pc[d] \in Labelled)
                  /\ (pc'[d] = "absorb") = (pc[d] = "absorb")
                  /\ (pc'[d] = "delivered") = (pc[d] = "delivered")
<1>1. "idle" \notin Labelled \cup {"absorb"} /\ "ensure" \notin Labelled \cup {"absorb"}
  BY DEF Labelled
<1> QED
  BY <1>1, OneMoves

\* So is the move of a request that has created its session.
LEMMA CreateMoves ==
    ASSUME TypeOK, NEW c \in Call, pc[c] = "create", Goto(c, "snapshot")
    PROVE  /\ pc'[c] = "snapshot"
           /\ \A d \in Call :
                  /\ d # c => pc'[d] = pc[d]
                  /\ (pc'[d] \in Labelled) = (pc[d] \in Labelled)
                  /\ (pc'[d] = "absorb") = (pc[d] = "absorb")
                  /\ (pc'[d] = "delivered") = (pc[d] = "delivered")
<1>1. "create" \notin Labelled \cup {"absorb"} /\ "snapshot" \notin Labelled \cup {"absorb"}
  BY DEF Labelled
<1> QED
  BY <1>1, OneMoves

\* What a step must leave so that the history is of the past.
LEMMA PastAfter ==
    ASSUME \A a \in Agent : \A d \in absorbed'[a] : pc'[d] \in Labelled,
           \A a \in Agent : a \notin live' => absorbed'[a] = {},
           \A d \in Call : \A e \in seenAt'[d] : pc'[e] \in Labelled,
           \A d \in stored' : pc'[d] \in Labelled,
           \A d \in Call : refs'[d] \subseteq stored' /\ \A e \in refs'[d] : pc'[e] = "delivered"
    PROVE  HistoryIsPast'
BY DEF HistoryIsPast

\* Every step keeps the taint invariant.
LEMMA NextTaint == TypeInv /\ TypeInv' /\ TaintInv /\ [Next]_vars => TaintInv'
<1> SUFFICES ASSUME TypeInv, TypeInv', TaintInv, [Next]_vars PROVE TaintInv'
  OBVIOUS
<1> USE DEF TypeInv, TypeOK, TaintInv
<1>1. ASSUME NEW c \in Call, NEW step,
             step \in {"snapshot", "create", "dropped", "filter", "drain"},
             Goto(c, step), pc[c] \notin Labelled,
             step \in Admitted => pc[c] \in Admitted,
             UNCHANGED <<live, label, absorbed, owner, tool, refs, seenAt, taint, rlabel,
                         stored, vlabel>>
      PROVE  TaintInv'
  <2>1. step \in Step /\ step \notin Labelled \cup {"absorb"} /\ pc[c] # "delivered"
    BY <1>1 DEF Step, Admitted, Labelled
  <2> QED
    BY <1>1, <2>1, TaintFrame
<1>2. ASSUME NEW c \in Call, EnsureSession(c) \/ Refuse(c) PROVE TaintInv'
  <2>1. pc[c] \notin Labelled
    BY <1>2 DEF EnsureSession, Refuse, Is, Labelled
  <2>2. \E step \in {"snapshot", "create", "dropped"} : Goto(c, step)
    BY <1>2 DEF EnsureSession, Refuse
  <2>3. UNCHANGED <<live, label, absorbed, owner, tool, refs, seenAt, taint, rlabel,
                    stored, vlabel>>
    BY <1>2 DEF EnsureSession, Refuse, sessionVars, requestVars, resultVars
  <2> QED
    BY <1>1, <2>1, <2>2, <2>3 DEF Admitted
<1>3. ASSUME NEW c \in Call, Answer(c) \/ Cut(c) \/ LeavePending(c) \/ Filter(c) \/ RejectInput(c)
      PROVE  TaintInv'
  <2>1. pc[c] \notin Labelled /\ pc[c] \in Admitted
    BY <1>3 DEF Answer, Cut, LeavePending, Filter, RejectInput, Is, Labelled, Admitted
  <2>2. \E step \in {"dropped", "filter", "drain"} : Goto(c, step)
    BY <1>3 DEF Answer, Cut, LeavePending, Filter, RejectInput
  <2>3. UNCHANGED <<live, label, absorbed, owner, tool, refs, seenAt, taint, rlabel,
                    stored, vlabel>>
    BY <1>3 DEF Answer, Cut, LeavePending, Filter, RejectInput, sessionVars, requestVars,
                resultVars
  <2> QED
    BY <1>1, <2>1, <2>2, <2>3
<1>4. ASSUME NEW c \in Call, Finish(c) PROVE TaintInv'
  <2>1. PICK step \in {"delivered", "withheld"} : Goto(c, step)
    BY <1>4 DEF Finish
  <2>2. step \in Step \cap Labelled /\ step \notin Admitted /\ pc[c] \in Labelled
        /\ pc[c] # "delivered"
    BY <1>4, <2>1 DEF Finish, Is, Labelled, Step, Admitted
  <2> QED
    BY <1>4, <2>1, <2>2, TaintFrame DEF Finish, sessionVars, requestVars, resultVars
<1>5. ASSUME UNCHANGED vars PROVE TaintInv'
  BY <1>5, Zenon DEF vars, sessionVars, requestVars, resultVars, SessionLabelCovers,
     HistoryIsPast, TaintCovers, ValueCovers, WritesSeeTaint
<1>6. CASE CreateOrphan
  BY <1>6, Zenon DEF CreateOrphan, requestVars, resultVars, SessionLabelCovers,
     HistoryIsPast, TaintCovers, ValueCovers, WritesSeeTaint
<1>7. ASSUME NEW a \in Agent, Initialize(a) PROVE TaintInv'
  <2>1. PICK gone \in SUBSET Agent : Forget(gone)
    BY <1>7, Zenon DEF Initialize
  <2>2. UNCHANGED <<owner, tool, refs, seenAt, taint, rlabel, stored, vlabel, pc>>
    BY <1>7 DEF Initialize, requestVars, resultVars
  <2>3. SessionLabelCovers'
    BY <2>1, <2>2 DEF SessionLabelCovers, Forget
  <2>4. HistoryIsPast'
    BY <2>1, <2>2 DEF HistoryIsPast, Forget
  <2>5. TaintCovers' /\ ValueCovers' /\ WritesSeeTaint'
    BY <2>2 DEF TaintCovers, ValueCovers, WritesSeeTaint
  <2> QED
    BY <2>3, <2>4, <2>5
<1>8. ASSUME NEW c \in Call, Arrive(c) PROVE TaintInv'
  <2>1. pc[c] = "idle" /\ Goto(c, "ensure")
        /\ UNCHANGED <<live, label, absorbed, seenAt, taint, rlabel, stored, vlabel>>
    BY <1>8 DEF Arrive, Is, sessionVars, resultVars
  <2>2. /\ pc'[c] = "ensure"
        /\ \A d \in Call :
               /\ d # c => pc'[d] = pc[d]
               /\ (pc'[d] \in Labelled) = (pc[d] \in Labelled)
               /\ (pc'[d] = "absorb") = (pc[d] = "absorb")
               /\ (pc'[d] = "delivered") = (pc[d] = "delivered")
    BY <2>1, ArriveMoves
  <2>3. PICK R \in SUBSET {d \in stored : Is(d, "delivered")} :
            refs' = [refs EXCEPT ![c] = R]
    BY <1>8 DEF Arrive
  <2>4. SessionLabelCovers' /\ ValueCovers'
    BY <2>1 DEF SessionLabelCovers, ValueCovers
  <2>5. HistoryIsPast'
    <3>1. /\ \A a1 \in Agent : \A d \in absorbed'[a1] : pc'[d] \in Labelled
          /\ \A a1 \in Agent : a1 \notin live' => absorbed'[a1] = {}
          /\ \A d \in Call : \A e \in seenAt'[d] : pc'[e] \in Labelled
          /\ \A d \in stored' : pc'[d] \in Labelled
      BY <2>1, <2>2 DEF HistoryIsPast
    <3>2. ASSUME NEW d \in Call
          PROVE  refs'[d] \subseteq stored' /\ \A e \in refs'[d] : pc'[e] = "delivered"
      BY <2>1, <2>2, <2>3 DEF HistoryIsPast, Is
    <3> QED
      BY <3>1, <3>2 DEF HistoryIsPast
  <2>6. TaintCovers'
    BY <2>1, <2>2 DEF TaintCovers
  <2>7. WritesSeeTaint'
    <3>1. \A d \in Call : pc'[d] \in Admitted => d # c /\ pc[d] \in Admitted
      BY <2>2 DEF Admitted
    <3>2. \A d \in Call : d # c => owner'[d] = owner[d] /\ tool'[d] = tool[d] /\ refs'[d] = refs[d]
      BY <1>8, <2>3 DEF Arrive
    <3> QED
      BY <2>1, <3>1, <3>2 DEF WritesSeeTaint
  <2> QED
    BY <2>4, <2>5, <2>6, <2>7
<1>9. ASSUME NEW c \in Call, CreateSession(c) PROVE TaintInv'
  <2>1. pc[c] = "create" /\ Goto(c, "snapshot") /\ owner[c] \in Agent
    BY <1>9 DEF CreateSession, Is, Arrived
  <2>2. /\ pc'[c] = "snapshot"
        /\ \A d \in Call :
               /\ d # c => pc'[d] = pc[d]
               /\ (pc'[d] \in Labelled) = (pc[d] \in Labelled)
               /\ (pc'[d] = "absorb") = (pc[d] = "absorb")
               /\ (pc'[d] = "delivered") = (pc[d] = "delivered")
    BY <2>1, CreateMoves
  <2>3. UNCHANGED <<owner, tool, refs, seenAt, taint, rlabel, stored, vlabel>>
    BY <1>9 DEF CreateSession, requestVars, resultVars
  <2>4. \A a \in Agent : absorbed'[a] = IF a = owner[c] THEN {} ELSE absorbed[a]
    BY <1>9, <2>1 DEF CreateSession
  <2>5. SessionLabelCovers'
    BY <1>9, <2>1, <2>3, <2>4 DEF CreateSession, SessionLabelCovers
  <2>6. HistoryIsPast'
    <3>1. live' = live \cup {owner[c]}
      BY <1>9 DEF CreateSession
    <3>2. \A d \in Call : pc[d] \in Labelled => pc'[d] \in Labelled
      BY <2>2
    <3>3. \A a \in Agent : \A d \in absorbed'[a] : pc'[d] \in Labelled
      BY <2>4, <3>2 DEF HistoryIsPast
    <3>7. \A a \in Agent : a \notin live' => absorbed'[a] = {}
      BY <2>4, <3>1 DEF HistoryIsPast
    <3>4. \A d \in Call : refs'[d] \subseteq stored' /\ \A e \in refs'[d] : pc'[e] = "delivered"
      BY <2>2, <2>3 DEF HistoryIsPast
    <3>5. \A d \in Call : \A e \in seenAt'[d] : pc'[e] \in Labelled
      BY <2>3, <3>2 DEF HistoryIsPast
    <3>6. \A d \in stored' : pc'[d] \in Labelled
      BY <2>3, <3>2 DEF HistoryIsPast
    <3> QED
      BY <3>3, <3>4, <3>5, <3>6, <3>7, PastAfter
  <2>7. TaintCovers' /\ ValueCovers'
    BY <2>2, <2>3 DEF TaintCovers, ValueCovers
  <2>8. \A d \in Call : pc'[d] \in Admitted => pc[d] \in Admitted
    BY <2>2 DEF Admitted
  <2>9. WritesSeeTaint'
    BY <2>3, <2>8 DEF WritesSeeTaint
  <2> QED
    BY <2>5, <2>6, <2>7, <2>9
<1>10. ASSUME NEW c \in Call, ReadSessionLabel(c) PROVE TaintInv'
  <2>1. pc[c] = "snapshot" /\ Goto(c, "admit") /\ owner[c] \in Agent
    BY <1>10 DEF ReadSessionLabel, Is, Arrived
  <2>2. /\ pc'[c] = "admit"
        /\ \A d \in Call :
               /\ d # c => pc'[d] = pc[d]
               /\ (pc'[d] \in Labelled) = (pc[d] \in Labelled)
               /\ (pc'[d] = "absorb") = (pc[d] = "absorb")
               /\ (pc'[d] = "delivered") = (pc[d] = "delivered")
    <3>1. "snapshot" \notin Labelled \cup {"absorb"} /\ "admit" \notin Labelled \cup {"absorb"}
      BY DEF Labelled
    <3> QED
      BY <2>1, <3>1, OneMoves
  <2>3. UNCHANGED <<live, label, absorbed, owner, tool, refs, rlabel, stored, vlabel>>
    BY <1>10 DEF ReadSessionLabel, sessionVars, resultVars
  <2>4. \A d \in Call : /\ seenAt'[d] = IF d = c THEN absorbed[owner[c]] ELSE seenAt[d]
                        /\ taint'[d] = IF d = c THEN label[owner[c]] ELSE taint[d]
    BY <1>10 DEF ReadSessionLabel
  <2>5. \A d \in absorbed[owner[c]] : rlabel[d].integrity <= label[owner[c]].integrity
    BY <2>1 DEF SessionLabelCovers, HistoryIsPast, LabelCovers
  <2>6. SessionLabelCovers' /\ ValueCovers'
    BY <2>3 DEF SessionLabelCovers, ValueCovers
  <2>7. HistoryIsPast'
    <3>1. \A d \in Call : \A e \in seenAt'[d] : pc'[e] \in Labelled
      BY <2>1, <2>2, <2>4 DEF HistoryIsPast
    <3> QED
      BY <2>2, <2>3, <3>1 DEF HistoryIsPast
  <2>8. TaintCovers'
    BY <2>1, <2>2, <2>3, <2>4, <2>5 DEF TaintCovers, Labelled
  <2>9. \A d \in Call : pc'[d] \in Admitted => d # c /\ pc[d] \in Admitted
    BY <2>2 DEF Admitted
  <2>10. WritesSeeTaint'
    BY <2>3, <2>4, <2>9 DEF WritesSeeTaint
  <2> QED
    BY <2>6, <2>7, <2>8, <2>10
<1>11. ASSUME NEW c \in Call, Admit(c) PROVE TaintInv'
  <2>1. pc[c] = "admit" /\ Goto(c, "dispatch")
    BY <1>11 DEF Admit, Is
  <2>2. /\ pc'[c] = "dispatch"
        /\ \A d \in Call :
               /\ d # c => pc'[d] = pc[d]
               /\ (pc'[d] \in Labelled) = (pc[d] \in Labelled)
               /\ (pc'[d] = "absorb") = (pc[d] = "absorb")
               /\ (pc'[d] = "delivered") = (pc[d] = "delivered")
    <3>1. "admit" \notin Labelled \cup {"absorb"} /\ "dispatch" \notin Labelled \cup {"absorb"}
      BY DEF Labelled
    <3> QED
      BY <2>1, <3>1, OneMoves
  <2>3. UNCHANGED <<live, label, absorbed, owner, tool, refs, seenAt, taint, rlabel, stored,
                    vlabel>>
    BY <1>11 DEF Admit, sessionVars, requestVars, resultVars
  <2>4. SessionLabelCovers' /\ ValueCovers' /\ HistoryIsPast' /\ TaintCovers'
    BY <2>2, <2>3 DEF SessionLabelCovers, ValueCovers, HistoryIsPast, TaintCovers
  <2>5. ASSUME tool[c] \in WriteTool, Policy[owner[c]] # "Allow",
               NEW d \in IF refs[c] = {} THEN seenAt[c] ELSE refs[c]
        PROVE  rlabel[d].integrity = Trusted
    <3>1. ~CarriesUntrusted(c)
      BY <1>11, <2>5 DEF Admit
    <3>2. d \in Call /\ rlabel[d] \in DataLabel /\ taint[c] \in DataLabel
          /\ vlabel[d] \in DataLabel
      BY <2>5
    <3>3. CASE refs[c] = {}
      <4>1. taint[c].integrity # Untrusted /\ rlabel[d].integrity <= taint[c].integrity
        BY <2>5, <3>1, <3>3 DEF CarriesUntrusted, TaintCovers
      <4> QED
        BY <3>2, <4>1 DEF DataLabel, Integrity, Trusted, Untrusted
    <3>4. CASE refs[c] # {}
      <4>1. d \in stored /\ vlabel[d].integrity # Untrusted
        BY <2>5, <3>1, <3>4 DEF CarriesUntrusted, HistoryIsPast
      <4>2. rlabel[d].integrity <= vlabel[d].integrity
        BY <4>1 DEF ValueCovers
      <4> QED
        BY <3>2, <4>1, <4>2 DEF DataLabel, Integrity, Trusted, Untrusted
    <3> QED
      BY <3>3, <3>4
  <2>6. WritesSeeTaint'
    <3> SUFFICES ASSUME NEW e \in Call, pc'[e] \in Admitted, tool[e] \in WriteTool,
                        Policy[owner[e]] # "Allow",
                        NEW d \in IF refs[e] = {} THEN seenAt[e] ELSE refs[e]
                 PROVE  rlabel[d].integrity = Trusted
      BY <2>3 DEF WritesSeeTaint
    <3>1. CASE e = c
      BY <2>5, <3>1
    <3>2. CASE e # c
      <4>1. pc[e] \in Admitted
        BY <2>2, <3>2
      <4> QED
        BY <4>1 DEF WritesSeeTaint
    <3> QED
      BY <3>1, <3>2
  <2> QED
    BY <2>4, <2>6
<1>12. ASSUME NEW c \in Call, LabelResult(c) PROVE TaintInv'
  <2>1. pc[c] = "drain" /\ pc' = [pc EXCEPT ![c] = "absorb"]
    BY <1>12 DEF LabelResult, Is, Goto
  <2>2. /\ pc'[c] = "absorb" /\ pc[c] \notin Labelled /\ pc[c] # "absorb" /\ pc[c] # "delivered"
        /\ "absorb" \notin Labelled /\ pc[c] \in Admitted
        /\ \A d \in Call : d # c => pc'[d] = pc[d]
    BY <2>1 DEF Labelled, Admitted
  <2>3. UNCHANGED <<live, label, absorbed, owner, tool, refs, seenAt, stored, vlabel>>
    BY <1>12 DEF LabelResult, sessionVars, requestVars
  <2>4. PICK l \in DataLabel :
            rlabel' = [rlabel EXCEPT ![c] = l] /\ taint' = [taint EXCEPT ![c] = Join(@, l)]
    BY <1>12, Labels DEF LabelResult
  <2>5. \A d \in Call : pc[d] \in Labelled => d # c /\ rlabel'[d] = rlabel[d] /\ pc'[d] = pc[d]
    BY <2>2, <2>4
  <2>6. SessionLabelCovers'
    BY <2>3, <2>5 DEF SessionLabelCovers, HistoryIsPast
  <2>7. HistoryIsPast'
    BY <2>3, <2>5 DEF HistoryIsPast, Labelled
  <2>8. TaintCovers'
    <3>1. ASSUME NEW d \in Call
          PROVE  /\ \A e \in seenAt[d] : rlabel[e].integrity <= taint'[d].integrity
                 /\ pc'[d] \in Labelled \cup {"absorb"} =>
                        rlabel'[d].integrity <= taint'[d].integrity
      <4>1. CASE d = c
        <5>1. taint'[d] = Join(taint[d], l) /\ rlabel'[d] = l
          BY <2>4, <4>1
        <5>2. l.integrity <= Join(taint[d], l).integrity
          BY JoinBounds DEF AtMost
        <5>3. ASSUME NEW e \in seenAt[d]
              PROVE  rlabel[e].integrity <= Join(taint[d], l).integrity
          <6>1. rlabel[e].integrity <= taint[d].integrity /\ rlabel[e] \in DataLabel
            BY <5>3 DEF TaintCovers
          <6> QED
            BY <6>1, CoverJoin
        <5> QED
          BY <5>1, <5>2, <5>3
      <4>2. CASE d # c
        BY <2>2, <2>4, <4>2 DEF TaintCovers
      <4> QED
        BY <4>1, <4>2
    <3> QED
      BY <2>3, <2>5, <3>1 DEF TaintCovers, HistoryIsPast
  <2>9. ValueCovers'
    BY <2>3, <2>5 DEF ValueCovers, HistoryIsPast
  <2>10. WritesSeeTaint'
    <3>1. \A d \in Call : pc'[d] \in Admitted => pc[d] \in Admitted
      BY <2>2
    <3>2. \A d \in Call : \A e \in IF refs[d] = {} THEN seenAt[d] ELSE refs[d] :
              rlabel'[e] = rlabel[e]
      BY <2>5 DEF HistoryIsPast
    <3> QED
      BY <2>3, <3>1, <3>2 DEF WritesSeeTaint
  <2> QED
    BY <2>6, <2>7, <2>8, <2>9, <2>10
<1>13. ASSUME NEW c \in Call, AbsorbResult(c) PROVE TaintInv'
  <2>1. PICK step \in {"lower", "finish"} : Goto(c, step)
    BY <1>13 DEF AbsorbResult
  <2>2. /\ pc'[c] \in Labelled /\ pc[c] \in Admitted /\ pc[c] # "delivered"
        /\ pc[c] = "absorb" /\ pc[c] \notin Labelled
        /\ \A d \in Call : d # c => pc'[d] = pc[d]
    BY <1>13, <2>1 DEF AbsorbResult, Is, Goto, Labelled, Admitted
  <2>3. UNCHANGED <<live, owner, tool, refs, seenAt, taint, rlabel>>
    BY <1>13 DEF AbsorbResult, requestVars
  <2>4. \A d \in Call : /\ pc[d] \in Labelled => pc'[d] = pc[d]
                        /\ pc[d] \in Labelled => pc'[d] \in Labelled
                        /\ pc'[d] \in Labelled \/ pc'[d] = "absorb"
                               => pc[d] \in Labelled \/ pc[d] = "absorb"
                        /\ pc'[d] \in Admitted => pc[d] \in Admitted
    BY <2>2
  <2>5. \A a \in Agent : \/ label'[a] = label[a] /\ absorbed'[a] = absorbed[a]
                         \/ /\ label'[a] = Join(label[a], rlabel[c])
                            /\ absorbed'[a] = absorbed[a] \cup {c}
                            /\ a \in live
    BY <1>13 DEF AbsorbResult, UpdateContextLabel
  <2>6. stored' \in {stored, stored \cup {c}} /\ vlabel' = [vlabel EXCEPT ![c] = rlabel[c]]
    BY <1>13 DEF AbsorbResult
  <2>7. SessionLabelCovers'
    <3>1. ASSUME NEW a \in live, NEW d \in absorbed'[a]
          PROVE  LabelCovers(label'[a], rlabel[d])
      <4>1. a \in Agent /\ label[a] \in DataLabel /\ rlabel[c] \in DataLabel
        OBVIOUS
      <4>2. d \in absorbed[a] => rlabel[d] \in DataLabel /\ LabelCovers(label[a], rlabel[d])
        BY <4>1 DEF SessionLabelCovers
      <4>3. /\ LabelCovers(Join(label[a], rlabel[c]), rlabel[c])
            /\ d \in absorbed[a] => LabelCovers(Join(label[a], rlabel[c]), rlabel[d])
        BY <4>1, <4>2, CoverJoin
      <4> QED
        BY <2>5, <3>1, <4>1, <4>2, <4>3
    <3> QED
      BY <2>3, <3>1 DEF SessionLabelCovers
  <2>8. HistoryIsPast'
    <3>1. \A a \in Agent : /\ \A d \in absorbed'[a] : pc'[d] \in Labelled
                           /\ a \notin live' => absorbed'[a] = {}
      BY <2>2, <2>3, <2>4, <2>5 DEF HistoryIsPast
    <3>2. \A d \in stored' : pc'[d] \in Labelled
      BY <2>2, <2>4, <2>6 DEF HistoryIsPast
    <3>3. \A d \in Call : \A e \in seenAt'[d] : pc'[e] \in Labelled
      BY <2>3, <2>4 DEF HistoryIsPast
    <3>4. ASSUME NEW d \in Call
          PROVE  refs'[d] \subseteq stored' /\ \A e \in refs'[d] : pc'[e] = "delivered"
      <4>1. refs[d] \subseteq stored /\ \A e \in refs[d] : e \in Call /\ pc[e] = "delivered"
        BY DEF HistoryIsPast
      <4> QED
        BY <2>2, <2>3, <2>6, <4>1
    <3> QED
      BY <3>1, <3>2, <3>3, <3>4, Zenon DEF HistoryIsPast
  <2>9. TaintCovers'
    BY <2>3, <2>4 DEF TaintCovers
  <2>10. ValueCovers'
    <3>1. ASSUME NEW d \in stored' PROVE rlabel[d].integrity <= vlabel'[d].integrity
      <4>1. CASE d = c
        BY <2>6, <4>1 DEF DataLabel, Integrity, Trusted, Untrusted
      <4>2. CASE d # c
        BY <2>6, <3>1, <4>2 DEF ValueCovers
      <4> QED
        BY <4>1, <4>2
    <3> QED
      BY <2>3, <3>1 DEF ValueCovers
  <2>11. WritesSeeTaint'
    BY <2>3, <2>4 DEF WritesSeeTaint
  <2> QED
    BY <2>7, <2>8, <2>9, <2>10, <2>11
<1>14. ASSUME NEW c \in Call, Lower(c) \/ LowerWrite(c) PROVE TaintInv'
  <2>1. PICK step \in {"lowerWrite", "finish"} : Goto(c, step)
    BY <1>14 DEF Lower, LowerWrite
  <2>2. /\ pc'[c] \in Labelled /\ pc[c] \in Labelled /\ pc[c] \in Admitted
        /\ pc[c] # "delivered"
        /\ \A d \in Call : d # c => pc'[d] = pc[d]
    BY <1>14, <2>1 DEF Lower, LowerWrite, Is, Goto, Labelled, Admitted
  <2>3. UNCHANGED <<live, absorbed, owner, tool, refs, seenAt, rlabel, stored>>
    BY <1>14 DEF Lower, LowerWrite, sessionVars, requestVars, resultVars
  <2>4. \A d \in Call : /\ pc[d] \in Labelled => pc'[d] \in Labelled
                        /\ pc[d] = "delivered" => pc'[d] = "delivered"
                        /\ pc'[d] \in Labelled \/ pc'[d] = "absorb"
                               => pc[d] \in Labelled \/ pc[d] = "absorb"
                        /\ pc'[d] \in Admitted => pc[d] \in Admitted
    BY <2>2
  <2>5. \A d \in Call : taint'[d].integrity = taint[d].integrity
    <3>1. \A d \in Call : taint'[d] \in {taint[d], Declassified(taint[d], Sensitive)}
      BY <1>14 DEF Lower, LowerWrite
    <3> QED
      BY <3>1, Labels
  <2>6. \A d \in Call : vlabel'[d] = IF d = c /\ pc[c] = "lower" THEN taint'[c] ELSE vlabel[d]
    BY <1>14 DEF Lower, LowerWrite, Is, resultVars
  <2>7. \A a \in Agent : label'[a] \in {label[a], Declassified(label[a], Sensitive)}
    BY <1>14 DEF Lower, LowerWrite, sessionVars
  <2>8. SessionLabelCovers'
    <3>1. ASSUME NEW a \in live, NEW d \in absorbed[a]
          PROVE  LabelCovers(label'[a], rlabel[d])
      <4>1. a \in Agent /\ label[a] \in DataLabel /\ rlabel[d] \in DataLabel
        BY <3>1
      <4>2. LabelCovers(label[a], rlabel[d])
        BY <3>1 DEF SessionLabelCovers
      <4>3. LabelCovers(Declassified(label[a], Sensitive), rlabel[d])
        BY <4>1, <4>2, CoverJoin
      <4> QED
        BY <2>7, <4>1, <4>2, <4>3
    <3> QED
      BY <2>3, <3>1 DEF SessionLabelCovers
  <2>9. HistoryIsPast'
    BY <2>3, <2>4 DEF HistoryIsPast
  <2>10. TaintCovers'
    BY <2>3, <2>4, <2>5 DEF TaintCovers
  <2>11. ValueCovers'
    <3>1. ASSUME NEW d \in stored PROVE rlabel[d].integrity <= vlabel'[d].integrity
      <4>1. rlabel[c].integrity <= taint'[c].integrity
        BY <2>2, <2>5 DEF TaintCovers
      <4>2. rlabel[d].integrity <= vlabel[d].integrity
        BY <3>1 DEF ValueCovers
      <4> QED
        BY <2>6, <3>1, <4>1, <4>2
    <3> QED
      BY <2>3, <3>1 DEF ValueCovers
  <2>12. WritesSeeTaint'
    BY <2>3, <2>4 DEF WritesSeeTaint
  <2> QED
    BY <2>8, <2>9, <2>10, <2>11, <2>12
<1> QED
  BY <1>2, <1>3, <1>4, <1>5, <1>6, <1>7, <1>8, <1>9, <1>10, <1>11, <1>12, <1>13, <1>14,
     Zenon DEF Next

\* Nothing has been seen, stored or let through initially.
LEMMA InitTaint == Init => TaintInv
<1> SUFFICES ASSUME Init PROVE TaintInv
  OBVIOUS
<1>1. SessionLabelCovers /\ HistoryIsPast
  BY DEF Init, SessionLabelCovers, HistoryIsPast
<1>2. TaintCovers /\ ValueCovers
  BY DEF Init, TaintCovers, ValueCovers, Labelled
<1>3. WritesSeeTaint
  BY DEF Init, WritesSeeTaint, Admitted
<1> QED
  BY <1>1, <1>2, <1>3 DEF TaintInv

\* The session label covers every result its session absorbed, whatever requests
\* of the agent update and declassify it concurrently (session.rs:169).
THEOREM KeepsTaint == Spec => []SessionLabelCovers
<1>1. TaintInv => SessionLabelCovers
  BY DEF TaintInv
<1>2. TypeInv /\ TaintInv /\ [Next]_vars => (TypeInv /\ TaintInv)'
  BY NextTypes, NextTaint
<1> QED
  BY <1>1, <1>2, InitTypes, InitTaint, PTL DEF Spec

\* Tainted writes that the policy does not allow are never let through, plain or
\* by reference (handlers.rs:795).
THEOREM RefusesTaintedWrites == Spec => []WritesSeeTaint
<1>1. TaintInv => WritesSeeTaint
  BY DEF TaintInv
<1>2. TypeInv /\ TaintInv /\ [Next]_vars => (TypeInv /\ TaintInv)'
  BY NextTypes, NextTaint
<1> QED
  BY <1>1, <1>2, InitTypes, InitTaint, PTL DEF Spec
-----------------------------------------------------------------------------
(* The declassification ledger *)

\* The steps of a request whose result has its label.
Sealed == {"absorb", "lower", "lowerWrite", "finish", "delivered", "withheld"}

\* A recommendation in the ledger is that of a request between filter and drain:
\* none is left behind for a later one.
NoneLeftBehind ==
    ledger \subseteq {d \in Call : pc[d] = "drain" /\ outcome[d] # "clean"}

\* A request that no other overlapped is alone between filter and drain, and its
\* recommendation still lies in the ledger.
AloneInDrain ==
    \A c \in Call \ overlapped :
        pc[c] = "drain" =>
            /\ \A d \in Call : pc[d] = "drain" => d = c
            /\ outcome[c] # "clean" => c \in ledger

\* Its label, once it has one, is that of its own findings.
SealedByOwn ==
    \A c \in Call \ overlapped :
        pc[c] \in Sealed =>
            /\ outcome[c] # "clean" => rlabel[c].confidentiality = Pii
            /\ down[c] => outcome[c] = "redacted"

OwnInv == NoneLeftBehind /\ AloneInDrain /\ SealedByOwn

\* A step that leaves the ledger and the labels alone keeps OwnInv, if no request
\* begins or ends its drain by it and none skips it.
LEMMA OwnFrame ==
    ASSUME TypeOK, OwnInv, NEW c \in Call, NEW step, Goto(c, step),
           UNCHANGED <<outcome, rlabel, down, ledger, overlapped>>,
           pc[c] # "drain", step # "drain", step \in Sealed => pc[c] \in Sealed
    PROVE  OwnInv'
<1>1. \A d \in Call : pc'[d] = IF d = c THEN step ELSE pc[d]
  BY DEF Goto, TypeOK
<1>2. \A d \in Call : (pc'[d] = "drain") = (pc[d] = "drain")
  BY <1>1
<1>3. \A d \in Call : pc'[d] \in Sealed => pc[d] \in Sealed
  BY <1>1
<1>4. NoneLeftBehind'
  BY <1>2 DEF OwnInv, NoneLeftBehind
<1>5. AloneInDrain'
  BY <1>2 DEF OwnInv, AloneInDrain
<1>6. SealedByOwn'
  BY <1>3 DEF OwnInv, SealedByOwn
<1> QED
  BY <1>4, <1>5, <1>6 DEF OwnInv

\* A filtered result: whoever is between filter and drain by then is overlapped.
LEMMA OwnFilter ==
    ASSUME TypeOK, OwnInv, NEW c \in Call, Filter(c)
    PROVE  OwnInv'
<1> DEFINE others == {d \in Call : pc[d] = "drain"}
<1>1. /\ pc[c] = "filter" /\ UNCHANGED <<rlabel, down>>
      /\ overlapped' = overlapped \cup others \cup IF others = {} THEN {} ELSE {c}
  BY DEF Filter, Is
<1>2. \A d \in Call : pc'[d] = IF d = c THEN "drain" ELSE pc[d]
  BY DEF Filter, Goto, TypeOK
<1>3. PICK o : /\ outcome' = [outcome EXCEPT ![c] = o]
               /\ ledger' = IF o = "clean" THEN ledger ELSE ledger \cup {c}
  BY DEF Filter
<1>4. \A d \in Call : outcome'[d] = IF d = c THEN o ELSE outcome[d]
  BY <1>3 DEF TypeOK
<1>5. NoneLeftBehind'
  <2>1. ASSUME NEW d \in ledger, d # c
        PROVE  d \in Call /\ pc'[d] = "drain" /\ outcome'[d] # "clean"
    BY <1>2, <1>4, <2>1 DEF OwnInv, NoneLeftBehind
  <2>2. c \notin ledger
    BY <1>1 DEF OwnInv, NoneLeftBehind
  <2>3. pc'[c] = "drain" /\ outcome'[c] = o
    BY <1>2, <1>4
  <2> QED
    BY <1>3, <2>1, <2>2, <2>3 DEF NoneLeftBehind
<1>6. AloneInDrain'
  <2> SUFFICES ASSUME NEW d \in Call, d \notin overlapped', pc'[d] = "drain"
               PROVE  /\ \A e \in Call : pc'[e] = "drain" => e = d
                      /\ outcome'[d] # "clean" => d \in ledger'
    BY DEF AloneInDrain
  <2>1. d = c /\ others = {}
    BY <1>1, <1>2
  <2> QED
    BY <1>2, <1>3, <1>4, <2>1
<1>7. SealedByOwn'
  <2>1. "drain" \notin Sealed
    BY DEF Sealed
  <2> QED
    BY <1>1, <1>2, <1>4, <2>1 DEF OwnInv, SealedByOwn
<1> QED
  BY <1>5, <1>6, <1>7 DEF OwnInv

\* A drained ledger: what a request alone in its drain finds is its own.
LEMMA OwnLabel ==
    ASSUME TypeOK, OwnInv, NEW c \in Call, LabelResult(c)
    PROVE  OwnInv'
<1>1. pc[c] = "drain" /\ UNCHANGED <<outcome, overlapped>>
  BY DEF LabelResult, Is
<1>2. \A d \in Call : pc'[d] = IF d = c THEN "absorb" ELSE pc[d]
  BY DEF LabelResult, Goto, TypeOK
<1>3. PICK drained \in Drains(c) :
         LET recs == {outcome[d] : d \in drained}
             l == [integrity |-> IF tool[c] \in ExternalRead THEN Untrusted ELSE Trusted,
                   confidentiality |-> ResultConfidentiality(recs)]
         IN /\ ledger' = ledger \ drained
            /\ rlabel' = [rlabel EXCEPT ![c] = l]
            /\ down' = [down EXCEPT ![c] = ~asked[c] /\ Authority /\ StepsDown(recs)]
  BY DEF LabelResult
<1> DEFINE recs == {outcome[d] : d \in drained}
<1>4. /\ \A d \in Call : d # c => rlabel'[d] = rlabel[d] /\ down'[d] = down[d]
      /\ rlabel'[c].confidentiality = ResultConfidentiality(recs)
      /\ down'[c] => StepsDown(recs)
      /\ ledger' = ledger \ drained
  BY <1>3 DEF TypeOK
<1>5. drained = ledger \/ (drained = {} /\ outcome[c] = "clean")
  BY DEF Drains
<1>6. c \notin ledger'
  BY <1>4, <1>5 DEF OwnInv, NoneLeftBehind
<1>7. NoneLeftBehind'
  BY <1>1, <1>2, <1>4, <1>6 DEF OwnInv, NoneLeftBehind
<1>8. AloneInDrain'
  <2> SUFFICES ASSUME NEW d \in Call, d \notin overlapped', pc'[d] = "drain"
               PROVE  FALSE
    BY DEF AloneInDrain
  <2>1. d # c /\ pc[d] = "drain" /\ d \notin overlapped
    BY <1>1, <1>2
  <2> QED
    BY <1>1, <2>1 DEF OwnInv, AloneInDrain
<1>9. c \notin overlapped => /\ outcome[c] # "clean" => rlabel'[c].confidentiality = Pii
                             /\ down'[c] => outcome[c] = "redacted"
  <2> SUFFICES ASSUME c \notin overlapped
               PROVE  /\ outcome[c] # "clean" => rlabel'[c].confidentiality = Pii
                      /\ down'[c] => outcome[c] = "redacted"
    OBVIOUS
  <2>1. ledger \subseteq {c} /\ (outcome[c] # "clean" => c \in ledger)
    BY <1>1 DEF OwnInv, AloneInDrain, NoneLeftBehind
  <2>2. recs \subseteq {outcome[c]} /\ (outcome[c] # "clean" => outcome[c] \in recs)
    BY <1>5, <2>1
  <2>3. outcome[c] # "clean" => rlabel'[c].confidentiality = Pii
    BY <1>4, <2>2 DEF ResultConfidentiality
  <2>4. down'[c] => "redacted" \in recs
    BY <1>4 DEF StepsDown
  <2> QED
    BY <2>2, <2>3, <2>4
<1> HIDE DEF recs
<1>10. SealedByOwn'
  <2> SUFFICES ASSUME NEW d \in Call, d \notin overlapped, pc'[d] \in Sealed
               PROVE  /\ outcome[d] # "clean" => rlabel'[d].confidentiality = Pii
                      /\ down'[d] => outcome[d] = "redacted"
    BY <1>1 DEF SealedByOwn
  <2>1. CASE d = c
    BY <1>9, <2>1
  <2>2. CASE d # c
    BY <1>2, <1>4, <2>2 DEF OwnInv, SealedByOwn
  <2> QED
    BY <2>1, <2>2
<1> QED
  BY <1>7, <1>8, <1>10 DEF OwnInv

\* A blocked input request empties the ledger and is over.
LEMMA OwnReject ==
    ASSUME TypeOK, OwnInv, NEW c \in Call, RejectInput(c)
    PROVE  OwnInv'
<1>1. pc[c] = "drain" /\ ledger' = {} /\ UNCHANGED <<outcome, rlabel, down, overlapped>>
  BY DEF RejectInput, Is
<1>2. \A d \in Call : pc'[d] = IF d = c THEN "dropped" ELSE pc[d]
  BY DEF RejectInput, Goto, TypeOK
<1>3. NoneLeftBehind'
  BY <1>1 DEF NoneLeftBehind
<1>4. AloneInDrain'
  <2> SUFFICES ASSUME NEW d \in Call, d \notin overlapped', pc'[d] = "drain"
               PROVE  FALSE
    BY DEF AloneInDrain
  <2>1. d # c /\ pc[d] = "drain" /\ d \notin overlapped
    BY <1>1, <1>2
  <2> QED
    BY <1>1, <2>1 DEF OwnInv, AloneInDrain
<1>5. SealedByOwn'
  <2>1. "dropped" \notin Sealed
    BY DEF Sealed
  <2> QED
    BY <1>1, <1>2, <2>1 DEF OwnInv, SealedByOwn
<1> QED
  BY <1>3, <1>4, <1>5 DEF OwnInv

\* Every step keeps OwnInv.
LEMMA NextOwn == TypeInv /\ OwnInv /\ [Next]_vars => OwnInv'
<1> SUFFICES ASSUME TypeOK, OwnInv, [Next]_vars PROVE OwnInv'
  BY DEF TypeInv
<1>s. /\ \A step \in {"ensure", "create", "snapshot", "admit", "dropped", "dispatch",
                      "filter"} : step \notin Sealed
      /\ {"absorb", "lower", "lowerWrite", "finish", "delivered", "withheld"} \subseteq Sealed
  BY DEF Sealed
<1>1. ASSUME UNCHANGED <<outcome, rlabel, down, ledger, overlapped, pc>> PROVE OwnInv'
  BY <1>1 DEF OwnInv, NoneLeftBehind, AloneInDrain, SealedByOwn
<1>2. CASE UNCHANGED vars
  BY <1>1, <1>2 DEF vars, resultVars
<1>3. ASSUME NEW a \in Agent, Initialize(a) PROVE OwnInv'
  <2>1. UNCHANGED <<resultVars, pc>>
    BY <1>3 DEF Initialize
  <2> QED
    BY <1>1, <2>1 DEF resultVars
<1>4. CASE CreateOrphan
  BY <1>1, <1>4 DEF CreateOrphan, resultVars
<1>5. ASSUME NEW c \in Call,
             \/ Arrive(c) \/ EnsureSession(c) \/ CreateSession(c) \/ ReadSessionLabel(c)
             \/ Refuse(c) \/ Admit(c) \/ Answer(c) \/ Cut(c) \/ LeavePending(c)
      PROVE  OwnInv'
  <2>1. UNCHANGED <<outcome, rlabel, down, ledger, overlapped>>
    BY <1>5, Zenon DEF Arrive, EnsureSession, CreateSession, ReadSessionLabel, Refuse, Admit, Answer,
                Cut, LeavePending, resultVars
  <2>2. pc[c] \in {"idle", "ensure", "create", "snapshot", "admit", "dispatch"}
    BY <1>5 DEF Arrive, EnsureSession, CreateSession, ReadSessionLabel, Refuse, Admit, Answer,
                Cut, LeavePending, Is
  <2>3. \E step \in {"ensure", "create", "snapshot", "admit", "dropped", "dispatch", "filter"} :
            Goto(c, step)
    BY <1>5 DEF Arrive, EnsureSession, CreateSession, ReadSessionLabel, Refuse, Admit, Answer,
                Cut, LeavePending
  <2> QED
    BY <1>s, <2>1, <2>2, <2>3, OwnFrame
<1>6. ASSUME NEW c \in Call, AbsorbResult(c) \/ Lower(c) \/ LowerWrite(c) \/ Finish(c)
      PROVE  OwnInv'
  <2>1. UNCHANGED <<outcome, rlabel, down, ledger, overlapped>>
    BY <1>6, Zenon DEF AbsorbResult, Lower, LowerWrite, Finish, resultVars
  <2>2. pc[c] \in {"absorb", "lower", "lowerWrite", "finish"}
    BY <1>6 DEF AbsorbResult, Lower, LowerWrite, Finish, Is
  <2>3. \E step \in {"lower", "lowerWrite", "finish", "delivered", "withheld"} : Goto(c, step)
    BY <1>6 DEF AbsorbResult, Lower, LowerWrite, Finish
  <2> QED
    BY <1>s, <2>1, <2>2, <2>3, OwnFrame
<1> QED
  BY <1>2, <1>3, <1>4, <1>5, <1>6, OwnFilter, OwnLabel, OwnReject DEF Next

\* A result that no other was filtered along with is labelled by its own findings,
\* and its session is stepped down for it only if it was fully redacted, however
\* many requests share the declassification ledger (handlers.rs:1178).  Of results
\* that were filtered along with others, see TakesFindingsOnce.
THEOREM LabelsOwnFindings == Spec => []OwnFindings
<1>1. Init => OwnInv
  BY DEF Init, OwnInv, NoneLeftBehind, AloneInDrain, SealedByOwn
<1>2. OwnInv => OwnFindings
  BY DEF OwnInv, SealedByOwn, OwnFindings, Sealed, Is
<1>3. TypeInv /\ OwnInv /\ [Next]_vars => (TypeInv /\ OwnInv)'
  BY NextTypes, NextOwn
<1> QED
  BY <1>1, <1>2, <1>3, InitTypes, PTL DEF Spec

-----------------------------------------------------------------------------
(* Who takes a recommendation *)

\* Past its drain, or ended by a blocked input request.
Drained == Sealed \cup {"dropped"}

\* The one who took the recommendation of c, and what became of it.
TakenBy(c, d) ==
    /\ takers[c] = {d}
    /\ d = c \/ {c, d} \subseteq overlapped
    /\ pc[d] \in Drained
    /\ rlabel[d].confidentiality = Pii \/ (asked[d] /\ pc[d] = "dropped")

\* A recommendation is untaken while it lies in the ledger, and taken once
\* afterwards.
OnceInv ==
    \A c \in Call :
        /\ pc[c] \notin Drained \cup {"drain"} => outcome[c] = "clean"
        /\ outcome[c] # "clean" /\ c \in ledger => takers[c] = {}
        /\ outcome[c] # "clean" /\ c \notin ledger => \E d \in Call : TakenBy(c, d)
        /\ outcome[c] = "clean" => takers[c] = {}

\* Two requests between filter and drain overlap.
LEMMA TogetherOverlap ==
    ASSUME OwnInv, NEW c \in Call, NEW d \in Call, pc[c] = "drain", pc[d] = "drain", c # d
    PROVE  {c, d} \subseteq overlapped
BY DEF OwnInv, AloneInDrain

\* A step of a request that neither filters nor drains keeps OnceInv.
LEMMA OnceFrame ==
    ASSUME TypeOK, OnceInv, NEW c \in Call, NEW step, Goto(c, step),
           UNCHANGED <<outcome, rlabel, ledger, overlapped, takers>>,
           pc[c] # "drain",
           \/ pc[c] \notin Drained /\ asked' = [asked EXCEPT ![c] = asked'[c]]
           \/ pc[c] \in Sealed /\ step \in Sealed /\ asked' = asked
    PROVE  OnceInv'
<1>1. \A d \in Call : pc'[d] = IF d = c THEN step ELSE pc[d]
  BY DEF Goto, TypeOK
<1>2. \A d \in Call : pc'[d] \notin Drained \cup {"drain"} => pc[d] \notin Drained \cup {"drain"} \/ outcome[d] = "clean"
  BY <1>1 DEF OnceInv, Drained
<1>3. ASSUME NEW e \in Call, NEW d \in Call, TakenBy(e, d)
      PROVE  TakenBy(e, d)'
  <2>1. CASE d # c
    BY <1>1, <1>3, <2>1 DEF TakenBy, TypeOK
  <2>2. CASE d = c
    <3>1. pc[c] \in Sealed /\ step \in Sealed /\ asked' = asked /\ pc[c] # "dropped"
      BY <1>3, <2>2 DEF TakenBy, Sealed
    <3> QED
      BY <1>1, <1>3, <2>2, <3>1 DEF TakenBy, Drained
  <2> QED
    BY <2>1, <2>2
<1>4. ASSUME NEW e \in Call, outcome[e] # "clean", e \notin ledger
      PROVE  \E d \in Call : TakenBy(e, d)'
  BY <1>3, <1>4 DEF OnceInv
<1> QED
  BY <1>2, <1>4 DEF OnceInv

\* A filtered result: its recommendation lies in the ledger, untaken.
LEMMA OnceFilter ==
    ASSUME TypeOK, OwnInv, OnceInv, NEW c \in Call, Filter(c)
    PROVE  OnceInv'
<1>1. /\ pc[c] = "filter" /\ UNCHANGED <<asked, rlabel, takers>>
      /\ overlapped \subseteq overlapped'
  BY DEF Filter, Is
<1>2. \A d \in Call : pc'[d] = IF d = c THEN "drain" ELSE pc[d]
  BY DEF Filter, Goto, TypeOK
<1>3. PICK o : /\ outcome' = [outcome EXCEPT ![c] = o]
               /\ ledger' = IF o = "clean" THEN ledger ELSE ledger \cup {c}
  BY DEF Filter
<1>4. \A d \in Call : outcome'[d] = IF d = c THEN o ELSE outcome[d]
  BY <1>3 DEF TypeOK
<1>5. pc[c] \notin Drained \cup {"drain"} /\ outcome[c] = "clean" /\ takers[c] = {}
  BY <1>1 DEF OnceInv, Drained, Sealed
<1>6. ASSUME NEW e \in Call, e # c, NEW d \in Call, TakenBy(e, d)
      PROVE  TakenBy(e, d)'
  <2>1. d # c
    BY <1>5, <1>6 DEF TakenBy
  <2> QED
    BY <1>1, <1>2, <1>6, <2>1 DEF TakenBy
<1>7. ASSUME NEW e \in Call
      PROVE  /\ pc'[e] \notin Drained \cup {"drain"} => outcome'[e] = "clean"
             /\ outcome'[e] # "clean" /\ e \in ledger' => takers'[e] = {}
             /\ outcome'[e] # "clean" /\ e \notin ledger' => \E d \in Call : TakenBy(e, d)'
             /\ outcome'[e] = "clean" => takers'[e] = {}
  <2>1. CASE e = c
    BY <1>1, <1>2, <1>3, <1>4, <1>5, <2>1
  <2>2. CASE e # c
    <3>1. outcome'[e] = outcome[e] /\ pc'[e] = pc[e] /\ takers'[e] = takers[e]
            /\ (e \in ledger' <=> e \in ledger)
      BY <1>1, <1>2, <1>3, <1>4, <2>2
    <3> QED
      BY <1>6, <2>2, <3>1 DEF OnceInv
  <2> QED
    BY <2>1, <2>2
<1> QED
  BY <1>7 DEF OnceInv

\* A drain takes what lies in the ledger, which is of requests it overlaps, and
\* leaves nothing.
LEMMA OnceDrain ==
    ASSUME TypeOK, OwnInv, OnceInv, NEW c \in Call, NEW drained,
           pc[c] = "drain",
           drained = ledger \/ (drained = {} /\ outcome[c] = "clean"),
           ledger' = ledger \ drained, Take(c, drained),
           UNCHANGED <<outcome, asked, overlapped>>,
           \A d \in Call : pc'[d] = IF d = c THEN pc'[c] ELSE pc[d],
           \A d \in Call : d # c => rlabel'[d] = rlabel[d],
           pc'[c] \in Drained,
           drained # {} => \/ rlabel'[c].confidentiality = Pii
                          \/ (asked[c] /\ pc'[c] = "dropped")
    PROVE  OnceInv'
<1>1. \A e \in Call : takers'[e] = IF e \in drained THEN takers[e] \cup {c} ELSE takers[e]
  BY DEF Take
<1>2. \A e \in ledger : e \in Call /\ pc[e] = "drain" /\ outcome[e] # "clean" /\ takers[e] = {}
  BY DEF OwnInv, NoneLeftBehind, OnceInv
<1>3. ASSUME NEW e \in Call, e \in drained PROVE TakenBy(e, c)'
  <2>1. takers'[e] = {c}
    BY <1>1, <1>2, <1>3
  <2>2. e = c \/ {e, c} \subseteq overlapped
    BY <1>2, <1>3, TogetherOverlap
  <2> QED
    BY <1>3, <2>1, <2>2 DEF TakenBy
<1>4. ASSUME NEW e \in Call, NEW d \in Call, TakenBy(e, d), e \notin drained
      PROVE  TakenBy(e, d)'
  <2>1. d # c
    BY <1>4 DEF TakenBy, Drained, Sealed
  <2> QED
    BY <1>1, <1>4, <2>1 DEF TakenBy
<1>5. ASSUME NEW e \in Call
      PROVE  /\ pc'[e] \notin Drained \cup {"drain"} => outcome'[e] = "clean"
             /\ outcome'[e] # "clean" /\ e \in ledger' => takers'[e] = {}
             /\ outcome'[e] # "clean" /\ e \notin ledger' => \E d \in Call : TakenBy(e, d)'
             /\ outcome'[e] = "clean" => takers'[e] = {}
  <2>1. CASE e \in drained
    BY <1>2, <1>3, <2>1 DEF OnceInv
  <2>2. CASE e \notin drained
    BY <1>1, <1>4, <2>2 DEF OnceInv
  <2> QED
    BY <2>1, <2>2
<1> QED
  BY <1>5 DEF OnceInv

\* Every step keeps OnceInv.
LEMMA NextOnce == TypeInv /\ OwnInv /\ OnceInv /\ [Next]_vars => OnceInv'
<1> SUFFICES ASSUME TypeOK, OwnInv, OnceInv, [Next]_vars PROVE OnceInv'
  BY DEF TypeInv
<1>1. ASSUME UNCHANGED <<outcome, asked, rlabel, ledger, overlapped, takers, pc>> PROVE OnceInv'
  BY <1>1 DEF OnceInv, TakenBy
<1>2. CASE UNCHANGED vars
  BY <1>1, <1>2 DEF vars, resultVars
<1>3. ASSUME NEW a \in Agent, Initialize(a) PROVE OnceInv'
  <2>1. UNCHANGED <<resultVars, pc>>
    BY <1>3 DEF Initialize
  <2> QED
    BY <1>1, <2>1 DEF resultVars
<1>4. CASE CreateOrphan
  BY <1>1, <1>4 DEF CreateOrphan, resultVars
<1>5. ASSUME NEW c \in Call,
             \/ Arrive(c) \/ EnsureSession(c) \/ CreateSession(c) \/ ReadSessionLabel(c)
             \/ Refuse(c) \/ Admit(c) \/ Answer(c) \/ Cut(c) \/ LeavePending(c)
      PROVE  OnceInv'
  <2>1. UNCHANGED <<outcome, rlabel, ledger, overlapped, takers>>
    BY <1>5, Zenon DEF Arrive, EnsureSession, CreateSession, ReadSessionLabel, Refuse, Admit, Answer,
                Cut, LeavePending, resultVars
  <2>2. pc[c] \in {"idle", "ensure", "create", "snapshot", "admit", "dispatch"}
    BY <1>5 DEF Arrive, EnsureSession, CreateSession, ReadSessionLabel, Refuse, Admit, Answer,
                Cut, LeavePending, Is
  <2>3. \E step \in {"ensure", "create", "snapshot", "admit", "dropped", "dispatch", "filter"} :
            Goto(c, step)
    BY <1>5 DEF Arrive, EnsureSession, CreateSession, ReadSessionLabel, Refuse, Admit, Answer,
                Cut, LeavePending
  <2>4. asked' = [asked EXCEPT ![c] = asked'[c]]
    <3>1. CASE asked' = asked
      BY <3>1 DEF TypeOK
    <3>2. CASE Answer(c)
      <4>1. PICK input \in BOOLEAN : asked' = [asked EXCEPT ![c] = input]
        BY <3>2 DEF Answer
      <4> QED
        BY <4>1 DEF TypeOK
    <3> QED
      BY <1>5, <3>1, <3>2, Zenon DEF Arrive, EnsureSession, CreateSession, ReadSessionLabel, Refuse, Admit,
                         Cut, LeavePending, resultVars
  <2>5. pc[c] \notin Drained /\ pc[c] # "drain"
    BY <2>2 DEF Drained, Sealed
  <2> QED
    BY <2>1, <2>3, <2>4, <2>5, OnceFrame
<1>6. ASSUME NEW c \in Call, AbsorbResult(c) \/ Lower(c) \/ LowerWrite(c) \/ Finish(c)
      PROVE  OnceInv'
  <2>1. UNCHANGED <<outcome, asked, rlabel, ledger, overlapped, takers>>
    BY <1>6, Zenon DEF AbsorbResult, Lower, LowerWrite, Finish, resultVars
  <2>2. pc[c] \in {"absorb", "lower", "lowerWrite", "finish"}
    BY <1>6 DEF AbsorbResult, Lower, LowerWrite, Finish, Is
  <2>3. \E step \in {"lower", "lowerWrite", "finish", "delivered", "withheld"} : Goto(c, step)
    BY <1>6 DEF AbsorbResult, Lower, LowerWrite, Finish
  <2>4. pc[c] \in Sealed /\ pc[c] # "drain"
    BY <2>2 DEF Sealed
  <2>5. \A step \in {"lower", "lowerWrite", "finish", "delivered", "withheld"} : step \in Sealed
    BY DEF Sealed
  <2> QED
    BY <2>1, <2>3, <2>4, <2>5, OnceFrame
<1>7. ASSUME NEW c \in Call, LabelResult(c) PROVE OnceInv'
  <2>1. /\ pc[c] = "drain" /\ UNCHANGED <<outcome, asked, overlapped>>
        /\ "absorb" \in Drained
    BY <1>7 DEF LabelResult, Is, Drained, Sealed
  <2>2. \A d \in Call : pc'[d] = IF d = c THEN "absorb" ELSE pc[d]
    BY <1>7 DEF LabelResult, Goto, TypeOK
  <2>3. PICK drained \in Drains(c) :
           LET recs == {outcome[d] : d \in drained}
               l == [integrity |-> IF tool[c] \in ExternalRead THEN Untrusted ELSE Trusted,
                     confidentiality |-> ResultConfidentiality(recs)]
           IN /\ ledger' = ledger \ drained
              /\ Take(c, drained)
              /\ rlabel' = [rlabel EXCEPT ![c] = l]
    BY <1>7 DEF LabelResult
  <2>4. /\ \A d \in Call : d # c => rlabel'[d] = rlabel[d]
        /\ rlabel'[c].confidentiality = ResultConfidentiality({outcome[d] : d \in drained})
    BY <2>3 DEF TypeOK
  <2>5. drained # {} => rlabel'[c].confidentiality = Pii
    BY <2>4 DEF ResultConfidentiality
  <2>6. drained = ledger \/ (drained = {} /\ outcome[c] = "clean")
    BY DEF Drains
  <2> QED
    BY <2>1, <2>2, <2>3, <2>4, <2>5, <2>6, OnceDrain
<1>8. ASSUME NEW c \in Call, RejectInput(c) PROVE OnceInv'
  <2>1. /\ pc[c] = "drain" /\ asked[c] /\ ledger' = {} /\ Take(c, ledger)
        /\ UNCHANGED <<outcome, asked, rlabel, overlapped>>
    BY <1>8 DEF RejectInput, Is
  <2>2. /\ \A d \in Call : pc'[d] = IF d = c THEN "dropped" ELSE pc[d]
        /\ "dropped" \in Drained
    BY <1>8 DEF RejectInput, Goto, TypeOK, Drained
  <2>3. ledger' = ledger \ ledger
    BY <2>1
  <2> QED
    BY <2>1, <2>2, <2>3, OnceDrain
<1> QED
  BY <1>2, <1>3, <1>4, <1>5, <1>6, <1>7, <1>8, OnceFilter DEF Next

\* However many results are filtered at once, the findings of each are taken by
\* exactly one request, itself or one that it overlapped, whose label they
\* elevate, unless they end with a blocked input request (handlers.rs:1178, 1458).
THEOREM TakesFindingsOnce == Spec => []FindingsTakenOnce
<1>1. Init => OwnInv /\ OnceInv
  BY DEF Init, OwnInv, NoneLeftBehind, AloneInDrain, SealedByOwn, OnceInv
<1>2. OwnInv /\ OnceInv => FindingsTakenOnce
  <2> SUFFICES ASSUME OwnInv, OnceInv, NEW c \in Call, outcome[c] # "clean",
                      pc[c] \in {"absorb", "lower", "lowerWrite", "finish", "delivered", "withheld"}
               PROVE  \E d \in Call :
                        /\ takers[c] = {d}
                        /\ d = c \/ {c, d} \subseteq overlapped
                        /\ rlabel[d].confidentiality = Pii \/ (asked[d] /\ Is(d, "dropped"))
    BY DEF FindingsTakenOnce
  <2>1. c \notin ledger
    BY DEF OwnInv, NoneLeftBehind
  <2> QED
    BY <2>1 DEF OnceInv, TakenBy, Is
<1>3. TypeInv /\ OwnInv /\ OnceInv /\ [Next]_vars => (TypeInv /\ OwnInv /\ OnceInv)'
  BY NextTypes, NextOwn, NextOnce
<1> QED
  BY <1>1, <1>2, <1>3, InitTypes, PTL DEF Spec
=============================================================================
