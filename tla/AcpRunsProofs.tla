---------------------------- MODULE AcpRunsProofs ----------------------------
(***************************************************************************)
(* The safety properties of AcpRuns for any runs, any clients and any      *)
(* number of cancel requests.                                              *)
(***************************************************************************)
EXTENDS AcpRuns, TLAPS

\* Type correctness of the run store, its executors and its handlers.
THEOREM TypeCorrect == Spec => []TypeOK
<1>1. Init => TypeOK
  BY DEF Init, TypeOK, Known, Background
<1>2. TypeOK /\ [Next]_vars => TypeOK'
  <2> SUFFICES ASSUME TypeOK, [Next]_vars PROVE TypeOK'
    OBVIOUS
  <2> USE DEF TypeOK, Known, Background, Terminal, Exists, Logs, store
  <2>1. CASE UNCHANGED vars
    BY <2>1 DEF vars
  <2>2. ASSUME NEW r \in Run, NEW m \in {"sync"} \cup Background, Create(r, m)
        PROVE  TypeOK'
    BY <2>2 DEF Create
  <2>3. ASSUME NEW r \in Run, Start(r) PROVE TypeOK'
    BY <2>3 DEF Start
  <2>4. ASSUME NEW r \in Run, Save(r) PROVE TypeOK'
    BY <2>4 DEF Save
  <2>5. ASSUME NEW r \in Run, Finish(r) PROVE TypeOK'
    BY <2>5 DEF Finish, Settle
  <2>6. ASSUME NEW r \in Run, Fail(r) PROVE TypeOK'
    BY <2>6 DEF Fail, Settle
  <2>7. ASSUME NEW r \in Run, Log(r) PROVE TypeOK'
    BY <2>7 DEF Log
  <2>8. ASSUME NEW r \in Run, Leave(r) PROVE TypeOK'
    BY <2>8 DEF Leave
  <2>9. ASSUME NEW r \in Run, NEW c \in Client(r), ReadRun(r, c) PROVE TypeOK'
    <3>1. \A q \in Run : reads'[q] \in [Client(q) -> {"none", "answered"} \cup Known]
      BY <2>9 DEF ReadRun
    <3> QED
      BY <2>9, <3>1 DEF ReadRun
  <2>10. ASSUME NEW r \in Run, NEW c \in Client(r), Cancel(r, c) PROVE TypeOK'
    <3>1. \A q \in Run : reads'[q] \in [Client(q) -> {"none", "answered"} \cup Known]
      BY <2>10 DEF Cancel
    <3>2. /\ UNCHANGED <<dispatcher, mode, output, pc, stream, collected>>
          /\ reads' = [q \in Run |-> reads'[q]]
      BY <2>10 DEF Cancel
    <3>3. UNCHANGED <<status, finished, logged>> \/ Cancelling(r)
      BY <2>10 DEF Cancel
    <3>4. CASE UNCHANGED <<status, finished, logged>>
      BY <3>1, <3>2, <3>4
    <3>5. CASE Cancelling(r)
      BY <3>1, <3>2, <3>5 DEF Cancelling
    <3> QED
      BY <3>3, <3>4, <3>5
  <2>11. ASSUME NEW r \in Run, Age(r) PROVE TypeOK'
    BY <2>11 DEF Age
  <2>12. CASE Collect
    BY <2>12 DEF Collect
  <2>13. CASE Remove
    BY <2>13 DEF Remove
  <2>14. ASSUME NEW r \in Run, Fill(r) \/ Drain(r) PROVE TypeOK'
    BY <2>14 DEF Fill, Drain
  <2> QED
    BY <2>1, <2>2, <2>3, <2>4, <2>5, <2>6, <2>7, <2>8, <2>9, <2>10, <2>11, <2>12,
       <2>13, <2>14 DEF Next, Execute
<1> QED
  BY <1>1, <1>2, PTL DEF Spec

-----------------------------------------------------------------------------

\* Nobody but the executor touches a run that no client asked to cancel: it
\* has a time of finish only when the executor has given it one, and the sweep
\* takes it only when the executor is done.
Untouched(r) ==
    /\ pc[r] # "none" => status[r] # "none"
    /\ pc[r] \in {"start", "run", "finish", "log"} => status[r] # "removed"
    /\ pc[r] \in {"none", "start", "run", "finish", "left"} =>
           finished[r] = "unset" /\ status[r] \notin Terminal
    /\ pc[r] = "log" => finished[r] = "recent"
    /\ pc[r] # "panicked"
    /\ r \in collected => pc[r] = "done"
    /\ pc[r] = "none" => status[r] = "none"
    /\ status[r] = "removed" => pc[r] = "done" /\ ~logged[r]

UntouchedInv == \A r \in Run : Asked(r) = {} => Untouched(r)

\* A run comes to "finish" with its output, if the store still has it.
OutputInv ==
    \A r \in Run :
        /\ pc[r] = "finish" /\ Exists(r) => output[r]
        /\ status[r] = "completed" => output[r]

\* A cancel request is never forgotten.
LEMMA AskedGrows ==
    ASSUME TypeOK, Next, NEW q \in Run
    PROVE  Asked(q)' = {} => Asked(q) = {} /\ reads'[q] = reads[q]
<1> USE DEF Asked
<1>1. ASSUME NEW r \in Run, NEW c \in Client(r), ReadRun(r, c)
      PROVE  Asked(q)' = {} => Asked(q) = {} /\ reads'[q] = reads[q]
  BY <1>1 DEF ReadRun, TypeOK, Exists, Known, Terminal
<1>2. ASSUME NEW r \in Run, NEW c \in Client(r), Cancel(r, c)
      PROVE  Asked(q)' = {} => Asked(q) = {} /\ reads'[q] = reads[q]
  BY <1>2 DEF Cancel, TypeOK, Known, Terminal
<1>3. (\E r \in Run : \E m \in {"sync"} \cup Background : Create(r, m))
        \/ (\E r \in Run : Execute(r) \/ Fill(r) \/ Drain(r) \/ Leave(r) \/ Age(r)) \/ Collect \/ Remove
      => reads' = reads
  BY DEF Create, Execute, Start, Save, Finish, Fail, Settle, Log, Fill, Drain, Leave, Age,
         Collect, Remove
<1> QED
  BY <1>1, <1>2, <1>3 DEF Next

\* The sweep takes an unasked run only when its executor is done.
LEMMA UntouchedStep == TypeOK /\ UntouchedInv /\ [Next]_vars => UntouchedInv'
<1> SUFFICES ASSUME TypeOK, UntouchedInv, [Next]_vars,
                    NEW q \in Run, Asked(q)' = {}
             PROVE  Untouched(q)'
  BY DEF UntouchedInv
<1>0. CASE UNCHANGED vars
  BY <1>0 DEF vars, store, UntouchedInv, Untouched, Asked
<1> SUFFICES ASSUME Next PROVE Untouched(q)'
  BY <1>0
<1>a. Untouched(q) /\ reads'[q] = reads[q] /\ \A c \in Client(q) : reads[q][c] = "none"
  BY AskedGrows DEF UntouchedInv, Asked
<1> USE <1>a DEF Untouched, TypeOK, Known, Terminal, Background, Exists, Logs, store
<1>1. ASSUME NEW r \in Run, NEW m \in {"sync"} \cup Background, Create(r, m)
      PROVE  Untouched(q)'
  BY <1>1 DEF Create
<1>2. ASSUME NEW r \in Run, Start(r) PROVE Untouched(q)'
  BY <1>2 DEF Start
<1>3. ASSUME NEW r \in Run, Save(r) PROVE Untouched(q)'
  BY <1>3 DEF Save
<1>4. ASSUME NEW r \in Run, Finish(r) PROVE Untouched(q)'
  BY <1>4 DEF Finish, Settle
<1>5. ASSUME NEW r \in Run, Fail(r) PROVE Untouched(q)'
  BY <1>5 DEF Fail, Settle
<1>6. ASSUME NEW r \in Run, Log(r) PROVE Untouched(q)'
  BY <1>6 DEF Log
<1>7. ASSUME NEW r \in Run, Leave(r) PROVE Untouched(q)'
  BY <1>7 DEF Leave
<1>8. ASSUME NEW r \in Run, NEW c \in Client(r), ReadRun(r, c) PROVE Untouched(q)'
  BY <1>8 DEF ReadRun
<1>9. ASSUME NEW r \in Run, NEW c \in Client(r), Cancel(r, c) PROVE Untouched(q)'
  <2>1. r # q
    BY <1>9 DEF Cancel
  <2>2. /\ pc' = pc /\ collected' = collected
        /\ UNCHANGED <<status, finished, logged>> \/ Cancelling(r)
    BY <1>9 DEF Cancel
  <2>3. status'[q] = status[q] /\ finished'[q] = finished[q] /\ logged'[q] = logged[q]
    BY <2>1, <2>2 DEF Cancelling
  <2> QED
    BY <2>2, <2>3
<1>10. ASSUME NEW r \in Run, Age(r) PROVE Untouched(q)'
  BY <1>10 DEF Age
<1>11. CASE Collect
  BY <1>11 DEF Collect, Expirable
<1>12. CASE Remove
  BY <1>12 DEF Remove
<1>13. ASSUME NEW r \in Run, Fill(r) \/ Drain(r) PROVE Untouched(q)'
  BY <1>13 DEF Fill, Drain
<1> QED
  BY <1>1, <1>2, <1>3, <1>4, <1>5, <1>6, <1>7, <1>8, <1>9, <1>10, <1>11, <1>12,
     <1>13 DEF Next, Execute

\* The sweep never takes a run away from its executor unless a client asked to
\* cancel it.
THEOREM SweepTakesDone == Spec => []SweptWereDone
<1>1. Init => UntouchedInv
  BY DEF Init, UntouchedInv, Untouched, Asked, Terminal
<1>2. UntouchedInv => SweptWereDone
  BY DEF UntouchedInv, Untouched, SweptWereDone
<1> QED
  BY <1>1, <1>2, UntouchedStep, TypeCorrect, PTL DEF Spec

\* The executor stores the output before it settles the run.
LEMMA OutputStep == TypeOK /\ OutputInv /\ [Next]_vars => OutputInv'
<1> SUFFICES ASSUME TypeOK, OutputInv, [Next]_vars PROVE OutputInv'
  OBVIOUS
<1> USE DEF OutputInv, TypeOK, Known, Terminal, Background, Exists, store
<1>0. CASE UNCHANGED vars
  BY <1>0 DEF vars
<1>1. ASSUME NEW r \in Run, NEW m \in {"sync"} \cup Background, Create(r, m)
      PROVE  OutputInv'
  BY <1>1 DEF Create
<1>2. ASSUME NEW r \in Run, Start(r) PROVE OutputInv'
  BY <1>2 DEF Start
<1>3. ASSUME NEW r \in Run, Save(r) PROVE OutputInv'
  BY <1>3 DEF Save
<1>4. ASSUME NEW r \in Run, Finish(r) PROVE OutputInv'
  BY <1>4 DEF Finish, Settle
<1>5. ASSUME NEW r \in Run, Fail(r) PROVE OutputInv'
  BY <1>5 DEF Fail, Settle
<1>6. ASSUME NEW r \in Run, Log(r) PROVE OutputInv'
  BY <1>6 DEF Log
<1>7. ASSUME NEW r \in Run, Leave(r) PROVE OutputInv'
  BY <1>7 DEF Leave
<1>8. ASSUME NEW r \in Run, NEW c \in Client(r), ReadRun(r, c) PROVE OutputInv'
  BY <1>8 DEF ReadRun
<1>9. ASSUME NEW r \in Run, NEW c \in Client(r), Cancel(r, c) PROVE OutputInv'
  <2>1. /\ pc' = pc /\ output' = output
        /\ UNCHANGED <<status, finished, logged>> \/ Cancelling(r)
    BY <1>9 DEF Cancel
  <2> QED
    BY <2>1 DEF Cancelling
<1>10. ASSUME NEW r \in Run, Age(r) PROVE OutputInv'
  BY <1>10 DEF Age
<1>11. CASE Collect
  BY <1>11 DEF Collect
<1>12. CASE Remove
  BY <1>12 DEF Remove
<1>13. ASSUME NEW r \in Run, Fill(r) \/ Drain(r) PROVE OutputInv'
  BY <1>13 DEF Fill, Drain
<1> QED
  BY <1>0, <1>1, <1>2, <1>3, <1>4, <1>5, <1>6, <1>7, <1>8, <1>9, <1>10, <1>11, <1>12,
     <1>13 DEF Next, Execute

\* A run that reads as completed has its output message.
THEOREM CompletedIsWhole == Spec => []CompletedHasOutput
<1>1. Init => OutputInv
  BY DEF Init, OutputInv
<1>2. OutputInv => CompletedHasOutput
  BY DEF OutputInv, CompletedHasOutput
<1> QED
  BY <1>1, <1>2, OutputStep, TypeCorrect, PTL DEF Spec

=============================================================================
