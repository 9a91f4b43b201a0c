----------------------------- MODULE FlowPromise -----------------------------
(***************************************************************************)
(* What a flow without back-edges promises its caller, crashes, retries    *)
(* and resumed runs abstracted away: the output of a task is accepted      *)
(* once, after those of the tasks it depends on; and a returned report is  *)
(* determined by what was accepted: accepted tasks are Complete, those     *)
(* that had everything they needed Failed, all others are Skipped.         *)
(***************************************************************************)
EXTENDS TaskGraph

VARIABLES
    accepted,   \* how many outputs of each task were accepted
    report      \* the statuses returned; "None" everywhere until then

pvars == <<accepted, report>>

Accepted == {t \in Task : accepted[t] = 1}
NoReport == [t \in Task |-> "None"]

Init ==
    /\ accepted = [t \in Task |-> 0]
    /\ report = NoReport

Accept(t) ==
    /\ report = NoReport
    /\ accepted[t] = 0
    /\ DependsOn[t] \subseteq Accepted
    /\ accepted' = [accepted EXCEPT ![t] = 1]
    /\ UNCHANGED report

Return ==
    /\ report = NoReport
    /\ report' = [t \in Task |->
           IF t \in Accepted THEN "Complete"
           ELSE IF DependsOn[t] \subseteq Accepted THEN "Failed" ELSE "Skipped"]
    /\ UNCHANGED accepted

Next == (\E t \in Task : Accept(t)) \/ Return

Spec == Init /\ [][Next]_pvars
=============================================================================
