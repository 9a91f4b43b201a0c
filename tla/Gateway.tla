------------------------------ MODULE Gateway -------------------------------
(***************************************************************************)
(* Concurrent tools/call requests in the gateway (navra-core): the session *)
(* label they share per agent, the process table, the per-session value    *)
(* store and the declassification ledger that all requests share.          *)
(*                                                                         *)
(* A request runs on its own task.  Its steps are cut where it takes a     *)
(* lock, or awaits, so that other requests come in between.                *)
(***************************************************************************)
EXTENDS DataLabels, FiniteSets

CONSTANTS
    Agent,          \* agent names; the session of an agent is "rmcp:" + name
    Call,           \* tools/call requests, each served once
    Tool,
    ExternalRead,   \* tools whose results are Untrusted (path not trusted)
    WriteTool,      \* is_write_tool
    Policy,         \* Policy[a]: TaintedWritePolicy; anything but "Allow" refuses
    FilterAction,   \* FilterAction[a]: what the safety pipeline does to findings
    Authority,      \* is a DeclassificationAuthority configured?
    MaxConcurrent,  \* MaxConcurrent[a]: semaphore of the agent, 0 = none
    MaxSessions,    \* max_sessions, counted at initialize
    MaxInits,       \* bound: initialize requests
    NoAgent, NoTool

ASSUME GatewayAssumption ==
    /\ IsFiniteSet(Agent) /\ IsFiniteSet(Call)
    /\ ExternalRead \subseteq Tool
    /\ WriteTool \subseteq Tool
    /\ Authority \in BOOLEAN
    /\ MaxConcurrent \in [Agent -> Nat]
    /\ MaxSessions \in Nat
    /\ MaxInits \in Nat
    /\ NoAgent \notin Agent /\ NoTool \notin Tool

VARIABLES
    live,      \* agents whose session exists
    label,     \* its context_label; a missing session reads as TRUSTED_PUBLIC
    orphans,   \* sessions initialize created under a fresh id nobody uses
    creating,  \* initialize requests past the session cap, about to create one
    inits,     \* initialize requests so far
    pc, owner, tool, refs,   \* per request: progress, agent, tool, var:// references
    taint,     \* ctx.taint of the request
    outcome,   \* what the safety filter made of its result
    asked,     \* does the handler ask for input instead of answering?
    rlabel,    \* result_label
    down,      \* is its step-down to Sensitive due?
    ledger,    \* requests whose recommendation is in DeclassificationLedger
    stored,    \* requests whose result is in the value store
    vlabel,    \* the label it is stored with
    active,    \* ProcessTable: active_calls, per agent and tool
    absorbed,  \* history: requests whose label the live session object absorbed
    seenAt,    \* history: absorbed, when the request read the session label
    overlapped, \* history: requests filtered while another's findings lay there
    takers      \* history: who drained the recommendation of each request

sessionVars == <<live, label, orphans, creating, inits, absorbed>>
requestVars == <<owner, tool, refs, seenAt>>
resultVars == <<outcome, asked, rlabel, down, ledger, stored, vlabel, overlapped,
                takers>>
vars == <<sessionVars, requestVars, resultVars, pc, taint, active>>

Admitted == {"dispatch", "filter", "drain", "absorb", "lower", "lowerWrite", "finish"}
Step == {"idle", "ensure", "create", "snapshot", "admit", "dropped", "delivered",
         "withheld"} \cup Admitted
Outcome == {"clean", "redacted", "partial", "pseudonymized", "blocked"}

TypeOK ==
    /\ live \in SUBSET Agent
    /\ label \in [Agent -> DataLabel]
    /\ orphans \in 0..MaxInits
    /\ creating \in 0..MaxInits
    /\ inits \in 0..MaxInits
    /\ pc \in [Call -> Step]
    /\ owner \in [Call -> Agent \cup {NoAgent}]
    /\ tool \in [Call -> Tool \cup {NoTool}]
    /\ refs \in [Call -> SUBSET Call]
    /\ taint \in [Call -> DataLabel]
    /\ outcome \in [Call -> Outcome]
    /\ asked \in [Call -> BOOLEAN]
    /\ rlabel \in [Call -> DataLabel]
    /\ down \in [Call -> BOOLEAN]
    /\ ledger \in SUBSET Call
    /\ stored \in SUBSET Call
    /\ vlabel \in [Call -> DataLabel]
    /\ active \in [Agent -> [Tool -> Nat]]
    /\ absorbed \in [Agent -> SUBSET Call]
    /\ seenAt \in [Call -> SUBSET Call]
    /\ overlapped \in SUBSET Call
    /\ takers \in [Call -> SUBSET Call]

Init ==
    /\ live = {}
    /\ label = [a \in Agent |-> TrustedPublic]
    /\ orphans = 0
    /\ creating = 0
    /\ inits = 0
    /\ pc = [c \in Call |-> "idle"]
    /\ owner = [c \in Call |-> NoAgent]
    /\ tool = [c \in Call |-> NoTool]
    /\ refs = [c \in Call |-> {}]
    /\ taint = [c \in Call |-> TrustedPublic]
    /\ outcome = [c \in Call |-> "clean"]
    /\ asked = [c \in Call |-> FALSE]
    /\ rlabel = [c \in Call |-> TrustedPublic]
    /\ down = [c \in Call |-> FALSE]
    /\ ledger = {}
    /\ stored = {}
    /\ vlabel = [c \in Call |-> TrustedPublic]
    /\ active = [a \in Agent |-> [t \in Tool |-> 0]]
    /\ absorbed = [a \in Agent |-> {}]
    /\ seenAt = [c \in Call |-> {}]
    /\ overlapped = {}
    /\ takers = [c \in Call |-> {}]

Goto(c, step) == pc' = [pc EXCEPT ![c] = step]
Is(c, step) == pc[c] = step

-----------------------------------------------------------------------------
(* Sessions *)

\* The sessions of these agents are gone.
Forget(gone) ==
    /\ live' = live \ gone
    /\ label' = [a \in Agent |-> IF a \in gone THEN TrustedPublic ELSE label[a]]
    /\ absorbed' = [a \in Agent |-> IF a \in gone THEN {} ELSE absorbed[a]]

\* initialize: drop the agent's session, expire any that are past their TTL
\* (last_accessed is never touched on this path, so requests in flight do not
\* keep a session alive), then look at the session cap ...
Initialize(a) ==
    /\ inits < MaxInits
    /\ inits' = inits + 1
    /\ \E expired \in SUBSET live, left \in 0..orphans :
        /\ Forget(expired \cup {a})
        /\ orphans' = left
        /\ creating' = IF Cardinality(live \ (expired \cup {a})) + left < MaxSessions
                       THEN creating + 1 ELSE creating
    /\ UNCHANGED <<requestVars, resultVars, pc, taint, active>>

\* ... and create a session, under an id that no tools/call will use.
CreateOrphan ==
    /\ creating > 0
    /\ creating' = creating - 1
    /\ orphans' = orphans + 1
    /\ UNCHANGED <<live, label, inits, absorbed, requestVars, resultVars, pc, taint,
                   active>>

\* A request arrives; var:// references name values its session has stored and
\* its agent was told of.
Arrive(c) ==
    /\ Is(c, "idle")
    /\ \E a \in Agent, t \in Tool :
        /\ owner' = [owner EXCEPT ![c] = a]
        /\ tool' = [tool EXCEPT ![c] = t]
        /\ \E R \in SUBSET {d \in stored : owner[d] = a /\ Is(d, "delivered")} :
            refs' = [refs EXCEPT ![c] = R]
    /\ Goto(c, "ensure")
    /\ UNCHANGED <<sessionVars, resultVars, taint, seenAt, active>>

\* ensure_session looks the session up, and creates it in a second step.
EnsureSession(c) ==
    /\ Is(c, "ensure")
    /\ Goto(c, IF owner[c] \in live THEN "snapshot" ELSE "create")
    /\ UNCHANGED <<sessionVars, requestVars, resultVars, taint, active>>

\* The insert replaces whatever session there is by now.
CreateSession(c) ==
    /\ Is(c, "create")
    /\ live' = live \cup {owner[c]}
    /\ label' = [label EXCEPT ![owner[c]] = TrustedPublic]
    /\ absorbed' = [absorbed EXCEPT ![owner[c]] = {}]
    /\ Goto(c, "snapshot")
    /\ UNCHANGED <<orphans, creating, inits, requestVars, resultVars, taint, active>>

\* The request works on a copy of the session label from here on.
ReadSessionLabel(c) ==
    /\ Is(c, "snapshot")
    /\ taint' = [taint EXCEPT ![c] = label[owner[c]]]
    /\ seenAt' = [seenAt EXCEPT ![c] = absorbed[owner[c]]]
    /\ Goto(c, "admit")
    /\ UNCHANGED <<sessionVars, owner, tool, refs, resultVars, active>>

-----------------------------------------------------------------------------
(* Admission *)

InFlight(a) == {c \in Call : owner[c] = a /\ pc[c] \in Admitted}
PermitFree(a) == MaxConcurrent[a] = 0 \/ Cardinality(InFlight(a)) < MaxConcurrent[a]

\* Does a write carry untrusted data?  With var:// references the labels of the
\* referenced values decide, without them the label of the session.
CarriesUntrusted_RefsOnly(c) == \E d \in refs[c] : vlabel[d].integrity = Untrusted
CarriesUntrusted(c) ==
    IF refs[c] = {} THEN taint[c].integrity = Untrusted
    ELSE \E d \in refs[c] : vlabel[d].integrity = Untrusted

\* Paused, quota, permit, tool permission, domain rules, Cedar, OPA, DMN, path
\* ACL, an evicted value: the request may be refused for many reasons.
Refuse(c) ==
    /\ Is(c, "admit")
    /\ Goto(c, "dropped")
    /\ UNCHANGED <<sessionVars, requestVars, resultVars, taint, active>>

\* Nothing refuses it: the process table records the call.
Admit(c) ==
    /\ Is(c, "admit")
    /\ PermitFree(owner[c])
    /\ ~(tool[c] \in WriteTool /\ CarriesUntrusted(c) /\ Policy[owner[c]] # "Allow")
    /\ active' = [active EXCEPT ![owner[c]][tool[c]] = @ + 1]
    /\ Goto(c, "dispatch")
    /\ UNCHANGED <<sessionVars, requestVars, resultVars, taint>>

\* complete_call removes one entry of that tool, whichever request made it.
CompleteCall_AllOfTool(c) == active' = [active EXCEPT ![owner[c]][tool[c]] = 0]
CompleteCall(c) ==
    active' = [active EXCEPT ![owner[c]][tool[c]] = IF @ > 0 THEN @ - 1 ELSE 0]

\* Pre-hooks and the handler, both awaited.
Answer(c) ==
    /\ Is(c, "dispatch")
    /\ \E input \in BOOLEAN : asked' = [asked EXCEPT ![c] = input]
    /\ Goto(c, "filter")
    /\ UNCHANGED <<sessionVars, requestVars, outcome, rlabel, down, ledger, stored,
                   vlabel, overlapped, takers, taint, active>>

\* A hook blocks or simulates the call, or the tool is unknown.
Cut(c) ==
    /\ Is(c, "dispatch")
    /\ CompleteCall(c)
    /\ Goto(c, "dropped")
    /\ UNCHANGED <<sessionVars, requestVars, resultVars, taint>>

\* A hook leaves the call pending approval, or the handler answers with a task:
\* the call is over, and stays in the process table.
LeavePending(c) ==
    /\ Is(c, "dispatch")
    /\ Goto(c, "dropped")
    /\ UNCHANGED <<sessionVars, requestVars, resultVars, taint, active>>

-----------------------------------------------------------------------------
(* Results *)

FilterOutcome(action) ==
    {"clean"} \cup CASE action = "Redact" -> {"redacted", "partial"}
                     [] action = "Pseudonymize" -> {"pseudonymized", "partial"}
                     [] action = "Block" -> {"blocked"}
                     [] OTHER -> {}

\* The SafetyHook filters the result and records what it did in the ledger.
Filter(c) ==
    /\ Is(c, "filter")
    /\ \E o \in FilterOutcome(FilterAction[owner[c]]) :
        /\ outcome' = [outcome EXCEPT ![c] = o]
        /\ ledger' = IF o = "clean" THEN ledger ELSE ledger \cup {c}
    /\ LET others == {d \in Call : Is(d, "drain")} IN
        overlapped' = overlapped \cup others \cup IF others = {} THEN {} ELSE {c}
    /\ Goto(c, "drain")
    /\ UNCHANGED <<sessionVars, requestVars, asked, rlabel, down, stored, vlabel,
                   takers, taint, active>>

\* Any findings make the result Pii.
ResultConfidentiality_UnlessRedacted(recs) ==
    IF recs \ {"redacted"} = {} THEN Public ELSE Pii
ResultConfidentiality(recs) == IF recs = {} THEN Public ELSE Pii

\* A step-down needs a full redaction, and nothing handled only in part.
StepsDown(recs) == "redacted" \in recs /\ recs \cap {"partial", "blocked"} = {}

\* History: request c takes these requests' recommendations out of the ledger.
Take(c, drained) ==
    takers' = [d \in Call |-> IF d \in drained THEN takers[d] \cup {c} ELSE takers[d]]

Drains_ResultsOnly(c) == {IF asked[c] THEN {} ELSE ledger}

\* What a request drains: the whole ledger, whoever filled it; nothing, when its
\* input request has no text to filter.
Drains(c) == {ledger} \cup IF asked[c] /\ outcome[c] = "clean" THEN {{}} ELSE {}

\* The result is labelled by what was drained.
LabelResult(c) ==
    /\ Is(c, "drain")
    /\ ~(asked[c] /\ outcome[c] = "blocked")
    /\ \E drained \in Drains(c) :
        LET recs == {outcome[d] : d \in drained}
            l == [integrity |-> IF tool[c] \in ExternalRead THEN Untrusted ELSE Trusted,
                  confidentiality |-> ResultConfidentiality(recs)]
        IN /\ ledger' = ledger \ drained
           /\ Take(c, drained)
           /\ rlabel' = [rlabel EXCEPT ![c] = l]
           /\ taint' = [taint EXCEPT ![c] = Join(@, l)]
           /\ down' = [down EXCEPT ![c] = ~asked[c] /\ Authority /\ StepsDown(recs)]
    /\ Goto(c, "absorb")
    /\ UNCHANGED <<sessionVars, requestVars, outcome, asked, stored, vlabel,
                   overlapped, active>>

\* A filtered input request that the pipeline blocks ends the call at once.
RejectInput(c) ==
    /\ Is(c, "drain")
    /\ asked[c]
    /\ ledger' = {}
    /\ Take(c, ledger)
    /\ Goto(c, "dropped")
    /\ UNCHANGED <<sessionVars, requestVars, outcome, asked, rlabel, down, stored,
                   vlabel, overlapped, taint, active>>

\* update_context_label joins under the store's lock; no session, no effect.
UpdateContextLabel_Replace(a, l) == label' = [label EXCEPT ![a] = l]
UpdateContextLabel(a, l) == label' = [label EXCEPT ![a] = Join(@, l)]

\* The session absorbs the result label; a final result is stored with it.
AbsorbResult(c) ==
    /\ Is(c, "absorb")
    /\ IF owner[c] \in live
       THEN /\ UpdateContextLabel(owner[c], rlabel[c])
            /\ absorbed' = [absorbed EXCEPT ![owner[c]] = @ \cup {c}]
       ELSE UNCHANGED <<label, absorbed>>
    /\ stored' = IF asked[c] THEN stored ELSE stored \cup {c}
    /\ vlabel' = [vlabel EXCEPT ![c] = rlabel[c]]
    /\ Goto(c, IF down[c] THEN "lower" ELSE "finish")
    /\ UNCHANGED <<live, orphans, creating, inits, requestVars, outcome, asked, rlabel,
                   down, ledger, overlapped, takers, taint, active>>

\* TaintTracker::declassify on the request's copy; the stored value follows (it
\* is not known to anyone yet); then declassify_context_label reads the session.
Lower(c) ==
    /\ Is(c, "lower")
    /\ taint' = [taint EXCEPT ![c] = Declassified(@, Sensitive)]
    /\ vlabel' = [vlabel EXCEPT ![c] = taint'[c]]
    /\ Goto(c, IF Sensitive < label[owner[c]].confidentiality
               THEN "lowerWrite" ELSE "finish")
    /\ UNCHANGED <<sessionVars, requestVars, outcome, asked, rlabel, down, ledger,
                   stored, overlapped, takers, active>>

\* ... and sets it, in a second step.
LowerWrite(c) ==
    /\ Is(c, "lowerWrite")
    /\ label' = IF owner[c] \in live
                THEN [label EXCEPT ![owner[c]] = Declassified(@, Sensitive)]
                ELSE label
    /\ Goto(c, "finish")
    /\ UNCHANGED <<live, orphans, creating, inits, absorbed, requestVars, resultVars, taint,
                   active>>

\* The result goes to the agent, unless the DMN output policy withholds it.
Finish(c) ==
    /\ Is(c, "finish")
    /\ CompleteCall(c)
    /\ \E step \in {"delivered"} \cup IF asked[c] THEN {} ELSE {"withheld"} : Goto(c, step)
    /\ UNCHANGED <<sessionVars, requestVars, resultVars, taint>>

Next ==
    \/ \E a \in Agent : Initialize(a)
    \/ CreateOrphan
    \/ \E c \in Call :
        \/ Arrive(c) \/ EnsureSession(c) \/ CreateSession(c) \/ ReadSessionLabel(c)
        \/ Refuse(c) \/ Admit(c) \/ Answer(c) \/ Cut(c) \/ LeavePending(c)
        \/ Filter(c) \/ LabelResult(c) \/ RejectInput(c) \/ AbsorbResult(c)
        \/ Lower(c) \/ LowerWrite(c) \/ Finish(c)

Spec == Init /\ [][Next]_vars

-----------------------------------------------------------------------------
(* Properties *)

\* The session label covers every result its session absorbed: in integrity
\* always, whatever requests update and declassify it concurrently; in
\* confidentiality down to Sensitive, the floor of declassification.
LabelCovers(l, m) ==
    /\ m.integrity <= l.integrity
    /\ m.confidentiality <= l.confidentiality \/ Sensitive <= l.confidentiality
SessionLabelCovers ==
    \A a \in live : \A c \in absorbed[a] : LabelCovers(label[a], rlabel[c])

\* Where tainted writes are not allowed, a write that is let through carries
\* nothing untrusted: with references, none of the referenced results, whatever
\* declassification did to the stored labels; without, none that the session had
\* absorbed when the request read its label, however many requests of the agent
\* updated it meanwhile ("Subsequent write tools see this taint", ifc/mod.rs:31).
WritesSeeTaint ==
    \A c \in Call :
        pc[c] \in Admitted /\ tool[c] \in WriteTool /\ Policy[owner[c]] # "Allow"
        => \A d \in IF refs[c] = {} THEN seenAt[c] ELSE refs[c] :
               rlabel[d].integrity = Trusted

\* The process table never loses a running call, however many of the same tool
\* run and whichever of them completes first.
RunningIsListed ==
    \A a \in Agent, t \in Tool :
        Cardinality({c \in InFlight(a) : tool[c] = t}) <= active[a][t]

\* A result filtered while no other result was between filter and drain carries
\* its own findings, and steps its session down only if it was fully redacted.
\* For results that overlap this does not hold (FindingsElevate below).
OwnFindings ==
    \A c \in Call \ overlapped :
        Is(c, "delivered") =>
            /\ outcome[c] # "clean" => rlabel[c].confidentiality = Pii
            /\ down[c] => outcome[c] = "redacted"

\* Whatever results overlap, the findings of each are taken exactly once: by the
\* request itself or by one it overlapped, and elevate the label of the result of
\* that request, unless it is an input request that ends in an error.
FindingsTakenOnce ==
    \A c \in Call :
        pc[c] \in {"absorb", "lower", "lowerWrite", "finish", "delivered", "withheld"}
          /\ outcome[c] # "clean"
        => \E d \in Call :
             /\ takers[c] = {d}
             /\ d = c \/ {c, d} \subseteq overlapped
             /\ rlabel[d].confidentiality = Pii \/ (asked[d] /\ Is(d, "dropped"))

-----------------------------------------------------------------------------
(* Claims of the repository that the code does not keep. *)

\* "Any findings elevate the result's label to Pii first"
\* (docs/content/docs/learn/information-flow-control.md:320).
FindingsElevate ==
    \A c \in Call :
        Is(c, "delivered") /\ outcome[c] # "clean" => rlabel[c].confidentiality = Pii

\* "taint_after >= taint_before" but for declassification (INV-1, ifc/mod.rs:16;
\* PerSessionMonotonicity in formal/PROOF_MAP.md:71): the integrity of a session
\* that exists before and after a step does not go back to Trusted.
IntegrityMonotone ==
    [][\A a \in live \cap live' : label[a].integrity <= (label[a].integrity)']_vars
=============================================================================
