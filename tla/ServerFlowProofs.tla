--------------------------- MODULE ServerFlowProofs ---------------------------
(***************************************************************************)
(* The safety properties of ServerFlow for any flows, tasks, definitions   *)
(* and budgets: how teams are counted, how a loop settles its tasks, what  *)
(* a checkpoint can be trusted for, and what an agent's task has waited    *)
(* for when the agent is launched.                                         *)
(***************************************************************************)
EXTENDS ServerFlow, FunctionTheorems, FiniteSetTheorems, WellFoundedInduction, TLAPS

-----------------------------------------------------------------------------
\* Lists of definitions

\* A set of numbers has a least one.
LEMMA Least ==
    ASSUME NEW S \in SUBSET Nat, S # {}
    PROVE  \E i \in S : \A j \in S : i <= j
<1> DEFINE Less == OpToRel(<, Nat)
<1>1. \A x, y \in Nat : x < y => <<x, y>> \in Less
  BY DEF OpToRel
<1>2. IsWellFoundedOn(Less, Nat)
  BY NatLessThanWellFounded
<1> HIDE DEF Less
<1>3. \E x \in S : \A y \in S : ~ (<<y, x>> \in Less)
  BY <1>2, WFMin, Zenon
<1>4. PICK x \in S : \A y \in S : ~ (<<y, x>> \in Less)
  BY <1>3
<1>5. \A y \in S : ~ (y < x)
  BY <1>1, <1>4, Zenon
<1> QED
  BY <1>5

\* The next task of a batch is one of the batch.
LEMMA LowestIsIn ==
    ASSUME NEW S \in SUBSET Nat, S # {}
    PROVE  Lowest(S) \in S /\ \A j \in S : Lowest(S) <= j
  BY Least DEF Lowest

\* A list with gaps: where the settled tasks of a checkpoint have been.
DefsOK(d) ==
    /\ \E b \in Nat : DOMAIN d \subseteq 1..b
    /\ \A i \in DOMAIN d : d[i] \in Def

\* The positions of a list are numbers, finitely many.
LEMMA DomainOf ==
    ASSUME NEW d, DefsOK(d)
    PROVE  DOMAIN d \in SUBSET Nat /\ IsFiniteSet(DOMAIN d)
<1>1. PICK b \in Nat : DOMAIN d \subseteq 1..b
  BY DEF DefsOK
<1>2. IsFiniteSet(1..b)
  BY FS_Interval
<1> QED
  BY <1>1, <1>2, FS_Subset

\* The ids of a list are task ids, at most one per position.
LEMMA IdsOf ==
    ASSUME NEW d, DefsOK(d)
    PROVE  /\ Ids(d) \subseteq Task
           /\ IsFiniteSet(Ids(d))
           /\ Cardinality(Ids(d)) <= Cardinality(DOMAIN d)
<1> DEFINE f == [i \in DOMAIN d |-> d[i].id]
<1>1. f \in Surjection(DOMAIN d, Ids(d))
  <2>1. f \in [DOMAIN d -> Ids(d)]
    BY DEF Ids
  <2>2. \A t \in Ids(d) : \E i \in DOMAIN d : f[i] = t
    BY DEF Ids
  <2> HIDE DEF f
  <2> QED
    BY <2>1, <2>2, Fun_IsSurj
<1>2. IsFiniteSet(DOMAIN d)
  BY DomainOf
<1>3. Ids(d) \subseteq Task
  BY DEF Ids, DefsOK, Def
<1> HIDE DEF f
<1> QED
  BY <1>1, <1>2, <1>3, FS_Surjection

\* The lists flows begin with.
LEMMA SeqIsOK ==
    ASSUME NEW d \in Seq(Def)
    PROVE  DefsOK(d)
  BY DEF DefsOK

\* Taking the settled tasks out of a list.
LEMMA WithoutIsOK ==
    ASSUME NEW d, NEW s, DefsOK(d)
    PROVE  DefsOK(Without(d, s)) /\ Ids(Without(d, s)) = Ids(d) \ s
  BY DEF DefsOK, Without, Pending, Ids

\* The last position of a list bounds the others.
LEMMA LastOf ==
    ASSUME NEW d, DefsOK(d)
    PROVE  Last(d) \in Nat /\ DOMAIN d \subseteq 1..Last(d)
<1> DEFINE B == {b \in Nat : DOMAIN d \subseteq 1..b}
<1>1. PICK b \in B : \A c \in B : b <= c
  BY Least DEF DefsOK
<1>2. CASE DOMAIN d = {}
  BY <1>2 DEF Last
<1>3. CASE DOMAIN d # {}
  <2>1. b # 0
    BY <1>1, <1>3
  <2>2. b - 1 \in Nat /\ b - 1 \notin B
    BY <1>1, <2>1
  <2>3. b \in DOMAIN d
    BY <1>1, <2>2
  <2>4. \E i \in DOMAIN d : \A j \in DOMAIN d : j <= i
    BY <1>1, <2>3
  <2>5. Last(d) \in DOMAIN d /\ \A j \in DOMAIN d : j <= Last(d)
    BY <1>3, <2>4 DEF Last
  <2> QED
    BY <1>1, <2>5
<1> QED
  BY <1>2, <1>3

\* A planner's tasks are added: no definition goes, none changes its id.
LEMMA ExtendedIsOK ==
    ASSUME NEW d, NEW t \in Task, NEW p \in Seq(Def), DefsOK(d)
    PROVE  /\ DefsOK(Extended(d, t, p))
           /\ DOMAIN d \subseteq DOMAIN Extended(d, t, p)
           /\ \A i \in DOMAIN d : Extended(d, t, p)[i].id = d[i].id
<1> DEFINE n == Last(d)
           new(k) == [p[k] EXCEPT !.deps = IF @ = {} THEN {t} ELSE @]
           all == [i \in DOMAIN d \cup (n+1)..(n+Len(p)) |->
                     IF i \in DOMAIN d THEN d[i] ELSE new(i - n)]
           out == [i \in DOMAIN all |->
                     IF all[i].id \in Sink THEN [all[i] EXCEPT !.deps = @ \cup Ids(p)]
                     ELSE all[i]]
<1>1. Extended(d, t, p) = out
  BY DEF Extended
<1>2. n \in Nat /\ DOMAIN d \subseteq 1..n /\ Len(p) \in Nat
  BY LastOf
<1>3. \A k \in 1..Len(p) : new(k) \in Def
  <2> SUFFICES ASSUME NEW k \in 1..Len(p) PROVE new(k) \in Def
    OBVIOUS
  <2>1. p[k] \in Def
    OBVIOUS
  <2>2. (IF p[k].deps = {} THEN {t} ELSE p[k].deps) \in SUBSET Task
    BY <2>1 DEF Def
  <2> QED
    BY <2>1, <2>2 DEF Def
<1>4. \A i \in DOMAIN all : all[i] \in Def
  <2> SUFFICES ASSUME NEW i \in DOMAIN all PROVE all[i] \in Def
    OBVIOUS
  <2>1. CASE i \in DOMAIN d
    BY <2>1 DEF DefsOK
  <2>2. CASE i \notin DOMAIN d
    <3>1. i - n \in 1..Len(p)
      BY <1>2, <2>2
    <3> HIDE DEF new
    <3> QED
      BY <1>3, <2>2, <3>1
  <2> QED
    BY <2>1, <2>2
<1>5. DOMAIN all \subseteq 1..(n + Len(p)) /\ n + Len(p) \in Nat
  BY <1>2
<1>6. Ids(p) \subseteq Task
  BY IdsOf, SeqIsOK
<1>7. \A i \in DOMAIN d : i \in DOMAIN all /\ all[i] = d[i]
  OBVIOUS
<1> HIDE DEF all, new, n
<1>8. \A i \in DOMAIN all : out[i] \in Def /\ out[i].id = all[i].id
  BY <1>4, <1>6 DEF Def
<1>9. DOMAIN out = DOMAIN all
  OBVIOUS
<1> HIDE DEF out
<1> QED
  BY <1>1, <1>5, <1>7, <1>8, <1>9 DEF DefsOK

\* What the added task q waits for, before the sinks are told of their own
OwnDeps(t, q) == IF q.deps = {} THEN {t} ELSE q.deps

\* In e, the list d with the planner t's tasks p, only d's sinks wait for more
OldKept(d, t, p, e) ==
    \A i \in DOMAIN d :
        /\ i \in DOMAIN e /\ e[i].id = d[i].id /\ e[i].gen = d[i].gen
        /\ e[i].deps = IF d[i].id \in Sink THEN d[i].deps \cup Ids(p) ELSE d[i].deps

\* What is not of d in e is of p
NewAdded(d, t, p, e) ==
    \A i \in DOMAIN e \ DOMAIN d : \E k \in DOMAIN p :
        /\ e[i].id = p[k].id /\ e[i].gen = p[k].gen
        /\ e[i].deps = IF p[k].id \in Sink THEN OwnDeps(t, p[k]) \cup Ids(p)
                       ELSE OwnDeps(t, p[k])

\* What a planner's list becomes, position by position.
LEMMA ExtendedAt ==
    ASSUME NEW d, NEW t \in Task, NEW p \in Seq(Def), DefsOK(d)
    PROVE  /\ OldKept(d, t, p, Extended(d, t, p))
           /\ NewAdded(d, t, p, Extended(d, t, p))
<1> DEFINE n == Last(d)
           new(k) == [p[k] EXCEPT !.deps = IF @ = {} THEN {t} ELSE @]
           own(k) == OwnDeps(t, p[k])
           all == [i \in DOMAIN d \cup (n+1)..(n+Len(p)) |->
                     IF i \in DOMAIN d THEN d[i] ELSE new(i - n)]
           out == [i \in DOMAIN all |->
                     IF all[i].id \in Sink THEN [all[i] EXCEPT !.deps = @ \cup Ids(p)]
                     ELSE all[i]]
<1>1. Extended(d, t, p) = out
  BY DEF Extended
<1>2. n \in Nat /\ DOMAIN d \subseteq 1..n /\ Len(p) \in Nat /\ DOMAIN p = 1..Len(p)
  BY LastOf
<1>3. \A k \in DOMAIN p : /\ new(k) \in Def /\ new(k).id = p[k].id /\ new(k).gen = p[k].gen
                          /\ new(k).deps = own(k)
  <2> SUFFICES ASSUME NEW k \in DOMAIN p
               PROVE  /\ new(k) \in Def /\ new(k).id = p[k].id /\ new(k).gen = p[k].gen
                      /\ new(k).deps = own(k)
    OBVIOUS
  <2>1. p[k] \in Def
    OBVIOUS
  <2>2. own(k) \in SUBSET Task /\ new(k) = [p[k] EXCEPT !.deps = own(k)]
    BY <2>1 DEF Def, OwnDeps
  <2> HIDE DEF new, own
  <2> QED
    BY <2>1, <2>2 DEF Def
<1>4. \A i \in DOMAIN d : i \in DOMAIN all /\ all[i] = d[i] /\ d[i] \in Def
  BY DEF DefsOK
<1>5. \A i \in DOMAIN all \ DOMAIN d : i - n \in DOMAIN p /\ all[i] = new(i - n)
  BY <1>2
<1> HIDE DEF all, new, own, n
<1>6. DOMAIN out = DOMAIN all
  OBVIOUS
<1>7. \A i \in DOMAIN all : all[i] \in Def =>
        /\ out[i].id = all[i].id /\ out[i].gen = all[i].gen
        /\ out[i].deps = IF all[i].id \in Sink THEN all[i].deps \cup Ids(p) ELSE all[i].deps
  BY DEF Def
<1> HIDE DEF out
<1>8. OldKept(d, t, p, out)
  BY <1>4, <1>6, <1>7 DEF OldKept
<1>9. NewAdded(d, t, p, out)
  <2> SUFFICES ASSUME NEW i \in DOMAIN out \ DOMAIN d
               PROVE  \E k \in DOMAIN p :
                        /\ out[i].id = p[k].id /\ out[i].gen = p[k].gen
                        /\ out[i].deps = IF p[k].id \in Sink THEN own(k) \cup Ids(p) ELSE own(k)
    BY DEF NewAdded, own
  <2>1. PICK k \in DOMAIN p : all[i] = new(k)
    BY <1>5, <1>6
  <2>2. /\ all[i] \in Def /\ all[i].id = p[k].id /\ all[i].gen = p[k].gen
        /\ all[i].deps = own(k)
    BY <1>3, <2>1
  <2> QED
    BY <1>6, <1>7, <2>2
<1> QED
  BY <1>1, <1>8, <1>9

\* Of a well-formed list, the tasks that are not settled are one too.
LEMMA WithoutIsWell ==
    ASSUME NEW d, NEW s, Agree(d), OnePlanner(d),
           \A i \in DOMAIN d : d[i].gen /\ d[i].id \notin s => Open(d)
    PROVE  WellFormed(Without(d, s))
<1> DEFINE w == Without(d, s)
<1>1. \A i \in DOMAIN w : i \in DOMAIN d /\ w[i] = d[i] /\ d[i].id \notin s
  BY DEF Without, Pending
<1> HIDE DEF w
<1>2. Ids(w) \subseteq Ids(d)
  BY <1>1 DEF Ids
<1>3. Agree(w) /\ OnePlanner(w)
  BY <1>1 DEF Agree, OnePlanner
<1>4. Open(w)
  BY <1>1, <1>2 DEF Open
<1> QED
  BY <1>3, <1>4 DEF WellFormed, w

\* A planner adds tasks that wait for it, and for which every sink waits.
LEMMA ExtendedIsWell ==
    ASSUME WellFormedFlows, NEW d, DefsOK(d), Agree(d), OnePlanner(d), Open(d),
           NEW l \in DOMAIN d, d[l].gen, d[l].id \in Task, NEW p \in Plans
    PROVE  LET e == Extended(d, d[l].id, p) IN
           /\ Agree(e) /\ OnePlanner(e)
           /\ \A i \in DOMAIN e : e[i].gen => i = l
           /\ \A i \in DOMAIN e :
                \/ e[i].id \in Ids(p)
                \/ /\ i \in DOMAIN d /\ e[i].id = d[i].id
                   /\ e[i].id \in Sink \/ e[i].deps = d[i].deps
<1>t. PICK t \in Task : t = d[l].id
  OBVIOUS
<1> DEFINE e == Extended(d, t, p)
           own(k) == OwnDeps(t, p[k])
<1>0. p \in Seq(Def)
  BY DefsAssumption
<1> HIDE DEF e, own
<1>d. OldKept(d, t, p, e) /\ NewAdded(d, t, p, e)
  BY <1>0, ExtendedAt DEF e
<1>1. \A i \in DOMAIN d :
        /\ i \in DOMAIN e /\ e[i].id = d[i].id /\ e[i].gen = d[i].gen
        /\ e[i].deps = IF d[i].id \in Sink THEN d[i].deps \cup Ids(p) ELSE d[i].deps
  BY <1>d DEF OldKept
<1>2. \A i \in DOMAIN e \ DOMAIN d : \E k \in DOMAIN p :
        /\ e[i].id = p[k].id /\ e[i].gen = p[k].gen
        /\ e[i].deps = IF p[k].id \in Sink THEN own(k) \cup Ids(p) ELSE own(k)
  BY <1>d DEF NewAdded, own
<1>3. \A i, j \in DOMAIN p : ~p[i].gen /\ (p[i].id = p[j].id => own(i) = own(j))
  BY DEF WellFormedFlows, OwnDeps, own
<1>4. \A k \in DOMAIN p : p[k].id \in Ids(p)
  BY DEF Ids
<1>5. Ids(p) \cap Ids(d) \subseteq Sink /\ \A i \in DOMAIN d : d[i].id \in Ids(d)
  BY DEF Open, Ids
<1>6. \A i \in DOMAIN e : e[i].gen => i = l
  <2>1. \A i \in DOMAIN e \ DOMAIN d : ~e[i].gen
    BY <1>2, <1>3
  <2> QED
    BY <1>1, <2>1 DEF OnePlanner
<1>7. ASSUME NEW i \in DOMAIN e, NEW j \in DOMAIN e, e[i].id = e[j].id, e[i].id \notin e[i].deps
      PROVE  e[j].deps \subseteq e[i].deps
  <2>1. CASE e[i].id \in Ids(p)
    <3>1. e[i].id \notin Sink
      <4>1. CASE i \in DOMAIN d
        BY <1>1, <1>7, <2>1, <4>1
      <4>2. CASE i \notin DOMAIN d
        BY <1>2, <1>7, <2>1, <4>2
      <4> QED
        BY <4>1, <4>2
    <3>2. i \notin DOMAIN d /\ j \notin DOMAIN d
      BY <1>1, <1>5, <1>7, <2>1, <3>1
    <3>3. PICK a \in DOMAIN p : e[i].id = p[a].id /\ e[i].deps = own(a)
      BY <1>2, <3>1, <3>2
    <3>4. PICK b \in DOMAIN p : e[j].id = p[b].id /\ e[j].deps = own(b)
      BY <1>2, <1>7, <3>1, <3>2
    <3> QED
      BY <1>3, <1>7, <3>3, <3>4
  <2>2. CASE e[i].id \notin Ids(p)
    <3>1. i \in DOMAIN d /\ j \in DOMAIN d
      BY <1>2, <1>4, <1>7, <2>2
    <3>2. d[i].id = d[j].id /\ d[i].id \notin d[i].deps
      BY <1>1, <1>7, <3>1
    <3>3. d[j].deps \subseteq d[i].deps
      BY <3>1, <3>2 DEF Agree
    <3> QED
      BY <1>1, <3>1, <3>2, <3>3
  <2> QED
    BY <2>1, <2>2
<1>8. Agree(e)
  BY <1>7 DEF Agree
<1>9. OnePlanner(e)
  BY <1>6 DEF OnePlanner
<1>10. \A i \in DOMAIN e :
         \/ e[i].id \in Ids(p)
         \/ /\ i \in DOMAIN d /\ e[i].id = d[i].id
            /\ e[i].id \in Sink \/ e[i].deps = d[i].deps
  BY <1>1, <1>2, <1>4
<1> QED
  BY <1>t, <1>6, <1>8, <1>9, <1>10 DEF e

-----------------------------------------------------------------------------
\* Shape: the types, and what of a flow is empty when

Variables ==
    /\ defs = [f \in Flow |-> defs[f]]
    /\ batch = [f \in Flow |-> batch[f]]
    /\ todo = [f \in Flow |-> todo[f]]
    /\ checkpoint = [f \in Flow |-> checkpoint[f]]
    /\ yaml = [f \in Flow |-> yaml[f]]

\* Of a flow that has not begun there is nothing.
Clean(f) ==
    /\ pc[f] = "none" /\ status[f] = "none" /\ defs[f] = << >>
    /\ completed[f] = {} /\ failed[f] = {}
    /\ batch[f] = {} /\ todo[f] = {} /\ spawned[f] = {}
    /\ \A t \in Task : /\ member[f][t] = "none" /\ agent[f][t] = "none"
                       /\ results[f][t] = "none"
    /\ ~checkpoint[f].kept

ShapeOf(f) ==
    /\ DefsOK(defs[f]) /\ DefsOK(yaml[f]) /\ DefsOK(checkpoint[f].defs)
    /\ checkpoint[f].completed \subseteq Task
    /\ pc[f] \in {"add", "send", "inject"} => todo[f] # {}
    /\ kind[f] = "none" => Clean(f)

Shape == TypeOK /\ Variables /\ \A f \in Flow : ShapeOf(f)

\* The task a stage is at is one of the flow's.
LEMMA CurrentIsTask ==
    ASSUME Shape, NEW f \in Flow, todo[f] # {}
    PROVE  /\ Lowest(todo[f]) \in todo[f] /\ Lowest(todo[f]) \in DOMAIN defs[f]
           /\ Current(f) = defs[f][Lowest(todo[f])].id
           /\ Current(f) \in Task /\ Current(f) \in Ids(defs[f])
<1>1. todo[f] \subseteq DOMAIN defs[f] /\ DefsOK(defs[f])
  BY DEF Shape, TypeOK, ShapeOf
<1>2. todo[f] \in SUBSET Nat
  BY <1>1, DomainOf
<1>3. Lowest(todo[f]) \in todo[f]
  BY <1>2, LowestIsIn
<1>4. defs[f][Lowest(todo[f])] \in Def
  BY <1>1, <1>3 DEF DefsOK
<1> QED
  BY <1>1, <1>3, <1>4 DEF Current, Ids, Def

\* A round begins with a task, whatever max_parallel is.
LEMMA ThrottledIsSome ==
    ASSUME NEW S \in SUBSET Nat, S # {}
    PROVE  Throttled(S) # {} /\ Throttled(S) \subseteq S
<1>1. Lowest(S) \in S /\ {j \in S : j < Lowest(S)} = {}
  <2>1. PICK l \in S : l = Lowest(S) /\ \A j \in S : l <= j
    BY LowestIsIn
  <2>2. \A j \in S : ~(j < l)
    BY <2>1
  <2> QED
    BY <2>1, <2>2
<1>2. Cardinality({j \in S : j < Lowest(S)}) = 0
  BY <1>1, FS_EmptySet
<1>3. MaxParallel \in Nat
  BY ServerFlowAssumption
<1> QED
  BY <1>1, <1>2, <1>3 DEF Throttled

\* What Register and Begin do to the flow g they begin with the list d.
Begun(g, k, d) ==
    /\ kind' \in [Flow -> {"none", "start", "resume", "sub"}]
    /\ origin' \in [Flow -> Flow \cup {NoFlow}]
    /\ caller' \in [Flow -> Task \cup {NoTask}]
    /\ status' \in [Flow -> Statuses]
    /\ pc' \in [Flow -> Stages \cup {"none", "over", "dead"}]
    /\ defs' = [f \in Flow |-> defs'[f]]
    /\ team' \in [Flow -> {"none", "live", "expired", "gone"}]
    /\ depth' \in [Flow -> Nat] /\ budget' \in [Flow -> Nat]
    /\ board' \in [Flow -> SUBSET Task]
    /\ Clean(g)
    /\ kind'[g] = k /\ kind[g] = "none"
    /\ \/ defs'[g] = d /\ pc'[g] = "select"
       \/ defs'[g] = << >> /\ pc'[g] = "over"
    /\ status'[g] # "completed"
    /\ \A f \in Flow \ {g} :
          /\ defs'[f] = defs[f] /\ pc'[f] = pc[f] /\ kind'[f] = kind[f]
          /\ status'[f] = status[f] /\ team'[f] = team[f] /\ budget'[f] = budget[f]
          /\ board'[f] = board[f]
    /\ UNCHANGED <<settled, round, member, total>>

\* A flow begins in good shape.
LEMMA BeginIsOK ==
    ASSUME Shape, NEW g \in Flow, NEW k \in {"start", "resume", "sub"},
           NEW o \in Flow \cup {NoFlow}, NEW c \in Task \cup {NoTask},
           NEW n \in Nat, NEW d, DefsOK(d), NEW b \in SUBSET Task,
           NEW r \in {"running", "failed"},
           Register(g, k, o, c), Begin(g, n, d, b, r)
    PROVE  Begun(g, k, d)
<1>1. BudgetFor(d) \in Nat
  <2>1. Cardinality(DOMAIN d) \in Nat
    BY DomainOf, FS_CardinalityType
  <2> QED
    BY <2>1, ServerFlowAssumption DEF BudgetFor
<1>2. Clean(g)
  BY DEF Register, Shape, ShapeOf
<1>3. /\ kind' \in [Flow -> {"none", "start", "resume", "sub"}]
      /\ origin' \in [Flow -> Flow \cup {NoFlow}]
      /\ caller' \in [Flow -> Task \cup {NoTask}]
      /\ kind'[g] = k /\ kind[g] = "none"
      /\ \A f \in Flow : f # g => kind'[f] = kind[f]
  BY DEF Register, Shape, TypeOK
<1>4. /\ status' \in [Flow -> Statuses] /\ status'[g] # "completed"
      /\ pc' \in [Flow -> Stages \cup {"none", "over", "dead"}]
      /\ \A f \in Flow : f # g => pc'[f] = pc[f] /\ status'[f] = status[f]
  <2>1. \/ status' = [status EXCEPT ![g] = r] /\ pc' = [pc EXCEPT ![g] = "over"]
        \/ status' = [status EXCEPT ![g] = "running"] /\ pc' = [pc EXCEPT ![g] = "select"]
    <3>1. CASE TeamRefused(d)
      BY <3>1, Zenon DEF Begin
    <3>2. CASE ~TeamRefused(d)
      BY <3>2, Zenon DEF Begin
    <3> QED
      BY <3>1, <3>2
  <2>2. status \in [Flow -> Statuses] /\ pc \in [Flow -> Stages \cup {"none", "over", "dead"}]
    BY DEF Shape, TypeOK
  <2>3. {r, "running"} \subseteq Statuses \ {"completed"} /\ "select" \in Stages
    BY DEF Statuses, Stages
  <2>4. /\ status' \in [Flow -> Statuses]
        /\ pc' \in [Flow -> Stages \cup {"none", "over", "dead"}]
    BY <2>1, <2>2, <2>3
  <2>5. /\ status'[g] \in {r, "running"}
        /\ \A f \in Flow : f # g => pc'[f] = pc[f] /\ status'[f] = status[f]
    BY <2>1, <2>2
  <2> QED
    BY <2>3, <2>4, <2>5
<1>5. /\ defs' = [f \in Flow |-> defs'[f]]
      /\ \/ defs'[g] = d /\ pc'[g] = "select"
         \/ defs'[g] = << >> /\ pc'[g] = "over"
      /\ \A f \in Flow : f # g => defs'[f] = defs[f]
  <2>1. defs[g] = << >>
    BY <1>2 DEF Clean
  <2>2. defs = [f \in Flow |-> defs[f]] /\ DOMAIN pc = Flow
    BY DEF Shape, Variables, TypeOK
  <2>3. CASE TeamRefused(d)
    <3>1. defs' = defs /\ pc' = [pc EXCEPT ![g] = "over"]
      BY <2>3, Zenon DEF Begin
    <3> QED
      BY <2>1, <2>2, <3>1
  <2>4. CASE ~TeamRefused(d)
    <3>1. defs' = [defs EXCEPT ![g] = d] /\ pc' = [pc EXCEPT ![g] = "select"]
      BY <2>4, Zenon DEF Begin
    <3> QED
      BY <2>2, <3>1
  <2> QED
    BY <2>3, <2>4
<1>6. /\ team' \in [Flow -> {"none", "live", "expired", "gone"}]
      /\ depth' \in [Flow -> Nat] /\ budget' \in [Flow -> Nat]
      /\ board' \in [Flow -> SUBSET Task]
      /\ \A f \in Flow : f # g => /\ team'[f] = team[f] /\ budget'[f] = budget[f]
                                  /\ board'[f] = board[f]
  <2>1. CASE TeamRefused(d)
    BY <2>1 DEF Begin, Shape, TypeOK
  <2>2. CASE ~TeamRefused(d)
    <3>1. /\ team' = [team EXCEPT ![g] = "live"]
          /\ depth' = [depth EXCEPT ![g] = n]
          /\ budget' = [budget EXCEPT ![g] = BudgetFor(d)]
          /\ board' = [board EXCEPT ![g] = b]
      BY <2>2, Zenon DEF Begin
    <3> QED
      BY <1>1, <3>1 DEF Shape, TypeOK
  <2> QED
    BY <2>1, <2>2
<1>7. UNCHANGED <<settled, round, member, total>>
  BY DEF Begin
<1> QED
  BY <1>2, <1>3, <1>4, <1>5, <1>6, <1>7 DEF Begun

\* Each way to begin a flow does so with a list in good shape.
LEMMA StartsBegin ==
    ASSUME Shape, NEW g \in Flow
    PROVE  /\ \A y \in Yamls : StartFlow(g, y) => Begun(g, "start", y)
           /\ \A f \in Flow : ResumeCheckpoint(f, g) => Begun(g, "resume", checkpoint[f].defs)
           /\ \A f \in Flow : ResumeAudit(f, g) =>
                 \E s : LET d == Without(yaml[f], s) IN DefsOK(d) /\ Begun(g, "resume", d)
           /\ \A f \in Flow, t \in Task, d \in SubDefs :
                 Escalate(f, t, g, d) => Begun(g, "sub", d)
<1>0. \A d \in Yamls \cup SubDefs : DefsOK(d)
  BY SeqIsOK, DefsAssumption
<1>1. ASSUME NEW y \in Yamls, StartFlow(g, y) PROVE Begun(g, "start", y)
  <2>1. Register(g, "start", NoFlow, NoTask) /\ Begin(g, 0, y, {}, "failed")
    BY <1>1 DEF StartFlow
  <2> QED
    BY <1>0, <2>1, BeginIsOK
<1>2. ASSUME NEW f \in Flow, ResumeCheckpoint(f, g)
      PROVE  Begun(g, "resume", checkpoint[f].defs)
  <2>1. /\ Register(g, "resume", f, NoTask)
        /\ Begin(g, 0, checkpoint[f].defs, checkpoint[f].completed, "running")
    BY <1>2 DEF ResumeCheckpoint
  <2>2. DefsOK(checkpoint[f].defs) /\ checkpoint[f].completed \in SUBSET Task
    BY DEF Shape, ShapeOf
  <2> QED
    BY <2>1, <2>2, BeginIsOK
<1>3. ASSUME NEW f \in Flow, ResumeAudit(f, g)
      PROVE  \E s : LET d == Without(yaml[f], s) IN DefsOK(d) /\ Begun(g, "resume", d)
  <2> DEFINE done == {t \in Task : results[f][t] = "done"}
             d == Without(yaml[f], done)
  <2>1. Register(g, "resume", f, NoTask) /\ Begin(g, 0, d, {}, "running")
    BY <1>3 DEF ResumeAudit
  <2>2. DefsOK(d)
    BY WithoutIsOK DEF Shape, ShapeOf
  <2>3. Begun(g, "resume", d)
    <3> HIDE DEF d
    <3> QED
      BY <2>1, <2>2, BeginIsOK
  <2> HIDE DEF done
  <2> QED
    BY <2>2, <2>3
<1>4. ASSUME NEW f \in Flow, NEW t \in Task, NEW d \in SubDefs, Escalate(f, t, g, d)
      PROVE  Begun(g, "sub", d)
  <2>1. Register(g, "sub", f, t) /\ Begin(g, depth[f] + 1, d, {}, "failed")
    BY <1>4 DEF Escalate
  <2>2. depth[f] + 1 \in Nat
    BY DEF Shape, TypeOK
  <2> QED
    BY <1>0, <2>1, <2>2, BeginIsOK
<1> QED
  BY <1>1, <1>2, <1>3, <1>4

-----------------------------------------------------------------------------
\* Teams and their count

Occupied == {p \in Flow \X Task : member[p[1]][p[2]] # "none"}
Row(f) == {p \in Occupied : p[1] = f}
Active == {"waiting", "running", "calling"}

Counts ==
    /\ total = Cardinality(Occupied)
    /\ \A f \in Flow : Cardinality(Members(f)) <= budget[f]

\* An agent at work has its teammate, and so has the loop that is to start one.
AgentsHaveMembers ==
    \A f \in Flow :
        /\ \A t \in Task : agent[f][t] \in Active => member[f][t] # "none"
        /\ pc[f] = "send" /\ Exists(f) => member[f][Current(f)] # "none"

\* A team's members are among those that total_agents counts.
LEMMA RowCount ==
    ASSUME NEW f \in Flow
    PROVE  /\ IsFiniteSet(Occupied) /\ Cardinality(Occupied) \in Nat
           /\ IsFiniteSet(Members(f)) /\ Cardinality(Members(f)) \in Nat
           /\ Row(f) \subseteq Occupied
           /\ Cardinality(Row(f)) = Cardinality(Members(f))
           /\ Cardinality(Members(f)) <= Cardinality(Occupied)
<1>1. IsFiniteSet(Flow \X Task) /\ IsFiniteSet(Task)
  BY FS_Product, ServerFlowAssumption
<1>2. IsFiniteSet(Occupied) /\ IsFiniteSet(Members(f))
  BY <1>1, FS_Subset DEF Occupied, Members
<1>3. Row(f) \subseteq Occupied
  BY DEF Row
<1> DEFINE b == [t \in Members(f) |-> <<f, t>>]
<1>4. b \in Bijection(Members(f), Row(f))
  <2>1. b \in [Members(f) -> Row(f)]
    BY DEF Members, Row, Occupied
  <2>2. \A t, u \in Members(f) : b[t] = b[u] => t = u
    OBVIOUS
  <2>3. \A p \in Row(f) : \E t \in Members(f) : b[t] = p
    <3> SUFFICES ASSUME NEW p \in Row(f) PROVE p[2] \in Members(f) /\ b[p[2]] = p
      OBVIOUS
    <3> QED
      BY DEF Members, Row, Occupied
  <2> HIDE DEF b
  <2>4. b \in Surjection(Members(f), Row(f))
    BY <2>1, <2>3, Fun_IsSurj
  <2> QED
    BY <2>1, <2>2, <2>4, Fun_IsBij
<1> HIDE DEF b
<1>5. Cardinality(Row(f)) = Cardinality(Members(f))
  BY <1>2, <1>4, FS_Bijection DEF ExistsBijection
<1> QED
  BY <1>2, <1>3, <1>5, FS_CardinalityType, FS_Subset

\* What keeps every teammate keeps the counts.
LEMMA KeptCounts ==
    ASSUME Counts, total' = total,
           \A f \in Flow, t \in Task : member'[f][t] = "none" <=> member[f][t] = "none",
           \A f \in Flow : \/ budget'[f] = budget[f]
                           \/ budget'[f] \in Nat /\ \A t \in Task : member[f][t] = "none"
    PROVE  Counts'
<1>1. Occupied' = Occupied /\ \A f \in Flow : Members(f)' = Members(f)
  BY DEF Occupied, Members
<1>2. ASSUME NEW f \in Flow PROVE Cardinality(Members(f)) <= budget'[f]
  <2>1. CASE budget'[f] = budget[f]
    BY <2>1 DEF Counts
  <2>2. CASE budget'[f] \in Nat /\ \A t \in Task : member[f][t] = "none"
    <3>1. Members(f) = {}
      BY <2>2 DEF Members
    <3>2. Cardinality(Members(f)) = 0
      BY <3>1, FS_EmptySet
    <3> QED
      BY <2>2, <3>2
  <2> QED
    BY <2>1, <2>2
<1> QED
  BY <1>1, <1>2 DEF Counts

\* A shutdown takes the team's members, and no others, off the count.
LEMMA ShutDownCounts ==
    ASSUME TypeOK, Counts, NEW f \in Flow, ShutDown(f)
    PROVE  Counts'
<1>1. \A g \in Flow, t \in Task : member'[g][t] = IF g = f THEN "none" ELSE member[g][t]
  BY DEF ShutDown, TypeOK
<1>2. Occupied' = Occupied \ Row(f)
  BY <1>1 DEF Occupied, Row
<1>3. Occupied \cap Row(f) = Row(f)
  BY DEF Row
<1>4. Cardinality(Occupied') = Cardinality(Occupied) - Cardinality(Members(f))
  <2>1. IsFiniteSet(Occupied) /\ Cardinality(Row(f)) = Cardinality(Members(f))
    BY RowCount
  <2>2. Cardinality(Occupied \ Row(f))
          = Cardinality(Occupied) - Cardinality(Occupied \cap Row(f))
    BY <2>1, FS_Difference
  <2> QED
    BY <1>2, <1>3, <2>1, <2>2
<1>5. Members(f)' = {} /\ \A g \in Flow \ {f} : Members(g)' = Members(g)
  BY <1>1 DEF Members
<1>6. budget' = budget /\ total' = total - Cardinality(Members(f))
  BY DEF ShutDown
<1>7. budget[f] \in Nat
  BY DEF TypeOK
<1> QED
  BY <1>4, <1>5, <1>6, <1>7, FS_EmptySet DEF Counts

\* A teammate is added below the budget of its team.
LEMMA AddMemberCounts ==
    ASSUME Shape, Counts, NEW f \in Flow, AddMember(f)
    PROVE  Counts'
<1> DEFINE t == Current(f)
<1>1. t \in Task /\ member[f][t] = "none" /\ total < budget[f]
  BY CurrentIsTask DEF AddMember, MayAdd, Shape, ShapeOf
<1>2. \A g \in Flow, u \in Task :
        member'[g][u] = IF g = f /\ u = t THEN "idle" ELSE member[g][u]
  BY <1>1 DEF AddMember, Shape, TypeOK
<1>3. Occupied' = Occupied \cup {<<f, t>>} /\ <<f, t>> \notin Occupied
  BY <1>1, <1>2 DEF Occupied
<1>4. Cardinality(Occupied') = Cardinality(Occupied) + 1
  BY <1>3, RowCount, FS_AddElement
<1>5. Members(f)' = Members(f) \cup {t} /\ t \notin Members(f)
  BY <1>1, <1>2 DEF Members
<1>6. Cardinality(Members(f)') = Cardinality(Members(f)) + 1
  BY <1>5, RowCount, FS_AddElement
<1>7. \A g \in Flow \ {f} : Members(g)' = Members(g)
  BY <1>2 DEF Members
<1>8. total' = total + 1 /\ budget' = budget /\ budget[f] \in Nat
  BY DEF AddMember, Shape, TypeOK
<1>9. Cardinality(Members(f)) <= total /\ total \in Nat /\ Cardinality(Members(f)) \in Nat
  BY RowCount DEF Counts
<1>10. Cardinality(Members(f)') <= budget[f]
  BY <1>1, <1>6, <1>8, <1>9
<1> HIDE DEF t
<1> QED
  BY <1>4, <1>7, <1>8, <1>10 DEF Counts

\* A flow that begins has no teammates yet, and changes no other's.
LEMMA BeginCounts ==
    ASSUME TypeOK, Counts, AgentsHaveMembers, NEW g \in Flow, NEW k, NEW d, Begun(g, k, d),
           \A f \in Flow, t \in Task : agent'[f][t] \in Active => agent[f][t] \in Active
    PROVE  Counts' /\ AgentsHaveMembers'
<1>1. total' = total /\ member' = member /\ todo' = todo
  BY DEF Begun, round
<1>2. \A f \in Flow \ {g} : budget'[f] = budget[f]
  BY DEF Begun
<1>3. budget'[g] \in Nat /\ \A t \in Task : member[g][t] = "none"
  BY DEF Begun, Clean
<1>4. Counts'
  BY <1>1, <1>2, <1>3, KeptCounts
<1>5. pc'[g] # "send"
  BY DEF Begun
<1>6. \A f \in Flow \ {g} : pc'[f] = pc[f] /\ team'[f] = team[f] /\ Current(f)' = Current(f)
  BY <1>1 DEF Begun, Current
<1>7. AgentsHaveMembers'
  BY <1>1, <1>5, <1>6 DEF AgentsHaveMembers, Exists
<1> QED
  BY <1>4, <1>7

\* The counts, and the teammates of the agents at work, survive every step.
LEMMA TeamsStep ==
    Shape /\ Counts /\ AgentsHaveMembers /\ [Next]_vars => Counts' /\ AgentsHaveMembers'
<1> SUFFICES ASSUME Shape, Counts, AgentsHaveMembers, [Next]_vars
             PROVE  Counts' /\ AgentsHaveMembers'
  OBVIOUS
<1> DEFINE Good == Counts' /\ AgentsHaveMembers'
<1>a. TypeOK
  BY DEF Shape
<1>b. ASSUME member' = member, total' = total, budget' = budget, agent' = agent,
             team' = team,
             \A f \in Flow : pc'[f] = "send" =>
                               /\ pc[f] = "send"
                               /\ defs'[f] = defs[f] /\ todo'[f] = todo[f]
      PROVE  Good
  <2>1. Counts'
    BY <1>b, KeptCounts
  <2>2. AgentsHaveMembers'
    BY <1>b DEF AgentsHaveMembers, Exists, Current
  <2> QED
    BY <2>1, <2>2
<1>c. ASSUME NEW f \in Flow, ShutDown(f), defs' = defs, todo' = todo,
             \A g \in Flow : pc'[g] = "send" => pc[g] = "send"
      PROVE  Good
  <2>1. Counts'
    BY <1>a, <1>c, ShutDownCounts
  <2>2. \A g \in Flow : g # f => /\ member'[g] = member[g] /\ agent'[g] = agent[g]
                                 /\ team'[g] = team[g]
    BY <1>a, <1>c DEF ShutDown, TypeOK
  <2>3. team'[f] = "gone" /\ \A t \in Task : agent'[f][t] \notin Active
    BY <1>a, <1>c DEF ShutDown, TypeOK, Active
  <2>4. AgentsHaveMembers'
    BY <1>c, <2>2, <2>3 DEF AgentsHaveMembers, Exists, Current
  <2> QED
    BY <2>1, <2>4
<1>d. \A f \in Flow : pc[f] = "send" => Current(f) \in Task
  BY CurrentIsTask DEF Shape, ShapeOf
<1>0. CASE UNCHANGED vars
  BY <1>0, <1>b DEF vars, teams, round
<1>1. ASSUME NEW g \in Flow, NEW y \in Yamls, StartFlow(g, y) PROVE Good
  <2>1. agent' = agent
    BY <1>1 DEF StartFlow
  <2> QED
    BY <1>a, <1>1, <2>1, StartsBegin, BeginCounts
<1>2. ASSUME NEW f \in Flow, NEW g \in Flow, ResumeCheckpoint(f, g) PROVE Good
  <2>1. agent' = agent
    BY <1>2 DEF ResumeCheckpoint
  <2> QED
    BY <1>a, <1>2, <2>1, StartsBegin, BeginCounts
<1>3. ASSUME NEW f \in Flow, NEW g \in Flow, ResumeAudit(f, g) PROVE Good
  <2>1. agent' = agent
    BY <1>3 DEF ResumeAudit
  <2>2. PICK d : Begun(g, "resume", d)
    BY <1>3, StartsBegin
  <2> QED
    BY <1>a, <2>1, <2>2, BeginCounts
<1>4. ASSUME NEW f \in Flow, NEW t \in Task, NEW g \in Flow, NEW d \in SubDefs,
             Escalate(f, t, g, d)
      PROVE  Good
  <2>1. \A h \in Flow, u \in Task : agent'[h][u] \in Active => agent[h][u] \in Active
    BY <1>a, <1>4 DEF Escalate, Active, TypeOK
  <2> QED
    BY <1>a, <1>4, <2>1, StartsBegin, BeginCounts
<1>5. ASSUME NEW f \in Flow,
             \/ SelectBatch(f) \/ BatchDone(f) \/ RecordResults(f) \/ SpawnFails(f)
             \/ SaveCheckpoint(f) \/ \E t \in Task : Collect(f, t)
             \/ \E p \in Plans : Inject(f, p)
      PROVE  Good
  <2>1. /\ member' = member /\ total' = total /\ budget' = budget /\ agent' = agent
        /\ team' = team
    BY <1>5 DEF SelectBatch, BatchDone, RecordResults, SpawnFails, SaveCheckpoint,
                Collect, Inject, teams
  <2>2. \A h \in Flow : h # f => /\ pc'[h] = pc[h] /\ defs'[h] = defs[h]
                                 /\ todo'[h] = todo[h]
    BY <1>5, <1>a DEF SelectBatch, BatchDone, RecordResults, SpawnFails, SaveCheckpoint,
                Collect, Inject, NextOr, round, TypeOK, Shape, Variables
  <2>3. pc'[f] = "send" => pc[f] = "send" /\ defs'[f] = defs[f] /\ todo'[f] = todo[f]
    BY <1>5, <1>a DEF SelectBatch, BatchDone, RecordResults, SpawnFails, SaveCheckpoint,
                Collect, Inject, NextOr, round, TypeOK
  <2> QED
    BY <1>b, <2>1, <2>2, <2>3
<1>6. ASSUME NEW f \in Flow, Deadlock(f) \/ Finish(f) \/ PollTimeout(f) PROVE Good
  <2>1. ShutDown(f) /\ defs' = defs /\ todo' = todo
    BY <1>6 DEF Deadlock, Finish, PollTimeout, round
  <2>2. \A g \in Flow : pc'[g] = "send" => pc[g] = "send"
    BY <1>6, <1>a DEF Deadlock, Finish, PollTimeout, TypeOK
  <2> QED
    BY <1>c, <2>1, <2>2
<1>7. ASSUME NEW f \in Flow, AddMember(f) PROVE Good
  <2>1. Counts'
    BY <1>7, AddMemberCounts
  <2>2. Current(f) \in Task
    BY <1>7, CurrentIsTask DEF AddMember, Shape, ShapeOf
  <2>3. \A g \in Flow, u \in Task :
          member'[g][u] = IF g = f /\ u = Current(f) THEN "idle" ELSE member[g][u]
    BY <1>7, <1>a, <2>2 DEF AddMember, TypeOK
  <2>4. \A g \in Flow : Current(g)' = Current(g)
    BY <1>7 DEF AddMember, Current, round
  <2>5. agent' = agent /\ team' = team /\ \A g \in Flow : g # f => pc'[g] = pc[g]
    BY <1>7, <1>a DEF AddMember, TypeOK
  <2>6. AgentsHaveMembers'
    BY <1>d, <2>2, <2>3, <2>4, <2>5 DEF AgentsHaveMembers, Exists
  <2> QED
    BY <2>1, <2>6
<1>8. ASSUME NEW f \in Flow, Launch(f) PROVE Good
  <2>1. Current(f) \in Task
    BY <1>8, CurrentIsTask DEF Launch, Shape, ShapeOf
  <2>2. member[f][Current(f)] # "none"
    BY <1>8 DEF Launch, AgentsHaveMembers, Exists
  <2>3. \A g \in Flow, u \in Task :
          /\ member'[g][u] = IF g = f /\ u = Current(f) THEN "working" ELSE member[g][u]
          /\ agent'[g][u] = IF g = f /\ u = Current(f) THEN "waiting" ELSE agent[g][u]
    BY <1>8, <1>a, <2>1 DEF Launch, TypeOK
  <2>4. total' = total /\ budget' = budget /\ team' = team
    BY <1>8 DEF Launch
  <2>5. Counts'
    BY <2>2, <2>3, <2>4, KeptCounts
  <2>6. pc'[f] # "send" /\ \A g \in Flow : g # f => pc'[g] = pc[g] /\ Current(g)' = Current(g)
    BY <1>8, <1>a DEF Launch, NextOr, Current, TypeOK, Shape, Variables
  <2>7. AgentsHaveMembers'
    BY <1>d, <2>1, <2>2, <2>3, <2>4, <2>6 DEF AgentsHaveMembers, Exists
  <2> QED
    BY <2>5, <2>7
<1>9. ASSUME NEW f \in Flow, Report(f) PROVE Good
  <2>1. /\ member' = member /\ total' = total /\ budget' = budget /\ team' = team
        /\ \A g \in Flow : g # f => pc'[g] = pc[g] /\ Current(g)' = Current(g)
        /\ pc'[f] = "over"
    BY <1>9, <1>a DEF Report, teams, TypeOK, Current, Shape, Variables
  <2>2. \A g \in Flow, u \in Task : agent'[g][u] \in Active => agent[g][u] \in Active
    BY <1>9, <1>a DEF Report, TypeOK, Active
  <2>3. Counts'
    BY <2>1, KeptCounts
  <2>4. AgentsHaveMembers'
    BY <2>1, <2>2 DEF AgentsHaveMembers, Exists
  <2> QED
    BY <2>3, <2>4
<1>10. ASSUME NEW f \in Flow, NEW t \in Task, AgentStep(f, t) PROVE Good
  <2>1. total' = total /\ budget' = budget /\ team' = team /\ pc' = pc
        /\ defs' = defs /\ todo' = todo
    BY <1>10 DEF AgentStep, Acquire, Answer, Deadline, AgentEnds, teams, round
  <2>2. agent[f][t] \in Active
    BY <1>10 DEF AgentStep, Acquire, Answer, Deadline, Active
  <2>3. member[f][t] # "none"
    BY <2>2 DEF AgentsHaveMembers
  <2>4. \A g \in Flow, u \in Task :
          /\ member'[g][u] # member[g][u] => g = f /\ u = t /\ member'[g][u] # "none"
          /\ agent'[g][u] \in Active => agent[g][u] \in Active
    <3>0. /\ \A g \in Flow : DOMAIN agent[g] = Task /\ DOMAIN member[g] = Task
          /\ DOMAIN agent = Flow /\ DOMAIN member = Flow
      BY <1>a DEF TypeOK
    <3>1. CASE Acquire(f, t)
      BY <3>1, <3>0, <2>2 DEF Acquire, teams, Active
    <3>2. ASSUME NEW outcome \in {"done", "failed"}, AgentEnds(f, t, outcome)
          PROVE  \A g \in Flow, u \in Task :
                   /\ member'[g][u] # member[g][u] => g = f /\ u = t /\ member'[g][u] # "none"
                   /\ agent'[g][u] \in Active => agent[g][u] \in Active
      BY <3>2, <3>0, <2>2 DEF AgentEnds, Active
    <3> QED
      BY <1>10, <3>1, <3>2 DEF AgentStep, Answer, Deadline
  <2>5. Counts'
    BY <2>1, <2>3, <2>4, KeptCounts
  <2>6. \A g \in Flow : Current(g)' = Current(g)
    BY <2>1 DEF Current
  <2>7. AgentsHaveMembers'
    BY <1>d, <2>1, <2>3, <2>4, <2>6 DEF AgentsHaveMembers, Exists
  <2> QED
    BY <2>5, <2>7
<1>11. ASSUME NEW f \in Flow, TeamShutdownTool(f) PROVE Good
  <2>1. ShutDown(f) /\ defs' = defs /\ todo' = todo /\ pc' = pc
    BY <1>11 DEF TeamShutdownTool, round
  <2> QED
    BY <1>c, <2>1
<1>12. ASSUME NEW f \in Flow, TeamExpires(f) PROVE Good
  <2>1. /\ member' = member /\ total' = total /\ budget' = budget /\ agent' = agent
        /\ pc' = pc /\ defs' = defs /\ todo' = todo
    BY <1>12 DEF TeamExpires, round
  <2>2. \A g \in Flow : team'[g] \in {"live", "expired"} => team[g] \in {"live", "expired"}
    BY <1>12, <1>a DEF TeamExpires, TypeOK
  <2>3. Counts'
    BY <2>1, KeptCounts
  <2>4. AgentsHaveMembers'
    BY <2>1, <2>2 DEF AgentsHaveMembers, Exists, Current
  <2> QED
    BY <2>3, <2>4
<1>13. CASE Crash
  <2>1. /\ total' = 0 /\ budget' = budget
        /\ \A f \in Flow, t \in Task : member'[f][t] = "none" /\ agent'[f][t] = "none"
        /\ \A f \in Flow : team'[f] = "none" /\ budget[f] \in Nat
    BY <1>13, <1>a DEF Crash, TypeOK
  <2>2. Occupied' = {} /\ \A f \in Flow : Members(f)' = {}
    BY <2>1 DEF Occupied, Members
  <2>3. Counts'
    BY <2>1, <2>2, FS_EmptySet DEF Counts
  <2>4. AgentsHaveMembers'
    BY <2>1 DEF AgentsHaveMembers, Exists, Active
  <2> QED
    BY <2>3, <2>4
<1> QED
  BY <1>0, <1>1, <1>2, <1>3, <1>4, <1>5, <1>6, <1>7, <1>8, <1>9, <1>10, <1>11, <1>12, <1>13
     DEF Next, FlowStep

-----------------------------------------------------------------------------

\* The count is a number after every step too.
LEMMA CountIsNat ==
    ASSUME Counts' PROVE total' \in Nat
<1>1. IsFiniteSet(Flow \X Task)
  BY FS_Product, ServerFlowAssumption
<1>2. IsFiniteSet(Occupied')
  BY <1>1, FS_Subset DEF Occupied
<1> QED
  BY <1>2, FS_CardinalityType DEF Counts

\* A flow that begins gets the right types.
LEMMA BeginShape ==
    ASSUME Shape, NEW g \in Flow, NEW k \in {"start", "resume", "sub"}, NEW d, DefsOK(d),
           Begun(g, k, d),
           agent' \in [Flow -> [Task -> {"none", "waiting", "running", "calling", "over"}]],
           \A f \in Flow : kind[f] = "none" => agent'[f] = agent[f],
           checkpoint' = checkpoint, crashes' = crashes,
           yaml' = [f \in Flow |-> yaml'[f]],
           results' \in [Flow -> [Task -> {"none", "done", "failed"}]],
           meta' \in [Flow -> {"none", "saved"}],
           unaudited' \in [Flow -> SUBSET Task],
           DefsOK(yaml'[g]),
           \A f \in Flow \ {g} : yaml'[f] = yaml[f] /\ results'[f] = results[f]
    PROVE  Shape'
<1>1. DefsOK(<< >>)
  BY DEF DefsOK
<1>2. \A f \in Flow : DefsOK(defs'[f])
  <2>1. DefsOK(defs'[g])
    BY <1>1 DEF Begun
  <2>2. \A f \in Flow \ {g} : defs'[f] = defs[f] /\ DefsOK(defs[f])
    BY DEF Begun, Shape, ShapeOf
  <2> QED
    BY <2>1, <2>2
<1>3. \A f \in Flow : DefsOK(yaml'[f])
  BY DEF Shape, ShapeOf
<1>4. /\ batch' = batch /\ todo' = todo /\ spawned' = spawned /\ member' = member
      /\ total' = total /\ completed' = completed /\ failed' = failed
  BY DEF Begun, settled, round
<1>5. \A f \in Flow : todo'[f] \subseteq batch'[f] /\ batch'[f] \subseteq DOMAIN defs'[f]
  <2> SUFFICES ASSUME NEW f \in Flow
               PROVE  todo'[f] \subseteq batch'[f] /\ batch'[f] \subseteq DOMAIN defs'[f]
    OBVIOUS
  <2>1. todo[f] \subseteq batch[f] /\ batch[f] \subseteq DOMAIN defs[f]
    BY DEF Shape, TypeOK
  <2>2. CASE f = g
    <3>1. kind[g] = "none"
      BY DEF Begun
    <3>2. batch[g] = {}
      BY <3>1 DEF Shape, ShapeOf, Clean
    <3> QED
      BY <1>4, <2>1, <2>2, <3>2
  <2>3. CASE f # g
    <3>1. defs'[f] = defs[f]
      BY <2>3 DEF Begun
    <3> QED
      BY <1>4, <2>1, <3>1
  <2> QED
    BY <2>2, <2>3
<1>6. \A f \in Flow : \A i \in DOMAIN defs'[f] : i \in Nat /\ defs'[f][i] \in Def
  BY <1>2 DEF DefsOK
<1>a. /\ kind' \in [Flow -> {"none", "start", "resume", "sub"}]
      /\ origin' \in [Flow -> Flow \cup {NoFlow}]
      /\ caller' \in [Flow -> Task \cup {NoTask}]
      /\ status' \in [Flow -> Statuses]
      /\ pc' \in [Flow -> Stages \cup {"none", "over", "dead"}]
      /\ team' \in [Flow -> {"none", "live", "expired", "gone"}]
      /\ depth' \in [Flow -> Nat] /\ budget' \in [Flow -> Nat]
      /\ board' \in [Flow -> SUBSET Task]
  BY DEF Begun
<1>b. /\ completed' \in [Flow -> SUBSET Task] /\ failed' \in [Flow -> SUBSET Task]
      /\ spawned' \in [Flow -> SUBSET Task] /\ total' \in Nat
      /\ member' \in [Flow -> [Task -> {"none", "idle", "working", "done", "failed"}]]
      /\ crashes' \in 0..MaxCrashes
  BY <1>4 DEF Shape, TypeOK
<1>7. TypeOK'
  BY <1>5, <1>6, <1>a, <1>b DEF TypeOK
<1>8. Variables'
  BY <1>4 DEF Begun, Shape, Variables
<1>9. ASSUME NEW f \in Flow PROVE ShapeOf(f)'
  <2>1. CASE f = g
    <3>1. pc'[g] \notin {"add", "send", "inject"} /\ kind'[g] # "none"
      BY DEF Begun
    <3> QED
      BY <1>2, <1>3, <2>1, <3>1 DEF Shape, ShapeOf
  <2>2. CASE f # g
    <3>1. /\ defs'[f] = defs[f] /\ pc'[f] = pc[f] /\ kind'[f] = kind[f]
          /\ status'[f] = status[f] /\ results'[f] = results[f]
      BY <2>2 DEF Begun
    <3>2. kind[f] = "none" => Clean(f)'
      BY <1>4, <3>1 DEF Shape, ShapeOf, Clean
    <3> QED
      BY <1>2, <1>3, <1>4, <3>1, <3>2 DEF Shape, ShapeOf
  <2> QED
    BY <2>1, <2>2
<1> QED
  BY <1>7, <1>8, <1>9 DEF Shape

\* A step of a flow that has begun leaves the shape of every other flow alone.
LEMMA LocalShape ==
    ASSUME Shape, NEW f \in Flow, TypeOK', Variables', kind' = kind,
           kind[f] = "none" => Clean(f)',
           DefsOK(defs'[f]), yaml' = yaml,
           \A g \in Flow : checkpoint'[g] = checkpoint[g] \/
                           (DefsOK(checkpoint'[g].defs) /\ checkpoint'[g].completed \subseteq Task
                              /\ (g # f => ~checkpoint'[g].kept)),
           pc'[f] \in {"add", "send", "inject"} => todo'[f] # {},
           \A g \in Flow \ {f} :
               /\ pc'[g] = pc[g] /\ status'[g] = status[g] /\ defs'[g] = defs[g]
               /\ completed'[g] = completed[g] /\ failed'[g] = failed[g]
               /\ batch'[g] = batch[g] /\ todo'[g] = todo[g] /\ spawned'[g] = spawned[g]
               /\ member'[g] = member[g] /\ results'[g] = results[g]
               /\ kind[g] = "none" => agent'[g] = agent[g]
    PROVE  Shape'
<1>2. ShapeOf(f)'
  BY DEF Shape, ShapeOf
<1>3. ASSUME NEW g \in Flow \ {f} PROVE ShapeOf(g)'
  <2>1. /\ DefsOK(checkpoint'[g].defs) /\ checkpoint'[g].completed \subseteq Task
        /\ ~checkpoint[g].kept => ~checkpoint'[g].kept
    BY DEF Shape, ShapeOf
  <2>2. kind[g] = "none" => Clean(g)'
    BY <2>1 DEF Shape, ShapeOf, Clean
  <2> QED
    BY <2>1, <2>2 DEF Shape, ShapeOf
<1> QED
  BY <1>2, <1>3 DEF Shape

\* A step that tells one flow's loop on keeps its type.
LEMMA LoopShape ==
    ASSUME Shape, NEW f \in Flow, Counts',
           \/ SelectBatch(f) \/ AddMember(f) \/ SpawnFails(f) \/ Launch(f)
           \/ \E t \in Task : Collect(f, t)
           \/ BatchDone(f) \/ RecordResults(f) \/ SaveCheckpoint(f)
           \/ \E p \in Plans : Inject(f, p)
    PROVE  Shape'
<1>1. TypeOK /\ Variables /\ ShapeOf(f)
  BY DEF Shape
<1>2. pc[f] # "none" /\ kind' = kind /\ yaml' = yaml
  BY DEF SelectBatch, AddMember, SpawnFails, Launch, Collect, BatchDone, RecordResults,
         SaveCheckpoint, Inject, registry, disk
<1>3. kind[f] # "none"
  BY <1>1, <1>2 DEF ShapeOf, Clean
<1>4. CASE SelectBatch(f)
  <2>1. Ready(f) \in SUBSET Nat /\ Ready(f) \subseteq DOMAIN defs[f] /\ Ready(f) # {}
    BY <1>1, <1>4, DomainOf DEF SelectBatch, Ready, Pending, ShapeOf
  <2>2. Throttled(Ready(f)) # {} /\ Throttled(Ready(f)) \subseteq DOMAIN defs[f]
    BY <2>1, ThrottledIsSome
  <2> DEFINE T == Throttled(Ready(f))
  <2> HIDE DEF T
  <2>3. /\ batch' = [batch EXCEPT ![f] = T] /\ todo' = [todo EXCEPT ![f] = T]
        /\ spawned' = [spawned EXCEPT ![f] = {}] /\ pc' = [pc EXCEPT ![f] = "add"]
        /\ UNCHANGED <<registry, defs, settled, teams, agent, disk, crashes>>
    BY <1>4 DEF SelectBatch, T
  <2>4. \A g \in Flow : todo'[g] \subseteq batch'[g] /\ batch'[g] \subseteq DOMAIN defs'[g]
    BY <1>1, <2>2, <2>3 DEF TypeOK, Variables, T
  <2>5. TypeOK' /\ Variables'
    BY <1>1, <2>3, <2>4 DEF TypeOK, Variables, registry, settled, teams, disk, Stages
  <2>6. todo'[f] # {}
    BY <1>1, <2>2, <2>3 DEF Variables, T
  <2> QED
    BY <1>1, <1>2, <1>3, <2>3, <2>5, <2>6, LocalShape
       DEF TypeOK, Variables, registry, settled, teams, disk, ShapeOf
<1>5. CASE AddMember(f)
  <2>1. Current(f) \in Task
    BY <1>5, CurrentIsTask DEF AddMember, Shape, ShapeOf
  <2>2. TypeOK' /\ Variables'
    BY <1>1, <1>5, <2>1, CountIsNat DEF AddMember, TypeOK, Variables, registry, settled, round, disk, Stages
  <2> QED
    BY <1>1, <1>2, <1>3, <1>5, <2>2, LocalShape
       DEF AddMember, TypeOK, registry, settled, round, disk, ShapeOf
<1>n. ASSUME NEW again, NEW stage, {again, stage} \subseteq Stages, NextOr(f, again, stage)
      PROVE  /\ pc' \in [Flow -> Stages \cup {"none", "over", "dead"}]
             /\ todo' = [g \in Flow |-> todo'[g]] /\ batch' = batch
             /\ \A g \in Flow : todo'[g] \subseteq todo[g]
             /\ pc'[f] \in {again, stage}
             /\ pc'[f] # stage => todo'[f] # {}
             /\ \A g \in Flow : g # f => pc'[g] = pc[g] /\ todo'[g] = todo[g]
  <2> DEFINE rest == todo[f] \ {Lowest(todo[f])}
             new == IF rest = {} THEN stage ELSE again
  <2>1. new \in Stages /\ (new # stage => rest # {}) /\ new \in {again, stage}
    BY <1>n
  <2>2. todo' = [todo EXCEPT ![f] = rest] /\ pc' = [pc EXCEPT ![f] = new] /\ batch' = batch
    BY <1>n DEF NextOr
  <2>3. rest \subseteq todo[f]
    OBVIOUS
  <2> HIDE DEF rest, new
  <2> QED
    BY <1>1, <2>1, <2>2, <2>3 DEF TypeOK, Variables
<1>6. CASE SpawnFails(f)
  <2>1. Current(f) \in Task
    BY <1>6, CurrentIsTask DEF SpawnFails, Shape, ShapeOf
  <2>2. NextOr(f, "add", "poll") /\ {"add", "poll"} \subseteq Stages
    BY <1>6 DEF SpawnFails, Stages
  <2>3. TypeOK' /\ Variables'
    BY <1>1, <1>6, <1>n, <2>1, <2>2 DEF SpawnFails, TypeOK, Variables, registry, teams, disk
  <2>4. /\ UNCHANGED <<registry, defs, completed, spawned, teams, agent, disk>>
        /\ \A g \in Flow : g # f => failed'[g] = failed[g]
    BY <1>1, <1>6 DEF SpawnFails, TypeOK
  <2>5. /\ pc'[f] \in {"add", "send", "inject"} => todo'[f] # {}
        /\ \A g \in Flow : g # f => pc'[g] = pc[g] /\ todo'[g] = todo[g]
        /\ batch' = batch
    BY <1>n, <2>2
  <2> QED
    BY <1>1, <1>2, <1>3, <2>3, <2>4, <2>5, LocalShape DEF registry, teams, disk, ShapeOf
<1>7. CASE Launch(f)
  <2>1. Current(f) \in Task
    BY <1>7, CurrentIsTask DEF Launch, Shape, ShapeOf
  <2>2. NextOr(f, "add", "poll") /\ {"add", "poll"} \subseteq Stages
    BY <1>7 DEF Launch, Stages
  <2>3. TypeOK' /\ Variables'
    <3>1. \/ results' = results
          \/ results' = [results EXCEPT ![f][Current(f)] = "none"]
      BY <1>7 DEF Launch
    <3>2. results' \in [Flow -> [Task -> {"none", "done", "failed"}]]
      <4>1. results \in [Flow -> [Task -> {"none", "done", "failed"}]]
        BY <1>1 DEF TypeOK
      <4> QED
        BY <2>1, <3>1, <4>1
    <3>3. /\ member' = [member EXCEPT ![f][Current(f)] = "working"]
          /\ agent' = [agent EXCEPT ![f][Current(f)] = "waiting"]
          /\ spawned' = [spawned EXCEPT ![f] = spawned[f] \cup {Current(f)}]
          /\ UNCHANGED <<registry, defs, settled, team, depth, budget, board, total,
                         checkpoint, yaml, meta, unaudited, crashes>>
      BY <1>7 DEF Launch
    <3> QED
      BY <1>1, <1>n, <2>1, <2>2, <3>2, <3>3 DEF TypeOK, Variables, registry, settled
  <2>4. /\ UNCHANGED <<registry, defs, settled, checkpoint>>
        /\ \A g \in Flow : g # f => /\ member'[g] = member[g] /\ agent'[g] = agent[g]
                                    /\ results'[g] = results[g]
                                    /\ spawned'[g] = spawned[g]
    BY <1>1, <1>7 DEF Launch, TypeOK
  <2>5. /\ pc'[f] \in {"add", "send", "inject"} => todo'[f] # {}
        /\ \A g \in Flow : g # f => pc'[g] = pc[g] /\ todo'[g] = todo[g]
        /\ batch' = batch
    BY <1>n, <2>2
  <2> QED
    BY <1>1, <1>2, <1>3, <2>3, <2>4, <2>5, LocalShape DEF registry, settled, ShapeOf
<1>8. ASSUME NEW t \in Task, Collect(f, t) PROVE Shape'
  <2>0. /\ completed' \in [Flow -> SUBSET Task] /\ failed' \in [Flow -> SUBSET Task]
        /\ UNCHANGED <<registry, pc, defs, round, teams, agent, disk, crashes>>
    <3>1. \/ completed' = [completed EXCEPT ![f] = completed[f] \cup {t}] /\ failed' = failed
          \/ failed' = [failed EXCEPT ![f] = failed[f] \cup {t}] /\ completed' = completed
      BY <1>8 DEF Collect
    <3>2. /\ completed \in [Flow -> SUBSET Task] /\ failed \in [Flow -> SUBSET Task]
          /\ completed[f] \cup {t} \in SUBSET Task /\ failed[f] \cup {t} \in SUBSET Task
      BY <1>1 DEF TypeOK
    <3>3. UNCHANGED <<registry, pc, defs, round, teams, agent, disk, crashes>>
      BY <1>8 DEF Collect
    <3> QED
      BY <3>1, <3>2, <3>3
  <2>1. TypeOK' /\ Variables'
    <3>1. UNCHANGED <<kind, origin, caller, status, batch, todo, spawned, checkpoint,
                      results, yaml, meta, unaudited>>
      BY <2>0 DEF registry, round, disk
    <3>2. UNCHANGED <<team, depth, budget, member, board, total, pc, defs, agent, crashes>>
      BY <2>0 DEF teams
    <3>3. TypeOK'
      BY <1>1, <2>0, <3>1, <3>2 DEF TypeOK
    <3>4. Variables'
      BY <1>1, <3>1, <3>2 DEF Variables
    <3> QED
      BY <3>3, <3>4
  <2>2. \A g \in Flow : g # f => completed'[g] = completed[g] /\ failed'[g] = failed[g]
    BY <1>1, <1>8 DEF Collect, TypeOK
  <2> QED
    BY <1>1, <1>2, <1>3, <1>8, <2>1, <2>2, LocalShape
       DEF Collect, registry, round, teams, disk, ShapeOf
<1>9. CASE BatchDone(f)
  <2>1. TypeOK' /\ Variables'
    BY <1>1, <1>9 DEF BatchDone, TypeOK, Variables, registry, round, teams, disk, settled, Stages
  <2>2. UNCHANGED <<defs, settled, round, member, agent, checkpoint, results, status>>
    BY <1>9 DEF BatchDone, registry, teams, disk
  <2>3. pc'[f] = "record" /\ \A g \in Flow : g # f => pc'[g] = pc[g]
    BY <1>1, <1>9 DEF BatchDone, TypeOK
  <2>4. DefsOK(defs'[f])
    BY <1>1, <2>2 DEF ShapeOf
  <2> QED
    BY <1>2, <1>3, <2>1, <2>2, <2>3, <2>4, LocalShape DEF round, settled
<1>10. CASE RecordResults(f)
  <2>0. PICK refused \in SUBSET spawned[f] :
          /\ results' = [results EXCEPT ![f] =
               [t \in Task |-> IF t \in spawned[f] \ refused THEN Outcome(f, t)
                                                          ELSE results[f][t]]]
          /\ unaudited' = [unaudited EXCEPT ![f] = (unaudited[f] \ spawned[f]) \cup refused]
    BY <1>10 DEF RecordResults, Refusals
  <2> DEFINE R == [t \in Task |-> IF t \in spawned[f] \ refused THEN Outcome(f, t)
                                                           ELSE results[f][t]]
  <2>1. R \in [Task -> {"none", "done", "failed"}]
    BY <1>1 DEF Outcome, TypeOK
  <2>2. results' = [results EXCEPT ![f] = R]
    BY <2>0
  <2> HIDE DEF R
  <2>3. /\ results' \in [Flow -> [Task -> {"none", "done", "failed"}]]
        /\ unaudited' \in [Flow -> SUBSET Task]
    BY <1>1, <2>0, <2>1, <2>2 DEF TypeOK
  <2>4. pc' = [pc EXCEPT ![f] = "select"] \/ pc' = [pc EXCEPT ![f] = "save"]
    BY <1>10, Zenon DEF RecordResults
  <2>5. TypeOK' /\ Variables'
    BY <1>1, <1>10, <2>3, <2>4 DEF RecordResults, TypeOK, Variables, registry, round, teams,
                                   settled, Stages
  <2>6. UNCHANGED <<defs, settled, round, member, agent, checkpoint, status>>
    BY <1>10 DEF RecordResults, registry, teams
  <2>7. /\ pc'[f] \in {"select", "save"}
        /\ \A g \in Flow : g # f => pc'[g] = pc[g] /\ results'[g] = results[g]
    BY <1>1, <2>2, <2>4 DEF TypeOK
  <2>8. DefsOK(defs'[f])
    BY <1>1, <2>6 DEF ShapeOf
  <2> QED
    BY <1>2, <1>3, <2>5, <2>6, <2>7, <2>8, LocalShape DEF round, settled
<1>11. CASE SaveCheckpoint(f)
  <2> DEFINE planners == {i \in batch[f] : defs[f][i].gen}
             cp == [completed |-> completed[f], failed |-> failed[f],
                    defs |-> Without(defs[f], Settled(f)), kept |-> TRUE]
             b == IF Exists(f) THEN board[f] \cup (spawned[f] \cap completed[f]) ELSE board[f]
  <2>1. /\ todo' = [todo EXCEPT ![f] = planners]
        /\ checkpoint' = [checkpoint EXCEPT ![f] = cp] \/ checkpoint' = checkpoint
        /\ board' = [board EXCEPT ![f] = b]
    BY <1>11 DEF SaveCheckpoint
  <2>2. \/ pc' = [pc EXCEPT ![f] = "select"]
        \/ pc' = [pc EXCEPT ![f] = "inject"] /\ planners # {}
    <3>1. pc' = [pc EXCEPT ![f] = IF planners = {} THEN "select" ELSE "inject"]
      BY <1>11 DEF SaveCheckpoint
    <3> HIDE DEF planners
    <3> QED
      BY <3>1, Zenon
  <2>3. planners \subseteq batch[f] /\ b \in SUBSET Task
    BY <1>1 DEF TypeOK
  <2>4. DefsOK(cp.defs) /\ cp.completed \subseteq Task
    BY <1>1, WithoutIsOK DEF TypeOK, ShapeOf
  <2> HIDE DEF planners, cp, b
  <2>p. /\ pc' \in [Flow -> Stages \cup {"none", "over", "dead"}]
        /\ board' \in [Flow -> SUBSET Task]
        /\ todo' = [g \in Flow |-> todo'[g]]
        /\ checkpoint' = [g \in Flow |-> checkpoint'[g]]
        /\ \A g \in Flow : todo'[g] \subseteq batch[g]
    <3>1. pc \in [Flow -> Stages \cup {"none", "over", "dead"}] /\ {"select", "inject"} \subseteq Stages
      BY <1>1 DEF TypeOK, Stages
    <3>2. pc' \in [Flow -> Stages \cup {"none", "over", "dead"}]
      BY <2>2, <3>1
    <3>3. board' \in [Flow -> SUBSET Task]
      <4>1. board \in [Flow -> SUBSET Task]
        BY <1>1 DEF TypeOK
      <4> QED
        BY <2>1, <2>3, <4>1
    <3>4. todo = [g \in Flow |-> todo[g]] /\ checkpoint = [g \in Flow |-> checkpoint[g]]
      BY <1>1 DEF Variables
    <3>5. todo' = [g \in Flow |-> todo'[g]]
      BY <2>1, <3>4
    <3>6. checkpoint' = [g \in Flow |-> checkpoint'[g]]
      BY <2>1, <3>4
    <3>7. \A g \in Flow : todo[g] \subseteq batch[g]
      BY <1>1 DEF TypeOK
    <3>8. \A g \in Flow : todo'[g] = IF g = f THEN planners ELSE todo[g]
      BY <2>1, <3>4
    <3>9. \A g \in Flow : todo'[g] \subseteq batch[g]
      BY <2>3, <3>7, <3>8
    <3> QED
      BY <3>2, <3>3, <3>5, <3>6, <3>9
  <2>q. UNCHANGED <<registry, defs, settled, batch, spawned, team, depth, budget,
                    member, total, agent, results, yaml, meta, unaudited, crashes>>
    BY <1>11 DEF SaveCheckpoint
  <2>5. TypeOK' /\ Variables'
    BY <1>1, <2>p, <2>q DEF TypeOK, Variables, registry, settled
  <2>6. \A g \in Flow : checkpoint'[g] = checkpoint[g] \/ (g = f /\ checkpoint'[g] = cp)
    BY <1>1, <2>1 DEF Variables
  <2>7. /\ pc'[f] \in {"add", "send", "inject"} => todo'[f] # {}
        /\ \A g \in Flow : g # f => pc'[g] = pc[g] /\ todo'[g] = todo[g]
    BY <1>1, <2>1, <2>2 DEF TypeOK, Variables
  <2>8. /\ UNCHANGED <<registry, defs, settled, batch, spawned, member, agent, results>>
        /\ DefsOK(defs[f])
    BY <1>1, <1>11 DEF SaveCheckpoint, ShapeOf
  <2> QED
    BY <1>2, <1>3, <2>4, <2>5, <2>6, <2>7, <2>8, LocalShape DEF registry, settled
<1>12. ASSUME NEW p \in Plans, Inject(f, p) PROVE Shape'
  <2>1. Current(f) \in Task /\ p \in Seq(Def) /\ DefsOK(defs[f])
    BY <1>1, <1>12, CurrentIsTask, DefsAssumption DEF Inject, ShapeOf
  <2> DEFINE e == Extended(defs[f], Current(f), p)
  <2>2. DefsOK(e) /\ DOMAIN defs[f] \subseteq DOMAIN e
    BY <2>1, ExtendedIsOK
  <2> HIDE DEF e
  <2>3. defs' = [defs EXCEPT ![f] = e] \/ defs' = defs
    BY <1>12, Zenon DEF Inject, e
  <2>4. NextOr(f, "inject", "select") /\ {"inject", "select"} \subseteq Stages
    BY <1>12 DEF Inject, Stages
  <2>5. /\ DefsOK(defs'[f]) /\ DOMAIN defs[f] \subseteq DOMAIN defs'[f]
        /\ \A g \in Flow : g # f => defs'[g] = defs[g]
        /\ defs' = [g \in Flow |-> defs'[g]]
    BY <1>1, <2>1, <2>2, <2>3 DEF Variables
  <2>6. \A g \in Flow : \A i \in DOMAIN defs'[g] : i \in Nat /\ defs'[g][i] \in Def
    <3>1. \A i \in DOMAIN defs'[f] : i \in Nat /\ defs'[f][i] \in Def
      BY <2>5, DomainOf DEF DefsOK
    <3> QED
      BY <1>1, <2>5, <3>1 DEF TypeOK
  <2>7. \A g \in Flow : todo'[g] \subseteq batch'[g] /\ batch'[g] \subseteq DOMAIN defs'[g]
    <3>1. batch' = batch /\ \A g \in Flow : todo'[g] \subseteq todo[g]
      BY <1>n, <2>4
    <3>2. \A g \in Flow : DOMAIN defs[g] \subseteq DOMAIN defs'[g]
      BY <2>5
    <3> QED
      BY <1>1, <3>1, <3>2 DEF TypeOK
  <2>8. TypeOK' /\ Variables'
    <3>1. UNCHANGED <<registry, settled, spawned, teams, agent, disk, crashes>>
      BY <1>12 DEF Inject
    <3>2. /\ pc' \in [Flow -> Stages \cup {"none", "over", "dead"}]
          /\ todo' = [g \in Flow |-> todo'[g]] /\ batch' = batch
      BY <1>n, <2>4
    <3>3. TypeOK'
      BY <1>1, <2>6, <2>7, <3>1, <3>2 DEF TypeOK, registry, settled, teams, disk
    <3>4. Variables'
      BY <1>1, <2>5, <3>1, <3>2 DEF Variables, disk
    <3> QED
      BY <3>3, <3>4
  <2> QED
    BY <1>1, <1>2, <1>3, <1>12, <1>n, <2>4, <2>5, <2>8, LocalShape
       DEF Inject, registry, settled, teams, disk, ShapeOf
<1> QED
  BY <1>4, <1>5, <1>6, <1>7, <1>8, <1>9, <1>10, <1>11, <1>12

\* A team that is shut down, or whose agents move on, keeps its type.
LEMMA TeamShape ==
    ASSUME Shape, NEW f \in Flow, Counts',
           \/ Deadlock(f) \/ Finish(f) \/ PollTimeout(f) \/ TeamShutdownTool(f)
           \/ TeamExpires(f) \/ \E t \in Task : AgentStep(f, t)
    PROVE  Shape'
<1>1. TypeOK /\ Variables /\ ShapeOf(f)
  BY DEF Shape
<1>2. NoCheckpoint.completed \subseteq Task /\ DefsOK(NoCheckpoint.defs) /\ ~NoCheckpoint.kept
  BY DEF NoCheckpoint, DefsOK
<1>3. ASSUME ShutDown(f), UNCHANGED <<kind, origin, caller, defs, settled, round, results, yaml,
                                      meta, unaudited, crashes>>,
             \/ status' = status
             \/ status' = [status EXCEPT ![f] = "failed"]
             \/ status' = [status EXCEPT ![f] = "completed"],
             pc' = pc \/ pc' = [pc EXCEPT ![f] = "report"],
             checkpoint' = checkpoint \/ checkpoint' = [checkpoint EXCEPT ![f] = NoCheckpoint],
             kind[f] = "none" => pc' = pc /\ status' = status
      PROVE  Shape'
  <2>1. /\ team' \in [Flow -> {"none", "live", "expired", "gone"}]
        /\ member' \in [Flow -> [Task -> {"none", "idle", "working", "done", "failed"}]]
        /\ board' \in [Flow -> SUBSET Task] /\ depth' = depth /\ budget' = budget
    BY <1>1, <1>3 DEF ShutDown, TypeOK
  <2>2. agent' \in [Flow -> [Task -> {"none", "waiting", "running", "calling", "over"}]]
    <3> DEFINE a == [t \in Task |-> IF agent[f][t] = "none" THEN "none" ELSE "over"]
    <3>1. a \in [Task -> {"none", "waiting", "running", "calling", "over"}]
      OBVIOUS
    <3>2. agent' = [agent EXCEPT ![f] = a]
      BY <1>3 DEF ShutDown
    <3> HIDE DEF a
    <3> QED
      BY <1>1, <3>1, <3>2 DEF TypeOK
  <2>3. /\ status' \in [Flow -> Statuses] /\ pc' \in [Flow -> Stages \cup {"none", "over", "dead"}]
        /\ checkpoint' = [g \in Flow |-> checkpoint'[g]]
    <3>1. status' \in [Flow -> Statuses]
      BY <1>1, <1>3 DEF TypeOK, Statuses
    <3>2. pc' \in [Flow -> Stages \cup {"none", "over", "dead"}]
      BY <1>1, <1>3 DEF TypeOK, Stages
    <3>3. checkpoint' = [g \in Flow |-> checkpoint'[g]]
      BY <1>1, <1>3 DEF Variables
    <3> QED
      BY <3>1, <3>2, <3>3
  <2>4. TypeOK'
    BY <1>1, <1>3, <2>1, <2>2, <2>3, CountIsNat DEF TypeOK, settled, round
  <2>5. Variables'
    BY <1>1, <1>3, <2>3 DEF Variables, round
  <2>6. \A g \in Flow : g # f => /\ pc'[g] = pc[g] /\ status'[g] = status[g]
                                 /\ member'[g] = member[g] /\ agent'[g] = agent[g]
                                 /\ checkpoint'[g] = checkpoint[g]
    BY <1>1, <1>3 DEF ShutDown, TypeOK, Variables
  <2>7. checkpoint'[f] = checkpoint[f] \/ checkpoint'[f] = NoCheckpoint
    BY <1>1, <1>3 DEF Variables
  <2>8. pc'[f] \in {"add", "send", "inject"} => pc[f] \in {"add", "send", "inject"}
    BY <1>1, <1>3 DEF TypeOK
  <2>9. ASSUME kind[f] = "none" PROVE Clean(f)'
    <3>1. Clean(f) /\ pc' = pc /\ status' = status
      BY <1>1, <1>3, <2>9 DEF ShapeOf
    <3>2. \A t \in Task : member'[f][t] = "none" /\ agent'[f][t] = "none"
      BY <1>1, <1>3, <3>1 DEF ShutDown, TypeOK, Clean
    <3> QED
      BY <1>2, <1>3, <2>7, <3>1, <3>2 DEF Clean, settled, round
  <2> QED
    BY <1>1, <1>2, <1>3, <2>4, <2>5, <2>6, <2>7, <2>8, <2>9, LocalShape
       DEF settled, round, ShapeOf
<1>4. CASE Deadlock(f)
  <2>1. kind[f] # "none"
    BY <1>1, <1>4 DEF Deadlock, ShapeOf, Clean
  <2> QED
    BY <1>3, <1>4, <2>1 DEF Deadlock, disk
<1>5. CASE Finish(f)
  <2>1. kind[f] # "none"
    BY <1>1, <1>5 DEF Finish, ShapeOf, Clean
  <2> QED
    BY <1>3, <1>5, <2>1 DEF Finish
<1>6. CASE PollTimeout(f)
  <2>1. kind[f] # "none"
    BY <1>1, <1>6 DEF PollTimeout, ShapeOf, Clean
  <2> QED
    BY <1>3, <1>6, <2>1 DEF PollTimeout, disk
<1>7. CASE TeamShutdownTool(f)
  BY <1>3, <1>7 DEF TeamShutdownTool, registry, disk
<1>8. CASE TeamExpires(f)
  <2>1. UNCHANGED <<kind, origin, caller, status, pc, defs, completed, failed, batch, todo,
                    spawned, depth, budget, member, board, total, agent, checkpoint, results,
                    yaml, meta, unaudited, crashes>>
    BY <1>8 DEF TeamExpires, registry, settled, round, disk
  <2>2. team' \in [Flow -> {"none", "live", "expired", "gone"}]
    BY <1>1, <1>8 DEF TeamExpires, TypeOK
  <2>3. TypeOK' /\ Variables'
    BY <1>1, <2>1, <2>2 DEF TypeOK, Variables
  <2> QED
    BY <1>1, <2>1, <2>3, LocalShape DEF ShapeOf, Clean
<1>9. ASSUME NEW t \in Task, AgentStep(f, t) PROVE Shape'
  <2>1. UNCHANGED <<kind, origin, caller, status, pc, defs, completed, failed, batch, todo,
                    spawned, team, depth, budget, board, total, checkpoint, results,
                    yaml, meta, unaudited, crashes>>
    BY <1>9 DEF AgentStep, Acquire, Answer, Deadline, AgentEnds, registry, settled, round,
                teams, disk
  <2>2. /\ agent' \in [Flow -> [Task -> {"none", "waiting", "running", "calling", "over"}]]
        /\ member' \in [Flow -> [Task -> {"none", "idle", "working", "done", "failed"}]]
        /\ \A g \in Flow : g # f => agent'[g] = agent[g] /\ member'[g] = member[g]
    <3>1. CASE Acquire(f, t)
      BY <1>1, <3>1 DEF Acquire, TypeOK, teams
    <3>2. ASSUME NEW outcome \in {"done", "failed"}, AgentEnds(f, t, outcome)
          PROVE  /\ agent' \in [Flow -> [Task -> {"none", "waiting", "running", "calling", "over"}]]
                 /\ member' \in [Flow -> [Task -> {"none", "idle", "working", "done", "failed"}]]
                 /\ \A g \in Flow : g # f => agent'[g] = agent[g] /\ member'[g] = member[g]
      BY <1>1, <3>2 DEF AgentEnds, TypeOK
    <3> QED
      BY <1>9, <3>1, <3>2 DEF AgentStep, Answer, Deadline
  <2>3. TypeOK' /\ Variables'
    BY <1>1, <2>1, <2>2 DEF TypeOK, Variables
  <2>4. kind[f] # "none"
    BY <1>1, <1>9 DEF AgentStep, Acquire, Answer, Deadline, ShapeOf, Clean
  <2> QED
    BY <1>1, <2>1, <2>2, <2>3, <2>4, LocalShape DEF ShapeOf
<1> QED
  BY <1>4, <1>5, <1>6, <1>7, <1>8, <1>9

\* A loop reports and its variables go.
LEMMA ReportShape ==
    ASSUME Shape, NEW f \in Flow, Report(f)
    PROVE  Shape'
<1>1. TypeOK /\ Variables /\ ShapeOf(f)
  BY DEF Shape
<1>2. NoCheckpoint.completed \subseteq Task /\ DefsOK(NoCheckpoint.defs) /\ ~NoCheckpoint.kept
  BY DEF NoCheckpoint, DefsOK
<1>3. kind[f] # "none"
  BY <1>1 DEF Report, ShapeOf, Clean
<1>4. DefsOK(<< >>)
  BY DEF DefsOK
<1>5. \A g \in Flow : checkpoint'[g] = checkpoint[g] \/ checkpoint'[g] = NoCheckpoint
  <2>1. \/ checkpoint' = [checkpoint EXCEPT ![origin[f]] = NoCheckpoint]
        \/ checkpoint' = checkpoint
    BY Zenon DEF Report
  <2> QED
    BY <1>1, <2>1 DEF Variables
<1>6. checkpoint' = [g \in Flow |-> checkpoint'[g]]
  <2>1. \/ checkpoint' = [checkpoint EXCEPT ![origin[f]] = NoCheckpoint]
        \/ checkpoint' = checkpoint
    BY Zenon DEF Report
  <2> QED
    BY <1>1, <2>1 DEF Variables
<1>7. /\ agent' \in [Flow -> [Task -> {"none", "waiting", "running", "calling", "over"}]]
      /\ \A g \in Flow : kind[g] = "none" => agent'[g] = agent[g]
  <2>1. CASE kind[f] = "sub" /\ agent[origin[f]][caller[f]] = "calling"
    <3>1. agent' = [agent EXCEPT ![origin[f]][caller[f]] = "running"]
      BY <2>1, Zenon DEF Report
    <3>2. ASSUME NEW g \in Flow, kind[g] = "none", agent'[g] # agent[g]
          PROVE  FALSE
      <4>1. g = origin[f]
        BY <1>1, <3>1, <3>2 DEF TypeOK
      <4>2. \A t \in Task : agent[g][t] = "none"
        BY <3>2 DEF Shape, ShapeOf, Clean
      <4>3. caller[f] \in Task
        BY <1>1, <4>1, <3>1, <3>2 DEF TypeOK
      <4> QED
        BY <2>1, <4>1, <4>2, <4>3
    <3>3. agent' \in [Flow -> [Task -> {"none", "waiting", "running", "calling", "over"}]]
      BY <1>1, <3>1 DEF TypeOK
    <3> QED
      BY <3>2, <3>3
  <2>2. CASE ~(kind[f] = "sub" /\ agent[origin[f]][caller[f]] = "calling")
    <3>1. agent' = agent
      BY <2>2, Zenon DEF Report
    <3> QED
      BY <1>1, <3>1 DEF TypeOK
  <2> QED
    BY <2>1, <2>2
<1>8. /\ pc' \in [Flow -> Stages \cup {"none", "over", "dead"}]
      /\ pc'[f] = "over" /\ \A g \in Flow : g # f => pc'[g] = pc[g]
  BY <1>1 DEF Report, TypeOK
<1>9. /\ defs' = [defs EXCEPT ![f] = << >>]
      /\ completed' = [completed EXCEPT ![f] = {}] /\ failed' = [failed EXCEPT ![f] = {}]
      /\ batch' = [batch EXCEPT ![f] = {}] /\ todo' = [todo EXCEPT ![f] = {}]
      /\ spawned' = [spawned EXCEPT ![f] = {}]
  BY DEF Report
<1>10. /\ UNCHANGED <<kind, origin, caller, status, team, depth, budget, member, board, total>>
       /\ UNCHANGED <<results, yaml, meta, unaudited, crashes>>
  BY DEF Report, registry, teams
<1>11. /\ completed' \in [Flow -> SUBSET Task] /\ failed' \in [Flow -> SUBSET Task]
       /\ spawned' \in [Flow -> SUBSET Task]
       /\ \A g \in Flow : \A i \in DOMAIN defs'[g] : i \in Nat /\ defs'[g][i] \in Def
       /\ \A g \in Flow : todo'[g] \subseteq batch'[g] /\ batch'[g] \subseteq DOMAIN defs'[g]
  BY <1>1, <1>9 DEF TypeOK, Variables
<1>12. TypeOK'
  BY <1>1, <1>7, <1>8, <1>10, <1>11 DEF TypeOK
<1>13. Variables'
  BY <1>1, <1>6, <1>9, <1>10 DEF Variables
<1>14. /\ defs'[f] = << >>
       /\ \A g \in Flow : g # f =>
            /\ defs'[g] = defs[g] /\ completed'[g] = completed[g] /\ failed'[g] = failed[g]
            /\ batch'[g] = batch[g] /\ todo'[g] = todo[g] /\ spawned'[g] = spawned[g]
  BY <1>1, <1>9 DEF Variables, TypeOK
<1> QED
  BY <1>2, <1>3, <1>4, <1>5, <1>7, <1>8, <1>10, <1>12, <1>13, <1>14, LocalShape

\* Copying results touches the new flow's rows alone.
LEMMA CopiesOnly ==
    ASSUME TypeOK, NEW g \in Flow, NEW done \in SUBSET Task, CopyResults(g, done)
    PROVE  /\ results' \in [Flow -> [Task -> {"none", "done", "failed"}]]
           /\ unaudited' \in [Flow -> SUBSET Task]
           /\ \A f \in Flow \ {g} : results'[f] = results[f] /\ unaudited'[f] = unaudited[f]
<1>1. PICK refused \in SUBSET done :
        /\ results' = [results EXCEPT ![g] =
             [t \in Task |-> IF t \in done \ refused THEN "done" ELSE "none"]]
        /\ unaudited' = [unaudited EXCEPT ![g] = refused]
  BY DEF CopyResults, Refusals
<1> DEFINE rows == [t \in Task |-> IF t \in done \ refused THEN "done" ELSE "none"]
<1>2. rows \in [Task -> {"none", "done", "failed"}] /\ refused \in SUBSET Task
  OBVIOUS
<1>3. results' = [results EXCEPT ![g] = rows]
  BY <1>1
<1> HIDE DEF rows
<1> QED
  BY <1>1, <1>2, <1>3 DEF TypeOK

\* The types survive every step.
LEMMA ShapeStep ==
    Shape /\ Counts' /\ [Next]_vars => Shape'
<1> SUFFICES ASSUME Shape, Counts', [Next]_vars PROVE Shape'
  OBVIOUS
<1>1. TypeOK /\ Variables
  BY DEF Shape
<1>2. \A d \in Yamls \cup SubDefs : DefsOK(d)
  BY SeqIsOK, DefsAssumption
<1>c. ASSUME NEW g \in Flow, NEW done \in SUBSET Task, CopyResults(g, done)
      PROVE  /\ results' \in [Flow -> [Task -> {"none", "done", "failed"}]]
             /\ unaudited' \in [Flow -> SUBSET Task]
             /\ \A f \in Flow \ {g} : results'[f] = results[f]
  BY <1>1, <1>c, CopiesOnly
<1>m. ASSUME NEW f \in Flow, SaveMetadata(f)
      PROVE  meta' \in [Flow -> {"none", "saved"}]
  BY <1>1, <1>m DEF SaveMetadata, Refusals, TypeOK
<1>0. CASE UNCHANGED vars
  BY <1>0 DEF vars, registry, round, settled, teams, disk, Shape, TypeOK, Variables, ShapeOf, Clean
<1>3. ASSUME NEW g \in Flow, NEW y \in Yamls, StartFlow(g, y) PROVE Shape'
  <2>1. Begun(g, "start", y) /\ DefsOK(y)
    BY <1>2, <1>3, StartsBegin
  <2>2. /\ agent' = agent /\ checkpoint' = checkpoint /\ results' = results /\ crashes' = crashes
        /\ unaudited' = unaudited
        /\ yaml' = [yaml EXCEPT ![g] = y] /\ SaveMetadata(g)
    BY <1>3 DEF StartFlow
  <2>3. /\ yaml' = [f \in Flow |-> yaml'[f]] /\ yaml'[g] = y
        /\ \A f \in Flow \ {g} : yaml'[f] = yaml[f]
        /\ meta' \in [Flow -> {"none", "saved"}]
        /\ agent' \in [Flow -> [Task -> {"none", "waiting", "running", "calling", "over"}]]
        /\ results' \in [Flow -> [Task -> {"none", "done", "failed"}]]
        /\ unaudited' \in [Flow -> SUBSET Task]
    BY <1>1, <1>m, <2>2 DEF Variables, TypeOK
  <2> QED
    BY <2>1, <2>2, <2>3, BeginShape
<1>4. ASSUME NEW f \in Flow, NEW g \in Flow, ResumeCheckpoint(f, g) PROVE Shape'
  <2>1. Begun(g, "resume", checkpoint[f].defs)
    BY <1>4, StartsBegin
  <2>2. /\ agent' = agent /\ checkpoint' = checkpoint /\ yaml' = yaml /\ meta' = meta
        /\ crashes' = crashes /\ CopyResults(g, checkpoint[f].completed)
    BY <1>4 DEF ResumeCheckpoint
  <2>3. checkpoint[f].completed \in SUBSET Task /\ DefsOK(checkpoint[f].defs) /\ DefsOK(yaml[g])
    BY DEF Shape, ShapeOf
  <2>4. /\ yaml' = [h \in Flow |-> yaml'[h]]
        /\ meta' \in [Flow -> {"none", "saved"}]
        /\ agent' \in [Flow -> [Task -> {"none", "waiting", "running", "calling", "over"}]]
    BY <1>1, <2>2 DEF Variables, TypeOK
  <2> QED
    BY <1>c, <2>1, <2>2, <2>3, <2>4, BeginShape
<1>5. ASSUME NEW f \in Flow, NEW g \in Flow, ResumeAudit(f, g) PROVE Shape'
  <2>1. PICK d : DefsOK(d) /\ Begun(g, "resume", d)
    BY <1>5, StartsBegin
  <2> DEFINE done == {t \in Task : results[f][t] = "done"}
  <2>2. /\ agent' = agent /\ checkpoint' = checkpoint /\ crashes' = crashes
        /\ yaml' = [yaml EXCEPT ![g] = yaml[f]] /\ SaveMetadata(g)
        /\ CopyResults(g, done)
    BY <1>5 DEF ResumeAudit
  <2>3. done \in SUBSET Task /\ DefsOK(yaml[f])
    BY DEF Shape, ShapeOf
  <2>4. /\ yaml' = [h \in Flow |-> yaml'[h]] /\ yaml'[g] = yaml[f]
        /\ \A h \in Flow \ {g} : yaml'[h] = yaml[h]
        /\ meta' \in [Flow -> {"none", "saved"}]
        /\ agent' \in [Flow -> [Task -> {"none", "waiting", "running", "calling", "over"}]]
    BY <1>1, <1>m, <2>2 DEF Variables, TypeOK
  <2> HIDE DEF done
  <2> QED
    BY <1>c, <2>1, <2>2, <2>3, <2>4, BeginShape
<1>6. ASSUME NEW f \in Flow, NEW t \in Task, NEW g \in Flow, NEW d \in SubDefs,
             Escalate(f, t, g, d)
      PROVE  Shape'
  <2>1. Begun(g, "sub", d) /\ DefsOK(d) /\ DefsOK(yaml[g])
    BY <1>2, <1>6, StartsBegin DEF Shape, ShapeOf
  <2>2. /\ agent[f][t] = "running"
        /\ checkpoint' = checkpoint /\ results' = results /\ yaml' = yaml /\ meta' = meta
        /\ crashes' = crashes /\ unaudited' = unaudited
    BY <1>6 DEF Escalate, disk
  <2>3. agent' = agent \/ agent' = [agent EXCEPT ![f][t] = "calling"]
    BY <1>6, Zenon DEF Escalate
  <2>4. kind[f] # "none"
    BY <2>2 DEF Shape, ShapeOf, Clean
  <2>5. /\ agent' \in [Flow -> [Task -> {"none", "waiting", "running", "calling", "over"}]]
        /\ \A h \in Flow : kind[h] = "none" => agent'[h] = agent[h]
    <3>1. agent \in [Flow -> [Task -> {"none", "waiting", "running", "calling", "over"}]]
      BY <1>1 DEF TypeOK
    <3>2. CASE agent' = agent
      BY <3>1, <3>2
    <3>3. CASE agent' = [agent EXCEPT ![f][t] = "calling"]
      BY <2>4, <3>1, <3>3
    <3> QED
      BY <2>3, <3>2, <3>3
  <2>6. /\ yaml' = [h \in Flow |-> yaml'[h]]
        /\ meta' \in [Flow -> {"none", "saved"}]
        /\ results' \in [Flow -> [Task -> {"none", "done", "failed"}]]
        /\ unaudited' \in [Flow -> SUBSET Task]
    BY <1>1, <2>2 DEF Variables, TypeOK
  <2> QED
    BY <2>1, <2>2, <2>5, <2>6, BeginShape
<1>7. CASE Crash
  <2>1. TypeOK'
    <3>1. pc' \in [Flow -> Stages \cup {"none", "over", "dead"}] /\ status' \in [Flow -> Statuses]
      BY <1>7 DEF Crash, Statuses
    <3>2. crashes' \in 0..MaxCrashes
      BY <1>1, <1>7, ServerFlowAssumption DEF Crash, TypeOK
    <3> QED
      BY <1>1, <1>7, <3>1, <3>2 DEF Crash, TypeOK, disk
  <2>2. Variables'
    BY <1>1, <1>7 DEF Crash, Variables, disk
  <2>3. DefsOK(<< >>)
    BY DEF DefsOK
  <2>4. ASSUME NEW f \in Flow PROVE ShapeOf(f)'
    <3>1. /\ pc'[f] = (IF pc[f] = "none" THEN "none" ELSE "dead")
          /\ status'[f] = "none" /\ defs'[f] = << >> /\ completed'[f] = {} /\ failed'[f] = {}
          /\ batch'[f] = {} /\ todo'[f] = {} /\ spawned'[f] = {}
          /\ \A t \in Task : member'[f][t] = "none" /\ agent'[f][t] = "none"
          /\ kind' = kind /\ checkpoint' = checkpoint /\ results' = results /\ yaml' = yaml
      BY <1>7 DEF Crash, disk
    <3>2. kind[f] = "none" => pc[f] = "none" /\ ~checkpoint[f].kept
                               /\ \A t \in Task : results[f][t] = "none"
      BY DEF Shape, ShapeOf, Clean
    <3>3. DefsOK(checkpoint[f].defs) /\ DefsOK(yaml[f]) /\ checkpoint[f].completed \subseteq Task
      BY DEF Shape, ShapeOf
    <3> QED
      BY <2>3, <3>1, <3>2, <3>3 DEF ShapeOf, Clean
  <2> QED
    BY <2>1, <2>2, <2>4 DEF Shape
<1> QED
  BY <1>0, <1>3, <1>4, <1>5, <1>6, <1>7, LoopShape, TeamShape, ReportShape DEF Next, FlowStep

-----------------------------------------------------------------------------
\* What a loop has settled, and what of it is on disk

Running == Stages \ {"report"}

\* The ids a loop has settled, and those it has yet to start in this round
Settling(f) ==
    /\ completed[f] \cap failed[f] = {}
    /\ Settled(f) \subseteq Ids(defs[f]) /\ spawned[f] \subseteq Ids(defs[f])
    /\ pc[f] \in {"add", "send"} => \A i \in todo[f] : defs[f][i].id \notin completed[f]
    /\ pc[f] = "report" /\ status[f] = "completed" => Ids(defs[f]) \subseteq Settled(f)

\* What has completed is in the audit log unless that refused it, and what has in
\* this round once it is recorded
Recorded(f) ==
    /\ pc[f] \in {"select", "add", "send", "save", "inject"} =>
         \A t \in completed[f] \ unaudited[f] : results[f][t] = "done"
    /\ pc[f] \in {"poll", "record"} =>
         \A t \in completed[f] \ (spawned[f] \cup unaudited[f]) : results[f][t] = "done"
    /\ pc[f] \in Running /\ kind[f] = "start" => Ids(yaml[f]) \subseteq Ids(defs[f])

\* CheckpointBacked, and that a checkpoint is never ahead of its loop
Backed(f) ==
    checkpoint[f].kept =>
        /\ \A t \in checkpoint[f].completed \ unaudited[f] : results[f][t] = "done"
        /\ kind[f] = "start" =>
             Ids(yaml[f]) \subseteq checkpoint[f].completed \cup checkpoint[f].failed
                                    \cup Ids(checkpoint[f].defs)
        /\ pc[f] \in Running => checkpoint[f].completed \subseteq completed[f]

Progress(f) == Settling(f) /\ Recorded(f) /\ Backed(f)

\* A flow none of whose variables a step touches stays as far as it was.
LEMMA SameProgress ==
    ASSUME NEW f \in Flow, Progress(f), kind'[f] = kind[f], pc'[f] = pc[f], status'[f] = status[f],
           defs'[f] = defs[f], completed'[f] = completed[f], failed'[f] = failed[f],
           todo'[f] = todo[f], spawned'[f] = spawned[f],
           results'[f] = results[f], yaml'[f] = yaml[f], unaudited'[f] = unaudited[f],
           checkpoint'[f] = checkpoint[f] \/ checkpoint'[f] = NoCheckpoint
    PROVE  Progress(f)'
<1>1. ~NoCheckpoint.kept
  BY DEF NoCheckpoint
<1>2. Settling(f)' /\ Recorded(f)'
  BY DEF Progress, Settling, Recorded, Settled
<1>3. Backed(f)'
  BY <1>1 DEF Progress, Backed
<1> QED
  BY <1>2, <1>3 DEF Progress

\* A flow that begins has settled nothing, and has no checkpoint.
LEMMA BeginProgress ==
    ASSUME Shape, NEW g \in Flow, NEW k, NEW d, Begun(g, k, d), checkpoint' = checkpoint,
           k = "start" => yaml'[g] = d,
           \A f \in Flow : Progress(f),
           \A f \in Flow \ {g} : /\ results'[f] = results[f] /\ yaml'[f] = yaml[f]
                                  /\ unaudited'[f] = unaudited[f]
    PROVE  \A f \in Flow : Progress(f)'
<1>1. UNCHANGED <<completed, failed, batch, todo, spawned>>
  BY DEF Begun, settled, round
<1>2. \A f \in Flow : f # g => Progress(f)'
  BY <1>1, SameProgress DEF Begun
<1>3. /\ completed'[g] = {} /\ failed'[g] = {} /\ spawned'[g] = {} /\ ~checkpoint'[g].kept
      /\ kind'[g] = k
      /\ \/ defs'[g] = d /\ pc'[g] = "select"
         \/ defs'[g] = << >> /\ pc'[g] = "over"
  BY <1>1 DEF Begun, Clean
<1>4. Settling(g)'
  BY <1>3 DEF Settling, Settled
<1>5. Recorded(g)'
  BY <1>3 DEF Recorded, Running, Stages
<1>6. Backed(g)'
  BY <1>3 DEF Backed
<1> QED
  BY <1>2, <1>4, <1>5, <1>6 DEF Progress

\* When no task is ready and the loop is not blocked, all its tasks are settled:
\* as many ids as definitions, though two definitions may share an id.
LEMMA AllSettled ==
    ASSUME Shape, NEW f \in Flow, Settling(f), Ready(f) = {}, ~Blocked(f)
    PROVE  Ids(defs[f]) \subseteq Settled(f)
<1>1. CASE Pending(defs[f], Settled(f)) = {}
  BY <1>1 DEF Pending, Ids
<1>2. CASE Pending(defs[f], Settled(f)) # {}
  <2> DEFINE C == completed[f]
             F == failed[f]
             I == Ids(defs[f])
  <2>1. /\ IsFiniteSet(I) /\ Cardinality(I) <= Cardinality(DOMAIN defs[f])
        /\ IsFiniteSet(DOMAIN defs[f])
    BY IdsOf, DomainOf DEF Shape, ShapeOf
  <2>2. C \cup F \subseteq I /\ C \cap F = {}
    BY DEF Settling, Settled
  <2>3. /\ IsFiniteSet(C) /\ IsFiniteSet(F) /\ IsFiniteSet(C \cup F)
        /\ Cardinality(C \cup F) <= Cardinality(I)
        /\ Cardinality(C \cup F) = Cardinality(I) => C \cup F = I
    BY <2>1, <2>2, FS_Subset
  <2>4. Cardinality(C \cup F) = Cardinality(C) + Cardinality(F)
    <3>1. Cardinality(C \cap F) = 0
      BY <2>2, FS_EmptySet
    <3>2. Cardinality(C \cup F) = Cardinality(C) + Cardinality(F) - Cardinality(C \cap F)
      BY <2>3, FS_Union
    <3>3. Cardinality(C) \in Nat /\ Cardinality(F) \in Nat
      BY <2>3, FS_CardinalityType
    <3> QED
      BY <3>1, <3>2, <3>3
  <2>5. ~(Cardinality(C) + Cardinality(F) < Cardinality(DOMAIN defs[f]))
    BY <1>2 DEF Blocked
  <2>6. /\ Cardinality(C \cup F) \in Nat /\ Cardinality(I) \in Nat
        /\ Cardinality(DOMAIN defs[f]) \in Nat
    BY <2>1, <2>3, FS_CardinalityType
  <2>7. C \cup F = I
    BY <2>1, <2>3, <2>4, <2>5, <2>6
  <2> QED
    BY <2>7 DEF Settled
<1> QED
  BY <1>1, <1>2

\* A flow's own step takes it on, and leaves the other flows where they were.
LEMMA LoopProgress ==
    ASSUME Shape, NEW f \in Flow, \A g \in Flow : Progress(g),
           \/ SelectBatch(f) \/ AddMember(f) \/ SpawnFails(f) \/ Launch(f)
           \/ \E t \in Task : Collect(f, t)
           \/ BatchDone(f) \/ RecordResults(f) \/ SaveCheckpoint(f)
           \/ \E p \in Plans : Inject(f, p)
    PROVE  \A g \in Flow : Progress(g)'
<1>1. /\ TypeOK /\ Variables /\ ShapeOf(f)
      /\ Settling(f) /\ Recorded(f) /\ Backed(f)
  BY DEF Shape, Progress
<1>2. kind' = kind /\ status' = status /\ yaml' = yaml
  BY DEF SelectBatch, AddMember, SpawnFails, Launch, Collect, BatchDone, RecordResults,
         SaveCheckpoint, Inject, registry, disk
<1> USE DEF Running, Stages
<1>t. pc[f] \in {"add", "send", "inject"} =>
        /\ Lowest(todo[f]) \in todo[f] /\ Current(f) = defs[f][Lowest(todo[f])].id
        /\ Current(f) \in Task /\ Current(f) \in Ids(defs[f])
  BY CurrentIsTask DEF Shape, ShapeOf
<1>f. ASSUME \A g \in Flow : g # f =>
                /\ pc'[g] = pc[g] /\ defs'[g] = defs[g] /\ completed'[g] = completed[g]
                /\ failed'[g] = failed[g] /\ todo'[g] = todo[g] /\ spawned'[g] = spawned[g]
                /\ results'[g] = results[g] /\ checkpoint'[g] = checkpoint[g]
                /\ unaudited'[g] = unaudited[g],
             Progress(f)'
      PROVE  \A g \in Flow : Progress(g)'
  BY <1>2, <1>f, SameProgress
<1>n. ASSUME NEW again \in Stages, NEW stage \in Stages, NextOr(f, again, stage)
      PROVE  /\ todo'[f] \subseteq todo[f] /\ pc'[f] \in {again, stage}
             /\ \A g \in Flow : g # f => pc'[g] = pc[g] /\ todo'[g] = todo[g]
  <2> DEFINE rest == todo[f] \ {Lowest(todo[f])}
             new == IF rest = {} THEN stage ELSE again
  <2>1. rest \subseteq todo[f] /\ new \in {again, stage}
    OBVIOUS
  <2>2. todo' = [todo EXCEPT ![f] = rest] /\ pc' = [pc EXCEPT ![f] = new]
    BY <1>n DEF NextOr
  <2> HIDE DEF rest, new
  <2> QED
    BY <1>1, <2>1, <2>2 DEF TypeOK, Variables
<1>3. CASE SelectBatch(f)
  <2> DEFINE T == Throttled(Ready(f))
  <2>1. T \subseteq Ready(f)
    BY <1>1, <1>3, DomainOf, ThrottledIsSome DEF SelectBatch, Ready, Pending, ShapeOf
  <2>2. \A i \in T : defs[f][i].id \notin completed[f]
    BY <2>1 DEF Ready, Pending, Settled
  <2> HIDE DEF T
  <2>3. /\ todo' = [todo EXCEPT ![f] = T] /\ spawned' = [spawned EXCEPT ![f] = {}]
        /\ pc' = [pc EXCEPT ![f] = "add"] /\ pc[f] = "select"
        /\ UNCHANGED <<defs, completed, failed, checkpoint, results, unaudited>>
    BY <1>3 DEF SelectBatch, T, settled, disk
  <2>4. /\ todo'[f] = T /\ spawned'[f] = {} /\ pc'[f] = "add"
        /\ \A g \in Flow : g # f =>
             pc'[g] = pc[g] /\ todo'[g] = todo[g] /\ spawned'[g] = spawned[g]
    BY <1>1, <2>3 DEF TypeOK, Variables
  <2>5. Settling(f)'
    BY <1>1, <2>2, <2>3, <2>4 DEF Settling, Settled
  <2>6. Recorded(f)' /\ Backed(f)'
    BY <1>1, <1>2, <2>3, <2>4 DEF Recorded, Backed
  <2> QED
    BY <1>f, <2>3, <2>4, <2>5, <2>6 DEF Progress
<1>4. CASE AddMember(f)
  <2>1. /\ pc' = [pc EXCEPT ![f] = "send"] /\ pc[f] = "add"
        /\ UNCHANGED <<defs, completed, failed, todo, spawned, checkpoint, results, unaudited>>
    BY <1>4 DEF AddMember, settled, round, disk
  <2>2. pc'[f] = "send" /\ \A g \in Flow : g # f => pc'[g] = pc[g]
    BY <1>1, <2>1 DEF TypeOK
  <2>3. Settling(f)' /\ Recorded(f)' /\ Backed(f)'
    BY <1>1, <1>2, <2>1, <2>2 DEF Settling, Settled, Recorded, Backed
  <2> QED
    BY <1>f, <2>1, <2>2, <2>3 DEF Progress
<1>5. CASE SpawnFails(f)
  <2>1. /\ failed' = [failed EXCEPT ![f] = failed[f] \cup {Current(f)}]
        /\ NextOr(f, "add", "poll") /\ pc[f] \in {"add", "send"}
        /\ UNCHANGED <<defs, completed, spawned, checkpoint, results, unaudited>>
    BY <1>5 DEF SpawnFails, disk
  <2>2. /\ todo'[f] \subseteq todo[f] /\ pc'[f] \in {"add", "poll"}
        /\ \A g \in Flow : g # f => pc'[g] = pc[g] /\ todo'[g] = todo[g]
    BY <1>n, <2>1
  <2>3. /\ failed'[f] = failed[f] \cup {Current(f)}
        /\ \A g \in Flow : g # f => failed'[g] = failed[g]
    BY <1>1, <2>1 DEF TypeOK
  <2>4. Current(f) \notin completed[f] /\ Current(f) \in Ids(defs[f])
    BY <1>1, <1>t, <2>1 DEF Settling
  <2>5. Settling(f)'
    BY <1>1, <2>1, <2>2, <2>3, <2>4 DEF Settling, Settled
  <2>6. Recorded(f)' /\ Backed(f)'
    BY <1>1, <1>2, <2>1, <2>2 DEF Recorded, Backed
  <2> QED
    BY <1>f, <2>1, <2>2, <2>3, <2>5, <2>6 DEF Progress
<1>6. CASE Launch(f)
  <2>1. /\ results' = results \/ results' = [results EXCEPT ![f][Current(f)] = "none"]
        /\ spawned' = [spawned EXCEPT ![f] = spawned[f] \cup {Current(f)}]
        /\ NextOr(f, "add", "poll") /\ pc[f] = "send"
        /\ UNCHANGED <<defs, completed, failed, checkpoint, unaudited>>
    BY <1>6 DEF Launch, settled
  <2>2. /\ todo'[f] \subseteq todo[f] /\ pc'[f] \in {"add", "poll"}
        /\ \A g \in Flow : g # f => pc'[g] = pc[g] /\ todo'[g] = todo[g]
    BY <1>n, <2>1
  <2>3. Current(f) \notin completed[f] /\ Current(f) \in Ids(defs[f]) /\ Current(f) \in Task
    BY <1>1, <1>t, <2>1 DEF Settling
  <2>4. /\ spawned'[f] = spawned[f] \cup {Current(f)}
        /\ \A t \in completed[f] : results'[f][t] = results[f][t]
        /\ \A g \in Flow : g # f => spawned'[g] = spawned[g] /\ results'[g] = results[g]
    BY <1>1, <2>1, <2>3 DEF TypeOK
  <2>5. Settling(f)'
    BY <1>1, <2>1, <2>2, <2>3, <2>4 DEF Settling, Settled
  <2>6. Recorded(f)' /\ Backed(f)'
    BY <1>1, <1>2, <2>1, <2>2, <2>4 DEF Recorded, Backed
  <2> QED
    BY <1>f, <2>1, <2>2, <2>4, <2>5, <2>6 DEF Progress
<1>7. ASSUME NEW t \in Task, Collect(f, t) PROVE \A g \in Flow : Progress(g)'
  <2>1. /\ pc[f] = "poll" /\ t \in spawned[f] /\ t \notin Settled(f)
        /\ UNCHANGED <<pc, defs, todo, spawned, checkpoint, results, unaudited>>
    BY <1>7 DEF Collect, round, disk
  <2>2. \/ completed' = [completed EXCEPT ![f] = completed[f] \cup {t}] /\ failed' = failed
        \/ failed' = [failed EXCEPT ![f] = failed[f] \cup {t}] /\ completed' = completed
    BY <1>7 DEF Collect
  <2>3. /\ \/ completed'[f] = completed[f] \cup {t} /\ failed'[f] = failed[f]
           \/ failed'[f] = failed[f] \cup {t} /\ completed'[f] = completed[f]
        /\ \A g \in Flow : g # f => completed'[g] = completed[g] /\ failed'[g] = failed[g]
    BY <1>1, <2>2 DEF TypeOK
  <2>4. Settling(f)'
    BY <1>1, <2>1, <2>3 DEF Settling, Settled
  <2>5. Recorded(f)' /\ Backed(f)'
    BY <1>1, <1>2, <2>1, <2>3 DEF Recorded, Backed
  <2> QED
    BY <1>f, <2>1, <2>3, <2>4, <2>5 DEF Progress
<1>8. CASE BatchDone(f)
  <2>1. /\ pc' = [pc EXCEPT ![f] = "record"] /\ pc[f] = "poll"
        /\ UNCHANGED <<defs, completed, failed, todo, spawned, checkpoint, results, unaudited>>
    BY <1>8 DEF BatchDone, settled, round, disk
  <2>2. pc'[f] = "record" /\ \A g \in Flow : g # f => pc'[g] = pc[g]
    BY <1>1, <2>1 DEF TypeOK
  <2>3. Settling(f)' /\ Recorded(f)' /\ Backed(f)'
    BY <1>1, <1>2, <2>1, <2>2 DEF Settling, Settled, Recorded, Backed
  <2> QED
    BY <1>f, <2>1, <2>2, <2>3 DEF Progress
<1>9. CASE RecordResults(f)
  <2>0. PICK refused \in SUBSET spawned[f] :
          /\ results' = [results EXCEPT ![f] =
               [t \in Task |-> IF t \in spawned[f] \ refused THEN Outcome(f, t)
                                                          ELSE results[f][t]]]
          /\ unaudited' = [unaudited EXCEPT ![f] = (unaudited[f] \ spawned[f]) \cup refused]
    BY <1>9 DEF RecordResults, Refusals
  <2> DEFINE R == [t \in Task |-> IF t \in spawned[f] \ refused THEN Outcome(f, t)
                                                           ELSE results[f][t]]
             U == (unaudited[f] \ spawned[f]) \cup refused
  <2>1. /\ results' = [results EXCEPT ![f] = R] /\ unaudited' = [unaudited EXCEPT ![f] = U]
        /\ pc[f] = "record" /\ UNCHANGED <<defs, completed, failed, todo, spawned, checkpoint>>
    BY <1>9, <2>0 DEF RecordResults, settled, round
  <2>2. pc' = [pc EXCEPT ![f] = "select"] \/ pc' = [pc EXCEPT ![f] = "save"]
    BY <1>9, Zenon DEF RecordResults
  <2>3. ASSUME NEW t \in completed[f] \ U PROVE R[t] = "done"
    <3>1. t \in Task
      BY <1>1 DEF TypeOK
    <3>2. R[t] = IF t \in spawned[f] \ refused THEN Outcome(f, t) ELSE results[f][t]
      BY <3>1
    <3>3. Outcome(f, t) = "done"
      BY DEF Outcome
    <3>4. t \notin spawned[f] => results[f][t] = "done"
      BY <1>1, <2>1 DEF Recorded
    <3> QED
      BY <3>2, <3>3, <3>4
  <2> HIDE DEF R, U
  <2>4. /\ results'[f] = R /\ unaudited'[f] = U /\ pc'[f] \in {"select", "save"}
        /\ \A g \in Flow : g # f => /\ results'[g] = results[g] /\ pc'[g] = pc[g]
                                    /\ unaudited'[g] = unaudited[g]
    BY <1>1, <2>1, <2>2 DEF TypeOK
  <2>5. Settling(f)'
    BY <1>1, <2>1, <2>4 DEF Settling, Settled
  <2>6. Recorded(f)' /\ Backed(f)'
    BY <1>1, <1>2, <2>1, <2>3, <2>4 DEF Recorded, Backed
  <2> QED
    BY <1>f, <2>1, <2>4, <2>5, <2>6 DEF Progress
<1>10. CASE SaveCheckpoint(f)
  <2> DEFINE planners == {i \in batch[f] : defs[f][i].gen}
             cp == [completed |-> completed[f], failed |-> failed[f],
                    defs |-> Without(defs[f], Settled(f)), kept |-> TRUE]
  <2>1. /\ checkpoint' = [checkpoint EXCEPT ![f] = cp] \/ checkpoint' = checkpoint
        /\ todo' = [todo EXCEPT ![f] = planners] /\ pc[f] = "save"
        /\ UNCHANGED <<defs, completed, failed, spawned, results, unaudited>>
    BY <1>10 DEF SaveCheckpoint, settled
  <2>2. pc' = [pc EXCEPT ![f] = "select"] \/ pc' = [pc EXCEPT ![f] = "inject"]
    <3>1. pc' = [pc EXCEPT ![f] = IF planners = {} THEN "select" ELSE "inject"]
      BY <1>10 DEF SaveCheckpoint
    <3> HIDE DEF planners
    <3> QED
      BY <3>1, Zenon
  <2>3. Ids(cp.defs) = Ids(defs[f]) \ Settled(f)
    BY <1>1, WithoutIsOK DEF ShapeOf
  <2>4. cp.completed = completed[f] /\ cp.failed = failed[f]
    OBVIOUS
  <2> HIDE DEF planners, cp
  <2>5. /\ pc'[f] \in {"select", "inject"}
        /\ checkpoint'[f] = cp \/ checkpoint'[f] = checkpoint[f]
        /\ \A g \in Flow : g # f => /\ pc'[g] = pc[g] /\ todo'[g] = todo[g]
                                    /\ checkpoint'[g] = checkpoint[g]
    BY <1>1, <2>1, <2>2 DEF TypeOK, Variables
  <2>6. Settling(f)' /\ Recorded(f)'
    BY <1>1, <1>2, <2>1, <2>5 DEF Settling, Settled, Recorded
  <2>7. Backed(f)'
    <3>1. CASE checkpoint'[f] = cp
      <4>1. \A t \in cp.completed \ unaudited[f] : results'[f][t] = "done"
        BY <1>1, <2>1, <2>4 DEF Recorded
      <4>2. kind[f] = "start" =>
              Ids(yaml[f]) \subseteq cp.completed \cup cp.failed \cup Ids(cp.defs)
        BY <1>1, <2>1, <2>3, <2>4 DEF Recorded, Settled
      <4> QED
        BY <1>2, <2>1, <2>4, <3>1, <4>1, <4>2 DEF Backed
    <3>2. CASE checkpoint'[f] = checkpoint[f]
      BY <1>1, <1>2, <2>1, <2>5, <3>2 DEF Backed
    <3> QED
      BY <2>5, <3>1, <3>2
  <2> QED
    BY <1>f, <2>1, <2>5, <2>6, <2>7 DEF Progress
<1>11. ASSUME NEW p \in Plans, Inject(f, p) PROVE \A g \in Flow : Progress(g)'
  <2>1. Current(f) \in Task /\ p \in Seq(Def) /\ DefsOK(defs[f])
    BY <1>1, <1>11, <1>t, DefsAssumption DEF Inject, ShapeOf
  <2> DEFINE e == Extended(defs[f], Current(f), p)
  <2>2. DOMAIN defs[f] \subseteq DOMAIN e /\ \A i \in DOMAIN defs[f] : e[i].id = defs[f][i].id
    BY <2>1, ExtendedIsOK
  <2>3. Ids(defs[f]) \subseteq Ids(e)
    <3> HIDE DEF e
    <3> QED
      BY <2>2 DEF Ids
  <2> HIDE DEF e
  <2>4. defs' = [defs EXCEPT ![f] = e] \/ defs' = defs
    BY <1>11, Zenon DEF Inject, e
  <2>5. NextOr(f, "inject", "select") /\ pc[f] = "inject"
        /\ UNCHANGED <<completed, failed, spawned, checkpoint, results, unaudited>>
    BY <1>11 DEF Inject, settled, disk
  <2>6. /\ pc'[f] \in {"inject", "select"}
        /\ \A g \in Flow : g # f => pc'[g] = pc[g] /\ todo'[g] = todo[g]
    BY <1>n, <2>5
  <2>7. /\ defs'[f] = e \/ defs'[f] = defs[f]
        /\ \A g \in Flow : g # f => defs'[g] = defs[g]
    BY <1>1, <2>4 DEF Variables
  <2>8. Ids(defs[f]) \subseteq Ids(defs'[f])
    BY <2>3, <2>7
  <2>9. Settling(f)'
    BY <1>1, <2>5, <2>6, <2>8 DEF Settling, Settled
  <2>10. Recorded(f)' /\ Backed(f)'
    BY <1>1, <1>2, <2>5, <2>6, <2>8 DEF Recorded, Backed
  <2> QED
    BY <1>f, <2>5, <2>6, <2>7, <2>9, <2>10 DEF Progress
<1> QED
  BY <1>3, <1>4, <1>5, <1>6, <1>7, <1>8, <1>9, <1>10, <1>11

\* Every step keeps each flow's books.
LEMMA ProgressStep ==
    ASSUME Shape, \A f \in Flow : Progress(f), [Next]_vars
    PROVE  \A f \in Flow : Progress(f)'
<1>1. TypeOK /\ Variables
  BY DEF Shape
<1> DEFINE Good == \A f \in Flow : Progress(f)'
<1>a. ASSUME UNCHANGED <<kind, pc, status, defs, completed, failed, todo, spawned, results,
                         yaml, checkpoint, unaudited>>
      PROVE  Good
  BY <1>a, SameProgress
<1>0. CASE UNCHANGED vars
  BY <1>0, <1>a DEF vars, registry, settled, round, disk
<1>2. ASSUME NEW g \in Flow, NEW y \in Yamls, StartFlow(g, y) PROVE Good
  <2>1. Begun(g, "start", y)
    BY <1>2, StartsBegin
  <2>2. /\ yaml' = [yaml EXCEPT ![g] = y] /\ checkpoint' = checkpoint /\ results' = results
        /\ unaudited' = unaudited
    BY <1>2 DEF StartFlow
  <2>3. yaml'[g] = y /\ \A f \in Flow \ {g} : /\ yaml'[f] = yaml[f] /\ results'[f] = results[f]
                                               /\ unaudited'[f] = unaudited[f]
    BY <1>1, <2>2 DEF Variables
  <2> QED
    BY <2>1, <2>2, <2>3, BeginProgress
<1>3. ASSUME NEW f \in Flow, NEW g \in Flow, ResumeCheckpoint(f, g) PROVE Good
  <2>1. Begun(g, "resume", checkpoint[f].defs)
    BY <1>3, StartsBegin
  <2>2. /\ yaml' = yaml /\ checkpoint' = checkpoint
        /\ CopyResults(g, checkpoint[f].completed) /\ checkpoint[f].completed \in SUBSET Task
    BY <1>3 DEF ResumeCheckpoint, Shape, ShapeOf
  <2>3. \A h \in Flow \ {g} : /\ yaml'[h] = yaml[h] /\ results'[h] = results[h]
                               /\ unaudited'[h] = unaudited[h]
    BY <1>1, <2>2, CopiesOnly
  <2> QED
    BY <2>1, <2>2, <2>3, BeginProgress
<1>4. ASSUME NEW f \in Flow, NEW g \in Flow, ResumeAudit(f, g) PROVE Good
  <2>1. PICK d : Begun(g, "resume", d)
    BY <1>4, StartsBegin
  <2>2. /\ yaml' = [yaml EXCEPT ![g] = yaml[f]] /\ checkpoint' = checkpoint
        /\ CopyResults(g, {t \in Task : results[f][t] = "done"})
    BY <1>4 DEF ResumeAudit
  <2>3. \A h \in Flow \ {g} : /\ yaml'[h] = yaml[h] /\ results'[h] = results[h]
                               /\ unaudited'[h] = unaudited[h]
    <3>1. {t \in Task : results[f][t] = "done"} \in SUBSET Task
      OBVIOUS
    <3> QED
      BY <1>1, <2>2, <3>1, CopiesOnly DEF Variables
  <2> QED
    BY <2>1, <2>2, <2>3, BeginProgress
<1>5. ASSUME NEW f \in Flow, NEW t \in Task, NEW g \in Flow, NEW d \in SubDefs,
             Escalate(f, t, g, d)
      PROVE  Good
  <2>1. Begun(g, "sub", d)
    BY <1>5, StartsBegin
  <2>2. yaml' = yaml /\ checkpoint' = checkpoint /\ results' = results /\ unaudited' = unaudited
    BY <1>5 DEF Escalate, disk
  <2> QED
    BY <2>1, <2>2, BeginProgress
<1>6. ASSUME NEW f \in Flow, \/ TeamShutdownTool(f) \/ TeamExpires(f)
                             \/ \E t \in Task : AgentStep(f, t)
      PROVE  Good
  <2>1. UNCHANGED <<kind, pc, status, defs, completed, failed, todo, spawned, results,
                    yaml, checkpoint, unaudited>>
    BY <1>6 DEF TeamShutdownTool, TeamExpires, AgentStep, Acquire, Answer, Deadline, AgentEnds,
                registry, settled, round, disk
  <2> QED
    BY <1>a, <2>1
<1>7. ASSUME NEW f \in Flow, Deadlock(f) \/ Finish(f) \/ PollTimeout(f) PROVE Good
  <2>1. /\ UNCHANGED <<kind, defs, completed, failed, todo, spawned, results, yaml, unaudited>>
        /\ pc' = [pc EXCEPT ![f] = "report"] /\ pc[f] \in Stages
        /\ \/ status' = [status EXCEPT ![f] = "failed"]
           \/ status' = [status EXCEPT ![f] = "completed"] /\ Ready(f) = {} /\ ~Blocked(f)
        /\ \/ checkpoint' = checkpoint
           \/ checkpoint' = [checkpoint EXCEPT ![f] = NoCheckpoint]
    BY <1>7 DEF Deadlock, Finish, PollTimeout, settled, round, disk, Stages
  <2>2. /\ pc'[f] = "report"
        /\ \/ status'[f] = "failed"
           \/ status'[f] = "completed" /\ Ready(f) = {} /\ ~Blocked(f)
        /\ checkpoint'[f] = checkpoint[f] \/ checkpoint'[f] = NoCheckpoint
        /\ \A g \in Flow : g # f => /\ pc'[g] = pc[g] /\ status'[g] = status[g]
                                    /\ checkpoint'[g] = checkpoint[g]
    BY <1>1, <2>1 DEF TypeOK, Variables
  <2>3. status'[f] = "completed" => Ids(defs[f]) \subseteq Settled(f)
    BY <2>2, AllSettled DEF Progress
  <2>4. Settling(f)'
    BY <2>1, <2>2, <2>3 DEF Progress, Settling, Settled
  <2>5. ~NoCheckpoint.kept
    BY DEF NoCheckpoint
  <2>6. Recorded(f)' /\ Backed(f)'
    BY <2>1, <2>2, <2>5 DEF Progress, Recorded, Backed, Running
  <2>7. \A g \in Flow : g # f => Progress(g)'
    BY <2>1, <2>2, SameProgress
  <2> QED
    BY <2>4, <2>6, <2>7 DEF Progress
<1>8. ASSUME NEW f \in Flow, Report(f) PROVE Good
  <2>1. /\ defs' = [defs EXCEPT ![f] = << >>] /\ completed' = [completed EXCEPT ![f] = {}]
        /\ failed' = [failed EXCEPT ![f] = {}] /\ todo' = [todo EXCEPT ![f] = {}]
        /\ spawned' = [spawned EXCEPT ![f] = {}] /\ pc' = [pc EXCEPT ![f] = "over"]
        /\ UNCHANGED <<kind, status, results, yaml, unaudited>>
    BY <1>8 DEF Report, registry
  <2>2. \/ checkpoint' = [checkpoint EXCEPT ![origin[f]] = NoCheckpoint]
        \/ checkpoint' = checkpoint
    BY <1>8, Zenon DEF Report
  <2>3. \A g \in Flow : checkpoint'[g] = checkpoint[g] \/ checkpoint'[g] = NoCheckpoint
    BY <1>1, <2>2 DEF Variables
  <2>4. /\ completed'[f] = {} /\ failed'[f] = {} /\ spawned'[f] = {} /\ pc'[f] = "over"
        /\ \A g \in Flow : g # f =>
             /\ defs'[g] = defs[g] /\ completed'[g] = completed[g] /\ failed'[g] = failed[g]
             /\ todo'[g] = todo[g] /\ spawned'[g] = spawned[g] /\ pc'[g] = pc[g]
    BY <1>1, <2>1 DEF TypeOK, Variables
  <2>5. \A g \in Flow : g # f => Progress(g)'
    BY <2>1, <2>3, <2>4, SameProgress
  <2>6. Settling(f)' /\ Recorded(f)'
    BY <2>4 DEF Settling, Settled, Recorded, Running, Stages
  <2>7. ~NoCheckpoint.kept
    BY DEF NoCheckpoint
  <2>8. Backed(f)'
    BY <2>1, <2>3, <2>4, <2>7 DEF Progress, Backed, Running, Stages
  <2> QED
    BY <2>5, <2>6, <2>8 DEF Progress
<1>9. CASE Crash
  <2>1. /\ UNCHANGED <<kind, checkpoint, results, yaml, unaudited>>
        /\ \A f \in Flow : /\ completed'[f] = {} /\ failed'[f] = {} /\ spawned'[f] = {}
                           /\ pc'[f] \in {"none", "dead"}
    BY <1>9 DEF Crash, disk
  <2> QED
    BY <2>1 DEF Progress, Settling, Settled, Recorded, Backed, Running, Stages
<1> QED
  BY <1>0, <1>2, <1>3, <1>4, <1>5, <1>6, <1>7, <1>8, <1>9, LoopProgress DEF Next, FlowStep

-----------------------------------------------------------------------------
\* What an agent may count on when its task is launched

Launched(f) == {t \in Task : agent[f][t] # "none"}
Launching == {"add", "send"}
InRound == {"add", "send", "poll", "record", "save"}

\* The planner i of f may still add tasks
ToPlan(f, i) ==
    /\ defs[f][i].gen
    /\ \/ defs[f][i].id \notin Settled(f)
       \/ pc[f] \in InRound /\ i \in batch[f]
       \/ pc[f] = "inject" /\ i \in todo[f]

\* The lists are as well formed as the flows were, until the planner has added
\* its tasks no sink has been launched, and what it adds is new
Planned(f) ==
    /\ Agree(defs[f]) /\ OnePlanner(defs[f])
    /\ WellFormed(yaml[f]) /\ WellFormed(checkpoint[f].defs)
    /\ pc[f] = "inject" => \A i \in todo[f] : defs[f][i].gen
    /\ pc[f] \in Stages => Launched(f) \subseteq Ids(defs[f])
    /\ \A i \in DOMAIN defs[f] :
         ToPlan(f, i) => Open(defs[f]) /\ Launched(f) \cap Sink = {}

\* What is launched, or about to be, waits for settled tasks only
Waited(f) ==
    /\ pc[f] \in Launching => \A i \in batch[f] :
         /\ defs[f][i].deps \subseteq Settled(f)
         /\ \A j \in batch[f] : defs[f][j].id \notin defs[f][i].deps
    /\ \A i \in DOMAIN defs[f] :
         defs[f][i].id \in Launched(f) => defs[f][i].deps \subseteq Settled(f)

\* What has completed is on the blackboard, this round's when it is saved
Published(f) ==
    kind[f] # "sub" /\ Exists(f) =>
      /\ pc[f] \in {"select", "inject"} => completed[f] \subseteq board[f]
      /\ pc[f] \in InRound => completed[f] \ spawned[f] \subseteq board[f]
      /\ pc[f] \in Launching => \A i \in batch[f] :
           defs[f][i].deps \cap completed[f] \subseteq board[f]
      /\ \A i \in DOMAIN defs[f] :
           defs[f][i].id \in Launched(f) =>
             defs[f][i].deps \cap completed[f] \subseteq board[f]

Waiting(f) == Planned(f) /\ Waited(f) /\ Published(f)

\* An empty list is well formed.
LEMMA EmptyIsWell == WellFormed(<< >>) /\ WellFormed(NoCheckpoint.defs)
  BY DEF WellFormed, Agree, OnePlanner, Open, NoCheckpoint

\* A flow a step leaves alone waits as before, if its team goes or its agents go on.
LEMMA SameWaiting ==
    ASSUME NEW f \in Flow, Waiting(f), kind'[f] = kind[f], pc'[f] = pc[f], defs'[f] = defs[f],
           completed'[f] = completed[f], failed'[f] = failed[f],
           batch'[f] = batch[f], todo'[f] = todo[f], spawned'[f] = spawned[f],
           Launched(f)' = Launched(f), Exists(f)' => Exists(f) /\ board'[f] = board[f],
           yaml'[f] = yaml[f], checkpoint'[f] = checkpoint[f] \/ checkpoint'[f] = NoCheckpoint
    PROVE  Waiting(f)'
<1>1. Settled(f)' = Settled(f) /\ \A i : ToPlan(f, i)' <=> ToPlan(f, i)
  BY DEF Settled, ToPlan
<1>2. WellFormed(checkpoint'[f].defs)
  BY EmptyIsWell DEF Waiting, Planned
<1>3. Planned(f)'
  BY <1>1, <1>2 DEF Waiting, Planned
<1>4. Waited(f)'
  BY <1>1 DEF Waiting, Waited
<1>5. Published(f)'
  BY DEF Waiting, Published
<1> QED
  BY <1>3, <1>4, <1>5 DEF Waiting

\* The loop that comes to its end shuts its team down.
LEMMA EndWaiting ==
    ASSUME NEW f \in Flow, Waiting(f), pc[f] \in Stages, pc'[f] = "report", defs'[f] = defs[f],
           completed'[f] = completed[f], failed'[f] = failed[f],
           Launched(f)' = Launched(f), ~Exists(f)',
           yaml'[f] = yaml[f], checkpoint'[f] = checkpoint[f] \/ checkpoint'[f] = NoCheckpoint
    PROVE  Waiting(f)'
<1>1. Settled(f)' = Settled(f) /\ \A i : ToPlan(f, i)' => ToPlan(f, i)
  BY DEF Settled, ToPlan, InRound
<1>2. WellFormed(checkpoint'[f].defs)
  BY EmptyIsWell DEF Waiting, Planned
<1>3. Planned(f)'
  BY <1>1, <1>2 DEF Waiting, Planned
<1>4. Waited(f)'
  BY <1>1 DEF Waiting, Waited, Launching
<1>5. Published(f)'
  BY DEF Published
<1> QED
  BY <1>3, <1>4, <1>5 DEF Waiting

\* A flow without definitions has nothing to wait for.
LEMMA NoneWaiting ==
    ASSUME NEW f \in Flow, defs'[f] = << >>, pc'[f] \notin Stages,
           WellFormed(yaml'[f]), WellFormed(checkpoint'[f].defs)
    PROVE  Waiting(f)'
<1>1. Agree(defs'[f]) /\ OnePlanner(defs'[f]) /\ DOMAIN defs'[f] = {}
  BY EmptyIsWell DEF WellFormed
<1>2. pc'[f] \notin Launching \cup InRound \cup {"select", "inject"}
  BY DEF Launching, InRound, Stages
<1>3. Planned(f)'
  BY <1>1, <1>2 DEF Planned
<1>4. Waited(f)' /\ Published(f)'
  BY <1>1, <1>2 DEF Waited, Published
<1> QED
  BY <1>3, <1>4 DEF Waiting

\* A flow that begins has launched nothing.
LEMMA BeginWaiting ==
    ASSUME Shape, NEW g \in Flow, NEW k, NEW d, Begun(g, k, d), WellFormed(d),
           checkpoint' = checkpoint, WellFormed(yaml'[g]),
           \A f \in Flow : Waiting(f),
           \A f \in Flow \ {g} : yaml'[f] = yaml[f],
           \A f \in Flow : Launched(f)' = Launched(f)
    PROVE  \A f \in Flow : Waiting(f)'
<1>1. UNCHANGED <<completed, failed, batch, todo, spawned>>
  BY DEF Begun, settled, round
<1>2. ASSUME NEW f \in Flow, f # g PROVE Waiting(f)'
  <2>1. Exists(f)' => Exists(f) /\ board'[f] = board[f]
    BY <1>2 DEF Begun, Exists
  <2> QED
    BY <1>1, <1>2, <2>1, SameWaiting DEF Begun
<1>3. completed'[g] = {} /\ failed'[g] = {} /\ Launched(g)' = {} /\ Settled(g)' = {}
  BY <1>1 DEF Begun, Clean, Launched, Settled
<1>4. WellFormed(checkpoint'[g].defs)
  BY DEF Waiting, Planned
<1>5. CASE defs'[g] = << >> /\ pc'[g] = "over"
  <2>1. Waiting(g)'
    BY <1>4, <1>5, NoneWaiting DEF Stages
  <2> QED
    BY <1>2, <2>1
<1>6. CASE defs'[g] = d /\ pc'[g] = "select"
  <2>1. Planned(g)'
    BY <1>3, <1>4, <1>6 DEF Planned, WellFormed
  <2>2. Waited(g)'
    BY <1>3, <1>6 DEF Waited, Launching
  <2>3. Published(g)'
    BY <1>3, <1>6 DEF Published, Launching, InRound
  <2> QED
    BY <1>2, <2>1, <2>2, <2>3 DEF Waiting
<1> QED
  BY <1>5, <1>6 DEF Begun

\* A step of one loop touches no other flow.
LEMMA LoopIsLocal ==
    ASSUME Shape, NEW f \in Flow,
           \/ SelectBatch(f) \/ AddMember(f) \/ SpawnFails(f) \/ Launch(f)
           \/ \E t \in Task : Collect(f, t)
           \/ BatchDone(f) \/ RecordResults(f) \/ SaveCheckpoint(f)
           \/ \E p \in Plans : Inject(f, p)
    PROVE  /\ kind' = kind /\ yaml' = yaml /\ team' = team
           /\ \A g \in Flow : g # f =>
                /\ pc'[g] = pc[g] /\ defs'[g] = defs[g] /\ completed'[g] = completed[g]
                /\ failed'[g] = failed[g] /\ batch'[g] = batch[g] /\ todo'[g] = todo[g]
                /\ spawned'[g] = spawned[g] /\ board'[g] = board[g] /\ agent'[g] = agent[g]
                /\ checkpoint'[g] = checkpoint[g]
<1>1. kind' = kind /\ yaml' = yaml /\ team' = team
  BY DEF SelectBatch, AddMember, SpawnFails, Launch, Collect, BatchDone, RecordResults,
         SaveCheckpoint, Inject, registry, disk, teams
<1> DEFINE Same(g) ==
             /\ pc'[g] = pc[g] /\ defs'[g] = defs[g] /\ completed'[g] = completed[g]
             /\ failed'[g] = failed[g] /\ batch'[g] = batch[g] /\ todo'[g] = todo[g]
             /\ spawned'[g] = spawned[g] /\ board'[g] = board[g] /\ agent'[g] = agent[g]
             /\ checkpoint'[g] = checkpoint[g]
           Others == \A g \in Flow : g # f => Same(g)
<1>2. TypeOK /\ Variables
  BY DEF Shape
<1>3. SelectBatch(f) \/ AddMember(f) => Others
  BY <1>2 DEF SelectBatch, AddMember, TypeOK, Variables, settled, round, teams, disk
<1>4. SpawnFails(f) \/ Launch(f) => Others
  BY <1>2 DEF SpawnFails, Launch, NextOr, TypeOK, Variables, settled, teams, disk
<1>5. ASSUME NEW t \in Task, Collect(f, t) PROVE Others
  BY <1>2, <1>5 DEF Collect, TypeOK, Variables, round, teams, disk
<1>6. BatchDone(f) \/ RecordResults(f) => Others
  BY <1>2 DEF BatchDone, RecordResults, TypeOK, Variables, settled, round, teams, disk
<1>7. SaveCheckpoint(f) => Others
  BY <1>2 DEF SaveCheckpoint, TypeOK, Variables, settled, teams
<1>8. ASSUME NEW p \in Plans, Inject(f, p) PROVE Others
  BY <1>2, <1>8 DEF Inject, NextOr, TypeOK, Variables, settled, teams, disk
<1>9. Others
  <2> HIDE DEF Others
  <2> QED
    BY <1>3, <1>4, <1>5, <1>6, <1>7, <1>8
<1> QED
  BY <1>1, <1>9

\* Going on to the next task of a batch.
LEMMA NextOrAt ==
    ASSUME Shape, NEW f \in Flow, NEW again, NEW stage, NextOr(f, again, stage)
    PROVE  /\ todo'[f] = todo[f] \ {Lowest(todo[f])} /\ batch'[f] = batch[f]
           /\ pc'[f] = IF todo'[f] = {} THEN stage ELSE again
  BY DEF NextOr, Shape, TypeOK, Variables

\* A task is launched when what it waits for is settled, and published.
LEMMA LoopWaiting ==
    ASSUME WellFormedFlows, Shape, NEW f \in Flow, \A g \in Flow : Waiting(g),
           \/ SelectBatch(f) \/ AddMember(f) \/ SpawnFails(f) \/ Launch(f)
           \/ \E t \in Task : Collect(f, t)
           \/ BatchDone(f) \/ RecordResults(f) \/ SaveCheckpoint(f)
           \/ \E p \in Plans : Inject(f, p)
    PROVE  \A g \in Flow : Waiting(g)'
<1>1. /\ TypeOK /\ Variables /\ ShapeOf(f)
      /\ Planned(f) /\ Waited(f) /\ Published(f)
  BY DEF Shape, Waiting
<1>2. \A g \in Flow : g # f => Waiting(g)'
  BY LoopIsLocal, SameWaiting DEF Launched, Exists
<1> SUFFICES Waiting(f)'
  BY <1>2
<1>3. kind' = kind /\ yaml' = yaml /\ team' = team
  BY LoopIsLocal
<1> USE DEF Stages, InRound, Launching
<1>t. pc[f] \in {"add", "send", "inject"} =>
        /\ Lowest(todo[f]) \in todo[f] /\ Lowest(todo[f]) \in batch[f]
        /\ Lowest(todo[f]) \in DOMAIN defs[f]
        /\ Current(f) = defs[f][Lowest(todo[f])].id
        /\ Current(f) \in Task /\ Current(f) \in Ids(defs[f])
  BY <1>1, CurrentIsTask DEF Shape, ShapeOf, TypeOK
<1>4. CASE SelectBatch(f)
  <2> DEFINE T == Throttled(Ready(f))
  <2>1. /\ pc[f] = "select" /\ batch' = [batch EXCEPT ![f] = T]
        /\ spawned' = [spawned EXCEPT ![f] = {}] /\ pc' = [pc EXCEPT ![f] = "add"]
        /\ UNCHANGED <<defs, completed, failed, board, agent, checkpoint>>
    BY <1>4 DEF SelectBatch, settled, teams, disk
  <2>2. T \subseteq Ready(f)
    BY DEF Throttled
  <2> HIDE DEF T
  <2>3. batch'[f] = T /\ spawned'[f] = {} /\ pc'[f] = "add"
    BY <1>1, <2>1 DEF TypeOK, Variables
  <2>4. \A i \in T : defs[f][i].deps \subseteq Settled(f) /\ defs[f][i].id \notin Settled(f)
    BY <2>2 DEF Ready, Pending
  <2>5. Settled(f)' = Settled(f) /\ Launched(f)' = Launched(f) /\ Exists(f)' = Exists(f)
    BY <1>3, <2>1 DEF Settled, Launched, Exists
  <2>6. \A i : ToPlan(f, i)' => ToPlan(f, i)
    BY <2>1, <2>3, <2>4, <2>5 DEF ToPlan
  <2>7. Planned(f)'
    BY <1>1, <1>3, <2>1, <2>3, <2>5, <2>6 DEF Planned
  <2>8. Waited(f)'
    BY <1>1, <2>1, <2>3, <2>4, <2>5 DEF Waited
  <2>9. Published(f)'
    BY <1>1, <1>3, <2>1, <2>3, <2>5 DEF Published
  <2> QED
    BY <2>7, <2>8, <2>9 DEF Waiting
<1>5. CASE AddMember(f)
  <2>1. /\ pc[f] = "add" /\ pc' = [pc EXCEPT ![f] = "send"]
        /\ UNCHANGED <<defs, completed, failed, batch, todo, spawned, board, agent, checkpoint>>
    BY <1>5 DEF AddMember, settled, round, disk
  <2>2. pc'[f] = "send"
    BY <1>1, <2>1 DEF TypeOK
  <2>3. Settled(f)' = Settled(f) /\ Launched(f)' = Launched(f) /\ Exists(f)' = Exists(f)
    BY <1>3, <2>1 DEF Settled, Launched, Exists
  <2>4. \A i : ToPlan(f, i)' => ToPlan(f, i)
    BY <2>1, <2>2, <2>3 DEF ToPlan
  <2>5. Planned(f)' /\ Waited(f)' /\ Published(f)'
    BY <1>1, <1>3, <2>1, <2>2, <2>3, <2>4 DEF Planned, Waited, Published
  <2> QED
    BY <2>5 DEF Waiting
<1>6. CASE SpawnFails(f)
  <2>1. /\ failed' = [failed EXCEPT ![f] = failed[f] \cup {Current(f)}]
        /\ NextOr(f, "add", "poll") /\ pc[f] \in {"add", "send"}
        /\ UNCHANGED <<defs, completed, spawned, board, agent, checkpoint>>
    BY <1>6 DEF SpawnFails, teams, disk
  <2>2. pc'[f] \in {"add", "poll"} /\ batch'[f] = batch[f]
    BY <2>1, NextOrAt
  <2>3. failed[f] \subseteq failed'[f]
    BY <1>1, <2>1 DEF TypeOK
  <2>4. /\ Settled(f) \subseteq Settled(f)' /\ Launched(f)' = Launched(f)
        /\ Exists(f)' = Exists(f)
    BY <1>3, <2>1, <2>3 DEF Settled, Launched, Exists
  <2>5. \A i : ToPlan(f, i)' => ToPlan(f, i)
    BY <2>1, <2>2, <2>4 DEF ToPlan
  <2>6. Planned(f)'
    BY <1>1, <1>3, <2>1, <2>2, <2>4, <2>5 DEF Planned
  <2>7. Waited(f)'
    BY <1>1, <2>1, <2>2, <2>4 DEF Waited
  <2>8. Published(f)'
    BY <1>1, <1>3, <2>1, <2>2, <2>4 DEF Published
  <2> QED
    BY <2>6, <2>7, <2>8 DEF Waiting
<1>7. CASE Launch(f)
  <2> DEFINE l == Lowest(todo[f])
             t == Current(f)
  <2>1. /\ agent' = [agent EXCEPT ![f][t] = "waiting"]
        /\ spawned' = [spawned EXCEPT ![f] = spawned[f] \cup {t}]
        /\ NextOr(f, "add", "poll") /\ pc[f] = "send"
        /\ UNCHANGED <<defs, completed, failed, board, checkpoint>>
    BY <1>7 DEF Launch, settled
  <2>2. pc'[f] \in {"add", "poll"} /\ batch'[f] = batch[f]
    BY <2>1, NextOrAt
  <2>3. /\ l \in batch[f] /\ l \in DOMAIN defs[f] /\ defs[f][l].id = t
        /\ t \in Task /\ t \in Ids(defs[f])
    BY <1>t, <2>1
  <2> HIDE DEF l, t
  <2>4. spawned'[f] = spawned[f] \cup {t} /\ Launched(f)' = Launched(f) \cup {t}
    BY <1>1, <2>1, <2>3 DEF TypeOK, Launched
  <2>5. Settled(f)' = Settled(f) /\ Exists(f)' = Exists(f)
    BY <1>3, <2>1 DEF Settled, Exists
  <2>6. defs[f][l].deps \subseteq Settled(f) /\ \A j \in batch[f] : defs[f][j].id \notin defs[f][l].deps
    BY <1>1, <2>1, <2>3 DEF Waited
  <2>7. \A j \in DOMAIN defs[f] : defs[f][j].id = t => defs[f][j].deps \subseteq defs[f][l].deps
    BY <1>1, <2>3, <2>6 DEF Planned, Agree
  <2>8. \A i : ToPlan(f, i)' => ToPlan(f, i)
    BY <2>1, <2>2, <2>5 DEF ToPlan
  <2>9. ASSUME NEW i \in DOMAIN defs[f], ToPlan(f, i) PROVE Open(defs[f]) /\ t \notin Sink
    <3>1. Open(defs[f])
      BY <1>1, <2>9 DEF Planned
    <3>2. defs[f][i].gen /\ defs[f][i].id \notin defs[f][l].deps
      BY <2>1, <2>6, <2>9 DEF ToPlan
    <3> QED
      BY <2>3, <3>1, <3>2 DEF Open
  <2>10. Planned(f)'
    BY <1>1, <1>3, <2>1, <2>2, <2>3, <2>4, <2>8, <2>9 DEF Planned
  <2>11. Waited(f)'
    BY <1>1, <2>1, <2>2, <2>4, <2>5, <2>6, <2>7 DEF Waited
  <2>12. Published(f)'
    <3> SUFFICES ASSUME kind[f] # "sub", Exists(f) PROVE Published(f)'
      BY <1>3, <2>5 DEF Published
    <3>1. defs[f][l].deps \cap completed[f] \subseteq board[f]
      BY <1>1, <2>1, <2>3 DEF Published
    <3> QED
      BY <1>1, <2>1, <2>2, <2>4, <2>7, <3>1 DEF Published
  <2> QED
    BY <2>10, <2>11, <2>12 DEF Waiting
<1>8. ASSUME NEW t \in Task, Collect(f, t) PROVE Waiting(f)'
  <2>1. /\ pc[f] = "poll" /\ t \in spawned[f] /\ t \notin Settled(f)
        /\ UNCHANGED <<pc, defs, batch, todo, spawned, board, agent, checkpoint>>
    BY <1>8 DEF Collect, round, teams, disk
  <2>2. \/ completed' = [completed EXCEPT ![f] = completed[f] \cup {t}] /\ failed' = failed
        \/ failed' = [failed EXCEPT ![f] = failed[f] \cup {t}] /\ completed' = completed
    BY <1>8 DEF Collect
  <2>3. \/ completed'[f] = completed[f] \cup {t} /\ failed'[f] = failed[f]
        \/ failed'[f] = failed[f] \cup {t} /\ completed'[f] = completed[f]
    BY <1>1, <2>2 DEF TypeOK
  <2>4. /\ Settled(f)' = Settled(f) \cup {t} /\ Launched(f)' = Launched(f)
        /\ Exists(f)' = Exists(f)
    BY <1>3, <2>1, <2>3 DEF Settled, Launched, Exists
  <2>5. \A i : ToPlan(f, i)' => ToPlan(f, i)
    BY <2>1, <2>4 DEF ToPlan
  <2>6. Planned(f)'
    BY <1>1, <1>3, <2>1, <2>4, <2>5 DEF Planned
  <2>7. Waited(f)'
    BY <1>1, <2>1, <2>4 DEF Waited
  <2>8. Published(f)'
    BY <1>1, <1>3, <2>1, <2>3, <2>4 DEF Published, Waited
  <2> QED
    BY <2>6, <2>7, <2>8 DEF Waiting
<1>9. CASE BatchDone(f) \/ RecordResults(f)
  <2>1. UNCHANGED <<defs, completed, failed, batch, todo, spawned, board, agent, checkpoint>>
    BY <1>9 DEF BatchDone, RecordResults, settled, round, teams, disk
  <2>2. \/ pc[f] \in {"poll", "record"} /\ pc'[f] \in {"record", "save"}
        \/ pc[f] = "record" /\ kind[f] = "sub" /\ pc'[f] = "select"
    <3>1. CASE BatchDone(f)
      BY <1>1, <3>1 DEF BatchDone, TypeOK
    <3>2. CASE RecordResults(f)
      BY <1>1, <3>2 DEF RecordResults, TypeOK
    <3> QED
      BY <1>9, <3>1, <3>2
  <2>3. Settled(f)' = Settled(f) /\ Launched(f)' = Launched(f) /\ Exists(f)' = Exists(f)
    BY <1>3, <2>1 DEF Settled, Launched, Exists
  <2>4. \A i : ToPlan(f, i)' => ToPlan(f, i)
    BY <2>1, <2>2, <2>3 DEF ToPlan
  <2>5. Planned(f)'
    BY <1>1, <1>3, <2>1, <2>2, <2>3, <2>4 DEF Planned
  <2>6. Waited(f)' /\ Published(f)'
    BY <1>1, <1>3, <2>1, <2>2, <2>3 DEF Waited, Published
  <2> QED
    BY <2>5, <2>6 DEF Waiting
<1>10. CASE SaveCheckpoint(f)
  <2> DEFINE planners == {i \in batch[f] : defs[f][i].gen}
             kept == Without(defs[f], Settled(f))
             cp == [completed |-> completed[f], failed |-> failed[f],
                    defs |-> kept, kept |-> TRUE]
  <2>1. /\ checkpoint' = [checkpoint EXCEPT ![f] = cp] \/ checkpoint' = checkpoint
        /\ board' = [board EXCEPT ![f] = IF Exists(f) THEN board[f] \cup (spawned[f] \cap completed[f])
                                         ELSE board[f]]
        /\ todo' = [todo EXCEPT ![f] = planners] /\ pc[f] = "save"
        /\ UNCHANGED <<defs, completed, failed, batch, spawned, agent>>
    BY <1>10 DEF SaveCheckpoint, settled
  <2>2. pc' = [pc EXCEPT ![f] = "select"] \/ pc' = [pc EXCEPT ![f] = "inject"]
    <3>1. pc' = [pc EXCEPT ![f] = IF planners = {} THEN "select" ELSE "inject"]
      BY <1>10 DEF SaveCheckpoint
    <3> HIDE DEF planners
    <3> QED
      BY <3>1, Zenon
  <2>3. WellFormed(kept)
    <3>1. \A i \in DOMAIN defs[f] : defs[f][i].gen /\ defs[f][i].id \notin Settled(f) => Open(defs[f])
      BY <1>1 DEF Planned, ToPlan
    <3> HIDE DEF kept
    <3> QED
      BY <1>1, <3>1, WithoutIsWell DEF Planned, kept
  <2>4. cp.defs = kept
    OBVIOUS
  <2> HIDE DEF planners, kept, cp
  <2>5. /\ pc'[f] \in {"select", "inject"} /\ todo'[f] = planners
        /\ checkpoint'[f] = cp \/ checkpoint'[f] = checkpoint[f]
        /\ Exists(f) => board'[f] = board[f] \cup (spawned[f] \cap completed[f])
    BY <1>1, <2>1, <2>2 DEF TypeOK, Variables
  <2>6. Settled(f)' = Settled(f) /\ Launched(f)' = Launched(f) /\ Exists(f)' = Exists(f)
    BY <1>3, <2>1 DEF Settled, Launched, Exists
  <2>7. \A i : ToPlan(f, i)' => ToPlan(f, i)
    BY <2>1, <2>5, <2>6 DEF ToPlan, planners
  <2>8. WellFormed(checkpoint'[f].defs)
    BY <1>1, <2>3, <2>4, <2>5 DEF Planned
  <2>9. Planned(f)'
    BY <1>1, <1>3, <2>1, <2>5, <2>6, <2>7, <2>8 DEF Planned, planners
  <2>10. Waited(f)'
    BY <1>1, <2>1, <2>5, <2>6 DEF Waited
  <2>11. Published(f)'
    BY <1>1, <1>3, <2>1, <2>5, <2>6 DEF Published
  <2> QED
    BY <2>9, <2>10, <2>11 DEF Waiting
<1>11. ASSUME NEW p \in Plans, Inject(f, p) PROVE Waiting(f)'
  <2> DEFINE l == Lowest(todo[f])
             e == Extended(defs[f], Current(f), p)
  <2>1. /\ pc[f] = "inject" /\ NextOr(f, "inject", "select")
        /\ UNCHANGED <<completed, failed, spawned, board, agent, checkpoint>>
    BY <1>11 DEF Inject, settled, teams, disk
  <2>2. /\ l \in todo[f] /\ l \in DOMAIN defs[f] /\ defs[f][l].gen
        /\ Current(f) = defs[f][l].id /\ Current(f) \in Task
        /\ \A i \in todo[f] : i = l
    <3>1. \A i \in todo[f] : i \in DOMAIN defs[f] /\ defs[f][i].gen
      BY <1>1, <2>1 DEF Planned, TypeOK
    <3> QED
      BY <1>1, <1>t, <2>1, <3>1 DEF Planned, OnePlanner
  <2>3. pc'[f] = "select"
    BY <2>1, <2>2, NextOrAt
  <2>4. Settled(f)' = Settled(f) /\ Launched(f)' = Launched(f) /\ Exists(f)' = Exists(f)
    BY <1>3, <2>1 DEF Settled, Launched, Exists
  <2> HIDE DEF l, e
  <2>5. CASE Current(f) \in completed[f]
    <3>1. defs'[f] = e
      <4>1. defs' = [defs EXCEPT ![f] = e]
        BY <1>11, <2>5 DEF Inject, e
      <4> QED
        BY <1>1, <4>1 DEF Variables
    <3>2. Open(defs[f]) /\ Launched(f) \cap Sink = {}
      BY <1>1, <2>1, <2>2 DEF Planned, ToPlan
    <3>3. /\ Agree(e) /\ OnePlanner(e)
          /\ \A i \in DOMAIN e : e[i].gen => i = l
          /\ \A i \in DOMAIN e :
               \/ e[i].id \in Ids(p)
               \/ /\ i \in DOMAIN defs[f] /\ e[i].id = defs[f][i].id
                  /\ e[i].id \in Sink \/ e[i].deps = defs[f][i].deps
      BY <1>1, <2>2, <3>2, ExtendedIsWell DEF Planned, ShapeOf, e
    <3>4. DOMAIN defs[f] \subseteq DOMAIN e /\ \A i \in DOMAIN defs[f] : e[i].id = defs[f][i].id
      BY <1>1, <2>2, ExtendedIsOK, DefsAssumption DEF ShapeOf, e
    <3>5. Ids(defs[f]) \subseteq Ids(e)
      BY <3>4 DEF Ids
    <3>6. \A i \in DOMAIN e : e[i].id \in Launched(f) =>
            i \in DOMAIN defs[f] /\ e[i].id = defs[f][i].id /\ e[i].deps = defs[f][i].deps
      <4>1. Ids(p) \cap Ids(defs[f]) \subseteq Sink
        BY <2>2, <3>2 DEF Open
      <4>2. Launched(f) \subseteq Ids(defs[f])
        BY <1>1, <2>1 DEF Planned
      <4> QED
        BY <3>2, <3>3, <4>1, <4>2
    <3>7. \A i \in DOMAIN e : ~ToPlan(f, i)'
      BY <2>2, <2>3, <2>4, <2>5, <3>1, <3>3, <3>4 DEF ToPlan, Settled
    <3>8. Planned(f)'
      BY <1>1, <1>3, <2>1, <2>3, <2>4, <3>1, <3>3, <3>5, <3>7 DEF Planned
    <3>9. Waited(f)'
      BY <1>1, <2>3, <2>4, <3>1, <3>6 DEF Waited
    <3>10. Published(f)'
      BY <1>1, <1>3, <2>1, <2>3, <2>4, <3>1, <3>6 DEF Published
    <3> QED
      BY <3>8, <3>9, <3>10 DEF Waiting
  <2>6. CASE Current(f) \notin completed[f]
    <3>1. defs' = defs
      BY <1>11, <2>6 DEF Inject
    <3>2. \A i : ToPlan(f, i)' => ToPlan(f, i)
      BY <2>3, <2>4, <3>1 DEF ToPlan
    <3>3. Planned(f)'
      BY <1>1, <1>3, <2>1, <2>3, <2>4, <3>1, <3>2 DEF Planned
    <3>4. Waited(f)' /\ Published(f)'
      BY <1>1, <1>3, <2>1, <2>3, <2>4, <3>1 DEF Waited, Published
    <3> QED
      BY <3>3, <3>4 DEF Waiting
  <2> QED
    BY <2>5, <2>6
<1> QED
  BY <1>4, <1>5, <1>6, <1>7, <1>8, <1>9, <1>10, <1>11

\* A team that is shut down is gone, and launches no agent and forgets none.
LEMMA ShutDownLaunched ==
    ASSUME TypeOK, NEW f \in Flow, ShutDown(f)
    PROVE  /\ ~Exists(f)' /\ \A g \in Flow : Launched(g)' = Launched(g)
           /\ \A g \in Flow : g # f => team'[g] = team[g] /\ board'[g] = board[g]
<1>1. /\ team'[f] = "gone"
      /\ \A g \in Flow : g # f => /\ team'[g] = team[g] /\ board'[g] = board[g]
                                  /\ agent'[g] = agent[g]
      /\ \A t \in Task : agent'[f][t] = IF agent[f][t] = "none" THEN "none" ELSE "over"
  BY DEF ShutDown, TypeOK
<1> QED
  BY <1>1 DEF Exists, Launched

\* An agent that goes on was launched before.
LEMMA AgentGoesOn ==
    ASSUME TypeOK, NEW f, NEW t, NEW s, agent[f][t] # "none", s # "none",
           agent' = [agent EXCEPT ![f][t] = s]
    PROVE  \A g \in Flow : Launched(g)' = Launched(g)
<1>1. ASSUME NEW g \in Flow, NEW u \in Task
      PROVE  agent'[g][u] = IF g = f /\ u = t THEN s ELSE agent[g][u]
  BY DEF TypeOK
<1> QED
  BY <1>1 DEF Launched

\* Every step leaves the launched tasks with what they waited for.
LEMMA WaitingStep ==
    ASSUME WellFormedFlows, Shape, \A f \in Flow : Waiting(f), [Next]_vars
    PROVE  \A f \in Flow : Waiting(f)'
<1>1. TypeOK /\ Variables
  BY DEF Shape
<1> DEFINE Good == \A f \in Flow : Waiting(f)'
<1>y. \A f \in Flow : WellFormed(yaml[f]) /\ WellFormed(checkpoint[f].defs)
  BY DEF Waiting, Planned
<1>w. \A d, s : WellFormed(d) => WellFormed(Without(d, s))
  BY WithoutIsWell DEF WellFormed
<1>a. ASSUME UNCHANGED <<kind, pc, defs, completed, failed, batch, todo, spawned, yaml,
                         checkpoint, board>>,
             \A f \in Flow : Launched(f)' = Launched(f) /\ (Exists(f)' => Exists(f))
      PROVE  Good
  BY <1>a, SameWaiting
<1>0. CASE UNCHANGED vars
  <2>1. UNCHANGED <<kind, pc, defs, completed, failed, batch, todo, spawned, yaml,
                    checkpoint, board>>
    BY <1>0 DEF vars, registry, settled, round, disk, teams
  <2>2. \A f \in Flow : Launched(f)' = Launched(f) /\ Exists(f)' = Exists(f)
    BY <1>0 DEF vars, teams, Launched, Exists
  <2> QED
    BY <1>a, <2>1, <2>2
<1>2. ASSUME NEW g \in Flow, NEW y \in Yamls, StartFlow(g, y) PROVE Good
  <2>1. Begun(g, "start", y) /\ WellFormed(y)
    BY <1>2, StartsBegin DEF WellFormedFlows
  <2>2. /\ yaml' = [yaml EXCEPT ![g] = y] /\ checkpoint' = checkpoint /\ agent' = agent
    BY <1>2 DEF StartFlow
  <2>3. /\ yaml'[g] = y /\ \A f \in Flow \ {g} : yaml'[f] = yaml[f]
        /\ \A f \in Flow : Launched(f)' = Launched(f)
    BY <1>1, <2>2 DEF Variables, Launched
  <2> QED
    BY <2>1, <2>2, <2>3, BeginWaiting
<1>3. ASSUME NEW f \in Flow, NEW g \in Flow, ResumeCheckpoint(f, g) PROVE Good
  <2>1. Begun(g, "resume", checkpoint[f].defs)
    BY <1>3, StartsBegin
  <2>2. yaml' = yaml /\ checkpoint' = checkpoint /\ agent' = agent
    BY <1>3 DEF ResumeCheckpoint
  <2>3. \A h \in Flow : Launched(h)' = Launched(h)
    BY <2>2 DEF Launched
  <2> QED
    BY <1>y, <2>1, <2>2, <2>3, BeginWaiting
<1>4. ASSUME NEW f \in Flow, NEW g \in Flow, ResumeAudit(f, g) PROVE Good
  <2>1. PICK s : Begun(g, "resume", Without(yaml[f], s))
    BY <1>4, StartsBegin
  <2>2. /\ yaml' = [yaml EXCEPT ![g] = yaml[f]] /\ checkpoint' = checkpoint /\ agent' = agent
    BY <1>4 DEF ResumeAudit
  <2>3. /\ yaml'[g] = yaml[f] /\ \A h \in Flow \ {g} : yaml'[h] = yaml[h]
        /\ \A h \in Flow : Launched(h)' = Launched(h)
    BY <1>1, <2>2 DEF Variables, Launched
  <2>4. WellFormed(Without(yaml[f], s)) /\ WellFormed(yaml'[g])
    BY <1>w, <1>y, <2>3
  <2> QED
    BY <2>1, <2>2, <2>3, <2>4, BeginWaiting
<1>5. ASSUME NEW f \in Flow, NEW t \in Task, NEW g \in Flow, NEW d \in SubDefs,
             Escalate(f, t, g, d)
      PROVE  Good
  <2>1. Begun(g, "sub", d) /\ WellFormed(d)
    BY <1>5, StartsBegin DEF WellFormedFlows
  <2>2. yaml' = yaml /\ checkpoint' = checkpoint /\ agent[f][t] = "running"
    BY <1>5 DEF Escalate, disk
  <2>3. agent' = agent \/ agent' = [agent EXCEPT ![f][t] = "calling"]
    BY <1>5, Zenon DEF Escalate
  <2>4. \A h \in Flow : Launched(h)' = Launched(h)
    <3>1. CASE agent' = agent
      BY <3>1 DEF Launched
    <3>2. CASE agent' = [agent EXCEPT ![f][t] = "calling"]
      BY <1>1, <2>2, <3>2, AgentGoesOn
    <3> QED
      BY <2>3, <3>1, <3>2
  <2> QED
    BY <1>y, <2>1, <2>2, <2>4, BeginWaiting
<1>6. ASSUME NEW f \in Flow, NEW t \in Task, AgentStep(f, t) PROVE Good
  <2>1. UNCHANGED <<kind, pc, defs, completed, failed, batch, todo, spawned, yaml,
                    checkpoint, board, team>>
    BY <1>6 DEF AgentStep, Acquire, Answer, Deadline, AgentEnds, registry, settled, round,
                teams, disk
  <2>2. /\ agent[f][t] # "none"
        /\ \E s \in {"running", "over"} : agent' = [agent EXCEPT ![f][t] = s]
    BY <1>6 DEF AgentStep, Acquire, Answer, Deadline, AgentEnds
  <2>3. \A g \in Flow : Launched(g)' = Launched(g)
    BY <1>1, <2>2, AgentGoesOn
  <2> QED
    BY <1>a, <2>1, <2>3 DEF Exists
<1>7. ASSUME NEW f \in Flow, TeamShutdownTool(f) PROVE Good
  <2>1. /\ UNCHANGED <<kind, pc, defs, completed, failed, batch, todo, spawned, yaml, checkpoint>>
        /\ ShutDown(f)
    BY <1>7 DEF TeamShutdownTool, registry, settled, round, disk
  <2>2. /\ ~Exists(f)' /\ \A g \in Flow : Launched(g)' = Launched(g)
        /\ \A g \in Flow : g # f => team'[g] = team[g] /\ board'[g] = board[g]
    BY <1>1, <2>1, ShutDownLaunched
  <2>3. \A g \in Flow : Exists(g)' => Exists(g) /\ board'[g] = board[g]
    BY <2>2 DEF Exists
  <2> QED
    BY <2>1, <2>2, <2>3, SameWaiting
<1>8. ASSUME NEW f \in Flow, TeamExpires(f) PROVE Good
  <2>1. /\ UNCHANGED <<kind, pc, defs, completed, failed, batch, todo, spawned, yaml,
                       checkpoint, board, agent>>
        /\ team' = [team EXCEPT ![f] = "expired"] /\ team[f] = "live"
    BY <1>8 DEF TeamExpires, registry, settled, round, disk
  <2>2. \A g \in Flow : Launched(g)' = Launched(g) /\ (Exists(g)' => Exists(g))
    BY <1>1, <2>1 DEF TypeOK, Launched, Exists
  <2> QED
    BY <1>a, <2>1, <2>2
<1>9. ASSUME NEW f \in Flow, Deadlock(f) \/ Finish(f) \/ PollTimeout(f) PROVE Good
  <2>1. /\ UNCHANGED <<kind, defs, completed, failed, batch, todo, spawned, yaml>>
        /\ pc' = [pc EXCEPT ![f] = "report"] /\ pc[f] \in Stages /\ ShutDown(f)
        /\ \/ checkpoint' = checkpoint
           \/ checkpoint' = [checkpoint EXCEPT ![f] = NoCheckpoint]
    BY <1>9 DEF Deadlock, Finish, PollTimeout, settled, round, disk, Stages
  <2>2. /\ pc'[f] = "report" /\ \A g \in Flow : g # f => pc'[g] = pc[g]
        /\ \A g \in Flow : checkpoint'[g] = checkpoint[g] \/ checkpoint'[g] = NoCheckpoint
    BY <1>1, <2>1 DEF TypeOK, Variables
  <2>3. /\ ~Exists(f)' /\ \A g \in Flow : Launched(g)' = Launched(g)
        /\ \A g \in Flow : g # f => team'[g] = team[g] /\ board'[g] = board[g]
    BY <1>1, <2>1, ShutDownLaunched
  <2>4. Waiting(f)'
    BY <2>1, <2>2, <2>3, EndWaiting
  <2>5. \A g \in Flow : g # f => Waiting(g)'
    BY <2>1, <2>2, <2>3, SameWaiting DEF Exists
  <2> QED
    BY <2>4, <2>5
<1>10. ASSUME NEW f \in Flow, Report(f) PROVE Good
  <2>1. /\ defs' = [defs EXCEPT ![f] = << >>] /\ completed' = [completed EXCEPT ![f] = {}]
        /\ failed' = [failed EXCEPT ![f] = {}] /\ todo' = [todo EXCEPT ![f] = {}]
        /\ batch' = [batch EXCEPT ![f] = {}]
        /\ spawned' = [spawned EXCEPT ![f] = {}] /\ pc' = [pc EXCEPT ![f] = "over"]
        /\ UNCHANGED <<kind, team, board, yaml>>
    BY <1>10 DEF Report, registry, teams
  <2>2. \/ checkpoint' = [checkpoint EXCEPT ![origin[f]] = NoCheckpoint]
        \/ checkpoint' = checkpoint
    BY <1>10, Zenon DEF Report
  <2>3. \A g \in Flow : checkpoint'[g] = checkpoint[g] \/ checkpoint'[g] = NoCheckpoint
    BY <1>1, <2>2 DEF Variables
  <2>4. \/ agent' = agent
        \/ /\ agent[origin[f]][caller[f]] = "calling"
           /\ agent' = [agent EXCEPT ![origin[f]][caller[f]] = "running"]
    BY <1>10, Zenon DEF Report
  <2>5. \A g \in Flow : Launched(g)' = Launched(g)
    <3>1. CASE agent' = agent
      BY <3>1 DEF Launched
    <3>2. CASE /\ agent[origin[f]][caller[f]] = "calling"
               /\ agent' = [agent EXCEPT ![origin[f]][caller[f]] = "running"]
      BY <1>1, <3>2, AgentGoesOn
    <3> QED
      BY <2>4, <3>1, <3>2
  <2>6. /\ defs'[f] = << >> /\ pc'[f] = "over"
        /\ \A g \in Flow : g # f =>
             /\ defs'[g] = defs[g] /\ completed'[g] = completed[g] /\ failed'[g] = failed[g]
             /\ batch'[g] = batch[g] /\ todo'[g] = todo[g] /\ spawned'[g] = spawned[g]
             /\ pc'[g] = pc[g]
    BY <1>1, <2>1 DEF TypeOK, Variables
  <2>7. \A g \in Flow : g # f => Waiting(g)'
    BY <2>1, <2>3, <2>5, <2>6, SameWaiting DEF Exists
  <2>8. WellFormed(yaml'[f]) /\ WellFormed(checkpoint'[f].defs)
    BY <1>y, <2>1, <2>3, EmptyIsWell
  <2>9. Waiting(f)'
    BY <2>6, <2>8, NoneWaiting DEF Stages
  <2> QED
    BY <2>7, <2>9
<1>11. CASE Crash
  <2>1. /\ UNCHANGED <<checkpoint, yaml>>
        /\ \A f \in Flow : defs'[f] = << >> /\ pc'[f] \in {"none", "dead"}
    BY <1>11 DEF Crash, disk
  <2> QED
    BY <1>y, <2>1, NoneWaiting DEF Stages
<1> QED
  BY <1>0, <1>2, <1>3, <1>4, <1>5, <1>6, <1>7, <1>8, <1>9, <1>10, <1>11, LoopWaiting
     DEF Next, FlowStep

-----------------------------------------------------------------------------

Inductive == Shape /\ Counts /\ AgentsHaveMembers /\ \A f \in Flow : Progress(f)

\* At the start there is nothing to count, and nothing settled.
LEMMA InitInductive == Init => Inductive
<1> SUFFICES ASSUME Init PROVE Inductive
  OBVIOUS
<1>1. DefsOK(<< >>) /\ NoCheckpoint.completed \subseteq Task /\ DefsOK(NoCheckpoint.defs)
      /\ ~NoCheckpoint.kept
  BY DEF DefsOK, NoCheckpoint
<1>2. TypeOK
  BY ServerFlowAssumption DEF Init, TypeOK, Statuses
<1>3. Variables /\ \A f \in Flow : ShapeOf(f)
  BY <1>1 DEF Init, Variables, ShapeOf, Clean
<1>4. Occupied = {} /\ \A f \in Flow : Members(f) = {}
  BY DEF Init, Occupied, Members
<1>5. Counts
  <2>1. Cardinality({}) = 0 /\ total = 0 /\ \A f \in Flow : budget[f] = 0
    BY FS_EmptySet DEF Init
  <2> QED
    BY <1>4, <2>1 DEF Counts
<1>6. AgentsHaveMembers
  BY DEF Init, AgentsHaveMembers, Active
<1>7. \A f \in Flow : Progress(f)
  BY <1>1 DEF Init, Progress, Settling, Settled, Recorded, Backed, Running, Stages
<1> QED
  BY <1>2, <1>3, <1>5, <1>6, <1>7 DEF Inductive, Shape

\* The types, the count and the progress of the loops are inductive together.
LEMMA NextInductive == Inductive /\ [Next]_vars => Inductive'
  BY TeamsStep, ShapeStep, ProgressStep DEF Inductive

\* The variables of flow_execution.rs, team_tools.rs and the audit tables keep
\* their types, whatever crashes, time-outs and shutdowns come in between.
THEOREM TypeCorrect == Spec => []TypeOK
<1>1. Inductive => TypeOK
  BY DEF Inductive, Shape
<1> QED
  BY <1>1, InitInductive, NextInductive, PTL DEF Spec

\* TeamRegistry's total_agents is the number of teammates, and no team passes
\* its budget: spawning, shutting down twice and crashing never lose an agent.
THEOREM CountsAgents == Spec => []AgentsCounted
<1>1. Inductive => AgentsCounted
  BY DEF Inductive, Counts, AgentsCounted, Occupied
<1> QED
  BY <1>1, InitInductive, NextInductive, PTL DEF Spec

\* run_dag_execution reports completed only when every definition, those a
\* planner added included, has completed or failed, and none has done both.
THEOREM SettlesAll == Spec => []EndsSettled
<1>1. Inductive => EndsSettled
  BY DEF Inductive, Progress, Settling, EndsSettled
<1> QED
  BY <1>1, InitInductive, NextInductive, PTL DEF Spec

\* What save_dag_checkpoint calls completed, record_task_results_to_audit has
\* written before unless the audit log refused that very row, and it loses no
\* task of the YAML, wherever the process stops.
THEOREM BacksCheckpoints == Spec => []CheckpointBacked
<1>1. Inductive => CheckpointBacked
  BY DEF Inductive, Progress, Backed, CheckpointBacked
<1> QED
  BY <1>1, InitInductive, NextInductive, PTL DEF Spec

\* With well-formed flows, an agent of run_dag_execution starts when all that its
\* task waits for is settled and published, what a planner added later included.
THEOREM ShowsFindings ==
    ASSUME WellFormedFlows
    PROVE  Spec => []DependentsSeeFindings
<1> DEFINE Inv == Inductive /\ \A f \in Flow : Waiting(f)
<1>1. Init => Inv
  <2> SUFFICES ASSUME Init PROVE \A f \in Flow : Waiting(f)
    BY InitInductive
  <2>1. ASSUME NEW f \in Flow
        PROVE  /\ defs[f] = << >> /\ pc[f] = "none" /\ yaml[f] = << >>
               /\ checkpoint[f] = NoCheckpoint
    BY DEF Init
  <2>2. ASSUME NEW f \in Flow PROVE Planned(f) /\ Waited(f) /\ Published(f)
    BY <2>1, EmptyIsWell
       DEF Planned, Waited, Published, WellFormed, Stages, Launching, InRound
  <2> QED
    BY <2>2 DEF Waiting
<1>2. Inv /\ [Next]_vars => Inv'
  BY NextInductive, WaitingStep DEF Inductive
<1>3. Inv => DependentsSeeFindings
  <2> SUFFICES ASSUME Inv, NEW f \in Flow, NEW i \in DOMAIN defs[f],
                      Exists(f), agent[f][defs[f][i].id] # "none"
               PROVE  /\ defs[f][i].deps \subseteq Settled(f)
                      /\ kind[f] # "sub" => defs[f][i].deps \cap completed[f] \subseteq board[f]
    BY DEF DependentsSeeFindings
  <2>1. defs[f][i].id \in Task
    BY DEF Inductive, Shape, TypeOK, Def
  <2>2. defs[f][i].id \in Launched(f)
    BY <2>1 DEF Launched
  <2> QED
    BY <2>2 DEF Waiting, Waited, Published
<1> QED
  BY <1>1, <1>2, <1>3, PTL DEF Spec

=============================================================================
