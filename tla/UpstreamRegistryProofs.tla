------------------------ MODULE UpstreamRegistryProofs ------------------------
(***************************************************************************)
(* The safety properties of UpstreamRegistry for any upstream modules, any *)
(* registries and any names.                                               *)
(***************************************************************************)
EXTENDS UpstreamRegistry, WellFoundedInduction, TLAPS

\* A set of numbers has a least one.
LEMMA Least ==
    ASSUME NEW S \in SUBSET Nat, S # {}
    PROVE  \E i \in S : \A j \in S : i <= j
<1> DEFINE Less == OpToRel(<, Nat)
<1>1. \A x, y \in Nat : x < y => <<x, y>> \in Less
  BY DEF OpToRel
<1>2. IsWellFoundedOn(Less, Nat)
  BY NatLessThanWellFounded
<1> HIDE DEF Less
<1>3. \E x \in S : \A y \in S : ~ (<<y, x>> \in Less)
  BY <1>2, WFMin, Zenon
<1>4. PICK x \in S : \A y \in S : ~ (<<y, x>> \in Less)
  BY <1>3
<1>5. \A y \in S : ~ (y < x)
  BY <1>1, <1>4, Zenon
<1> QED
  BY <1>5

\* refresh_once is at one of the registries it is to refresh.
LEMMA CurrentIsWanted ==
    ASSUME NEW m \in Module, want[m] \in SUBSET Kind, want[m] # {}
    PROVE  Current(m) \in want[m]
<1> DEFINE I == {i \in DOMAIN Kinds : Kinds[i] \in want[m]}
<1>1. DOMAIN Kinds = 1..Len(Kinds) /\ Len(Kinds) \in Nat
  BY UpstreamAssumption
<1>2. I \in SUBSET Nat /\ I # {}
  BY <1>1 DEF Kind
<1>3. \E i \in I : \A j \in I : i <= j
  BY <1>2, Least
<1>4. \E i \in DOMAIN Kinds :
        /\ Kinds[i] \in want[m]
        /\ \A j \in DOMAIN Kinds : Kinds[j] \in want[m] => i <= j
  BY <1>3
<1> QED
  BY <1>4 DEF Current

\* Where a watcher is, and what it refreshes, belong together.
WatchInv ==
    \A m \in Module :
        /\ pc[m] \in {"idle", "gone"} <=> want[m] = {}
        /\ pc[m] = "ops" => Current(m) = Tools

\* Type correctness of the registries, their indexes and the watchers.
LEMMA TypeStep == TypeOK /\ WatchInv /\ [Next]_vars => TypeOK' /\ WatchInv'
<1> SUFFICES ASSUME TypeOK, WatchInv, [Next]_vars PROVE TypeOK' /\ WatchInv'
  OBVIOUS
<1> USE DEF TypeOK, WatchInv, upstreams, server
<1>0. CASE UNCHANGED vars
  BY <1>0 DEF vars, Current
<1>1. ASSUME NEW m \in Module, NEW k \in Kind, NEW S \in SUBSET Name, Change(m, k, S)
      PROVE  TypeOK' /\ WatchInv'
  <2>1. \A o \in Module : Current(o)' = Current(o)
    BY <1>1 DEF Change, Current
  <2>2. changes' \in 0..MaxChanges
    BY <1>1, UpstreamAssumption DEF Change
  <2>3. offered' \in [Module -> [Kind -> SUBSET Name]]
    BY <1>1 DEF Change
  <2>4. TypeOK'
    BY <1>1, <2>2, <2>3 DEF Change
  <2> QED
    BY <1>1, <2>1, <2>4 DEF Change
<1>2. ASSUME NEW m \in Module, NEW k \in Kind, Receive(m, k) PROVE TypeOK' /\ WatchInv'
  <2>1. \A o \in Module : o # m => Current(o)' = Current(o)
    BY <1>2 DEF Receive, Current
  <2>2. TypeOK'
    BY <1>2 DEF Receive
  <2> QED
    BY <1>2, <2>1, <2>2 DEF Receive
<1>3. ASSUME NEW m \in Module, Drain(m) PROVE TypeOK' /\ WatchInv'
  BY <1>3 DEF Drain, Current
<1>4. ASSUME NEW m \in Module, ListUpstream(m) PROVE TypeOK' /\ WatchInv'
  <2>1. Current(m) \in Kind
    BY <1>4, CurrentIsWanted DEF ListUpstream
  <2>2. \A o \in Module : Current(o)' = Current(o)
    BY <1>4 DEF ListUpstream, Current
  <2>3. TypeOK'
    BY <1>4, <2>1 DEF ListUpstream
  <2> QED
    BY <1>4, <2>2, <2>3 DEF ListUpstream
<1>10. ASSUME NEW m \in Module, ListMisread(m) PROVE TypeOK' /\ WatchInv'
  <2>1. Tools \in Kind
    BY UpstreamAssumption
  <2>2. \A o \in Module : Current(o)' = Current(o)
    BY <1>10 DEF ListMisread, Current
  <2>3. TypeOK'
    BY <1>10, <2>1 DEF ListMisread
  <2> QED
    BY <1>10, <2>2, <2>3 DEF ListMisread
<1>5. ASSUME NEW m \in Module, ListFails(m) PROVE TypeOK' /\ WatchInv'
  BY <1>5 DEF ListFails, Current
<1>6. ASSUME NEW m \in Module, SwapEntries(m) PROVE TypeOK' /\ WatchInv'
  <2>1. Current(m) \in Kind
    BY <1>6, CurrentIsWanted DEF SwapEntries
  <2>2. [n \in Name |-> Swapped(m, n)] \in [Name -> Module \cup {Builtin, NoOne}]
    BY <2>1 DEF Swapped
  <2>3. TypeOK'
    BY <1>6, <2>1, <2>2 DEF SwapEntries
  <2>4. \A o \in Module : Current(o)' = Current(o)
    BY <1>6 DEF SwapEntries, Current
  <2> QED
    BY <1>6, <2>3, <2>4 DEF SwapEntries
<1>7. ASSUME NEW m \in Module, SwapOperations(m) PROVE TypeOK' /\ WatchInv'
  <2>1. op' \in [Name -> Module \cup {Builtin, NoOne}]
    BY <1>7 DEF SwapOperations, SwappedOp
  <2>2. \A o \in Module : Current(o)' = Current(o)
    BY <1>7 DEF SwapOperations, Current
  <2> QED
    BY <1>7, <2>1, <2>2 DEF SwapOperations
<1>8. ASSUME NEW m \in Module, SetIndex(m) PROVE TypeOK' /\ WatchInv'
  <2>1. Current(m) \in want[m]
    BY <1>8, CurrentIsWanted DEF SetIndex
  <2>2. \A o \in Module : o # m => Current(o)' = Current(o)
    BY <1>8 DEF SetIndex, Current
  <2>3. pc'[m] \in {"idle", "gone"} <=> want'[m] = {}
    BY <1>8, <2>1 DEF SetIndex
  <2>4. TypeOK'
    BY <1>8, <2>1 DEF SetIndex
  <2> QED
    BY <1>8, <2>2, <2>3, <2>4 DEF SetIndex
<1>9. ASSUME NEW m \in Module, Disconnect(m) PROVE TypeOK' /\ WatchInv'
  BY <1>9 DEF Disconnect, Current
<1> QED
  BY <1>0, <1>1, <1>2, <1>3, <1>4, <1>5, <1>6, <1>7, <1>8, <1>9, <1>10 DEF Next, Watch

\* The registries, their indexes and the watchers keep their types.
THEOREM TypeCorrect == Spec => [](TypeOK /\ WatchInv)
<1>1. Init => TypeOK /\ WatchInv
  <2> SUFFICES ASSUME Init PROVE TypeOK /\ WatchInv
    OBVIOUS
  <2>1. \A k \in Kind, n \in Name :
          Registrant(k, n) \in Module \cup {Builtin, NoOne}
    BY DEF Registrant
  <2> QED
    BY <2>1, UpstreamAssumption DEF Init, TypeOK, WatchInv, LastRead
<1> QED
  BY <1>1, TypeStep, PTL DEF Spec

-----------------------------------------------------------------------------

Quiet == {"idle", "window", "list", "swap", "gone"}

\* Through a swap a name leads to a module only if the module's index, or the
\* list it has just been given, has it.
OwnersInv ==
    \A k \in Kind, n \in Name, m \in Module : owner[k][n] = m =>
        n \in IF pc[m] \in Quiet \/ k # Current(m) THEN index[k][m] ELSE listed[m]

\* One module's swap leaves no other module's name behind.
LEMMA OwnersStep == TypeOK /\ WatchInv /\ OwnersInv /\ [Next]_vars => OwnersInv'
<1> SUFFICES ASSUME TypeOK, WatchInv, OwnersInv, [Next]_vars,
                    NEW k \in Kind, NEW n \in Name, NEW o \in Module, owner'[k][n] = o
             PROVE  n \in IF pc'[o] \in Quiet \/ k # Current(o)' THEN index'[k][o]
                          ELSE listed'[o]
  BY DEF OwnersInv
<1> DEFINE Held == n \in IF pc'[o] \in Quiet \/ k # Current(o)' THEN index'[k][o]
                         ELSE listed'[o]
<1>a. owner[k][n] = o =>
        n \in IF pc[o] \in Quiet \/ k # Current(o) THEN index[k][o] ELSE listed[o]
  BY DEF OwnersInv
<1>b. o \notin {NoOne, Builtin}
  BY UpstreamAssumption
<1> USE <1>a DEF TypeOK, Quiet, upstreams, server
<1>0. CASE UNCHANGED vars
  BY <1>0 DEF vars, Current
<1>1. ASSUME NEW m \in Module, NEW j \in Kind, NEW S \in SUBSET Name, Change(m, j, S)
      PROVE  Held
  BY <1>1 DEF Change, Current
<1>2. ASSUME NEW m \in Module, NEW j \in Kind, Receive(m, j) PROVE Held
  <2>1. o # m => Current(o)' = Current(o)
    BY <1>2 DEF Receive, Current
  <2> QED
    BY <1>2, <2>1 DEF Receive
<1>3. ASSUME NEW m \in Module, Drain(m) PROVE Held
  <2>1. o # m => Current(o)' = Current(o)
    BY <1>3 DEF Drain, Current
  <2> QED
    BY <1>3, <2>1 DEF Drain
<1>4. ASSUME NEW m \in Module, ListUpstream(m) PROVE Held
  <2>1. Current(o)' = Current(o)
    BY <1>4 DEF ListUpstream, Current
  <2> QED
    BY <1>4, <2>1 DEF ListUpstream
<1>10. ASSUME NEW m \in Module, ListMisread(m) PROVE Held
  <2>1. Current(o)' = Current(o)
    BY <1>10 DEF ListMisread, Current
  <2> QED
    BY <1>10, <2>1 DEF ListMisread
<1>5. ASSUME NEW m \in Module, ListFails(m) PROVE Held
  <2>1. o # m => Current(o)' = Current(o)
    BY <1>5 DEF ListFails, Current
  <2> QED
    BY <1>5, <2>1 DEF ListFails
<1>6. ASSUME NEW m \in Module, SwapEntries(m) PROVE Held
  <2>1. Current(o)' = Current(o)
    BY <1>6 DEF SwapEntries, Current
  <2>2. Current(m) \in Kind
    BY <1>6, CurrentIsWanted DEF SwapEntries, WatchInv
  <2>3. CASE k = Current(m)
    <3>1. owner'[k][n] = Swapped(m, n)
      BY <1>6, <2>3 DEF SwapEntries
    <3>2. CASE o = m
      <4>1. n \in listed[m]
        BY <1>6, <1>b, <2>3, <3>1, <3>2 DEF SwapEntries, Swapped
      <4> QED
        BY <1>6, <2>1, <2>3, <3>2, <4>1 DEF SwapEntries
    <3>3. CASE o # m
      <4>1. owner[k][n] = o
        BY <1>b, <2>3, <3>1, <3>3 DEF Swapped
      <4> QED
        BY <1>6, <2>1, <3>3, <4>1 DEF SwapEntries
    <3> QED
      BY <3>2, <3>3
  <2>4. CASE k # Current(m)
    <3>1. owner[k][n] = o
      BY <1>6, <2>4 DEF SwapEntries
    <3> QED
      BY <1>6, <2>1, <2>4, <3>1 DEF SwapEntries
  <2> QED
    BY <2>3, <2>4
<1>7. ASSUME NEW m \in Module, SwapOperations(m) PROVE Held
  <2>1. Current(o)' = Current(o)
    BY <1>7 DEF SwapOperations, Current
  <2> QED
    BY <1>7, <2>1 DEF SwapOperations
<1>8. ASSUME NEW m \in Module, SetIndex(m) PROVE Held
  <2>1. Current(m) \in Kind
    BY <1>8, CurrentIsWanted DEF SetIndex, WatchInv
  <2>2. o # m => Current(o)' = Current(o)
    BY <1>8 DEF SetIndex, Current
  <2>3. owner[k][n] = o
    BY <1>8 DEF SetIndex
  <2>4. CASE o = m
    BY <1>8, <2>1, <2>3, <2>4 DEF SetIndex
  <2>5. CASE o # m
    BY <1>8, <2>2, <2>3, <2>5 DEF SetIndex
  <2> QED
    BY <2>4, <2>5
<1>9. ASSUME NEW m \in Module, Disconnect(m) PROVE Held
  BY <1>9 DEF Disconnect, Current
<1> QED
  BY <1>0, <1>1, <1>2, <1>3, <1>4, <1>5, <1>6, <1>7, <1>8, <1>9, <1>10 DEF Next, Watch

\* Between refreshes a registry leads a name to a module only if the module's
\* last list had it.
THEOREM OwnersAlwaysOffer == Spec => []OwnersOffer
<1>1. Init => OwnersInv
  <2> SUFFICES ASSUME Init, NEW k \in Kind, NEW n \in Name, NEW m \in Module,
                      owner[k][n] = m
               PROVE  pc[m] \in Quiet /\ n \in index[k][m]
    BY DEF OwnersInv
  <2>1. m = Registrant(k, n)
    BY DEF Init
  <2>2. n \in LastRead(m, k)
    BY <2>1, UpstreamAssumption DEF Registrant
  <2> QED
    BY <2>2 DEF Init, Quiet
<1>2. OwnersInv => OwnersOffer
  BY DEF OwnersInv, OwnersOffer, Quiet
<1> QED
  BY <1>1, <1>2, OwnersStep, TypeCorrect, PTL DEF Spec

-----------------------------------------------------------------------------

\* Whatever the watcher has not been told of, and is not about to refresh, is
\* as the upstream has it; so is the list it has just been given.
FreshInv ==
    \A m \in Module, k \in Kind : k \notin event[m] =>
        /\ k \notin stale[m] \cup want[m] => index[k][m] = LastRead(m, k)
        /\ pc[m] \in {"swap", "ops", "index"} /\ k = Current(m) => listed[m] = LastRead(m, k)

\* No event is lost, whenever it arrives.
LEMMA FreshStep == TypeOK /\ WatchInv /\ FreshInv /\ [Next]_vars => FreshInv'
<1> SUFFICES ASSUME TypeOK, WatchInv, FreshInv, [Next]_vars,
                    NEW o \in Module, NEW k \in Kind, k \notin event'[o]
             PROVE  /\ k \notin stale'[o] \cup want'[o] => index'[k][o] = LastRead(o, k)'
                    /\ pc'[o] \in {"swap", "ops", "index"} /\ k = Current(o)'
                          => listed'[o] = LastRead(o, k)'
  BY DEF FreshInv
<1> DEFINE Fresh ==
      /\ k \notin stale'[o] \cup want'[o] => index'[k][o] = LastRead(o, k)'
      /\ pc'[o] \in {"swap", "ops", "index"} /\ k = Current(o)'
            => listed'[o] = LastRead(o, k)'
<1>a. k \notin event[o] =>
        /\ k \notin stale[o] \cup want[o] => index[k][o] = LastRead(o, k)
        /\ pc[o] \in {"swap", "ops", "index"} /\ k = Current(o) => listed[o] = LastRead(o, k)
  BY DEF FreshInv
<1> USE <1>a DEF TypeOK, LastRead, upstreams, server
<1>0. CASE UNCHANGED vars
  BY <1>0 DEF vars, Current
<1>1. ASSUME NEW m \in Module, NEW j \in Kind, NEW S \in SUBSET Name, Change(m, j, S)
      PROVE  Fresh
  <2>1. Current(o)' = Current(o)
    BY <1>1 DEF Change, Current
  <2>2. k \notin event[o] /\ LastRead(o, k)' = LastRead(o, k)
    BY <1>1 DEF Change, LastRead
  <2> QED
    BY <1>1, <2>1, <2>2 DEF Change
<1>2. ASSUME NEW m \in Module, NEW j \in Kind, Receive(m, j) PROVE Fresh
  <2>1. o # m => Current(o)' = Current(o)
    BY <1>2 DEF Receive, Current
  <2>2. CASE o = m
    <3>1. want[m] = {}
      BY <1>2 DEF Receive, WatchInv
    <3> QED
      BY <1>2, <2>2, <3>1 DEF Receive
  <2>3. CASE o # m
    BY <1>2, <2>1, <2>3 DEF Receive
  <2> QED
    BY <2>2, <2>3
<1>3. ASSUME NEW m \in Module, Drain(m) PROVE Fresh
  <2>1. o # m => Current(o)' = Current(o)
    BY <1>3 DEF Drain, Current
  <2> QED
    BY <1>3, <2>1 DEF Drain
<1>4. ASSUME NEW m \in Module, ListUpstream(m) PROVE Fresh
  <2>1. Current(o)' = Current(o)
    BY <1>4 DEF ListUpstream, Current
  <2>2. CASE m = o /\ k = Current(m)
    <3>1. k \in want[m] /\ k \in Kind
      BY <1>4, <2>2, CurrentIsWanted DEF ListUpstream, WatchInv
    <3>2. LastRead(o, k)' = offered[o][k]
      BY <1>4, <2>2 DEF ListUpstream, LastRead
    <3>3. listed'[o] = offered[o][k] /\ k \in want'[o]
      BY <1>4, <2>2, <3>1 DEF ListUpstream
    <3> QED
      BY <3>2, <3>3
  <2>3. CASE ~(m = o /\ k = Current(m))
    <3>1. LastRead(o, k)' = LastRead(o, k)
      BY <1>4, <2>3 DEF ListUpstream, LastRead
    <3> QED
      BY <1>4, <2>1, <2>3, <3>1 DEF ListUpstream
  <2> QED
    BY <2>2, <2>3
<1>10. ASSUME NEW m \in Module, ListMisread(m) PROVE Fresh
  <2>1. Current(o)' = Current(o)
    BY <1>10 DEF ListMisread, Current
  <2>2. (m = o /\ k = Tools) \/ LastRead(o, k)' = LastRead(o, k)
    BY <1>10, UpstreamAssumption DEF ListMisread, LastRead
  <2>3. CASE m = o /\ k = Tools
    <3>1. LastRead(o, k)' = {} /\ listed'[o] = {} /\ k \in want'[o]
      BY <1>10, <2>3, UpstreamAssumption, CurrentIsWanted DEF ListMisread, LastRead, WatchInv
    <3> QED
      BY <3>1
  <2> QED
    BY <1>10, <2>1, <2>2, <2>3 DEF ListMisread
<1>5. ASSUME NEW m \in Module, ListFails(m) PROVE Fresh
  <2>1. o # m => Current(o)' = Current(o)
    BY <1>5 DEF ListFails, Current
  <2> QED
    BY <1>5, <2>1 DEF ListFails
<1>6. ASSUME NEW m \in Module, SwapEntries(m) PROVE Fresh
  <2>1. Current(o)' = Current(o)
    BY <1>6 DEF SwapEntries, Current
  <2> QED
    BY <1>6, <2>1 DEF SwapEntries
<1>7. ASSUME NEW m \in Module, SwapOperations(m) PROVE Fresh
  <2>1. Current(o)' = Current(o)
    BY <1>7 DEF SwapOperations, Current
  <2> QED
    BY <1>7, <2>1 DEF SwapOperations
<1>8. ASSUME NEW m \in Module, SetIndex(m) PROVE Fresh
  <2>1. Current(m) \in Kind
    BY <1>8, CurrentIsWanted DEF SetIndex, WatchInv
  <2>2. o # m => Current(o)' = Current(o)
    BY <1>8 DEF SetIndex, Current
  <2>3. CASE o = m
    <3>1. CASE k = Current(m)
      BY <1>8, <2>1, <2>3, <3>1 DEF SetIndex
    <3>2. CASE k # Current(m)
      BY <1>8, <2>1, <2>3, <3>2 DEF SetIndex
    <3> QED
      BY <3>1, <3>2
  <2>4. CASE o # m
    BY <1>8, <2>2, <2>4 DEF SetIndex
  <2> QED
    BY <2>3, <2>4
<1>9. ASSUME NEW m \in Module, Disconnect(m) PROVE Fresh
  BY <1>9 DEF Disconnect, Current
<1> QED
  BY <1>0, <1>1, <1>2, <1>3, <1>4, <1>5, <1>6, <1>7, <1>8, <1>9, <1>10 DEF Next, Watch

\* A watcher with nothing to do has the list its upstream offers, unless a
\* refresh failed.
THEOREM IdleStaysCurrent == Spec => []IdleIsCurrent
<1>1. Init => FreshInv
  BY DEF Init, FreshInv
<1>2. TypeOK /\ WatchInv /\ FreshInv => IdleIsCurrent
  BY DEF WatchInv, FreshInv, IdleIsCurrent
<1> QED
  BY <1>1, <1>2, FreshStep, TypeCorrect, PTL DEF Spec

-----------------------------------------------------------------------------

\* A module's lists hold only names that it may offer.
NamesInv ==
    \A m \in Module :
        /\ listed[m] \subseteq Names(m)
        /\ \A k \in Kind : offered[m][k] \subseteq Names(m) /\ index[k][m] \subseteq Names(m)

\* No step puts another name into a module's lists.
LEMMA NamesStep == TypeOK /\ WatchInv /\ NamesInv /\ [Next]_vars => NamesInv'
<1> SUFFICES ASSUME TypeOK, WatchInv, NamesInv, [Next]_vars PROVE NamesInv'
  OBVIOUS
<1> USE DEF TypeOK, NamesInv, upstreams, server
<1>0. CASE UNCHANGED vars
  BY <1>0 DEF vars
<1>1. ASSUME NEW m \in Module, NEW j \in Kind, NEW S \in SUBSET Name, Change(m, j, S)
      PROVE  NamesInv'
  BY <1>1 DEF Change
<1>2. ASSUME NEW m \in Module, NEW j \in Kind,
             Receive(m, j) \/ Drain(m) \/ ListFails(m) \/ SwapEntries(m)
               \/ SwapOperations(m) \/ Disconnect(m)
      PROVE  NamesInv'
  <2>1. offered' = offered /\ listed' = listed /\ index' = index
    BY <1>2 DEF Receive, Drain, ListFails, SwapEntries, SwapOperations, Disconnect
  <2> QED
    BY <2>1
<1>3. ASSUME NEW m \in Module, ListUpstream(m) PROVE NamesInv'
  <2>1. Current(m) \in Kind
    BY <1>3, CurrentIsWanted DEF ListUpstream, WatchInv
  <2> QED
    BY <1>3, <2>1 DEF ListUpstream
<1>5. ASSUME NEW m \in Module, ListMisread(m) PROVE NamesInv'
  BY <1>5 DEF ListMisread
<1>4. ASSUME NEW m \in Module, SetIndex(m) PROVE NamesInv'
  BY <1>4 DEF SetIndex
<1> QED
  BY <1>0, <1>1, <1>2, <1>3, <1>4, <1>5, UpstreamAssumption DEF Next, Watch

\* What a name that only m may offer leads to, through m's swap.
Served(m, n) ==
    LET Is(S) == IF n \in S THEN m ELSE NoOne IN
    /\ \A k \in Kind :
          owner[k][n] = Is(IF pc[m] \in Quiet \/ k # Current(m) THEN index[k][m]
                           ELSE listed[m])
    /\ op[n] = Is(IF pc[m] = "index" /\ Current(m) = Tools THEN listed[m]
                  ELSE index[Tools][m])

ServedInv == \A m \in Module : \A n \in Uncontested(m) : Served(m, n)

\* The swaps of the other modules leave the name alone, m's own does with it
\* what the list says.
LEMMA ServedStep ==
    TypeOK /\ WatchInv /\ NamesInv /\ ServedInv /\ [Next]_vars => ServedInv'
<1> SUFFICES ASSUME TypeOK, WatchInv, NamesInv, ServedInv, [Next]_vars,
                    NEW o \in Module, NEW n \in Uncontested(o)
             PROVE  Served(o, n)'
  BY DEF ServedInv, Uncontested
<1>a. Served(o, n)
  BY DEF ServedInv
<1>b. /\ n \in Name
      /\ \A m \in Module : m # o => n \notin Names(m)
  BY DEF Uncontested, Name
<1>c. Tools \in Kind
  BY UpstreamAssumption
<1> USE <1>a, <1>b, <1>c DEF TypeOK, Quiet, Served, upstreams, server
<1>0. CASE UNCHANGED vars
  BY <1>0 DEF vars, Current
<1>1. ASSUME NEW m \in Module, NEW j \in Kind, NEW S \in SUBSET Name, Change(m, j, S)
      PROVE  Served(o, n)'
  <2>1. Current(o)' = Current(o)
    BY <1>1 DEF Change, Current
  <2> QED
    BY <1>1, <2>1 DEF Change
<1>2. ASSUME NEW m \in Module, NEW j \in Kind, Receive(m, j) PROVE Served(o, n)'
  <2>1. o # m => Current(o)' = Current(o)
    BY <1>2 DEF Receive, Current
  <2> QED
    BY <1>2, <2>1 DEF Receive
<1>3. ASSUME NEW m \in Module, Drain(m) PROVE Served(o, n)'
  <2>1. o # m => Current(o)' = Current(o)
    BY <1>3 DEF Drain, Current
  <2> QED
    BY <1>3, <2>1 DEF Drain
<1>4. ASSUME NEW m \in Module, ListUpstream(m) PROVE Served(o, n)'
  <2>1. Current(o)' = Current(o)
    BY <1>4 DEF ListUpstream, Current
  <2> QED
    BY <1>4, <2>1 DEF ListUpstream
<1>10. ASSUME NEW m \in Module, ListMisread(m) PROVE Served(o, n)'
  <2>1. Current(o)' = Current(o)
    BY <1>10 DEF ListMisread, Current
  <2> QED
    BY <1>10, <2>1 DEF ListMisread
<1>5. ASSUME NEW m \in Module, ListFails(m) PROVE Served(o, n)'
  <2>1. o # m => Current(o)' = Current(o)
    BY <1>5 DEF ListFails, Current
  <2> QED
    BY <1>5, <2>1 DEF ListFails
<1>6. ASSUME NEW m \in Module, SwapEntries(m) PROVE Served(o, n)'
  <2>1. Current(o)' = Current(o)
    BY <1>6 DEF SwapEntries, Current
  <2>2. Current(m) \in Kind
    BY <1>6, CurrentIsWanted DEF SwapEntries, WatchInv
  <2>3. \A k \in Kind : owner'[k][n] = IF k = Current(m) THEN Swapped(m, n) ELSE owner[k][n]
    BY <1>6, <2>2 DEF SwapEntries
  <2>4. CASE o = m
    <3>1. Swapped(m, n) = IF n \in listed[m] THEN m ELSE NoOne
      BY <1>6, <2>2, <2>4 DEF Swapped, SwapEntries
    <3> QED
      BY <1>6, <2>1, <2>2, <2>3, <2>4, <3>1 DEF SwapEntries
  <2>5. CASE o # m
    <3>1. n \notin listed[m] /\ n \notin index[Current(m)][m]
      BY <2>2, <2>5 DEF NamesInv
    <3>2. Swapped(m, n) = owner[Current(m)][n]
      BY <3>1 DEF Swapped
    <3> QED
      BY <1>6, <2>1, <2>3, <2>5, <3>2 DEF SwapEntries
  <2> QED
    BY <2>4, <2>5
<1>7. ASSUME NEW m \in Module, SwapOperations(m) PROVE Served(o, n)'
  <2>1. Current(o)' = Current(o)
    BY <1>7 DEF SwapOperations, Current
  <2>2. op'[n] = SwappedOp(m, n)
    BY <1>7 DEF SwapOperations
  <2>3. CASE o = m
    <3>1. Current(m) = Tools
      BY <1>7 DEF SwapOperations, WatchInv
    <3> QED
      BY <1>7, <2>1, <2>2, <2>3, <3>1 DEF SwapOperations, SwappedOp
  <2>4. CASE o # m
    <3>1. n \notin listed[m] /\ n \notin index[Tools][m]
      BY <2>4 DEF NamesInv
    <3> QED
      BY <1>7, <2>1, <2>2, <2>4, <3>1 DEF SwapOperations, SwappedOp
  <2> QED
    BY <2>3, <2>4
<1>8. ASSUME NEW m \in Module, SetIndex(m) PROVE Served(o, n)'
  <2>1. Current(m) \in Kind
    BY <1>8, CurrentIsWanted DEF SetIndex, WatchInv
  <2>2. CASE o = m
    BY <1>8, <2>1, <2>2 DEF SetIndex
  <2>3. CASE o # m
    <3>1. Current(o)' = Current(o)
      BY <1>8, <2>3 DEF SetIndex, Current
    <3> QED
      BY <1>8, <2>3, <3>1 DEF SetIndex
  <2> QED
    BY <2>2, <2>3
<1>9. ASSUME NEW m \in Module, Disconnect(m) PROVE Served(o, n)'
  <2>1. Current(o)' = Current(o)
    BY <1>9 DEF Disconnect, Current
  <2> QED
    BY <1>9, <2>1 DEF Disconnect
<1> QED
  BY <1>0, <1>1, <1>2, <1>3, <1>4, <1>5, <1>6, <1>7, <1>8, <1>9, <1>10 DEF Next, Watch

\* The names no one else may offer are served by their module exactly when its
\* last list had them.
THEOREM ServesOwnNames == Spec => []OwnNamesServed
<1>1. Init => NamesInv
  <2> SUFFICES ASSUME Init, NEW m \in Module
               PROVE  /\ listed[m] \subseteq Names(m)
                      /\ \A k \in Kind : /\ offered[m][k] \subseteq Names(m)
                                         /\ index[k][m] = LastRead(m, k)
    BY DEF NamesInv, LastRead
  <2>1. listed[m] = {}
    BY DEF Init
  <2>2. \A k \in Kind : offered[m][k] \subseteq Names(m)
    BY DEF Init
  <2>3. \A k \in Kind : index[k][m] = LastRead(m, k)
    BY DEF Init
  <2> QED
    BY <2>1, <2>2, <2>3 DEF LastRead
<1>2. Init => ServedInv
  <2> SUFFICES ASSUME Init, NEW m \in Module, NEW n \in Uncontested(m)
               PROVE  Served(m, n)
    BY DEF ServedInv
  <2>1. n \in Name /\ n \notin BuiltinNames
    BY DEF Uncontested, Name
  <2>2. \A k \in Kind, o \in Module : o # m => n \notin LastRead(o, k)
    BY DEF Init, Uncontested, LastRead
  <2>3. \A k \in Kind :
          Registrant(k, n) = IF n \in LastRead(m, k) THEN m ELSE NoOne
    BY <2>1, <2>2 DEF Registrant
  <2> QED
    BY <2>1, <2>3, UpstreamAssumption DEF Init, Served, Quiet
<1>3. ServedInv => OwnNamesServed
  <2> SUFFICES ASSUME ServedInv, NEW m \in Module, pc[m] \in {"idle", "window", "list"},
                      NEW n \in Uncontested(m)
               PROVE  /\ \A k \in Kind :
                            owner[k][n] = IF n \in index[k][m] THEN m ELSE NoOne
                      /\ op[n] = IF n \in index[Tools][m] THEN m ELSE NoOne
    BY DEF OwnNamesServed
  <2>1. Served(m, n) /\ pc[m] \in Quiet
    BY DEF ServedInv, Quiet
  <2> QED
    BY <2>1 DEF Served
<1> QED
  BY <1>1, <1>2, <1>3, NamesStep, ServedStep, TypeCorrect, PTL DEF Spec

=============================================================================
