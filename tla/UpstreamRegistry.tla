--------------------------- MODULE UpstreamRegistry ---------------------------
(***************************************************************************)
(* The gateway's registries of tools, prompts and resources while its      *)
(* upstream servers change theirs: one watcher per upstream receives       *)
(* list_changed events, waits out a debounce window, lists again and       *)
(* swaps the module's entries (navra-core upstream_module.rs,              *)
(* server/handlers.rs).  Every step of a swap takes its own lock, so the   *)
(* swaps of different modules interleave.                                  *)
(***************************************************************************)
EXTENDS Naturals, Sequences

CONSTANTS
    Module,      \* upstream modules, each with its watcher
    NoOne,       \* the owner of a name that is not registered
    Builtin,     \* the owner of what no upstream module registered
    Kinds,       \* the registries, in the order refresh_once goes through them
    Tools,       \* the registry whose entries have operations as well
    Names(_),    \* the names a module may offer
    BuiltinNames,\* names of built-in entries
    MaxChanges   \* bound on the changes of upstream lists

Kind == {Kinds[i] : i \in DOMAIN Kinds}
Name == UNION {Names(m) : m \in Module} \cup BuiltinNames

ASSUME UpstreamAssumption ==
    /\ NoOne \notin Module \cup {Builtin} /\ Builtin \notin Module
    /\ Kinds \in Seq(Kind) /\ Tools \in Kind /\ MaxChanges \in Nat

VARIABLES
    \* the upstream servers
    offered,  \* what each offers
    event,    \* list_changed events its watcher has not received
    changes,  \* changes so far
    \* the watchers
    pc,
    want,     \* refresh_tools, refresh_prompts, refresh_resources
    listed,   \* the answer to the listing
    stale,    \* registries whose last refresh failed, or was given up for
              \* the failure of another one
    misread,  \* registries whose last listing was an error taken for an empty list
    \* the server
    owner,    \* the registries: whose handler a name leads to
    op,       \* tool_operations and tool_classifications: who set the entry
    index     \* upstream_tool_index and its siblings

upstreams == <<offered, event, changes>>
server == <<owner, op, index>>
vars == <<upstreams, pc, want, listed, stale, misread, server>>

-----------------------------------------------------------------------------

TypeOK ==
    /\ offered \in [Module -> [Kind -> SUBSET Name]]
    /\ event \in [Module -> SUBSET Kind]
    /\ changes \in 0..MaxChanges
    /\ pc \in [Module -> {"idle", "window", "list", "swap", "ops", "index", "gone"}]
    /\ want \in [Module -> SUBSET Kind]
    /\ listed \in [Module -> SUBSET Name]
    /\ stale \in [Module -> SUBSET Kind] /\ misread \in [Module -> SUBSET Kind]
    /\ owner \in [Kind -> [Name -> Module \cup {Builtin, NoOne}]]
    /\ op \in [Name -> Module \cup {Builtin, NoOne}]
    /\ index \in [Kind -> [Module -> SUBSET Name]]

\* What a listing of what is offered now gives, or gave
LastRead(m, k) == IF k \in misread[m] THEN {} ELSE offered[m][k]

\* Two modules, or a module and a built-in, register the same name
Conflict ==
    \E k \in Kind, n \in Name, m \in Module : n \in LastRead(m, k) /\
        (n \in BuiltinNames \/ \E o \in Module \ {m} : n \in LastRead(o, k))

Registrant(k, n) ==
    IF n \in BuiltinNames THEN Builtin
    ELSE IF \E m \in Module : n \in LastRead(m, k)
         THEN CHOOSE m \in Module : n \in LastRead(m, k) ELSE NoOne

\* McpServerBuilder::module, which panics on a conflict.  At start-up an error,
\* and for prompts and resources a time-out, registers nothing (list_with_timeout)
Init ==
    /\ offered \in [Module -> [Kind -> SUBSET Name]]
    /\ \A m \in Module, k \in Kind : offered[m][k] \subseteq Names(m)
    /\ misread \in [Module -> SUBSET Kind]
    /\ ~Conflict
    /\ event = [m \in Module |-> {}]
    /\ changes = 0
    /\ pc = [m \in Module |-> "idle"]
    /\ want = [m \in Module |-> {}]
    /\ listed = [m \in Module |-> {}]
    /\ stale = [m \in Module |-> {}]
    /\ owner = [k \in Kind |-> [n \in Name |-> Registrant(k, n)]]
    /\ op = [n \in Name |-> Registrant(Tools, n)]
    /\ index = [k \in Kind |-> [m \in Module |-> LastRead(m, k)]]

-----------------------------------------------------------------------------

\* An upstream changes a list and says so
Change(m, k, S) ==
    /\ changes < MaxChanges
    /\ S \subseteq Names(m) /\ S # offered[m][k]
    /\ offered' = [offered EXCEPT ![m][k] = S]
    /\ event' = [event EXCEPT ![m] = @ \cup {k}]
    /\ changes' = changes + 1
    /\ UNCHANGED <<pc, want, listed, stale, misread, server>>

\* The watcher receives an event and starts the debounce window
Receive(m, k) ==
    /\ pc[m] = "idle" /\ k \in event[m]
    /\ event' = [event EXCEPT ![m] = @ \ {k}]
    /\ want' = [want EXCEPT ![m] = {k}]
    /\ pc' = [pc EXCEPT ![m] = "window"]
    /\ UNCHANGED <<offered, changes, listed, stale, misread, server>>

\* The end of the window: everything that arrived meanwhile is one refresh
Drain(m) ==
    /\ pc[m] = "window"
    /\ want' = [want EXCEPT ![m] = @ \cup event[m]]
    /\ event' = [event EXCEPT ![m] = {}]
    /\ pc' = [pc EXCEPT ![m] = "list"]
    /\ UNCHANGED <<offered, changes, listed, stale, misread, server>>

\* The registry refresh_once is at
Current(m) ==
    Kinds[CHOOSE i \in DOMAIN Kinds :
            /\ Kinds[i] \in want[m]
            /\ \A j \in DOMAIN Kinds : Kinds[j] \in want[m] => i <= j]

\* discover_tools, or list_strict for prompts and resources
ListUpstream(m) ==
    /\ pc[m] = "list"
    /\ listed' = [listed EXCEPT ![m] = offered[m][Current(m)]]
    /\ misread' = [misread EXCEPT ![m] = @ \ {Current(m)}]
    /\ pc' = [pc EXCEPT ![m] = "swap"]
    /\ UNCHANGED <<upstreams, want, stale, server>>

\* discover_tools takes the error of a tools/list request for an empty list,
\* which no manifest forbids, and answers Ok
ListMisread(m) ==
    /\ pc[m] = "list" /\ Current(m) = Tools
    /\ listed' = [listed EXCEPT ![m] = {}]
    /\ misread' = [misread EXCEPT ![m] = @ \cup {Tools}]
    /\ pc' = [pc EXCEPT ![m] = "swap"]
    /\ UNCHANGED <<upstreams, want, stale, server>>

\* The listing times out or is refused (bounds, manifest), or that of prompts or
\* resources fails; what was still to refresh is not
ListFails(m) ==
    /\ pc[m] = "list"
    /\ stale' = [stale EXCEPT ![m] = @ \cup want[m]]
    /\ want' = [want EXCEPT ![m] = {}]
    /\ pc' = [pc EXCEPT ![m] = "idle"]
    /\ UNCHANGED <<upstreams, listed, misread, server>>

\* Mutant: an entry stays when it is offered no longer
Swapped_Adding(m, n) ==
    IF n \in listed[m] /\ owner[Current(m)][n] = NoOne THEN m ELSE owner[Current(m)][n]

\* Removes what the module's index lists and inserts what is not taken
Swapped(m, n) ==
    LET k == Current(m)
        left == IF n \in index[k][m] THEN NoOne ELSE owner[k][n]
    IN IF n \in listed[m] /\ left = NoOne THEN m ELSE left

SwapEntries(m) ==
    LET k == Current(m) IN
    /\ pc[m] = "swap"
    /\ owner' = [owner EXCEPT ![k] = [n \in Name |-> Swapped(m, n)]]
    /\ pc' = [pc EXCEPT ![m] = IF k = Tools THEN "ops" ELSE "index"]
    /\ UNCHANGED <<upstreams, want, listed, stale, misread, op, index>>

\* Mutant: the old operations are removed after the new ones were set
SwappedOp_RemovedLast(m, n) ==
    IF n \in index[Tools][m] THEN NoOne
    ELSE IF n \in listed[m] THEN m ELSE op[n]

SwappedOp(m, n) ==
    IF n \in listed[m] THEN m
    ELSE IF n \in index[Tools][m] THEN NoOne ELSE op[n]

\* The operations and the classifications, for refused tools too
SwapOperations(m) ==
    /\ pc[m] = "ops"
    /\ op' = [n \in Name |-> SwappedOp(m, n)]
    /\ pc' = [pc EXCEPT ![m] = "index"]
    /\ UNCHANGED <<upstreams, want, listed, stale, misread, owner, index>>

\* Mutant: events that arrived during the refresh are swallowed with it
SetIndex_Draining(m) ==
    LET k == Current(m) IN
    /\ pc[m] = "index"
    /\ index' = [index EXCEPT ![k][m] = listed[m]]
    /\ listed' = [listed EXCEPT ![m] = {}]
    /\ want' = [want EXCEPT ![m] = @ \ {k}]
    /\ event' = [event EXCEPT ![m] = @ \ {k}]
    /\ stale' = [stale EXCEPT ![m] = @ \ {k}]
    /\ pc' = [pc EXCEPT ![m] = IF want[m] = {k} THEN "idle" ELSE "list"]
    /\ UNCHANGED <<offered, changes, misread, owner, op>>

\* The index lists what the module offers, registered or refused
SetIndex(m) ==
    LET k == Current(m) IN
    /\ pc[m] = "index"
    /\ index' = [index EXCEPT ![k][m] = listed[m]]
    /\ listed' = [listed EXCEPT ![m] = {}]
    /\ want' = [want EXCEPT ![m] = @ \ {k}]
    /\ stale' = [stale EXCEPT ![m] = @ \ {k}]
    /\ pc' = [pc EXCEPT ![m] = IF want[m] = {k} THEN "idle" ELSE "list"]
    /\ UNCHANGED <<upstreams, misread, owner, op>>

\* The upstream's connection drops; its entries stay
Disconnect(m) ==
    /\ pc[m] = "idle" /\ event[m] = {}
    /\ pc' = [pc EXCEPT ![m] = "gone"]
    /\ UNCHANGED <<upstreams, want, listed, stale, misread, server>>

Watch(m) ==
    \/ \E k \in Kind : Receive(m, k)
    \/ Drain(m) \/ ListUpstream(m) \/ ListMisread(m) \/ ListFails(m)
    \/ SwapEntries(m) \/ SwapOperations(m) \/ SetIndex(m)

Next ==
    \E m \in Module :
        \/ \E k \in Kind : \E S \in SUBSET Name : Change(m, k, S)
        \/ Watch(m) \/ Disconnect(m)

Spec == Init /\ [][Next]_vars

-----------------------------------------------------------------------------

\* Between refreshes a registry leads a name to a module only if the module's
\* last list had it: swap_upstream_tools leaves nothing behind, whatever names
\* the modules contest.
OwnersOffer ==
    \A k \in Kind, n \in Name, m \in Module :
        owner[k][n] = m /\ pc[m] \in {"idle", "window", "list"} => n \in index[k][m]

\* No change is lost in the debounce window, during a refresh or between two:
\* a watcher with nothing to do has the list its upstream offers, unless the
\* refresh of that registry, or of one before it, failed (then it has an older
\* one), or the listing was an error taken for an empty list (then it has none).
IdleIsCurrent ==
    \A m \in Module, k \in Kind :
        pc[m] = "idle" /\ k \notin event[m] \cup stale[m] => index[k][m] = LastRead(m, k)

Uncontested(m) ==
    {n \in Names(m) \ BuiltinNames : \A o \in Module \ {m} : n \notin Names(o)}

\* The names no one else may offer are served by their module, with its
\* operation, exactly when its last list had them, whatever the swaps of
\* other modules do meanwhile.
OwnNamesServed ==
    \A m \in Module : pc[m] \in {"idle", "window", "list"} =>
        \A n \in Uncontested(m) :
            /\ \A k \in Kind : owner[k][n] = IF n \in index[k][m] THEN m ELSE NoOne
            /\ op[n] = IF n \in index[Tools][m] THEN m ELSE NoOne

\* handlers.rs:2172 says that "A tool name that would collide with a tool
\* owned by a *different* module is refused (the last registrant does not
\* win - fail closed)": an entry changes hands only in its owner's own swap.
NoTakeover ==
    [][\A k \in Kind, n \in Name, m \in Module :
          owner[k][n] = m /\ owner'[k][n] # m => pc[m] = "swap" /\ pc'[m] # "swap"]_vars

\* upstream_module.rs:775 says that "A failed refresh keeps the existing tools
\* (fail closed to the last known-good set)": no module loses a tool that its
\* upstream has offered all the time.
FailedKeeps ==
    [][\A m \in Module, n \in Name :
          owner[Tools][n] = m /\ owner'[Tools][n] # m /\ pc'[m] # pc[m]
          => n \notin offered[m][Tools] \/ Tools \in event[m]]_vars

=============================================================================
