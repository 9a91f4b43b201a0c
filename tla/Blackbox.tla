------------------------------ MODULE Blackbox ------------------------------
(***************************************************************************)
(* The audit blackbox of the gateway (navra-core/src/blackbox.rs): a       *)
(* SQLite table of hash-chained rows, and the writers that append to it.   *)
(* A Blackbox value keeps its own chain head (ChainState), read from the   *)
(* table once when the database is opened and never again.  Several are    *)
(* open on one file at a time: the gateway's own (navra-server main.rs),   *)
(* the verdict sink of the monitoring agent (setup/hooks.rs), and those of *)
(* the other `navra mcp stdio' processes of the same user.                 *)
(*                                                                         *)
(* SHA-256 is idealised as injective: the hash of a record is the sequence *)
(* of the [number, text] pairs it depends on, so two hashes are equal      *)
(* exactly when the texts they were made of are.  The text of a record is  *)
(* not its columns: those are joined with a `|' that a column may hold     *)
(* itself, so different columns can join to one text.                      *)
(***************************************************************************)
EXTENDS Naturals, Sequences, FiniteSets, FiniteSetsExt

CONSTANTS
    Handle,      \* openings of the database, each with its own chain head
    Content,     \* what a record says: the hashed columns, sanitised and truncated
    Joined,      \* the text of each Content: its columns with `|' between them
    IoErrors,    \* {FALSE}, or BOOLEAN where a statement of SQLite may fail
    Retention,   \* the retention ages a configuration may set; {} keeps all
    MaxRecords,  \* bound: calls of record() in all
    MaxClock     \* bound: the last instant of the wall clock

ASSUME IoErrorsAssumption == IoErrors \subseteq BOOLEAN
ASSUME RetentionAssumption == Retention \subseteq Nat
ASSUME ClockAssumption == MaxClock \in Nat

VARIABLES
    table,    \* the rows on disk, by seq (PRIMARY KEY)
    phase,    \* of each handle: unopened, fresh (no call made yet), open, closed
    head,     \* of each handle: ChainState, the last seq and hash it knows of
    clock,    \* the wall clock
    log,      \* history: the calls of record(), in order
    alone,    \* history: handles that read the head and never overlapped another
    expired,  \* history: retention deleted a row
    edited    \* history: rows on disk changed from outside

vars == <<table, phase, head, clock, log, alone, expired, edited>>

Zero == << >>

Text == {Joined[c] : c \in Content}

\* The SHA-256 of `seq|prev_hash|agent|tool|args|result|outcome': the first two
\* are digits and 64 characters and hold no `|'.
Hash(seq, prev, content) == Append(prev, <<seq, Joined[content]>>)

Row == [content : Content, prev : Seq(Nat \X Text), hash : Seq(Nat \X Text), at : Nat]

Opened == {h \in Handle : phase[h] \in {"fresh", "open"}}

----------------------------------------------------------------------------
(* Opening *)

LastRow == table[Max(DOMAIN table)]

ResumeFrom_Count(failed) ==
    IF failed \/ DOMAIN table = {}
    THEN [seq |-> 0, prev |-> Zero]
    ELSE [seq |-> Cardinality(DOMAIN table), prev |-> LastRow.hash]

ResumeFrom_ZeroHash(failed) ==
    IF failed \/ DOMAIN table = {}
    THEN [seq |-> 0, prev |-> Zero]
    ELSE [seq |-> Max(DOMAIN table), prev |-> Zero]

\* SELECT seq, hash ... ORDER BY seq DESC LIMIT 1, and the default of
\* unwrap_or when there is no row or the query fails.
ResumeFrom(failed) ==
    IF failed \/ DOMAIN table = {}
    THEN [seq |-> 0, prev |-> Zero]
    ELSE [seq |-> Max(DOMAIN table), prev |-> LastRow.hash]

Open(h, io) ==
    /\ phase[h] = "unopened"
    /\ phase' = [phase EXCEPT ![h] = "fresh"]
    /\ head' = [head EXCEPT ![h] = ResumeFrom(io)]
    /\ alone' = IF Opened = {} THEN (IF io THEN alone ELSE alone \cup {h})
                               ELSE alone \ Opened
    /\ UNCHANGED <<table, clock, log, expired, edited>>

----------------------------------------------------------------------------
(* Recording *)

NextSeq(h) == head[h].seq + 1

Advanced_OnlyIfKept(h, seq, hash, kept) ==
    [seq |-> seq, prev |-> IF kept THEN hash ELSE head[h].prev]

\* The head moves on whether or not the row was stored: the error is logged.
Advanced(h, seq, hash, kept) == [seq |-> seq, prev |-> hash]

\* record_with_obo, under the handle's chain lock throughout.  The INSERT fails
\* on an error of SQLite, and on a seq that is already there.
Record(h, c, io) ==
    LET seq  == NextSeq(h)
        prev == head[h].prev
        hash == Hash(seq, prev, c)
        kept == ~io /\ seq \notin DOMAIN table
    IN  /\ h \in Opened
        /\ Len(log) < MaxRecords
        /\ table' = IF kept
                    THEN [s \in DOMAIN table \cup {seq} |->
                            IF s = seq
                            THEN [content |-> c, prev |-> prev, hash |-> hash, at |-> clock]
                            ELSE table[s]]
                    ELSE table
        /\ head' = [head EXCEPT ![h] = Advanced(h, seq, hash, kept)]
        /\ phase' = [phase EXCEPT ![h] = "open"]
        /\ log' = Append(log, [by |-> h, hash |-> hash, kept |-> kept, io |-> io])
        /\ UNCHANGED <<clock, alone, expired, edited>>

----------------------------------------------------------------------------
(* Retention, once, between the opening and the first record *)

Stale_Reversed(s, age) == table[s].at + age >= clock

Stale(s, age) == table[s].at + age < clock

Expire(h, age) ==
    LET old == {s \in DOMAIN table : Stale(s, age)}
    IN  /\ phase[h] = "fresh"
        /\ phase' = [phase EXCEPT ![h] = "open"]
        /\ table' = [s \in DOMAIN table \ old |-> table[s]]
        /\ expired' = (expired \/ old # {})
        /\ edited' = edited \ old
        /\ UNCHANGED <<head, clock, log, alone>>

----------------------------------------------------------------------------
(* What happens outside the code *)

\* The process ends, by a crash or in order: nothing is flushed either way, and
\* the chain head is gone.
Close(h) ==
    /\ h \in Opened
    /\ phase' = [phase EXCEPT ![h] = "closed"]
    /\ head' = [head EXCEPT ![h] = [seq |-> 0, prev |-> Zero]]
    /\ UNCHANGED <<table, clock, log, alone, expired, edited>>

\* The wall clock moves on.
Tick ==
    /\ clock < MaxClock
    /\ clock' = clock + 1
    /\ UNCHANGED <<table, phase, head, log, alone, expired, edited>>

\* A hashed column of one row is changed on disk (test hash_chain_detects_tamper).
Edit(s, c) ==
    /\ edited = {}
    /\ table[s].content # c
    /\ table' = [table EXCEPT ![s].content = c]
    /\ edited' = {s}
    /\ UNCHANGED <<phase, head, clock, log, alone, expired>>

Init ==
    /\ table = << >>
    /\ phase = [h \in Handle |-> "unopened"]
    /\ head = [h \in Handle |-> [seq |-> 0, prev |-> Zero]]
    /\ clock = 0
    /\ log = << >>
    /\ alone = {}
    /\ expired = FALSE
    /\ edited = {}

Next ==
    \/ \E h \in Handle :
         \/ \E io \in IoErrors : Open(h, io)
         \/ \E c \in Content, io \in IoErrors : Record(h, c, io)
         \/ \E age \in Retention : Expire(h, age)
         \/ Close(h)
    \/ Tick
    \/ \E s \in DOMAIN table, c \in Content : Edit(s, c)

Spec == Init /\ [][Next]_vars

----------------------------------------------------------------------------
(* verify_chain *)

Before(s) == {t \in DOMAIN table : t < s}

ExpectedPrev(s) == IF Before(s) = {} THEN Zero ELSE table[Max(Before(s))].hash

Recomputes_Skipped(s) == TRUE

Recomputes(s) == table[s].hash = Hash(s, table[s].prev, table[s].content)

BrokenRows == {s \in DOMAIN table : table[s].prev # ExpectedPrev(s) \/ ~Recomputes(s)}

\* verify_chain's (valid_count, first_broken_seq), with 0 for None.
VerifyChain ==
    [valid  |-> Cardinality({s \in DOMAIN table : \A b \in BrokenRows : s < b}),
     broken |-> IF BrokenRows = {} THEN 0 ELSE Min(BrokenRows)]

\* verify_on_open.
Clean == VerifyChain.broken = 0
----------------------------------------------------------------------------
(* Properties *)

\* The table is keyed by numbers from 1 and every part of the state has its type.
TypeOK ==
    /\ DOMAIN table \subseteq Nat \ {0}
    /\ \A s \in DOMAIN table : table[s] \in Row
    /\ phase \in [Handle -> {"unopened", "fresh", "open", "closed"}]
    /\ head \in [Handle -> [seq : Nat, prev : Seq(Nat \X Text)]]
    /\ clock \in 0 .. MaxClock
    /\ log \in Seq([by : Handle, hash : Seq(Nat \X Text), kept : BOOLEAN, io : BOOLEAN])
    /\ alone \subseteq Handle
    /\ expired \in BOOLEAN
    /\ edited \subseteq DOMAIN table

\* Some writer has been open together with another, or opened without the head.
Overlapped == \E h \in Handle : phase[h] # "unopened" /\ h \notin alone

\* Every call of record() has its row: "if navra runs, it records".
EveryCallRecorded == \A i \in DOMAIN log : log[i].kept

StoredHashes == {table[s].hash : s \in DOMAIN table}

\* A handle that read the head when it was opened, and has had the database to
\* itself since, stores every record the disk accepts, whatever crashes, lost
\* rows, retention and other processes came before it.
RecordsWhenAlone ==
    [][\A h \in alone, c \in Content : Record(h, c, FALSE) => log'[Len(log')].kept]_vars

\* The verification fails for a reason only: a record was lost, a row expired,
\* or a row was changed on disk.  Restarts and writers that overlap without
\* losing a record never break the chain.
BreaksHaveCause ==
    EveryCallRecorded /\ ~expired /\ edited = {} => Clean

\* The text that the i-th call of record() hashed.
Said(i) == log[i].hash[Len(log[i].hash)][2]

\* The rows whose columns no longer join to the text that was recorded.
Changed == {s \in DOMAIN table : Joined[table[s].content] # Said(s)}

\* Where nothing was lost or expired, verify_chain reports a row that was changed
\* on disk at its own number, after as many valid rows as there are before it,
\* whatever restarts and writers the rows are from; it reports none when the
\* columns still join to the text that was recorded.
EditsLocated ==
    edited # {} /\ EveryCallRecorded /\ ~expired =>
        VerifyChain = IF Changed = {} THEN [valid |-> Len(log), broken |-> 0]
                      ELSE [valid |-> Min(Changed) - 1, broken |-> Min(Changed)]

\* "Each entry includes SHA-256 of the previous, so tampering is detectable by
\* verifying the chain" (blackbox.rs:7-8): a change to a hashed column of a row
\* still in the table is always reported.  A change that moves text across a `|'
\* between two columns is not.
EditsShow == edited # {} => ~Clean

\* The rows of a table that verifies are numbered 1, 2, 3, ... without a gap.
CleanIsContiguous ==
    Clean => \A s \in DOMAIN table : s > 1 => s - 1 \in DOMAIN table

\* A table that verifies holds, for each row, all that its writer recorded
\* before it: a loss or a retention cannot hide behind a later row.  (Records
\* with equal hashes stand for each other.)
LossShows ==
    Clean => \A i, j \in DOMAIN log :
               /\ i < j
               /\ log[i].by = log[j].by
               /\ log[j].hash \in StoredHashes
               => log[i].hash \in StoredHashes

\* As long as no two writers overlap and nothing is lost, retention leaves one
\* unbroken run of rows: at most the first of them fails the verification.
RemainderLinks ==
    ~Overlapped /\ EveryCallRecorded /\ edited = {}
        => \A s \in BrokenRows : Before(s) = {}
=============================================================================
