--------------------------- MODULE BlackboxProofs ---------------------------
(***************************************************************************)
(* Proofs about Blackbox for any number of writers, any records, any       *)
(* retention ages, with and without failures of the disk.                  *)
(***************************************************************************)
EXTENDS Blackbox, FiniteSetTheorems, WellFoundedInduction, SequenceTheorems, TLAPS

-----------------------------------------------------------------------------
(* Least and greatest numbers *)

\* A non-empty set of numbers has a least one.
LEMMA MinOf ==
    ASSUME NEW S \in SUBSET Nat, S # {}
    PROVE  Min(S) \in S /\ \A x \in S : Min(S) <= x
<1> DEFINE R == {ss \in Nat \X Nat : ss[1] < ss[2]}
<1>1. IsWellFoundedOn(R, Nat)
  BY NatLessThanWellFounded DEF OpToRel
<1> HIDE DEF R
<1>2. PICK m \in S : \A y \in S : ~ (<<y, m>> \in R)
  BY <1>1, WFMin
<1>3. ASSUME NEW y \in S PROVE m =< y
  <2>1. <<y, m>> \in Nat \X Nat /\ <<y, m>>[1] = y /\ <<y, m>>[2] = m
    OBVIOUS
  <2>2. ~ (y < m)
    BY <1>2, <2>1 DEF R
  <2> QED
    BY <2>2
<1> QED
  BY <1>3 DEF Min

\* A non-empty bounded set of numbers has a greatest one.
LEMMA MaxOf ==
    ASSUME NEW S \in SUBSET Nat, S # {}, NEW n \in Nat, \A x \in S : x <= n
    PROVE  Max(S) \in S /\ \A x \in S : x <= Max(S)
<1> DEFINE T == {n - x : x \in S}
<1>1. \A x \in S : n - x \in Nat
  OBVIOUS
<1>2. T \in SUBSET Nat /\ T # {}
  BY <1>1, Zenon
<1>3. \A x \in S : n - x \in T
  OBVIOUS
<1>4. PICK m \in S : Min(T) = n - m
  BY <1>2, MinOf
<1>5. \A y \in S : n - m <= n - y
  BY <1>2, <1>3, <1>4, MinOf
<1>6. \A y \in S : m >= y
  BY <1>5
<1> QED
  BY <1>6 DEF Max

\* The number of numbers up to one.
LEMMA CountUpTo ==
    ASSUME NEW n \in Nat
    PROVE  Cardinality(1 .. n) = n
<1>1. Cardinality(1 .. n) = IF 1 > n THEN 0 ELSE n - 1 + 1
  BY FS_Interval
<1> QED
  BY <1>1

-----------------------------------------------------------------------------
(* The inductive invariant *)

History == Seq(Nat \X Text)

\* A row's hash covers its number and the text of a record, to which the row's
\* columns join unless it was changed on disk.
RowShape ==
    \A s \in DOMAIN table :
      /\ Len(table[s].prev) = s - 1
      /\ \E c \in Content : /\ table[s].hash = Hash(s, table[s].prev, c)
                            /\ s \notin edited => Joined[c] = Joined[table[s].content]

\* A head covers as many records as its number says.
HeadShape == \A h \in Handle : Len(head[h].prev) = head[h].seq

\* Numbers count calls of record(), and rows are not from the future.
Bounded ==
    /\ \A s \in DOMAIN table : s <= Len(log) /\ table[s].at <= clock
    /\ \A h \in Handle : head[h].seq <= Len(log)

\* A writer that has been alone knows the last row.
AloneAhead ==
    /\ \A h \in alone : phase[h] # "unopened"
    /\ \A h \in alone \cap Opened :
         Opened = {h} /\ \A s \in DOMAIN table : s <= head[h].seq

Prefix(p, q) == Len(p) <= Len(q) /\ \A n \in 1 .. Len(p) : p[n] = q[n]

\* What a writer has recorded is part of all it records later.
OwnPast ==
    /\ \A i \in DOMAIN log : /\ phase[log[i].by] # "unopened"
                             /\ Len(log[i].hash) >= 1
                             /\ log[i].by \in Opened => Prefix(log[i].hash, head[log[i].by].prev)
    /\ \A i, j \in DOMAIN log :
         i < j /\ log[i].by = log[j].by => Prefix(log[i].hash, log[j].hash)

\* Where nothing is lost or expired, the table is all that was recorded, in the
\* order of the calls, linked, and every head stands on a row or before the first.
Chained ==
    EveryCallRecorded /\ ~expired =>
      /\ DOMAIN table = 1 .. Len(log)
      /\ \A s \in DOMAIN table : table[s].hash = log[s].hash
      /\ \A s \in DOMAIN table : s > 1 => table[s].prev = table[s - 1].hash
      /\ \A h \in Handle : head[h].seq > 0 => head[h].prev = table[head[h].seq].hash

\* Where nothing is lost and no writers overlap, the rows are linked in one run
\* that ends at the writer's head, the oldest first.
OneRun ==
    EveryCallRecorded /\ ~Overlapped =>
      /\ \A s, t \in DOMAIN table :
           s < t => /\ t - 1 \in DOMAIN table
                    /\ table[t].prev = table[t - 1].hash
                    /\ table[s].at <= table[t].at
      /\ \A h \in Opened :
           DOMAIN table # {} => /\ head[h].seq \in DOMAIN table
                                /\ head[h].prev = table[head[h].seq].hash

IInv ==
    /\ TypeOK
    /\ RowShape
    /\ HeadShape
    /\ Bounded
    /\ AloneAhead
    /\ OwnPast
    /\ Chained
    /\ OneRun

-----------------------------------------------------------------------------
(* What opening and recording do *)

\* A handle opens at the last row, or before the first when there is none or
\* the query fails (Blackbox::open).
LEMMA Resumes ==
    ASSUME TypeOK, Bounded, NEW io \in BOOLEAN
    PROVE  \/ /\ ResumeFrom(io) = [seq |-> 0, prev |-> Zero]
              /\ io \/ DOMAIN table = {}
           \/ /\ ~io
              /\ ResumeFrom(io).seq \in DOMAIN table
              /\ ResumeFrom(io) = [seq |-> ResumeFrom(io).seq,
                                   prev |-> table[ResumeFrom(io).seq].hash]
              /\ \A s \in DOMAIN table : s <= ResumeFrom(io).seq
<1>1. CASE io \/ DOMAIN table = {}
  BY <1>1 DEF ResumeFrom
<1>2. CASE ~ (io \/ DOMAIN table = {})
  <2>1. DOMAIN table \in SUBSET Nat /\ Len(log) \in Nat
    BY DEF TypeOK
  <2>2. Max(DOMAIN table) \in DOMAIN table /\ \A s \in DOMAIN table : s <= Max(DOMAIN table)
    BY <1>2, <2>1, MaxOf DEF Bounded
  <2> QED
    BY <1>2, <2>2 DEF ResumeFrom, LastRow
<1> QED
  BY <1>1, <1>2

\* What a step that records does: whether the row is kept, and the state after.
Recording(h, c, io, kept) ==
    LET seq  == head[h].seq + 1
        hash == Hash(seq, head[h].prev, c)
    IN  /\ kept <=> (~io /\ seq \notin DOMAIN table)
        /\ hash \in History
        /\ h \in Opened
        /\ DOMAIN table' = IF kept THEN DOMAIN table \cup {seq} ELSE DOMAIN table
        /\ \A s \in DOMAIN table : table'[s] = table[s]
        /\ kept => table'[seq] = [content |-> c, prev |-> head[h].prev,
                                  hash |-> hash, at |-> clock]
        /\ head' = [head EXCEPT ![h] = [seq |-> seq, prev |-> hash]]
        /\ phase' = [phase EXCEPT ![h] = "open"]
        /\ log' = Append(log, [by |-> h, hash |-> hash, kept |-> kept, io |-> io])
        /\ clock' = clock /\ alone' = alone /\ expired' = expired /\ edited' = edited

\* One record, written out (record_with_obo).
LEMMA Recorded ==
    ASSUME TypeOK, NEW h \in Handle, NEW c \in Content, NEW io \in IoErrors, Record(h, c, io)
    PROVE  \E kept \in BOOLEAN : Recording(h, c, io, kept)
<1> DEFINE seq  == head[h].seq + 1
           hash == Hash(seq, head[h].prev, c)
           kept == ~io /\ seq \notin DOMAIN table
<1>1. kept \in BOOLEAN
  OBVIOUS
<1>2. hash \in History
  <2>1. head[h].seq \in Nat /\ head[h].prev \in Seq(Nat \X Text)
    BY DEF TypeOK
  <2>2. <<seq, Joined[c]>> \in Nat \X Text
    BY <2>1 DEF Text
  <2> QED
    BY <2>1, <2>2, AppendProperties DEF Hash, History
<1>3. CASE kept
  <2>1. table' = [s \in DOMAIN table \cup {seq} |->
                    IF s = seq
                    THEN [content |-> c, prev |-> head[h].prev, hash |-> hash, at |-> clock]
                    ELSE table[s]]
    BY <1>3 DEF Record, NextSeq
  <2>2. \A s \in DOMAIN table : s # seq
    BY <1>3
  <2>3. DOMAIN table' = DOMAIN table \cup {seq}
    BY <2>1
  <2>4. \A s \in DOMAIN table : table'[s] = table[s]
    BY <2>1, <2>2
  <2>5. table'[seq] = [content |-> c, prev |-> head[h].prev, hash |-> hash, at |-> clock]
    BY <2>1
  <2> QED
    BY <1>1, <1>2, <1>3, <2>3, <2>4, <2>5 DEF Record, NextSeq, Advanced, Recording
<1>4. CASE ~kept
  <2>1. table' = table
    BY <1>4 DEF Record, NextSeq
  <2> QED
    BY <1>1, <1>2, <1>4, <2>1 DEF Record, NextSeq, Advanced, Recording
<1> QED
  BY <1>3, <1>4

-----------------------------------------------------------------------------
(* Every conjunct of the invariant is preserved by every step *)

\* The invariant holds of an empty database that nobody has opened.
LEMMA InitIInv == Init => IInv
<1> SUFFICES ASSUME Init PROVE IInv
  OBVIOUS
<1>1. << >> \in Seq(Nat \X Text) /\ Len(Zero) = 0 /\ DOMAIN table = {} /\ DOMAIN log = {}
  BY EmptySeq DEF Init, Zero
<1>2. << >> \in Seq([by : Handle, hash : Seq(Nat \X Text), kept : BOOLEAN, io : BOOLEAN])
  BY EmptySeq
<1>3. 0 \in Nat /\ 0 \in 0 .. MaxClock
  BY ClockAssumption
<1>4. TypeOK
  BY <1>1, <1>2, <1>3 DEF Init, TypeOK, Zero
<1>5. RowShape /\ HeadShape /\ Bounded
  BY <1>1, <1>4 DEF Init, RowShape, HeadShape, Bounded, TypeOK
<1>6. AloneAhead /\ OwnPast
  BY <1>1, Zenon DEF Init, AloneAhead, OwnPast
<1>7. Chained
  BY <1>1 DEF Init, Chained
<1>8. OneRun
  BY <1>1 DEF Init, OneRun
<1> QED
  BY <1>4, <1>5, <1>6, <1>7, <1>8 DEF IInv

\* Types.
LEMMA StepTypes == TypeOK /\ Bounded /\ [Next]_vars => TypeOK'
<1> SUFFICES ASSUME TypeOK, Bounded, [Next]_vars PROVE TypeOK'
  OBVIOUS
<1>1. ASSUME NEW h \in Handle, NEW io \in IoErrors, Open(h, io) PROVE TypeOK'
  <2>1. io \in BOOLEAN
    BY IoErrorsAssumption
  <2>2. ResumeFrom(io) \in [seq : Nat, prev : Seq(Nat \X Text)]
    <3>1. 0 \in Nat /\ Zero \in Seq(Nat \X Text)
      BY EmptySeq DEF Zero
    <3>2. \A s \in DOMAIN table : s \in Nat /\ table[s].hash \in Seq(Nat \X Text)
      BY DEF TypeOK, Row
    <3> QED
      BY <2>1, <3>1, <3>2, Resumes
  <2> QED
    BY <1>1, <2>2 DEF Open, TypeOK, Opened
<1>2. ASSUME NEW h \in Handle, NEW c \in Content, NEW io \in IoErrors, Record(h, c, io)
      PROVE  TypeOK'
  <2> DEFINE seq  == head[h].seq + 1
             hash == Hash(seq, head[h].prev, c)
  <2>1. PICK kept \in BOOLEAN : Recording(h, c, io, kept)
    BY <1>2, Recorded
  <2>2. /\ hash \in History
        /\ DOMAIN table' = IF kept THEN DOMAIN table \cup {seq} ELSE DOMAIN table
        /\ \A s \in DOMAIN table : table'[s] = table[s]
        /\ kept => seq \notin DOMAIN table
        /\ kept => table'[seq] = [content |-> c, prev |-> head[h].prev,
                                  hash |-> hash, at |-> clock]
        /\ head' = [head EXCEPT ![h] = [seq |-> seq, prev |-> hash]]
        /\ phase' = [phase EXCEPT ![h] = "open"]
        /\ log' = Append(log, [by |-> h, hash |-> hash, kept |-> kept, io |-> io])
        /\ UNCHANGED <<clock, alone, expired, edited>>
    BY <2>1 DEF Recording
  <2> HIDE DEF hash
  <2>3. seq \in Nat \ {0} /\ clock \in Nat /\ head[h].prev \in Seq(Nat \X Text)
    BY DEF TypeOK
  <2>4. kept => table'[seq] \in Row
    BY <2>2, <2>3 DEF Row, History
  <2>5. DOMAIN table' \subseteq Nat \ {0} /\ \A s \in DOMAIN table' : table'[s] \in Row
    BY <2>2, <2>3, <2>4 DEF TypeOK
  <2>6. log' \in Seq([by : Handle, hash : Seq(Nat \X Text), kept : BOOLEAN, io : BOOLEAN])
    BY <2>2, IoErrorsAssumption DEF TypeOK, History
  <2>7. head' \in [Handle -> [seq : Nat, prev : Seq(Nat \X Text)]]
    BY <2>2, <2>3 DEF TypeOK, History
  <2> QED
    BY <2>2, <2>5, <2>6, <2>7 DEF TypeOK
<1>3. ASSUME NEW h \in Handle, NEW age \in Retention, Expire(h, age) PROVE TypeOK'
  BY <1>3 DEF Expire, TypeOK
<1>4. ASSUME NEW h \in Handle, Close(h) PROVE TypeOK'
  <2>1. [seq |-> 0, prev |-> Zero] \in [seq : Nat, prev : Seq(Nat \X Text)]
    BY EmptySeq DEF Zero
  <2> QED
    BY <1>4, <2>1 DEF Close, TypeOK
<1>5. ASSUME Tick PROVE TypeOK'
  BY <1>5, ClockAssumption DEF Tick, TypeOK
<1>6. ASSUME NEW s \in DOMAIN table, NEW c \in Content, Edit(s, c) PROVE TypeOK'
  BY <1>6 DEF Edit, TypeOK, Row
<1>7. CASE UNCHANGED vars
  BY <1>7 DEF vars, TypeOK
<1> QED
  BY <1>1, <1>2, <1>3, <1>4, <1>5, <1>6, <1>7 DEF Next

\* The shape of rows and heads.
LEMMA StepShapes ==
    TypeOK /\ Bounded /\ RowShape /\ HeadShape /\ [Next]_vars => RowShape' /\ HeadShape'
<1> SUFFICES ASSUME TypeOK, Bounded, RowShape, HeadShape, [Next]_vars
             PROVE  RowShape' /\ HeadShape'
  OBVIOUS
<1>0. \A s \in DOMAIN table : /\ s \in Nat
                              /\ table[s].prev \in History
                              /\ Len(table[s].hash) = s
  <2> SUFFICES ASSUME NEW s \in DOMAIN table
               PROVE  s \in Nat /\ table[s].prev \in History /\ Len(table[s].hash) = s
    OBVIOUS
  <2>1. s \in Nat /\ table[s].prev \in Seq(Nat \X Text)
    BY DEF TypeOK, Row
  <2>2. PICK c \in Content : table[s].hash = Hash(s, table[s].prev, c)
    BY DEF RowShape
  <2>3. Len(table[s].prev) = s - 1
    BY DEF RowShape
  <2>4. <<s, Joined[c]>> \in Nat \X Text
    BY <2>1 DEF Text
  <2>5. Len(table[s].hash) = s - 1 + 1
    BY <2>1, <2>2, <2>3, <2>4, AppendProperties DEF Hash
  <2> QED
    BY <2>1, <2>5 DEF History
<1>1. ASSUME NEW h \in Handle, NEW io \in IoErrors, Open(h, io) PROVE RowShape' /\ HeadShape'
  <2>1. io \in BOOLEAN
    BY IoErrorsAssumption
  <2>2. Len(ResumeFrom(io).prev) = ResumeFrom(io).seq
    BY <1>0, <2>1, Resumes, EmptySeq DEF Zero
  <2>3. HeadShape'
    BY <1>1, <2>2 DEF Open, HeadShape, TypeOK
  <2> QED
    BY <1>1, <2>3 DEF Open, RowShape
<1>2. ASSUME NEW h \in Handle, NEW c \in Content, NEW io \in IoErrors, Record(h, c, io)
      PROVE  RowShape' /\ HeadShape'
  <2> DEFINE seq  == head[h].seq + 1
             hash == Hash(seq, head[h].prev, c)
  <2>1. PICK kept \in BOOLEAN : Recording(h, c, io, kept)
    BY <1>2, Recorded
  <2>2. /\ DOMAIN table' = IF kept THEN DOMAIN table \cup {seq} ELSE DOMAIN table
        /\ \A s \in DOMAIN table : table'[s] = table[s]
        /\ kept => seq \notin DOMAIN table
        /\ kept => table'[seq] = [content |-> c, prev |-> head[h].prev,
                                  hash |-> hash, at |-> clock]
        /\ head' = [head EXCEPT ![h] = [seq |-> seq, prev |-> hash]]
        /\ edited' = edited
    BY <2>1 DEF Recording
  <2>0. Joined[c] \in Text
    BY DEF Text
  <2>3. seq \in Nat /\ head[h].prev \in Seq(Nat \X Text) /\ <<seq, Joined[c]>> \in Nat \X Text
    BY <2>0 DEF TypeOK
  <2>4. Len(head[h].prev) = seq - 1
    BY DEF HeadShape, TypeOK
  <2>5. Len(hash) = seq
    BY <2>3, <2>4, AppendProperties DEF Hash
  <2>6. HeadShape'
    BY <2>2, <2>5 DEF HeadShape, TypeOK
  <2>7. edited \subseteq DOMAIN table
    BY DEF TypeOK
  <2>8. RowShape'
    <3> SUFFICES ASSUME NEW s \in DOMAIN table'
                 PROVE  /\ Len(table'[s].prev) = s - 1
                        /\ \E d \in Content : /\ table'[s].hash = Hash(s, table'[s].prev, d)
                                              /\ s \notin edited' => Joined[d] = Joined[table'[s].content]
      BY DEF RowShape, Hash
    <3>1. CASE s \in DOMAIN table
      BY <2>2, <3>1 DEF RowShape
    <3>2. CASE s \notin DOMAIN table
      <4>1. kept /\ s = seq /\ s \notin edited'
        BY <2>2, <2>7, <3>2
      <4> HIDE DEF hash
      <4>2. table'[s].prev = head[h].prev /\ table'[s].hash = hash /\ table'[s].content = c
        BY <2>2, <4>1
      <4> QED
        BY <2>4, <4>1, <4>2 DEF hash
    <3> QED
      BY <3>1, <3>2
  <2> QED
    BY <2>6, <2>8
<1>3. ASSUME NEW h \in Handle, NEW age \in Retention, Expire(h, age)
      PROVE  RowShape' /\ HeadShape'
  <2>1. DOMAIN table' \subseteq DOMAIN table /\ head' = head
    BY <1>3 DEF Expire
  <2>2. \A s \in DOMAIN table' : table'[s] = table[s] /\ (s \in edited' <=> s \in edited)
    BY <1>3 DEF Expire
  <2>3. RowShape'
    BY <2>1, <2>2 DEF RowShape, Hash
  <2> QED
    BY <2>1, <2>3 DEF HeadShape
<1>4. ASSUME NEW h \in Handle, Close(h) PROVE RowShape' /\ HeadShape'
  <2>1. HeadShape'
    BY <1>4, EmptySeq DEF Close, HeadShape, TypeOK, Zero
  <2> QED
    BY <1>4, <2>1 DEF Close, RowShape
<1>5. ASSUME Tick PROVE RowShape' /\ HeadShape'
  BY <1>5 DEF Tick, RowShape, HeadShape
<1>6. ASSUME NEW s \in DOMAIN table, NEW c \in Content, Edit(s, c) PROVE RowShape' /\ HeadShape'
  <2>1. DOMAIN table' = DOMAIN table /\ edited' = {s} /\ edited = {} /\ head' = head
    BY <1>6 DEF Edit
  <2>2. \A t \in DOMAIN table :
          /\ table'[t].prev = table[t].prev
          /\ table'[t].hash = table[t].hash
          /\ table'[t].content = IF t = s THEN c ELSE table[t].content
    BY <1>6 DEF Edit, TypeOK, Row
  <2>4. ASSUME NEW t \in DOMAIN table'
        PROVE  /\ Len(table'[t].prev) = t - 1
               /\ \E d \in Content : /\ table'[t].hash = Hash(t, table'[t].prev, d)
                                     /\ t \notin edited' => Joined[d] = Joined[table'[t].content]
    <3>1. PICK d \in Content : /\ table[t].hash = Hash(t, table[t].prev, d)
                               /\ t \notin edited => Joined[d] = Joined[table[t].content]
      BY <2>1 DEF RowShape
    <3>2. table'[t].prev = table[t].prev /\ table'[t].hash = table[t].hash
      BY <2>1, <2>2
    <3>3. table'[t].hash = Hash(t, table'[t].prev, d)
      BY <3>1, <3>2
    <3>4. t \notin edited' => Joined[d] = Joined[table'[t].content]
      BY <2>1, <2>2, <3>1
    <3>5. Len(table'[t].prev) = t - 1
      BY <2>1, <3>2 DEF RowShape
    <3> QED
      BY <3>3, <3>4, <3>5
  <2>5. RowShape'
    BY <2>4 DEF RowShape, Hash
  <2> QED
    BY <2>1, <2>5 DEF HeadShape
<1>7. CASE UNCHANGED vars
  BY <1>7 DEF vars, RowShape, HeadShape
<1> QED
  BY <1>1, <1>2, <1>3, <1>4, <1>5, <1>6, <1>7 DEF Next

\* The bounds on numbers and instants.
LEMMA StepBounded == TypeOK /\ Bounded /\ [Next]_vars => Bounded'
<1> SUFFICES ASSUME TypeOK, Bounded, [Next]_vars PROVE Bounded'
  OBVIOUS
<1>0. \A s \in DOMAIN table : s \in Nat /\ table[s].at \in Nat
  BY DEF TypeOK, Row
<1>1. ASSUME NEW h \in Handle, NEW io \in IoErrors, Open(h, io) PROVE Bounded'
  <2>1. io \in BOOLEAN
    BY IoErrorsAssumption
  <2>2. ResumeFrom(io).seq <= Len(log)
    <3>1. Len(log) \in Nat /\ 0 <= Len(log)
      BY DEF TypeOK
    <3>2. CASE ResumeFrom(io) = [seq |-> 0, prev |-> Zero]
      BY <3>1, <3>2
    <3>3. CASE ResumeFrom(io).seq \in DOMAIN table
      BY <3>3 DEF Bounded
    <3> QED
      BY <2>1, <3>2, <3>3, Resumes
  <2> QED
    BY <1>1, <2>2 DEF Open, Bounded, TypeOK
<1>2. ASSUME NEW h \in Handle, NEW c \in Content, NEW io \in IoErrors, Record(h, c, io)
      PROVE  Bounded'
  <2> DEFINE seq  == head[h].seq + 1
             hash == Hash(seq, head[h].prev, c)
  <2>1. PICK kept \in BOOLEAN : Recording(h, c, io, kept)
    BY <1>2, Recorded
  <2>2. /\ DOMAIN table' = IF kept THEN DOMAIN table \cup {seq} ELSE DOMAIN table
        /\ \A s \in DOMAIN table : table'[s] = table[s]
        /\ kept => seq \notin DOMAIN table
        /\ kept => table'[seq] = [content |-> c, prev |-> head[h].prev,
                                  hash |-> hash, at |-> clock]
        /\ head' = [head EXCEPT ![h] = [seq |-> seq, prev |-> hash]]
        /\ log' = Append(log, [by |-> h, hash |-> hash, kept |-> kept, io |-> io])
        /\ clock' = clock
    BY <2>1 DEF Recording
  <2> HIDE DEF hash
  <2>3. Len(log') = Len(log) + 1 /\ Len(log) \in Nat /\ clock \in Nat
    BY <2>2 DEF TypeOK
  <2>4. seq \in Nat /\ seq <= Len(log) + 1
    BY <2>3 DEF TypeOK, Bounded
  <2>5. \A g \in Handle : head'[g].seq <= Len(log')
    BY <2>2, <2>3, <2>4 DEF TypeOK, Bounded
  <2>6. \A s \in DOMAIN table' : s <= Len(log') /\ table'[s].at <= clock'
    BY <1>0, <2>2, <2>3, <2>4 DEF Bounded
  <2> QED
    BY <2>5, <2>6 DEF Bounded
<1>3. ASSUME NEW h \in Handle, NEW age \in Retention, Expire(h, age) PROVE Bounded'
  BY <1>3 DEF Expire, Bounded
<1>4. ASSUME NEW h \in Handle, Close(h) PROVE Bounded'
  BY <1>4 DEF Close, Bounded, TypeOK
<1>5. ASSUME Tick PROVE Bounded'
  BY <1>0, <1>5 DEF Tick, Bounded, TypeOK
<1>6. ASSUME NEW s \in DOMAIN table, NEW c \in Content, Edit(s, c) PROVE Bounded'
  BY <1>6 DEF Edit, Bounded, TypeOK, Row
<1>7. CASE UNCHANGED vars
  BY <1>7 DEF vars, Bounded
<1> QED
  BY <1>1, <1>2, <1>3, <1>4, <1>5, <1>6, <1>7 DEF Next

\* A writer that has been alone knows the last row: nobody else wrote since it
\* read the head.
LEMMA StepAlone == TypeOK /\ Bounded /\ AloneAhead /\ [Next]_vars => AloneAhead'
<1> SUFFICES ASSUME TypeOK, Bounded, AloneAhead, [Next]_vars PROVE AloneAhead'
  OBVIOUS
<1>0. /\ \A s \in DOMAIN table : s \in Nat
      /\ \A g \in Handle : head[g].seq \in Nat
      /\ phase \in [Handle -> {"unopened", "fresh", "open", "closed"}]
      /\ head \in [Handle -> [seq : Nat, prev : Seq(Nat \X Text)]]
      /\ alone \subseteq Handle
  BY DEF TypeOK
<1>1. ASSUME NEW h \in Handle, NEW io \in IoErrors, Open(h, io) PROVE AloneAhead'
  <2>1. io \in BOOLEAN
    BY IoErrorsAssumption
  <2>2. /\ Opened' = Opened \cup {h}
        /\ \A g \in Handle : phase'[g] = "unopened" => phase[g] = "unopened"
        /\ phase'[h] = "fresh" /\ h \notin Opened /\ h \notin alone
        /\ table' = table
    BY <1>0, <1>1 DEF Open, Opened, AloneAhead
  <2>3. CASE Opened = {} /\ ~io
    <3>1. alone' = alone \cup {h} /\ Opened' = {h} /\ head'[h] = ResumeFrom(io)
      BY <1>0, <1>1, <2>2, <2>3 DEF Open
    <3>2. \A s \in DOMAIN table : s <= ResumeFrom(io).seq
      BY <2>1, <2>3, Resumes
    <3> QED
      BY <1>0, <2>2, <3>1, <3>2 DEF AloneAhead
  <2>4. CASE Opened = {} /\ io
    <3>1. alone' = alone /\ Opened' = {h}
      BY <1>1, <2>2, <2>4 DEF Open
    <3> QED
      BY <1>0, <2>2, <3>1 DEF AloneAhead
  <2>5. CASE Opened # {}
    <3>1. alone' = alone \ Opened
      BY <1>1, <2>5 DEF Open
    <3>2. alone' \cap Opened' = {}
      BY <2>2, <3>1
    <3> QED
      BY <1>0, <2>2, <3>1, <3>2 DEF AloneAhead
  <2> QED
    BY <2>1, <2>3, <2>4, <2>5
<1>2. ASSUME NEW h \in Handle, NEW c \in Content, NEW io \in IoErrors, Record(h, c, io)
      PROVE  AloneAhead'
  <2> DEFINE seq  == head[h].seq + 1
             hash == Hash(seq, head[h].prev, c)
  <2>1. PICK kept \in BOOLEAN : Recording(h, c, io, kept)
    BY <1>2, Recorded
  <2>2. /\ h \in Opened
        /\ DOMAIN table' = IF kept THEN DOMAIN table \cup {seq} ELSE DOMAIN table
        /\ head' = [head EXCEPT ![h] = [seq |-> seq, prev |-> hash]]
        /\ phase' = [phase EXCEPT ![h] = "open"]
        /\ alone' = alone
    BY <2>1 DEF Recording
  <2> HIDE DEF hash
  <2>3. Opened' = Opened
    BY <1>0, <2>2 DEF Opened
  <2>4. ASSUME NEW g \in alone' \cap Opened'
        PROVE  Opened' = {g} /\ \A s \in DOMAIN table' : s <= head'[g].seq
    <3>1. g = h /\ Opened = {g} /\ \A s \in DOMAIN table : s <= head[h].seq
      BY <2>2, <2>3, <2>4 DEF AloneAhead
    <3>2. head'[g].seq = head[h].seq + 1
      BY <1>0, <2>2, <3>1
    <3>3. \A s \in DOMAIN table' : s <= head[h].seq + 1
      BY <1>0, <2>2, <3>1
    <3> QED
      BY <2>3, <3>1, <3>2, <3>3
  <2>5. \A g \in alone' : phase'[g] # "unopened"
    BY <1>0, <2>2 DEF AloneAhead
  <2> QED
    BY <2>4, <2>5 DEF AloneAhead
<1>3. ASSUME NEW h \in Handle, NEW age \in Retention, Expire(h, age) PROVE AloneAhead'
  <2>1. Opened' = Opened /\ DOMAIN table' \subseteq DOMAIN table /\ head' = head /\ alone' = alone
    BY <1>0, <1>3 DEF Expire, Opened
  <2>2. \A g \in alone' : phase'[g] # "unopened"
    BY <1>0, <1>3 DEF Expire, AloneAhead
  <2> QED
    BY <2>1, <2>2 DEF AloneAhead
<1>4. ASSUME NEW h \in Handle, Close(h) PROVE AloneAhead'
  <2>1. /\ Opened' = Opened \ {h} /\ alone' = alone /\ table' = table
        /\ \A g \in Handle \ {h} : head'[g] = head[g]
    BY <1>0, <1>4 DEF Close, Opened
  <2>2. \A g \in alone' : phase'[g] # "unopened"
    BY <1>0, <1>4 DEF Close, AloneAhead
  <2>3. ASSUME NEW g \in alone' \cap Opened' PROVE Opened' = {g} /\ head'[g] = head[g]
    BY <1>0, <2>1 DEF AloneAhead
  <2> QED
    BY <2>1, <2>2, <2>3 DEF AloneAhead
<1>5. ASSUME Tick PROVE AloneAhead'
  BY <1>5 DEF Tick, AloneAhead, Opened
<1>6. ASSUME NEW s \in DOMAIN table, NEW c \in Content, Edit(s, c) PROVE AloneAhead'
  BY <1>6 DEF Edit, AloneAhead, Opened
<1>7. CASE UNCHANGED vars
  BY <1>7 DEF vars, AloneAhead, Opened
<1> QED
  BY <1>1, <1>2, <1>3, <1>4, <1>5, <1>6, <1>7 DEF Next

\* What a writer recorded stays part of its later records.
LEMMA StepOwnPast == TypeOK /\ Bounded /\ OwnPast /\ [Next]_vars => OwnPast'
<1> SUFFICES ASSUME TypeOK, Bounded, OwnPast, [Next]_vars PROVE OwnPast'
  OBVIOUS
<1>0. /\ phase \in [Handle -> {"unopened", "fresh", "open", "closed"}]
      /\ head \in [Handle -> [seq : Nat, prev : Seq(Nat \X Text)]]
      /\ \A i \in DOMAIN log : log[i].by \in Handle /\ log[i].hash \in Seq(Nat \X Text)
      /\ Len(log) \in Nat /\ DOMAIN log = 1 .. Len(log)
  <2>1. \A i \in 1 .. Len(log) :
          log[i] \in [by : Handle, hash : Seq(Nat \X Text), kept : BOOLEAN, io : BOOLEAN]
    BY ElementOfSeq, Zenon DEF TypeOK
  <2>2. Len(log) \in Nat /\ DOMAIN log = 1 .. Len(log)
    BY DEF TypeOK
  <2> QED
    BY <2>1, <2>2 DEF TypeOK
<1>same. ASSUME log' = log,
             \A i \in DOMAIN log :
               /\ phase'[log[i].by] = "unopened" => phase[log[i].by] = "unopened"
               /\ log[i].by \in Opened' => /\ log[i].by \in Opened
                                         /\ head'[log[i].by] = head[log[i].by]
      PROVE  OwnPast'
  <2>1. ASSUME NEW i \in DOMAIN log
        PROVE  /\ phase'[log[i].by] # "unopened"
               /\ Len(log[i].hash) >= 1
               /\ log[i].by \in Opened' => Prefix(log[i].hash, head'[log[i].by].prev)
    BY <1>same DEF OwnPast
  <2> QED
    BY <1>same, <2>1 DEF OwnPast
<1>1. ASSUME NEW h \in Handle, NEW io \in IoErrors, Open(h, io) PROVE OwnPast'
  <2>1. /\ log' = log
        /\ \A g \in Handle \ {h} : head'[g] = head[g] /\ (g \in Opened' <=> g \in Opened)
        /\ \A g \in Handle : phase'[g] = "unopened" => phase[g] = "unopened"
        /\ \A i \in DOMAIN log : log[i].by # h
    BY <1>0, <1>1 DEF Open, Opened, OwnPast
  <2> QED
    BY <1>0, <1>same, <2>1
<1>2. ASSUME NEW h \in Handle, NEW c \in Content, NEW io \in IoErrors, Record(h, c, io)
      PROVE  OwnPast'
  <2> DEFINE seq   == head[h].seq + 1
             hash  == Hash(seq, head[h].prev, c)
  <2>1. PICK kept \in BOOLEAN : Recording(h, c, io, kept)
    BY <1>2, Recorded
  <2>2. /\ h \in Opened
        /\ head' = [head EXCEPT ![h] = [seq |-> seq, prev |-> hash]]
        /\ phase' = [phase EXCEPT ![h] = "open"]
        /\ log' = Append(log, [by |-> h, hash |-> hash, kept |-> kept, io |-> io])
        /\ hash \in Seq(Nat \X Text)
    BY <2>1 DEF Recording, History
  <2>3. Opened' = Opened /\ \A g \in Handle : phase'[g] = "unopened" => phase[g] = "unopened"
    BY <1>0, <2>2 DEF Opened
  <2>4. /\ Len(hash) = Len(head[h].prev) + 1
        /\ \A n \in 1 .. Len(head[h].prev) : hash[n] = head[h].prev[n]
    <3>0. Joined[c] \in Text
      BY DEF Text
    <3>1. head[h].prev \in Seq(Nat \X Text) /\ <<seq, Joined[c]>> \in Nat \X Text
      BY <1>0, <3>0
    <3> QED
      BY <3>1, AppendProperties DEF Hash
  <2>5. /\ DOMAIN log' = 1 .. (Len(log) + 1)
        /\ \A i \in DOMAIN log : log'[i] = log[i]
        /\ log'[Len(log) + 1].by = h /\ log'[Len(log) + 1].hash = hash
    BY <1>0, <2>2 DEF TypeOK
  <2> HIDE DEF hash
  <2>6. head[h].prev \in Seq(Nat \X Text) /\ Len(head[h].prev) \in Nat
    BY <1>0
  <2>7. ASSUME NEW p \in Seq(Nat \X Text), Prefix(p, head[h].prev)
        PROVE  Prefix(p, hash)
    BY <2>4, <2>6, <2>7 DEF Prefix
  <2>8. ASSUME NEW i \in DOMAIN log'
        PROVE  /\ phase'[log'[i].by] # "unopened"
               /\ Len(log'[i].hash) >= 1
               /\ log'[i].by \in Opened' => Prefix(log'[i].hash, head'[log'[i].by].prev)
    <3>1. CASE i \in DOMAIN log
      <4>1. phase[log[i].by] # "unopened" /\ Len(log[i].hash) >= 1 /\ log'[i] = log[i]
        BY <2>5, <3>1 DEF OwnPast
      <4>2. CASE log[i].by = h
        <5>1. Prefix(log[i].hash, head[h].prev)
          BY <2>2, <3>1, <4>2 DEF OwnPast
        <5>2. Prefix(log[i].hash, hash)
          BY <1>0, <2>7, <3>1, <5>1
        <5>3. head'[h].prev = hash
          BY <1>0, <2>2
        <5> QED
          BY <1>0, <2>3, <3>1, <4>1, <4>2, <5>2, <5>3
      <4>3. CASE log[i].by # h
        <5>1. head'[log[i].by] = head[log[i].by]
          BY <1>0, <2>2, <3>1, <4>3
        <5> QED
          BY <1>0, <2>3, <3>1, <4>1, <5>1 DEF OwnPast
      <4> QED
        BY <4>2, <4>3
    <3>2. CASE i = Len(log) + 1
      <4>1. log'[i].by = h /\ log'[i].hash = hash /\ head'[h].prev = hash /\ phase'[h] = "open"
        BY <1>0, <2>2, <2>5, <3>2
      <4> QED
        BY <2>4, <2>6, <4>1 DEF Prefix
    <3> QED
      BY <1>0, <2>5, <3>1, <3>2
  <2>9. ASSUME NEW i \in DOMAIN log', NEW j \in DOMAIN log', i < j, log'[i].by = log'[j].by
        PROVE  Prefix(log'[i].hash, log'[j].hash)
    <3>1. i \in DOMAIN log
      BY <1>0, <2>5, <2>9
    <3>2. CASE j \in DOMAIN log
      BY <2>5, <2>9, <3>1, <3>2 DEF OwnPast
    <3>3. CASE j = Len(log) + 1
      <4>1. log[i].by = h /\ log'[i] = log[i] /\ log'[j].hash = hash
        BY <2>5, <2>9, <3>1, <3>3
      <4>2. Prefix(log[i].hash, head[h].prev)
        BY <2>2, <3>1, <4>1 DEF OwnPast
      <4> QED
        BY <1>0, <2>7, <3>1, <4>1, <4>2
    <3> QED
      BY <1>0, <2>5, <3>2, <3>3
  <2> QED
    BY <2>8, <2>9 DEF OwnPast
<1>3. ASSUME NEW h \in Handle, NEW age \in Retention, Expire(h, age) PROVE OwnPast'
  <2>1. /\ log' = log /\ head' = head /\ Opened' = Opened
        /\ \A g \in Handle : phase'[g] = "unopened" => phase[g] = "unopened"
    BY <1>0, <1>3 DEF Expire, Opened
  <2> QED
    BY <1>0, <1>same, <2>1
<1>4. ASSUME NEW h \in Handle, Close(h) PROVE OwnPast'
  <2>1. /\ log' = log /\ Opened' = Opened \ {h}
        /\ \A g \in Handle \ {h} : head'[g] = head[g]
        /\ \A g \in Handle : phase'[g] = "unopened" => phase[g] = "unopened"
    BY <1>0, <1>4 DEF Close, Opened
  <2> QED
    BY <1>0, <1>same, <2>1
<1>5. CASE UNCHANGED <<phase, head, log>>
  BY <1>5 DEF OwnPast, Opened, Prefix
<1> QED
  BY <1>1, <1>2, <1>3, <1>4, <1>5 DEF Next, Tick, Edit, vars

\* The calls of record() so far stay in the log.
LEMMA LogGrows ==
    ASSUME TypeOK, NEW h \in Handle, NEW c \in Content, NEW io \in IoErrors, NEW kept \in BOOLEAN,
           Recording(h, c, io, kept), EveryCallRecorded'
    PROVE  EveryCallRecorded /\ kept /\ Len(log') = Len(log) + 1 /\ Len(log) \in Nat
<1> DEFINE entry == [by |-> h, hash |-> Hash(head[h].seq + 1, head[h].prev, c),
                     kept |-> kept, io |-> io]
<1>1. log' = Append(log, entry)
  BY DEF Recording
<1>2. entry.kept = kept
  OBVIOUS
<1> HIDE DEF entry
<1>3. /\ Len(log) \in Nat /\ DOMAIN log = 1 .. Len(log) /\ Len(log') = Len(log) + 1
      /\ DOMAIN log' = 1 .. (Len(log) + 1)
      /\ \A i \in 1 .. Len(log) : log'[i] = log[i]
      /\ log'[Len(log) + 1] = entry
  BY <1>1 DEF TypeOK
<1>4. kept
  BY <1>2, <1>3 DEF EveryCallRecorded
<1>5. EveryCallRecorded
  BY <1>3 DEF EveryCallRecorded
<1> QED
  BY <1>3, <1>4, <1>5

\* Where nothing is lost or expired the table is the whole chain.
LEMMA StepChained == TypeOK /\ Bounded /\ Chained /\ [Next]_vars => Chained'
<1> SUFFICES ASSUME TypeOK, Bounded, Chained, [Next]_vars, EveryCallRecorded', ~expired'
             PROVE  /\ DOMAIN table' = 1 .. Len(log')
                    /\ \A s \in DOMAIN table' : table'[s].hash = log'[s].hash
                    /\ \A s \in DOMAIN table' : s > 1 => table'[s].prev = table'[s - 1].hash
                    /\ \A h \in Handle :
                         head'[h].seq > 0 => head'[h].prev = table'[head'[h].seq].hash
  BY DEF Chained
<1> DEFINE Goal == /\ DOMAIN table' = 1 .. Len(log')
                   /\ \A s \in DOMAIN table' : table'[s].hash = log'[s].hash
                   /\ \A s \in DOMAIN table' : s > 1 => table'[s].prev = table'[s - 1].hash
                   /\ \A h \in Handle :
                        head'[h].seq > 0 => head'[h].prev = table'[head'[h].seq].hash
<1>0. /\ head \in [Handle -> [seq : Nat, prev : Seq(Nat \X Text)]]
      /\ Len(log) \in Nat
      /\ \A h \in Handle : head[h].seq <= Len(log)
  BY DEF TypeOK, Bounded
<1>1. ASSUME NEW h \in Handle, NEW io \in IoErrors, Open(h, io) PROVE Goal
  <2>1. io \in BOOLEAN /\ EveryCallRecorded /\ ~expired
    BY <1>1, IoErrorsAssumption DEF Open, EveryCallRecorded
  <2>2. table' = table /\ log' = log /\ head' = [head EXCEPT ![h] = ResumeFrom(io)]
    BY <1>1 DEF Open
  <2>3. ResumeFrom(io).seq > 0 => ResumeFrom(io).prev = table[ResumeFrom(io).seq].hash
    <3>1. CASE ResumeFrom(io) = [seq |-> 0, prev |-> Zero]
      BY <3>1
    <3>2. CASE ResumeFrom(io) = [seq |-> ResumeFrom(io).seq,
                                 prev |-> table[ResumeFrom(io).seq].hash]
      BY <3>2
    <3> QED
      BY <2>1, <3>1, <3>2, Resumes
  <2> QED
    BY <1>0, <2>1, <2>2, <2>3 DEF Chained
<1>2. ASSUME NEW h \in Handle, NEW c \in Content, NEW io \in IoErrors, Record(h, c, io)
      PROVE  Goal
  <2> DEFINE seq  == head[h].seq + 1
             hash == Hash(seq, head[h].prev, c)
  <2>1. PICK kept \in BOOLEAN : Recording(h, c, io, kept)
    BY <1>2, Recorded
  <2>2. EveryCallRecorded /\ kept /\ Len(log') = Len(log) + 1
    BY <2>1, LogGrows
  <2>9. (\A i \in 1 .. Len(log) : log'[i] = log[i]) /\ log'[Len(log) + 1].hash = hash
    BY <2>1 DEF Recording, TypeOK
  <2>3. /\ seq \notin DOMAIN table
        /\ DOMAIN table' = DOMAIN table \cup {seq}
        /\ \A s \in DOMAIN table : table'[s] = table[s]
        /\ table'[seq] = [content |-> c, prev |-> head[h].prev, hash |-> hash, at |-> clock]
        /\ head' = [head EXCEPT ![h] = [seq |-> seq, prev |-> hash]]
        /\ expired' = expired
    BY <2>1, <2>2 DEF Recording
  <2> HIDE DEF hash
  <2>4. /\ DOMAIN table = 1 .. Len(log)
        /\ \A s \in DOMAIN table : table[s].hash = log[s].hash
        /\ \A s \in DOMAIN table : s > 1 => table[s].prev = table[s - 1].hash
        /\ \A g \in Handle : head[g].seq > 0 => head[g].prev = table[head[g].seq].hash
    BY <2>2, <2>3 DEF Chained
  <2>5. head[h].seq = Len(log) /\ seq = Len(log) + 1
    BY <1>0, <2>3, <2>4
  <2>6. DOMAIN table' = 1 .. Len(log')
    BY <1>0, <2>2, <2>3, <2>4, <2>5
  <2>7. ASSUME NEW s \in DOMAIN table', s > 1 PROVE table'[s].prev = table'[s - 1].hash
    <3>1. CASE s \in DOMAIN table
      <4>1. s - 1 \in DOMAIN table
        BY <1>0, <2>4, <2>7, <3>1
      <4> QED
        BY <2>3, <2>4, <2>7, <3>1, <4>1
    <3>2. CASE s = seq
      <4>1. s - 1 = head[h].seq /\ s - 1 \in DOMAIN table /\ head[h].seq > 0
        BY <1>0, <2>4, <2>5, <2>7, <3>2
      <4> QED
        BY <2>3, <2>4, <3>2, <4>1
    <3> QED
      BY <2>3, <3>1, <3>2
  <2>8. ASSUME NEW g \in Handle, head'[g].seq > 0
        PROVE  head'[g].prev = table'[head'[g].seq].hash
    <3>1. CASE g = h
      BY <1>0, <2>3, <3>1
    <3>2. CASE g # h
      <4>1. head'[g] = head[g] /\ head[g].seq \in DOMAIN table
        BY <1>0, <2>3, <2>4, <2>8, <3>2
      <4> QED
        BY <2>3, <2>4, <2>8, <4>1
    <3> QED
      BY <3>1, <3>2
  <2>10. \A s \in DOMAIN table' : table'[s].hash = log'[s].hash
    BY <2>3, <2>4, <2>5, <2>9
  <2> QED
    BY <2>6, <2>7, <2>8, <2>10
<1>3. ASSUME NEW h \in Handle, NEW age \in Retention, Expire(h, age) PROVE Goal
  <2>1. {s \in DOMAIN table : Stale(s, age)} = {} /\ ~expired
    BY <1>3 DEF Expire
  <2>2. DOMAIN table' = DOMAIN table /\ \A s \in DOMAIN table : table'[s] = table[s]
    BY <1>3, <2>1 DEF Expire
  <2>3. log' = log /\ head' = head
    BY <1>3 DEF Expire
  <2>4. EveryCallRecorded
    BY <2>3 DEF EveryCallRecorded
  <2>5. /\ DOMAIN table = 1 .. Len(log)
        /\ \A s \in DOMAIN table : table[s].hash = log[s].hash
        /\ \A s \in DOMAIN table : s > 1 => table[s].prev = table[s - 1].hash
        /\ \A g \in Handle : head[g].seq > 0 => head[g].prev = table[head[g].seq].hash
    BY <2>1, <2>4 DEF Chained
  <2>6. \A s \in DOMAIN table : s > 1 => s - 1 \in DOMAIN table
    BY <1>0, <2>5
  <2>7. \A g \in Handle : head[g].seq > 0 => head[g].seq \in DOMAIN table
    BY <1>0, <2>5
  <2> QED
    BY <2>2, <2>3, <2>5, <2>6, <2>7
<1>4. ASSUME NEW h \in Handle, Close(h) PROVE Goal
  <2>1. /\ table' = table /\ log' = log /\ expired' = expired
        /\ head' = [head EXCEPT ![h] = [seq |-> 0, prev |-> Zero]]
    BY <1>4 DEF Close
  <2>2. EveryCallRecorded
    BY <2>1 DEF EveryCallRecorded
  <2> QED
    BY <1>0, <2>1, <2>2 DEF Chained
<1>5. ASSUME NEW t \in DOMAIN table, NEW c \in Content, Edit(t, c) PROVE Goal
  <2>1. log' = log /\ head' = head /\ expired' = expired /\ DOMAIN table' = DOMAIN table
    BY <1>5 DEF Edit
  <2>2. \A s \in DOMAIN table : table'[s].prev = table[s].prev /\ table'[s].hash = table[s].hash
    BY <1>5 DEF Edit, TypeOK, Row
  <2>3. EveryCallRecorded
    BY <2>1 DEF EveryCallRecorded
  <2>4. /\ DOMAIN table = 1 .. Len(log)
        /\ \A s \in DOMAIN table : table[s].hash = log[s].hash
        /\ \A s \in DOMAIN table : s > 1 => table[s].prev = table[s - 1].hash
        /\ \A g \in Handle : head[g].seq > 0 => head[g].prev = table[head[g].seq].hash
    BY <2>1, <2>3 DEF Chained
  <2>5. \A s \in DOMAIN table : s > 1 => s - 1 \in DOMAIN table
    BY <1>0, <2>4
  <2>6. \A g \in Handle : head[g].seq > 0 => head[g].seq \in DOMAIN table
    BY <1>0, <2>4
  <2> QED
    BY <2>1, <2>2, <2>4, <2>5, <2>6
<1>6. CASE UNCHANGED <<table, head, log, expired>>
  BY <1>6 DEF Chained, EveryCallRecorded
<1> QED
  BY <1>1, <1>2, <1>3, <1>4, <1>5, <1>6 DEF Next, Tick, vars

\* Where nothing is lost and no writers overlap, the rows stay one linked run.
LEMMA StepOneRun == TypeOK /\ Bounded /\ AloneAhead /\ OneRun /\ [Next]_vars => OneRun'
<1> DEFINE Linked == \A s, t \in DOMAIN table :
                       s < t => /\ t - 1 \in DOMAIN table
                                /\ table[t].prev = table[t - 1].hash
                                /\ table[s].at <= table[t].at
           Ends == \A h \in Opened :
                     DOMAIN table # {} => /\ head[h].seq \in DOMAIN table
                                          /\ head[h].prev = table[head[h].seq].hash
<1> SUFFICES ASSUME TypeOK, Bounded, AloneAhead, OneRun, [Next]_vars,
                    EveryCallRecorded', ~Overlapped'
             PROVE  Linked' /\ Ends'
  BY DEF OneRun
<1>0. /\ head \in [Handle -> [seq : Nat, prev : Seq(Nat \X Text)]]
      /\ phase \in [Handle -> {"unopened", "fresh", "open", "closed"}]
      /\ \A s \in DOMAIN table : s \in Nat /\ table[s].at \in Nat /\ table[s].at <= clock
      /\ clock \in Nat
      /\ alone \subseteq Handle
  BY DEF TypeOK, Row, Bounded
<1>same. ASSUME log' = log, alone' = alone,
                \A h \in Handle : phase'[h] = "unopened" <=> phase[h] = "unopened"
         PROVE  /\ EveryCallRecorded /\ Linked /\ Ends
                /\ \A h \in Opened : \A s \in DOMAIN table : s <= head[h].seq
  <2>1. EveryCallRecorded /\ ~Overlapped
    BY <1>same DEF EveryCallRecorded, Overlapped
  <2>2. \A h \in Opened : h \in alone
    BY <1>0, <2>1 DEF Overlapped, Opened
  <2> QED
    BY <2>1, <2>2 DEF OneRun, AloneAhead
<1>1. ASSUME NEW h \in Handle, NEW io \in IoErrors, Open(h, io) PROVE Linked' /\ Ends'
  <2>1. /\ table' = table /\ log' = log
        /\ head' = [head EXCEPT ![h] = ResumeFrom(io)]
        /\ phase' = [phase EXCEPT ![h] = "fresh"]
        /\ alone' = IF Opened = {} THEN (IF io THEN alone ELSE alone \cup {h})
                                   ELSE alone \ Opened
        /\ h \notin alone /\ phase[h] = "unopened"
    BY <1>0, <1>1 DEF Open, AloneAhead
  <2>2. \A g \in Handle : phase'[g] # "unopened" => g \in alone'
    BY DEF Overlapped
  <2>3. Opened = {}
    <3> SUFFICES ASSUME NEW g \in Opened, alone' = alone \ Opened PROVE FALSE
      BY <2>1
    <3>1. g \in Handle /\ phase'[g] # "unopened"
      BY <1>0, <2>1 DEF Opened
    <3> QED
      BY <2>2, <3>1
  <2>4. h \in alone'
    BY <1>0, <2>1, <2>2
  <2>5. ~io /\ alone' = alone \cup {h} /\ Opened' = {h}
    BY <1>0, <2>1, <2>3, <2>4 DEF Opened
  <2>6. EveryCallRecorded /\ ~Overlapped
    BY <1>0, <2>1, <2>2, <2>5 DEF EveryCallRecorded, Overlapped
  <2>7. Linked'
    BY <2>1, <2>6 DEF OneRun
  <2>8. io \in BOOLEAN
    BY IoErrorsAssumption
  <2>9. DOMAIN table # {} => /\ ResumeFrom(io).seq \in DOMAIN table
                             /\ ResumeFrom(io).prev = table[ResumeFrom(io).seq].hash
    BY <2>5, <2>8, Resumes
  <2>10. Ends'
    BY <1>0, <2>1, <2>5, <2>9
  <2> QED
    BY <2>7, <2>10
<1>2. ASSUME NEW h \in Handle, NEW c \in Content, NEW io \in IoErrors, Record(h, c, io)
      PROVE  Linked' /\ Ends'
  <2> DEFINE seq  == head[h].seq + 1
             hash == Hash(seq, head[h].prev, c)
  <2>1. PICK kept \in BOOLEAN : Recording(h, c, io, kept)
    BY <1>2, Recorded
  <2>2. EveryCallRecorded /\ kept
    BY <2>1, LogGrows
  <2>3. /\ h \in Opened
        /\ DOMAIN table' = DOMAIN table \cup {seq}
        /\ \A s \in DOMAIN table : table'[s] = table[s]
        /\ table'[seq] = [content |-> c, prev |-> head[h].prev, hash |-> hash, at |-> clock]
        /\ head' = [head EXCEPT ![h] = [seq |-> seq, prev |-> hash]]
        /\ phase' = [phase EXCEPT ![h] = "open"]
        /\ alone' = alone
    BY <2>1, <2>2 DEF Recording
  <2> HIDE DEF hash
  <2>4. Opened' = Opened /\ ~Overlapped /\ h \in alone
    BY <1>0, <2>3 DEF Opened, Overlapped
  <2>5. Opened = {h} /\ \A s \in DOMAIN table : s <= head[h].seq
    BY <2>3, <2>4 DEF AloneAhead
  <2>6. Linked /\ Ends
    BY <2>2, <2>4 DEF OneRun
  <2>7. ASSUME NEW s \in DOMAIN table', NEW t \in DOMAIN table', s < t
        PROVE  /\ t - 1 \in DOMAIN table'
               /\ table'[t].prev = table'[t - 1].hash
               /\ table'[s].at <= table'[t].at
    <3>1. s \in DOMAIN table
      BY <1>0, <2>3, <2>5, <2>7
    <3>2. CASE t \in DOMAIN table
      BY <2>3, <2>6, <2>7, <3>1, <3>2
    <3>3. CASE t = seq
      <4>1. t - 1 = head[h].seq
        BY <1>0, <3>3
      <4>2. head[h].seq \in DOMAIN table /\ head[h].prev = table[head[h].seq].hash
        BY <2>3, <2>6, <3>1
      <4>3. table'[t].prev = head[h].prev /\ table'[t].at = clock
        BY <2>3, <3>3
      <4> QED
        BY <1>0, <2>3, <3>1, <4>1, <4>2, <4>3
    <3> QED
      BY <2>3, <3>2, <3>3
  <2>8. Ends'
    <3>1. head'[h] = [seq |-> seq, prev |-> hash]
      BY <1>0, <2>3
    <3>2. table'[seq].hash = hash /\ seq \in DOMAIN table'
      BY <2>3
    <3> HIDE DEF seq
    <3> QED
      BY <2>4, <2>5, <3>1, <3>2
  <2> QED
    BY <2>7, <2>8
<1>3. ASSUME NEW h \in Handle, NEW age \in Retention, Expire(h, age) PROVE Linked' /\ Ends'
  <2>1. /\ DOMAIN table' = {s \in DOMAIN table : ~Stale(s, age)}
        /\ \A s \in DOMAIN table' : table'[s] = table[s]
        /\ Opened' = Opened /\ head' = head
        /\ log' = log /\ alone' = alone
        /\ \A g \in Handle : phase'[g] = "unopened" <=> phase[g] = "unopened"
    BY <1>0, <1>3 DEF Expire, Opened
  <2>2. Linked /\ Ends /\ \A g \in Opened : \A s \in DOMAIN table : s <= head[g].seq
    BY <1>same, <2>1
  <2>3. age \in Nat
    BY RetentionAssumption
  <2>4. ASSUME NEW s \in DOMAIN table', NEW t \in DOMAIN table, s <= t
        PROVE  t \in DOMAIN table'
    <3>1. table[s].at <= table[t].at
      BY <1>0, <2>1, <2>2, <2>4
    <3>2. ~ (table[s].at + age < clock) /\ s \in DOMAIN table
      BY <2>1 DEF Stale
    <3>3. ~ (table[t].at + age < clock)
      BY <1>0, <2>3, <3>1, <3>2
    <3> QED
      BY <2>1, <3>3 DEF Stale
  <2>5. ASSUME NEW s \in DOMAIN table', NEW t \in DOMAIN table', s < t
        PROVE  /\ t - 1 \in DOMAIN table'
               /\ table'[t].prev = table'[t - 1].hash
               /\ table'[s].at <= table'[t].at
    <3>1. /\ t - 1 \in DOMAIN table
          /\ table[t].prev = table[t - 1].hash
          /\ table[s].at <= table[t].at
      BY <2>1, <2>2, <2>5
    <3>2. s <= t - 1
      BY <1>0, <2>1, <2>5
    <3>3. t - 1 \in DOMAIN table'
      BY <2>4, <3>1, <3>2
    <3> QED
      BY <2>1, <3>1, <3>3
  <2>6. ASSUME NEW g \in Opened, NEW s \in DOMAIN table'
        PROVE  head[g].seq \in DOMAIN table' /\ head[g].prev = table'[head[g].seq].hash
    <3>1. head[g].seq \in DOMAIN table /\ head[g].prev = table[head[g].seq].hash /\ s <= head[g].seq
      BY <2>1, <2>2
    <3> QED
      BY <2>1, <2>4, <3>1
  <2> QED
    BY <2>1, <2>5, <2>6
<1>4. ASSUME NEW h \in Handle, Close(h) PROVE Linked' /\ Ends'
  <2>1. /\ table' = table /\ log' = log /\ alone' = alone
        /\ Opened' = Opened \ {h}
        /\ \A g \in Handle \ {h} : head'[g] = head[g]
        /\ \A g \in Handle : phase'[g] = "unopened" <=> phase[g] = "unopened"
    BY <1>0, <1>4 DEF Close, Opened
  <2>2. Linked /\ Ends
    BY <1>same, <2>1
  <2>3. \A g \in Opened' : g \in Opened /\ head'[g] = head[g]
    BY <2>1 DEF Opened
  <2> QED
    BY <2>1, <2>2, <2>3
<1>5. ASSUME NEW r \in DOMAIN table, NEW c \in Content, Edit(r, c) PROVE Linked' /\ Ends'
  <2>1. /\ log' = log /\ alone' = alone /\ head' = head /\ phase' = phase
        /\ Opened' = Opened /\ DOMAIN table' = DOMAIN table
    BY <1>5 DEF Edit, Opened
  <2>2. \A s \in DOMAIN table : /\ table'[s].prev = table[s].prev
                                /\ table'[s].hash = table[s].hash
                                /\ table'[s].at = table[s].at
    BY <1>5 DEF Edit, TypeOK, Row
  <2>3. Linked /\ Ends
    BY <1>same, <2>1
  <2>4. Linked'
    BY <2>1, <2>2, <2>3
  <2>5. Ends'
    BY <2>1, <2>2, <2>3
  <2> QED
    BY <2>4, <2>5
<1>6. CASE UNCHANGED <<table, phase, head, log, alone>>
  <2>1. Linked /\ Ends
    BY <1>6, <1>same
  <2> QED
    BY <1>6, <2>1 DEF Opened
<1> QED
  BY <1>1, <1>2, <1>3, <1>4, <1>5, <1>6 DEF Next, Tick, vars

\* The invariant holds in every reachable state.
THEOREM Invariance == Spec => []IInv
<1>1. IInv /\ [Next]_vars => IInv'
  BY StepTypes, StepShapes, StepBounded, StepAlone, StepOwnPast, StepChained, StepOneRun DEF IInv
<1> QED
  BY <1>1, InitIInv, PTL DEF Spec

\* The state has its type in every reachable state, for any number of writers.
THEOREM TypeCorrect == Spec => []TypeOK
<1>1. IInv => TypeOK
  BY DEF IInv
<1> QED
  BY <1>1, Invariance, PTL

-----------------------------------------------------------------------------
(* What a verification says *)

\* verify_chain reports no row exactly when no row is broken.
LEMMA CleanMeans == TypeOK => (Clean <=> BrokenRows = {})
<1> SUFFICES ASSUME TypeOK PROVE Clean <=> BrokenRows = {}
  OBVIOUS
<1>1. BrokenRows \in SUBSET Nat /\ 0 \notin BrokenRows
  BY DEF TypeOK, BrokenRows
<1>2. BrokenRows # {} => Min(BrokenRows) \in BrokenRows
  BY <1>1, MinOf
<1> QED
  BY <1>1, <1>2 DEF Clean, VerifyChain

\* The row before a row that has one.
LEMMA RowBefore ==
    ASSUME TypeOK, NEW s \in DOMAIN table, Before(s) # {}
    PROVE  /\ Max(Before(s)) \in DOMAIN table
           /\ Max(Before(s)) < s
           /\ \A t \in Before(s) : t <= Max(Before(s))
           /\ ExpectedPrev(s) = table[Max(Before(s))].hash
<1>1. Before(s) \in SUBSET Nat /\ s \in Nat /\ \A t \in Before(s) : t <= s
  BY DEF TypeOK, Before
<1>2. Max(Before(s)) \in Before(s) /\ \A t \in Before(s) : t <= Max(Before(s))
  BY <1>1, MaxOf
<1> QED
  BY <1>2 DEF Before, ExpectedPrev

\* ... is the one with the number below, where that is in the table.
LEMMA RowBelow ==
    ASSUME TypeOK, NEW s \in DOMAIN table, s - 1 \in DOMAIN table
    PROVE  ExpectedPrev(s) = table[s - 1].hash
<1>1. s \in Nat /\ s - 1 \in Before(s)
  BY DEF TypeOK, Before
<1>2. Max(Before(s)) \in Nat /\ Max(Before(s)) < s /\ s - 1 <= Max(Before(s))
  BY <1>1, RowBefore DEF TypeOK
<1>3. Max(Before(s)) = s - 1
  BY <1>1, <1>2
<1> QED
  BY <1>1, <1>3, RowBefore

\* The lengths of a row's hashes.
LEMMA RowLengths ==
    ASSUME TypeOK, RowShape, NEW s \in DOMAIN table
    PROVE  /\ s \in Nat /\ s > 0
           /\ table[s].prev \in History /\ table[s].hash \in History
           /\ Len(table[s].prev) = s - 1
           /\ Len(table[s].hash) = s
           /\ \A n \in 1 .. (s - 1) : table[s].hash[n] = table[s].prev[n]
<1>1. s \in Nat /\ s > 0 /\ table[s].prev \in History /\ table[s].hash \in History
  BY DEF TypeOK, Row, History
<1>2. PICK c \in Content : table[s].hash = Hash(s, table[s].prev, c)
  BY DEF RowShape
<1>3. Len(table[s].prev) = s - 1
  BY DEF RowShape
<1>4. <<s, Joined[c]>> \in Nat \X Text
  BY <1>1 DEF Text
<1>5. Len(table[s].hash) = s - 1 + 1 /\ \A n \in 1 .. (s - 1) : table[s].hash[n] = table[s].prev[n]
  BY <1>1, <1>2, <1>3, <1>4, AppendProperties DEF Hash, History
<1> QED
  BY <1>1, <1>3, <1>5

\* A row recomputes where its columns join to the text that its hash covers.
LEMMA RowRecomputes ==
    ASSUME TypeOK, RowShape, NEW s \in DOMAIN table
    PROVE  /\ Recomputes(s) <=> Joined[table[s].content] = table[s].hash[s][2]
           /\ s \notin edited => Recomputes(s)
<1>1. PICK c \in Content : /\ table[s].hash = Hash(s, table[s].prev, c)
                           /\ s \notin edited => Joined[c] = Joined[table[s].content]
  BY DEF RowShape
<1>2. table[s].prev \in Seq(Nat \X Text) /\ s \in Nat /\ table[s].content \in Content
  BY DEF TypeOK, Row
<1>3. Len(table[s].prev) + 1 = s
  BY <1>2 DEF RowShape
<1>4. ASSUME NEW d \in Content PROVE Hash(s, table[s].prev, d)[s] = <<s, Joined[d]>>
  <2>1. <<s, Joined[d]>> \in Nat \X Text
    BY <1>2 DEF Text
  <2> QED
    BY <1>2, <1>3, <2>1, AppendProperties DEF Hash
<1>5. table[s].hash[s][2] = Joined[c]
  BY <1>1, <1>4
<1>6. ASSUME Recomputes(s) PROVE Joined[table[s].content] = Joined[c]
  <2>1. <<s, Joined[c]>> = <<s, Joined[table[s].content]>>
    BY <1>1, <1>2, <1>4, <1>6 DEF Recomputes
  <2> QED
    BY <2>1
<1>7. ASSUME Joined[table[s].content] = Joined[c] PROVE Recomputes(s)
  BY <1>1, <1>7 DEF Recomputes, Hash
<1> QED
  BY <1>1, <1>5, <1>6, <1>7

\* Rows that verify are numbered without a gap.
LEMMA CleanRows == TypeOK /\ RowShape => CleanIsContiguous
<1> SUFFICES ASSUME TypeOK, RowShape, Clean, NEW s \in DOMAIN table, s > 1
             PROVE  s - 1 \in DOMAIN table
  BY DEF CleanIsContiguous
<1>1. table[s].prev = ExpectedPrev(s)
  BY CleanMeans DEF BrokenRows
<1>2. Before(s) # {}
  <2> SUFFICES ASSUME Before(s) = {} PROVE FALSE
    OBVIOUS
  <2>1. Len(table[s].prev) = 0
    BY <1>1 DEF ExpectedPrev, Zero
  <2> QED
    BY <2>1, RowLengths
<1>3. Max(Before(s)) \in DOMAIN table /\ ExpectedPrev(s) = table[Max(Before(s))].hash
  BY <1>2, RowBefore
<1>4. Max(Before(s)) = s - 1
  BY <1>1, <1>3, RowLengths
<1> QED
  BY <1>3, <1>4

\* A table that verifies holds every record that one of its rows hashes.
LEMMA CleanHoldsPast ==
    ASSUME TypeOK, RowShape, Clean, NEW s \in DOMAIN table, NEW k \in 1 .. s
    PROVE  k \in DOMAIN table /\ Prefix(table[k].hash, table[s].hash)
<1> DEFINE Bad == {m \in 1 .. s : ~ (m \in DOMAIN table /\ Prefix(table[m].hash, table[s].hash))}
<1> SUFFICES ASSUME Bad # {} PROVE FALSE
  OBVIOUS
<1>1. s \in Nat /\ Bad \in SUBSET Nat /\ \A m \in Bad : m <= s
  BY RowLengths
<1>2. Max(Bad) \in Bad /\ \A m \in Bad : m <= Max(Bad)
  BY <1>1, MaxOf
<1> DEFINE b == Max(Bad)
<1> HIDE DEF b
<1>3. b \in 1 .. s /\ ~ (b \in DOMAIN table /\ Prefix(table[b].hash, table[s].hash))
  BY <1>2 DEF b
<1>4. b # s
  <2>1. Prefix(table[s].hash, table[s].hash)
    BY RowLengths DEF Prefix, History
  <2> QED
    BY <1>3, <2>1
<1>5. PICK a \in Nat : a = b + 1
  BY <1>1, <1>3
<1>6. a - 1 = b /\ a > 1 /\ a \in DOMAIN table /\ Prefix(table[a].hash, table[s].hash)
  <2>1. a \in 1 .. s /\ a \notin Bad /\ a - 1 = b /\ a > 1
    BY <1>1, <1>2, <1>3, <1>4, <1>5 DEF b
  <2> QED
    BY <2>1
<1>7. b \in DOMAIN table
  BY <1>6, CleanRows DEF CleanIsContiguous
<1>8. table[a].prev = table[b].hash
  <2>1. ExpectedPrev(a) = table[a - 1].hash
    BY <1>6, <1>7, RowBelow
  <2> QED
    BY <1>6, <2>1, CleanMeans DEF BrokenRows
<1>9. Prefix(table[b].hash, table[s].hash)
  <2>1. /\ Len(table[b].hash) = b
        /\ Len(table[a].hash) = a
        /\ \A n \in 1 .. (a - 1) : table[a].hash[n] = table[b].hash[n]
    BY <1>6, <1>7, <1>8, RowLengths
  <2>2. a <= Len(table[s].hash) /\ \A n \in 1 .. a : table[a].hash[n] = table[s].hash[n]
    BY <1>6, <2>1 DEF Prefix
  <2>3. Len(table[s].hash) = s
    BY RowLengths
  <2> QED
    BY <1>1, <1>3, <1>5, <1>6, <2>1, <2>2, <2>3 DEF Prefix
<1> QED
  BY <1>3, <1>7, <1>9

-----------------------------------------------------------------------------
(* The properties *)

\* A table without loss or retention is broken exactly at the rows that no
\* longer say what was recorded.
LEMMA BrokenAreChanged ==
    ASSUME TypeOK, RowShape, Chained, EveryCallRecorded, ~expired
    PROVE  /\ DOMAIN table = 1 .. Len(log)
           /\ BrokenRows = Changed
<1>1. /\ DOMAIN table = 1 .. Len(log)
      /\ \A s \in DOMAIN table : table[s].hash = log[s].hash
      /\ \A s \in DOMAIN table : s > 1 => table[s].prev = table[s - 1].hash
  BY DEF Chained
<1>2. ASSUME NEW s \in DOMAIN table
      PROVE  table[s].prev = ExpectedPrev(s)
  <2>1. CASE s = 1
    <3>1. Before(s) = {}
      BY <1>1, <2>1 DEF Before
    <3>2. Len(table[s].prev) = 0 /\ table[s].prev \in Seq(Nat \X Text)
      BY <2>1, RowLengths DEF History
    <3> QED
      BY <3>1, <3>2, EmptySeq DEF ExpectedPrev, Zero
  <2>2. CASE s > 1
    <3>1. s - 1 \in DOMAIN table
      BY <1>1, <2>2 DEF TypeOK
    <3> QED
      BY <1>1, <2>2, <3>1, RowBelow
  <2> QED
    BY <1>1, <2>1, <2>2
<1>3. ASSUME NEW s \in DOMAIN table
      PROVE  Recomputes(s) <=> Joined[table[s].content] = Said(s)
  <2>1. Len(log[s].hash) = s
    BY <1>1, RowLengths
  <2> QED
    BY <1>1, <2>1, RowRecomputes DEF Said
<1> QED
  BY <1>1, <1>2, <1>3 DEF BrokenRows, Changed

\* Where nothing was lost or expired, the verification stops at the first row
\* that was changed, and counts the rows before it.
THEOREM EditsAlwaysLocated == Spec => []EditsLocated
<1>1. IInv => EditsLocated
  <2> SUFFICES ASSUME TypeOK, RowShape, Chained, EveryCallRecorded, ~expired
               PROVE  VerifyChain = IF Changed = {} THEN [valid |-> Len(log), broken |-> 0]
                                    ELSE [valid |-> Min(Changed) - 1, broken |-> Min(Changed)]
    BY DEF IInv, EditsLocated
  <2> DEFINE Good == {s \in DOMAIN table : \A b \in BrokenRows : s < b}
  <2>1. DOMAIN table = 1 .. Len(log) /\ BrokenRows = Changed /\ Len(log) \in Nat
    BY BrokenAreChanged DEF TypeOK
  <2>2. CASE Changed = {}
    <3>1. Good = 1 .. Len(log)
      BY <2>1, <2>2
    <3>2. Cardinality(Good) = Len(log)
      BY <2>1, <3>1, CountUpTo
    <3> QED
      BY <2>1, <2>2, <3>2 DEF VerifyChain
  <2>3. CASE Changed # {}
    <3>1. Changed \in SUBSET (1 .. Len(log))
      BY <2>1 DEF Changed
    <3>2. Min(Changed) \in Changed /\ \A b \in Changed : Min(Changed) <= b
      BY <2>1, <2>3, <3>1, MinOf
    <3> DEFINE m == Min(Changed)
    <3> HIDE DEF m
    <3>3. m \in 1 .. Len(log) /\ m \in Changed /\ \A b \in Changed : m <= b
      BY <3>1, <3>2 DEF m
    <3>4. Good = 1 .. (m - 1)
      BY <2>1, <3>1, <3>3
    <3>5. Cardinality(Good) = m - 1
      <4>1. m - 1 \in Nat
        BY <2>1, <3>3
      <4>2. Cardinality(1 .. (m - 1)) = m - 1
        BY <4>1, CountUpTo
      <4> QED
        BY <3>4, <4>2
    <3> QED
      BY <2>1, <2>3, <3>5 DEF VerifyChain, m
  <2> QED
    BY <2>2, <2>3
<1> QED
  BY <1>1, Invariance, PTL

\* The rows of a table that verifies are numbered from 1 without a gap.
THEOREM CleanNumbers == Spec => []CleanIsContiguous
<1>1. IInv => CleanIsContiguous
  BY CleanRows DEF IInv
<1> QED
  BY <1>1, Invariance, PTL

\* A record that is not in the table is missed by the verification as soon as
\* its writer has a later row in it.
THEOREM LossAlwaysShows == Spec => []LossShows
<1>1. IInv => LossShows
  <2> SUFFICES ASSUME TypeOK, RowShape, OwnPast, Clean,
                      NEW i \in DOMAIN log, NEW j \in DOMAIN log,
                      i < j, log[i].by = log[j].by,
                      NEW s \in DOMAIN table, log[j].hash = table[s].hash
               PROVE  log[i].hash \in StoredHashes
    BY DEF IInv, LossShows, StoredHashes
  <2> DEFINE p == log[i].hash
             k == Len(p)
  <2>1. p \in Seq(Nat \X Text) /\ k \in Nat
    <3>1. i \in 1 .. Len(log)
      BY DEF TypeOK
    <3>2. log[i] \in [by : Handle, hash : Seq(Nat \X Text), kept : BOOLEAN, io : BOOLEAN]
      BY <3>1, ElementOfSeq, Zenon DEF TypeOK
    <3> QED
      BY <3>2
  <2>2. k >= 1 /\ Prefix(p, table[s].hash)
    BY DEF OwnPast
  <2>3. k \in 1 .. s
    BY <2>1, <2>2, RowLengths DEF Prefix
  <2>4. k \in DOMAIN table /\ Prefix(table[k].hash, table[s].hash)
    BY <2>3, CleanHoldsPast
  <2>5. table[k].hash \in Seq(Nat \X Text) /\ Len(table[k].hash) = k
    BY <2>4, RowLengths DEF History
  <2> HIDE DEF k, p
  <2>6. \A n \in 1 .. k : p[n] = table[k].hash[n]
    BY <2>2, <2>4, <2>5 DEF Prefix, k
  <2>7. p = table[k].hash
    BY <2>1, <2>5, <2>6, SeqEqual DEF k
  <2> QED
    BY <2>4, <2>7 DEF StoredHashes, p
<1> QED
  BY <1>1, Invariance, PTL

\* A verification never fails without a lost, an expired or a changed row.
THEOREM BreaksAlwaysHaveCause == Spec => []BreaksHaveCause
<1>1. IInv => BreaksHaveCause
  <2> SUFFICES ASSUME TypeOK, RowShape, Chained, EveryCallRecorded, ~expired, edited = {},
                      NEW s \in DOMAIN table
               PROVE  s \notin Changed
    BY CleanMeans, BrokenAreChanged DEF IInv, BreaksHaveCause, Changed
  <2>1. Recomputes(s) /\ table[s].hash = log[s].hash
    BY RowRecomputes DEF Chained
  <2>2. Len(log[s].hash) = s
    BY <2>1, RowLengths
  <2> QED
    BY <2>1, <2>2, RowRecomputes DEF Changed, Said
<1> QED
  BY <1>1, Invariance, PTL

\* Retention by lone writers leaves one linked run of rows.
THEOREM RemainderAlwaysLinks == Spec => []RemainderLinks
<1>1. IInv => RemainderLinks
  <2> SUFFICES ASSUME TypeOK, RowShape, OneRun, ~Overlapped, EveryCallRecorded, edited = {},
                      NEW s \in DOMAIN table, Before(s) # {}
               PROVE  s \notin BrokenRows
    BY DEF IInv, RemainderLinks, BrokenRows
  <2>1. PICK r \in DOMAIN table : r < s
    BY DEF Before
  <2>2. s - 1 \in DOMAIN table /\ table[s].prev = table[s - 1].hash
    BY <2>1 DEF OneRun
  <2> QED
    BY <2>2, RowBelow, RowRecomputes DEF BrokenRows
<1> QED
  BY <1>1, Invariance, PTL

\* A writer that has been alone stores every record the disk accepts.
THEOREM AloneAlwaysRecords == Spec => RecordsWhenAlone
<1>1. ASSUME IInv, NEW h \in alone, NEW c \in Content, Record(h, c, FALSE)
      PROVE  log'[Len(log')].kept
  <2>1. h \in Handle /\ h \in Opened /\ \A s \in DOMAIN table : s \in Nat /\ s <= head[h].seq
    BY <1>1 DEF IInv, AloneAhead, TypeOK, Record
  <2>2. head[h].seq \in Nat
    BY <1>1, <2>1 DEF IInv, TypeOK
  <2>3. NextSeq(h) \notin DOMAIN table
    BY <2>1, <2>2 DEF NextSeq
  <2> DEFINE entry == [by |-> h, hash |-> Hash(NextSeq(h), head[h].prev, c),
                       kept |-> ~FALSE /\ NextSeq(h) \notin DOMAIN table, io |-> FALSE]
  <2>4. log' = Append(log, entry)
    BY <1>1 DEF Record
  <2>5. entry.kept
    BY <2>3
  <2> HIDE DEF entry
  <2>6. log'[Len(log')] = entry
    BY <1>1, <2>4 DEF IInv, TypeOK
  <2> QED
    BY <2>5, <2>6
<1>2. IInv => \A h \in alone, c \in Content : Record(h, c, FALSE) => log'[Len(log')].kept
  BY <1>1
<1> QED
  BY <1>2, Invariance, PTL DEF RecordsWhenAlone
=============================================================================
